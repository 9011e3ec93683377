--------------------------- MODULE RaftProperties ---------------------------
(***************************************************************************)
(* What the Raft node of module Raft does right, and what is said of it    *)
(* but not so.                                                             *)
(***************************************************************************)
EXTENDS Raft

-----------------------------------------------------------------------------
(* Type invariant.                                                         *)

NodeType ==
  /\ state \in [Node -> State]
  /\ currentTerm \in [Node -> Nat]
  /\ votedFor \in [Node -> Node \cup {NoVote}]

StoreType ==
  /\ log \in [Node -> Seq(Entry)]
  /\ hasCommited \in [Node -> BOOLEAN]
  /\ commitIndex \in [Node -> Nat]
  /\ lastApplied \in [Node -> Nat]
  /\ nextIndex \in [Node -> [Node -> Nat]]

ApplyType ==
  /\ mu \in [Node -> {"free", "leaked", "sending", "panicked"}]
  /\ ready \in [Node -> Nat]
  /\ closed \in [Node -> BOOLEAN]
  /\ sender \in [Node -> Sender]
  /\ delivered \in [Node -> Seq(CommitEntry)]

TimerType ==
  /\ spawned \in [Node -> Nat]
  /\ ticking \in [Node -> [0..MaxTimeouts -> Nat]]
  /\ fired \in [Node -> Nat]
  /\ armed \in [Node -> Nat]

VoteType ==
  /\ elections \in Seq(Election)
  /\ rvReq \subseteq RequestVoteRequest
  /\ rvRep \subseteq RequestVoteReply

NetType ==
  /\ building \subseteq [src : Node, dst : Node, ep : Nat, saved : Nat]
  /\ waiting \subseteq Call
  /\ stalled \subseteq Answer
  /\ answered \subseteq Answer
  /\ epoch \in [Node -> Nat]
  /\ loops \in [Node -> SUBSET Nat]

EnvType ==
  /\ submitted \subseteq Command
  /\ timeouts \in Nat /\ stops \in Nat /\ faults \in Nat

HistType ==
  /\ votes \subseteq [voter : Node, term : Nat, candidate : Node]
  /\ leaders \subseteq [node : Node, term : Nat, elected : Nat]
  /\ misplaced \subseteq Node

\* Every variable has the shape its Go counterpart has; in particular no
\* unsigned index or counter of Raft is ever negative.
TypeOK ==
  /\ NodeType /\ StoreType /\ ApplyType /\ TimerType
  /\ VoteType /\ NetType /\ EnvType /\ HistType

-----------------------------------------------------------------------------
(* Elections.                                                              *)

\* The nodes that ever granted their vote to n in term t.
VotersOf(n, t) ==
  {v \in Node : [voter |-> v, term |-> t, candidate |-> n] \in votes}

\* startElection and HandleRequestVoteRequest: whoever became leader had been
\* granted the votes of a majority, all in the term of one of its elections,
\* whatever replies were late, lost or overtaken.
LeaderHasMajority ==
  \A l \in leaders :
    Cardinality(VotersOf(l.node, l.elected)) * 2 > Cardinality(Node)

\* Some node granted two candidates its vote of term t.
DoubleVote(t) ==
  \E v \in votes, w \in votes :
    /\ v.voter = w.voter /\ v.term = t /\ w.term = t
    /\ v.candidate # w.candidate

\* The node became leader in another term than the one it was elected for.
Usurper(l) == l.elected # l.term

\* startElection, becomeLeader: two nodes that lead the same term are always
\* the work of a double vote or of votes counted in a later term; no other
\* interleaving of elections makes two leaders.
TwoLeadersHaveACause ==
  \A l \in leaders, m \in leaders :
    l.term = m.term /\ l.node # m.node =>
      Usurper(l) \/ Usurper(m) \/ DoubleVote(l.term)

\* Some goroutine of n can still lead to its next election.
CanCampaign(n) ==
  \/ spawned[n] > 0 \/ ticking[n][currentTerm[n]] > 0
  \/ fired[n] > 0 \/ armed[n] > 0
  \/ \E id \in DOMAIN elections :
       /\ elections[id].node = n
       /\ elections[id].phase \in {"run", "eval", "demote", "demoted", "crown"}

\* runElectionTimer, becomeFollower, startElection: a node that neither leads
\* nor is Dead never loses its last election timer, except by an election
\* whose broadcast failed.
TimerIsNeverLost ==
  \A n \in Node :
    /\ state[n] \in {"Follower", "Candidate"}
    /\ \A id \in DOMAIN elections :
         elections[id].node = n => elections[id].phase # "failed"
    => CanCampaign(n)

-----------------------------------------------------------------------------
(* Replication.                                                            *)

\* Two logs that agree on the term at an index agree up to it.
LogMatching ==
  \A n \in Node, m \in Node :
    \A i \in 1..Len(log[n]) :
      i <= Len(log[m]) /\ log[n][i].term = log[m][i].term =>
        SubSeq(log[n], 1, i) = SubSeq(log[m], 1, i)

\* Some term had two leaders.
SplitTerm ==
  \E l \in leaders, m \in leaders : l.term = m.term /\ l.node # m.node

\* HandleAppendEntriesRequest: the logs of two nodes match unless the handler
\* appended entries behind one they conflict with, or a term had two leaders;
\* rejections, retries and a deposed leader alone never break them apart.
LogMatchingUnlessMisplaced == misplaced = {} /\ ~SplitTerm => LogMatching

\* sendLeaderHeartbeats: every call a node is making, and every answer it is
\* about to compare with the term saved for the call, belongs to a round that the
\* node started as a leader of that term, however often its term changed since.
\* (The request itself carries the term read again when it is built, which the
\* node need not have led.)
RequestNeedsLeader ==
  \A c \in building \cup waiting \cup {a.call : a \in stalled \cup answered} :
    c.ep # 0 => \E l \in leaders : l.node = c.src /\ l.term = c.saved

\* Step: n takes an answer to a call of an older term than its own.
TakesLateAnswer(n) ==
  \E a \in answered \ answered' : a.call.src = n /\ a.call.saved < currentTerm[n]

\* Step: an election of n that saw a higher term demotes n, without the lock.
Demotes(n) ==
  \E id \in DOMAIN elections :
    /\ elections[id].node = n
    /\ elections[id].phase = "demote" /\ elections'[id].phase = "demoted"

\* HandleRequestVoteRequest, HandleAppendEntriesRequest: the term of a node goes
\* back only where becomeFollower is given a term that was compared with an old
\* one: in sendLeaderHeartbeats, which compares with the term saved before the
\* call, and in startElection, which compares without the lock.
TermGoesBackOnlyByLateReply ==
  [][\A n \in Node :
       currentTerm'[n] < currentTerm[n] => TakesLateAnswer(n) \/ Demotes(n)]_vars

-----------------------------------------------------------------------------
(* Applying.                                                               *)

\* What commitChanSender has sent, and what it is about to send.
Out(n) == delivered[n] \o sender[n].batch

\* commitChanSender: what was sent on commitChan, with what the goroutine is
\* about to send, is the log up to lastApplied, each entry once and in order,
\* however signals, stale requests, Stop and Resume interleave.
DeliveredIsLogPrefix ==
  \A n \in Node :
    /\ Len(Out(n)) = IF hasCommited[n] THEN lastApplied[n] + 1 ELSE 0
    /\ Len(Out(n)) <= Len(log[n])
    /\ \A i \in 1..Len(Out(n)) : Out(n)[i].command = log[n][i].command

\* Index of CommitEntry: the entries of a node's first batch are numbered by their
\* position and all later ones by one less, so that one number is given twice,
\* and to an entry that depends on how the first batch was cut.
IndexesRepeatOnce ==
  \A n \in Node :
    Out(n) = <<>> \/ \E k \in DOMAIN Out(n) :
      \A i \in DOMAIN Out(n) : Out(n)[i].index = IF i <= k THEN i ELSE i - 1

\* updateCommitIndex, HandleAppendEntriesRequest: an entry a node applies is
\* stored at its index by a majority, so that no two nodes apply different ones
\* there, unless entries were misplaced or a term had two leaders.  With up to
\* three nodes: a leader counts itself and the peer that has just answered.
AppliedIsOnMajority ==
  misplaced = {} /\ ~SplitTerm =>
    \A n \in Node : \A i \in DOMAIN Out(n) :
      Majority(Cardinality({m \in Node : i <= Len(log[m]) /\ log[m][i] = log[n][i]}))

\* HandleAppendEntriesRequest, updateCommitIndex: once something was applied
\* a node's commitIndex never goes back.
CommitNeverRetreats ==
  [][\A n \in Node : hasCommited[n] => commitIndex'[n] >= commitIndex[n]]_vars

\* commitChanSender: when the goroutine takes a signal there is something to
\* read, so it neither panics nor ends because of commitIndex.
SignalIsReadable ==
  \A n \in Node :
    sender[n].phase = "lock" =>
      /\ commitIndex[n] < Len(log[n])
      /\ hasCommited[n] => lastApplied[n] <= commitIndex[n]

-----------------------------------------------------------------------------
(* What the tests, the comments and the messages of the code say of it, and *)
(* what the code does not always do: each of these has a counterexample.   *)

\* CheckSingleLeader of the test harness: at most one node leads a term.
\* startElection evaluates a vote after it released the lock, so a node may
\* become the leader of a term it was not elected for.
ElectionSafety ==
  \A n \in Node, m \in Node :
    /\ state[n] = "Leader" /\ state[m] = "Leader"
    /\ currentTerm[n] = currentTerm[m]
    => n = m

\* CheckCommitted of the test harness: all nodes apply the same commands in the
\* same order.  But HandleAppendEntriesRequest never removes an entry, and
\* RegisterProtoHandler decodes every request into one that is never reset.
AppliedCommandsAgree ==
  \A n \in Node, m \in Node :
    \A i \in 1..Len(delivered[n]) :
      i <= Len(delivered[m]) => delivered[n][i].command = delivered[m][i].command

=============================================================================
