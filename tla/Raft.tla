-------------------------------- MODULE Raft --------------------------------
(***************************************************************************)
(* The Raft node of internal/raft/raft.go and the goroutines it runs, one  *)
(* node per member of Node, talking through an asynchronous transport.     *)
(*                                                                         *)
(* A step of the model is a critical section of r.mu, or a maximal piece   *)
(* of code that runs without the lock.  Time is asynchronous: a timer or a *)
(* context may expire at any moment, a message may stay in flight for ever *)
(* (it is then lost), and messages overtake each other.                    *)
(*                                                                         *)
(* Log positions are those of the Go code: the entry with index i (from 0) *)
(* is log[n][i + 1], and log.NextIndex() is Len(log[n]).                   *)
(***************************************************************************)
EXTENDS Integers, Sequences, FiniteSets

CONSTANTS
  Node,          \* the ids of the cluster
  Command,       \* what clients submit; each command is submitted once
  NoVote,        \* the empty string of votedFor
  ReadyCap,      \* capacity of newCommitReadyChan (16 in the code)
  MaxUint64,     \* 2^64 - 1, the value of 0 - 1
  MaxTimeouts,   \* bound: how many election timeouts happen
  MaxLog,        \* bound: how long a log grows
  MaxCalls,      \* bound: how many AppendEntries calls are under way
  MaxLate,       \* bound: how many abandoned requests are still in flight
  MaxStops,      \* bound: how many times Stop is called
  MaxFaults      \* bound: how many broadcasts and log.Append calls fail

ASSUME NodeAssumption == IsFiniteSet(Node) /\ Node # {} /\ NoVote \notin Node
ASSUME BoundAssumption ==
  /\ ReadyCap \in Nat /\ MaxUint64 \in Nat /\ MaxTimeouts \in Nat
  /\ MaxLog \in Nat /\ MaxCalls \in Nat /\ MaxLate \in Nat
  /\ MaxStops \in Nat /\ MaxFaults \in Nat

VARIABLES
  state, currentTerm, votedFor,         \* who the node is, in which term
  log,                                  \* its entries
  hasCommited, commitIndex, lastApplied,
  nextIndex,                            \* nextIndex[n][p], kept by a leader
  mu,        \* r.mu: "free", or why no one can take it any more
  ready,     \* signals queued in the newCommitReadyChan of the node
  closed,    \* that channel has been closed
  sender,    \* the commitChanSender goroutine
  delivered, \* what it has sent on commitChan
  spawned,   \* election timers that have not read termStarted yet
  ticking,   \* ticking[n][t]: timers that run with termStarted = t
  fired,     \* timers that expired and are about to call startElection
  armed,     \* startElection calls past their Dead check
  elections, \* one record for each call of startElection, in order
  rvReq, rvRep,   \* RequestVote messages in flight
  epoch,     \* how often the node became leader
  loops,     \* its heartbeat goroutines, numbered by epoch
  building, waiting, stalled, answered,  \* AppendEntries calls by phase
  submitted, timeouts, stops, faults,    \* what the environment did so far
  votes, leaders, misplaced              \* history, read by properties only

nodeVars   == <<state, currentTerm, votedFor>>
commitVars == <<hasCommited, commitIndex, lastApplied>>
chanVars   == <<mu, ready, closed>>
timerVars  == <<spawned, ticking, fired, armed>>
voteVars   == <<elections, rvReq, rvRep>>
callVars   == <<building, waiting, stalled, answered>>
loopVars   == <<epoch, loops>>
envVars    == <<submitted, timeouts, stops, faults>>
netVars    == <<callVars, loopVars>>
storeVars  == <<log, commitVars, nextIndex>>
applyVars  == <<chanVars, sender, delivered>>
histVars   == <<votes, leaders, misplaced>>
vars == <<nodeVars, storeVars, applyVars, timerVars, voteVars, netVars,
          envVars, histVars>>

-----------------------------------------------------------------------------
(* The data of the node and of its messages.                               *)

State == {"Leader", "Candidate", "Follower", "Dead"}

Entry == [command : Command, term : Nat]

CommitEntry == [command : Command, index : Nat, term : Nat]

Peers(n) == Node \ {n}

\* voteCount*2 > len(r.peers)+1
Majority(count) == count * 2 > Cardinality(Node)

\* Mutant of LastLogIndex: NextIndex() - 1 of an empty log.
LastLogIndexUnchecked(n) == Len(log[n]) - 1

\* lastLogIndexAndTerm: (0, 0) when nothing is stored.
LastLogIndex(n) == IF log[n] = <<>> THEN 0 ELSE Len(log[n]) - 1
LastLogTerm(n)  == IF log[n] = <<>> THEN 0 ELSE log[n][Len(log[n])].term

RequestVoteRequest ==
  [id : Nat, src : Node, dst : Node, term : Nat,
   lastLogIndex : Nat, lastLogTerm : Nat]

RequestVoteReply == [id : Nat, src : Node, term : Nat, granted : BOOLEAN]

AppendEntriesRequest ==
  [term : Nat, prevLogIndex : Nat, prevLogTerm : Nat, entries : Seq(Entry),
   leaderCommit : Nat, followerHasEntries : BOOLEAN,
   leaderHasComitted : BOOLEAN]

\* An AppendEntries call of heartbeat loop ep of src.  A call nobody waits for
\* any more is kept as the request in flight, with ep = 0.
Call == [src : Node, dst : Node, ep : Nat, saved : Nat,
         req : AppendEntriesRequest]

Answer == [call : Call, term : Nat, success : BOOLEAN]

\* voteCount is the local of startElection; repTerm and repGranted are the
\* reply it is looking at; voters records whose grants it has counted.
Election ==
  [node : Node, term : Nat,
   phase : {"run", "eval", "demote", "demoted", "crown", "crowned",
            "done", "failed"},
   voteCount : Nat, repTerm : Nat, repGranted : BOOLEAN, voters : SUBSET Node]

\* The commitChanSender goroutine ranges over the channel of NewRaft; after
\* Resume made a new channel it only has the backlog of the old one.
Sender == [phase : {"recv", "lock", "send", "done"}, detached : BOOLEAN,
           backlog : Nat, batch : Seq(CommitEntry)]

Alive(n) == mu[n] # "panicked"
Locked(n) == mu[n] # "free"

-----------------------------------------------------------------------------
Init ==
  /\ state = [n \in Node |-> "Follower"]
  /\ currentTerm = [n \in Node |-> 0]
  /\ votedFor = [n \in Node |-> NoVote]
  /\ log = [n \in Node |-> <<>>]
  /\ hasCommited = [n \in Node |-> FALSE]
  /\ commitIndex = [n \in Node |-> 0]
  /\ lastApplied = [n \in Node |-> 0]
  /\ nextIndex = [n \in Node |-> [p \in Node |-> 0]]
  /\ mu = [n \in Node |-> "free"]
  /\ ready = [n \in Node |-> 0]
  /\ closed = [n \in Node |-> FALSE]
  /\ sender = [n \in Node |-> [phase |-> "recv", detached |-> FALSE,
                               backlog |-> 0, batch |-> <<>>]]
  /\ delivered = [n \in Node |-> <<>>]
  /\ spawned = [n \in Node |-> 1]
  /\ ticking = [n \in Node |-> [t \in 0..MaxTimeouts |-> 0]]
  /\ fired = [n \in Node |-> 0]
  /\ armed = [n \in Node |-> 0]
  /\ elections = <<>> /\ rvReq = {} /\ rvRep = {}
  /\ epoch = [n \in Node |-> 0]
  /\ loops = [n \in Node |-> {}]
  /\ building = {} /\ waiting = {} /\ stalled = {} /\ answered = {}
  /\ submitted = {} /\ timeouts = 0 /\ stops = 0 /\ faults = 0
  /\ votes = {} /\ leaders = {} /\ misplaced = {}

-----------------------------------------------------------------------------
(* Becoming a follower, stopping and resuming.                             *)

\* Mutant of BecomeFollower: the timer is not started again.
BecomeFollowerUntimed(n, term) ==
  /\ state' = [state EXCEPT ![n] = "Follower"]
  /\ currentTerm' = [currentTerm EXCEPT ![n] = term]
  /\ votedFor' = [votedFor EXCEPT ![n] = NoVote]
  /\ UNCHANGED spawned

\* becomeFollower, called with r.mu held on a node that is not Dead.
BecomeFollower(n, term) ==
  /\ state' = [state EXCEPT ![n] = "Follower"]
  /\ currentTerm' = [currentTerm EXCEPT ![n] = term]
  /\ votedFor' = [votedFor EXCEPT ![n] = NoVote]
  /\ spawned' = [spawned EXCEPT ![n] = @ + 1]

\* Closing the channel a second time panics.
Stop(n) ==
  /\ ~Locked(n) /\ state[n] # "Dead" /\ stops < MaxStops
  /\ stops' = stops + 1
  /\ state' = [state EXCEPT ![n] = "Dead"]
  /\ closed' = [closed EXCEPT ![n] = TRUE]
  /\ mu' = IF closed[n] THEN [mu EXCEPT ![n] = "panicked"] ELSE mu
  /\ UNCHANGED <<currentTerm, votedFor, storeVars, ready, sender, delivered,
                 timerVars, voteVars, netVars, submitted, timeouts, faults,
                 histVars>>

\* The channel is replaced; commitChanSender keeps the closed one.
Resume(n) ==
  /\ ~Locked(n) /\ state[n] = "Dead"
  /\ BecomeFollower(n, currentTerm[n])
  /\ ready' = [ready EXCEPT ![n] = 0]
  /\ closed' = [closed EXCEPT ![n] = FALSE]
  /\ sender' = [sender EXCEPT ![n].detached = TRUE,
                  ![n].backlog = IF sender[n].detached THEN @ ELSE ready[n]]
  /\ UNCHANGED <<storeVars, mu, delivered, ticking, fired, armed, voteVars,
                 netVars, envVars, histVars>>

-----------------------------------------------------------------------------
(* Election timers: runElectionTimer.  Once MaxTimeouts of them expired the *)
(* others are left alone: they could only end.                             *)

\* The goroutine starts and reads termStarted, without the lock.
StartTimer(n) ==
  /\ Alive(n) /\ spawned[n] > 0 /\ timeouts < MaxTimeouts
  /\ spawned' = [spawned EXCEPT ![n] = @ - 1]
  /\ ticking' = [ticking EXCEPT ![n][currentTerm[n]] = @ + 1]
  /\ UNCHANGED <<nodeVars, storeVars, applyVars, fired, armed, voteVars,
                 netVars, envVars, histVars>>

\* A tick that finds the timer obsolete.
ExitTimer(n, termStarted) ==
  /\ ~Locked(n) /\ ticking[n][termStarted] > 0 /\ timeouts < MaxTimeouts
  /\ termStarted = currentTerm[n] => state[n] \in {"Leader", "Dead"}
  /\ ticking' = [ticking EXCEPT ![n][termStarted] = @ - 1]
  /\ UNCHANGED <<nodeVars, storeVars, applyVars, spawned, fired, armed,
                 voteVars, netVars, envVars, histVars>>

\* A tick that finds the timeout elapsed: the lock is released before
\* startElection takes it again.
ExpireTimer(n, termStarted) ==
  /\ ~Locked(n) /\ ticking[n][termStarted] > 0
  /\ state[n] \notin {"Leader", "Dead"} /\ termStarted = currentTerm[n]
  /\ timeouts < MaxTimeouts
  /\ timeouts' = timeouts + 1
  /\ ticking' = [ticking EXCEPT ![n][termStarted] = @ - 1]
  /\ fired' = [fired EXCEPT ![n] = @ + 1]
  /\ UNCHANGED <<nodeVars, storeVars, applyVars, spawned, armed, voteVars,
                 netVars, submitted, stops, faults, histVars>>

-----------------------------------------------------------------------------
(* Elections: startElection, HandleRequestVoteRequest, becomeLeader.       *)

\* The first critical section of startElection.  On a Dead node it returns
\* with the lock held.
CheckDead(n) ==
  /\ ~Locked(n) /\ fired[n] > 0
  /\ fired' = [fired EXCEPT ![n] = @ - 1]
  /\ IF state[n] = "Dead"
     THEN mu' = [mu EXCEPT ![n] = "leaked"] /\ UNCHANGED armed
     ELSE armed' = [armed EXCEPT ![n] = @ + 1] /\ UNCHANGED mu
  /\ UNCHANGED <<nodeVars, storeVars, ready, closed, sender, delivered,
                 spawned, ticking, voteVars, netVars, envVars, histVars>>

Ballot(n, id, p, term) ==
  [id |-> id, src |-> n, dst |-> p, term |-> term,
   lastLogIndex |-> LastLogIndex(n), lastLogTerm |-> LastLogTerm(n)]

NewElection(n, term, phase) ==
  [node |-> n, term |-> term, phase |-> phase, voteCount |-> 1,
   repTerm |-> 0, repGranted |-> FALSE, voters |-> {n}]

\* The second critical section, and the broadcast that follows it.  When the
\* broadcast fails startElection returns, and no timer is started.
StartElection(n) ==
  /\ ~Locked(n) /\ armed[n] > 0
  /\ armed' = [armed EXCEPT ![n] = @ - 1]
  /\ LET term == currentTerm[n] + 1
         id   == Len(elections) + 1
     IN  /\ state' = [state EXCEPT ![n] = "Candidate"]
         /\ currentTerm' = [currentTerm EXCEPT ![n] = term]
         /\ votedFor' = [votedFor EXCEPT ![n] = n]
         /\ votes' = votes \cup {[voter |-> n, term |-> term, candidate |-> n]}
         /\ \/ /\ elections' = Append(elections, NewElection(n, term, "run"))
               /\ rvReq' = rvReq \cup {Ballot(n, id, p, term) : p \in Peers(n)}
               /\ UNCHANGED faults
            \/ /\ faults < MaxFaults
               /\ faults' = faults + 1
               /\ elections' = Append(elections,
                                     NewElection(n, term, "failed"))
               /\ UNCHANGED rvReq
  /\ UNCHANGED <<storeVars, applyVars, spawned, ticking, fired, rvRep,
                 netVars, submitted, timeouts, stops, leaders, misplaced>>

\* The candidate's log is at least as up to date as the voter's.
UpToDate(n, m) ==
  \/ log[n] = <<>>
  \/ m.lastLogTerm > LastLogTerm(n)
  \/ m.lastLogTerm = LastLogTerm(n) /\ m.lastLogIndex >= LastLogIndex(n)

\* The vote is granted: the request is not of an older term, and either of a
\* newer one or the vote of this term was not given to another candidate.
Grants(n, m) ==
  /\ m.term >= currentTerm[n]
  /\ m.term > currentTerm[n] \/ votedFor[n] \in {NoVote, m.src}
  /\ UpToDate(n, m)

\* A Dead node answers nothing.  A reply to an election that has returned is
\* dropped by the transport.
HandleRequestVoteRequest(n) ==
  \E m \in rvReq :
    /\ m.dst = n /\ ~Locked(n)
    /\ rvReq' = rvReq \ {m}
    /\ \/ /\ state[n] = "Dead"
          /\ UNCHANGED <<nodeVars, spawned, rvRep, votes>>
       \/ /\ state[n] # "Dead"
          /\ IF m.term > currentTerm[n]
             THEN /\ state' = [state EXCEPT ![n] = "Follower"]
                  /\ currentTerm' = [currentTerm EXCEPT ![n] = m.term]
                  /\ spawned' = [spawned EXCEPT ![n] = @ + 1]
             ELSE UNCHANGED <<state, currentTerm, spawned>>
          /\ IF Grants(n, m)
             THEN /\ votedFor' = [votedFor EXCEPT ![n] = m.src]
                  /\ votes' = votes \cup {[voter |-> n, term |-> m.term,
                                           candidate |-> m.src]}
             ELSE /\ votedFor' = [votedFor EXCEPT
                       ![n] = IF m.term > currentTerm[n] THEN NoVote ELSE @]
                  /\ UNCHANGED votes
          /\ rvRep' = IF elections[m.id].phase \in {"run", "eval"}
                      THEN rvRep \cup {[id |-> m.id, src |-> n,
                                        term |-> currentTerm'[n],
                                        granted |-> Grants(n, m)]}
                      ELSE rvRep
    /\ UNCHANGED <<storeVars, applyVars, ticking, fired, armed, elections,
                   netVars, envVars, leaders, misplaced>>

\* startElection returns: its locals are gone and its replies are dropped.
Return(id) ==
  /\ elections' = [elections EXCEPT
       ![id] = [@ EXCEPT !.phase = "done", !.voteCount = 0, !.repTerm = 0,
                         !.repGranted = FALSE, !.voters = {}]]
  /\ rvRep' = {r \in rvRep : r.id # id}

\* The context expires or the reply channel is closed.
ElectionTimeout(id) ==
  LET n == elections[id].node
  IN  /\ Alive(n) /\ elections[id].phase = "run"
      /\ spawned' = [spawned EXCEPT ![n] = @ + 1]
      /\ Return(id)
      /\ UNCHANGED <<nodeVars, storeVars, applyVars, ticking, fired, armed,
                     rvReq, netVars, envVars, histVars>>

\* The election looks at reply r.
Looking(e, r) ==
  [e EXCEPT !.phase = "eval", !.repTerm = r.term, !.repGranted = r.granted,
            !.voters = IF r.granted THEN @ \cup {r.src} ELSE @]

\* A reply is received, and under the lock the node is still a candidate.
ReceiveVote(id) ==
  LET n == elections[id].node
  IN  /\ ~Locked(n) /\ elections[id].phase = "run"
      /\ \E r \in rvRep :
           /\ r.id = id
           /\ \/ state[n] # "Candidate" /\ Return(id)
              \/ /\ state[n] = "Candidate"
                 /\ elections' = [elections EXCEPT
                                    ![id] = Looking(elections[id], r)]
                 /\ rvRep' = rvRep \ {r}
      /\ UNCHANGED <<nodeVars, storeVars, applyVars, timerVars, rvReq,
                     netVars, envVars, histVars>>

\* Mutant of Wins: a refusal is counted like a vote.
WinsWithAnyReply(e) == Majority(e.voteCount + 1)

\* The reply under evaluation is the vote that makes the majority.
Wins(e) == e.repGranted /\ Majority(e.voteCount + 1)

\* What the reply under evaluation leads to: a higher term was seen, or the
\* majority is reached, or neither.
Verdict(e) ==
  IF e.repTerm > currentTerm[e.node] THEN "demote"
  ELSE IF Wins(e) THEN "crown" ELSE "run"

\* The reply is counted and the next one awaited.
Tallied(e) ==
  [e EXCEPT !.phase = "run", !.repTerm = 0, !.repGranted = FALSE,
            !.voteCount = IF e.repGranted THEN @ + 1 ELSE @]

\* The reply is evaluated without the lock, against what the node is by now.
EvaluateVote(id) ==
  LET e == elections[id]
      n == e.node
  IN  /\ Alive(n) /\ e.phase = "eval"
      /\ \/ /\ Verdict(e) # "run" /\ state[n] = "Dead"
            /\ Return(id)
         \/ /\ Verdict(e) # "run" /\ state[n] # "Dead"
            /\ elections' = [elections EXCEPT ![id].phase = Verdict(e)]
            /\ UNCHANGED rvRep
         \/ /\ Verdict(e) = "run"
            /\ elections' = [elections EXCEPT ![id] = Tallied(e)]
            /\ UNCHANGED rvRep
      /\ UNCHANGED <<nodeVars, storeVars, applyVars, timerVars, rvReq,
                     netVars, envVars, histVars>>

\* becomeFollower called from startElection, still without the lock: its first
\* writes, then the others and the new timer.
Demote(id) ==
  LET n == elections[id].node
  IN  /\ Alive(n) /\ elections[id].phase = "demote"
      /\ state' = [state EXCEPT ![n] = "Follower"]
      /\ currentTerm' = [currentTerm EXCEPT ![n] = elections[id].repTerm]
      /\ elections' = [elections EXCEPT ![id].phase = "demoted"]
      /\ UNCHANGED <<votedFor, storeVars, applyVars, timerVars, rvReq, rvRep,
                     netVars, envVars, histVars>>

FinishDemotion(id) ==
  LET n == elections[id].node
  IN  /\ Alive(n) /\ elections[id].phase = "demoted"
      /\ votedFor' = [votedFor EXCEPT ![n] = NoVote]
      /\ spawned' = [spawned EXCEPT ![n] = @ + 1]
      /\ Return(id)
      /\ UNCHANGED <<state, currentTerm, storeVars, applyVars, ticking, fired,
                     armed, rvReq, netVars, envVars, histVars>>

\* becomeLeader, without the lock: the new state, then nextIndex and the
\* heartbeat goroutine.
Crown(id) ==
  LET n == elections[id].node
  IN  /\ Alive(n) /\ elections[id].phase = "crown"
      /\ state' = [state EXCEPT ![n] = "Leader"]
      /\ elections' = [elections EXCEPT ![id].phase = "crowned"]
      /\ leaders' = leaders \cup {[node |-> n, term |-> currentTerm[n],
                                   elected |-> elections[id].term]}
      /\ UNCHANGED <<currentTerm, votedFor, storeVars, applyVars, timerVars,
                     rvReq, rvRep, netVars, envVars, votes, misplaced>>

FinishCoronation(id) ==
  LET n == elections[id].node
  IN  /\ Alive(n) /\ elections[id].phase = "crowned"
      /\ nextIndex' = [nextIndex EXCEPT ![n] = [p \in Node |-> Len(log[n])]]
      /\ epoch' = [epoch EXCEPT ![n] = @ + 1]
      /\ loops' = [loops EXCEPT ![n] = @ \cup {epoch[n] + 1}]
      /\ Return(id)
      /\ UNCHANGED <<nodeVars, log, commitVars, applyVars, timerVars, rvReq,
                     callVars, envVars, histVars>>

-----------------------------------------------------------------------------
(* Client commands and the commit signal.                                  *)

\* Submit on a leader; on any other node it only returns an error.
Submit(n, c) ==
  /\ ~Locked(n) /\ state[n] = "Leader"
  /\ c \notin submitted /\ Len(log[n]) < MaxLog
  /\ submitted' = submitted \cup {c}
  /\ log' = [log EXCEPT
               ![n] = Append(@, [command |-> c, term |-> currentTerm[n]])]
  /\ UNCHANGED <<nodeVars, commitVars, nextIndex, applyVars, timerVars,
                 voteVars, netVars, timeouts, stops, faults, histVars>>

\* newCommitReadyChan <- struct{}{} with r.mu held: it blocks on a full
\* channel, keeping the lock, and panics on a closed one.
Signal(n) ==
  LET fate == IF closed[n] THEN "panicked"
              ELSE IF ready[n] >= ReadyCap THEN "sending" ELSE "free"
  IN  /\ mu' = [mu EXCEPT ![n] = fate]
      /\ ready' = IF fate = "free" THEN [ready EXCEPT ![n] = @ + 1] ELSE ready
      /\ UNCHANGED closed

\* The blocked send goes through: the handler returns its reply, if it had one.
FinishSignal(n) ==
  /\ mu[n] = "sending" /\ ready[n] < ReadyCap
  /\ mu' = [mu EXCEPT ![n] = "free"]
  /\ ready' = [ready EXCEPT ![n] = @ + 1]
  /\ stalled' = {a \in stalled : a.call.dst # n}
  /\ answered' = answered \cup {a \in stalled : a.call.dst = n}
  /\ UNCHANGED <<nodeVars, storeVars, closed, sender, delivered, timerVars,
                 voteVars, building, waiting, loopVars, envVars, histVars>>

-----------------------------------------------------------------------------
(* Replication, the leader's side: becomeLeader's goroutine and            *)
(* sendLeaderHeartbeats.                                                   *)

Busy(n, ep) ==
  \/ \E c \in building \cup waiting : c.src = n /\ c.ep = ep
  \/ \E a \in stalled \cup answered : a.call.src = n /\ a.call.ep = ep

CallsUnderWay ==
  Cardinality(building \cup waiting) + Cardinality(stalled \cup answered)

\* Mutant of HeartbeatLoop: the state is not looked at before a round.
HeartbeatLoopOnceMore(n, ep) ==
  /\ ~Locked(n) /\ ep \in loops[n] /\ ~Busy(n, ep)
  /\ CallsUnderWay + Cardinality(Peers(n)) <= MaxCalls
  /\ building' = building \cup
       {[src |-> n, dst |-> p, ep |-> ep, saved |-> currentTerm[n]] : p \in Peers(n)}
  /\ UNCHANGED <<nodeVars, storeVars, applyVars, timerVars, voteVars,
                 waiting, stalled, answered, loopVars, envVars, histVars>>

\* A round starts when the calls of the last one have returned (wg.Wait).  The
\* loop ends when it finds that the node is not the leader any more.
HeartbeatLoop(n, ep) ==
  /\ ~Locked(n) /\ ep \in loops[n] /\ ~Busy(n, ep)
  /\ \/ /\ state[n] = "Leader"
        /\ CallsUnderWay + Cardinality(Peers(n)) <= MaxCalls
        /\ building' = building \cup
             {[src |-> n, dst |-> p, ep |-> ep, saved |-> currentTerm[n]] :
                 p \in Peers(n)}
        /\ UNCHANGED loops
     \/ /\ state[n] # "Leader"
        /\ loops' = [loops EXCEPT ![n] = @ \ {ep}]
        /\ UNCHANGED building
  /\ UNCHANGED <<nodeVars, storeVars, applyVars, timerVars, voteVars,
                 waiting, stalled, answered, epoch, envVars, histVars>>

\* The request of one peer's goroutine, from what the node holds when that
\* goroutine gets the lock; prevLogTerm is 0 when the entry cannot be read.
HeartbeatRequest(n, p) ==
  LET ni   == nextIndex[n][p]
      prev == IF ni > 0 THEN ni - 1 ELSE 0
  IN  [term |-> currentTerm[n],
       prevLogIndex |-> prev,
       prevLogTerm |-> IF ni > 0 /\ prev < Len(log[n])
                       THEN log[n][prev + 1].term ELSE 0,
       entries |-> SubSeq(log[n], ni + 1, Len(log[n])),
       leaderCommit |-> commitIndex[n],
       followerHasEntries |-> ni > 0,
       leaderHasComitted |-> hasCommited[n]]

SendAppendEntries(n) ==
  \E b \in building :
    /\ b.src = n /\ ~Locked(n)
    /\ building' = building \ {b}
    /\ waiting' = waiting \cup
         {[src |-> n, dst |-> b.dst, ep |-> b.ep, saved |-> b.saved,
           req |-> HeartbeatRequest(n, b.dst)]}
    /\ UNCHANGED <<nodeVars, storeVars, applyVars, timerVars, voteVars,
                   stalled, answered, loopVars, envVars, histVars>>

\* CallRPC returns an error: its context expired, or the transport failed.
\* The request is lost, or may still arrive when nobody takes the answer.
AbandonCall(n) ==
  /\ Alive(n)
  /\ \/ \E c \in waiting :
          /\ c.src = n /\ c.ep # 0
          /\ \/ waiting' = waiting \ {c}
             \/ /\ Cardinality({d \in waiting : d.ep = 0}) < MaxLate
                /\ waiting' = (waiting \ {c}) \cup
                                {[c EXCEPT !.ep = 0, !.saved = 0]}
          /\ UNCHANGED <<stalled, answered>>
     \/ \E a \in stalled :
          /\ a.call.src = n
          /\ stalled' = stalled \ {a}
          /\ UNCHANGED <<waiting, answered>>
     \/ \E a \in answered :
          /\ a.call.src = n
          /\ answered' = answered \ {a}
          /\ UNCHANGED <<waiting, stalled>>
  /\ UNCHANGED <<nodeVars, storeVars, applyVars, timerVars, voteVars,
                 building, loopVars, envVars, histVars>>

\* nextIndex as the request was built from it.
SentFrom(req) == IF req.followerHasEntries THEN req.prevLogIndex + 1 ELSE 0

\* uint64 arithmetic: 0 - 1 wraps.
Decrement(i) == IF i = 0 THEN MaxUint64 ELSE i - 1

\* Mutant of Agreed: a peer that lacks only entry i is counted too.
AgreedEarly(n, next) ==
  LET first == IF hasCommited[n] THEN commitIndex[n] + 1 ELSE 0
  IN  {i \in first..(Len(log[n]) - 1) :
         /\ log[n][i + 1].term = currentTerm[n]
         /\ Majority(1 + Cardinality({p \in Peers(n) : next[p] >= i}))}

\* The indexes updateCommitIndex may commit, given the new nextIndex.
Agreed(n, next) ==
  LET first == IF hasCommited[n] THEN commitIndex[n] + 1 ELSE 0
  IN  {i \in first..(Len(log[n]) - 1) :
         /\ log[n][i + 1].term = currentTerm[n]
         /\ Majority(1 + Cardinality({p \in Peers(n) : next[p] > i}))}

UpdateCommitIndex(n, next) ==
  \/ Agreed(n, next) = {} /\ UNCHANGED <<commitIndex, chanVars>>
  \/ \E i \in Agreed(n, next) :
       /\ \A j \in Agreed(n, next) : j <= i
       /\ commitIndex' = [commitIndex EXCEPT ![n] = i]
       /\ Signal(n)

\* The reply is compared with savedCurrentTerm, not with currentTerm.
HandleAppendEntriesReply(n) ==
  \E a \in answered :
    LET p == a.call.dst
        ni == SentFrom(a.call.req)
    IN  /\ a.call.src = n /\ ~Locked(n)
        /\ answered' = answered \ {a}
        /\ \/ /\ a.term > a.call.saved /\ state[n] # "Dead"
              /\ BecomeFollower(n, a.term)
              /\ UNCHANGED <<nextIndex, commitIndex, chanVars>>
           \/ /\ a.term = a.call.saved /\ state[n] = "Leader" /\ a.success
              /\ nextIndex' = [nextIndex EXCEPT
                                 ![n][p] = ni + Len(a.call.req.entries)]
              /\ UpdateCommitIndex(n, nextIndex'[n])
              /\ UNCHANGED <<nodeVars, spawned>>
           \/ /\ a.term = a.call.saved /\ state[n] = "Leader" /\ ~a.success
              /\ nextIndex' = [nextIndex EXCEPT ![n][p] = Decrement(ni)]
              /\ UNCHANGED <<nodeVars, spawned, commitIndex, chanVars>>
           \/ /\ a.term > a.call.saved => state[n] = "Dead"
              /\ a.term = a.call.saved => state[n] # "Leader"
              /\ UNCHANGED <<nodeVars, spawned, nextIndex, commitIndex,
                             chanVars>>
        /\ UNCHANGED <<log, hasCommited, lastApplied, sender, delivered,
                       ticking, fired, armed, voteVars, building, waiting,
                       stalled, loopVars, envVars, histVars>>

-----------------------------------------------------------------------------
(* Replication, the follower's side: HandleAppendEntriesRequest.           *)

\* Mutant of FollowLeader: a request of an older term is followed as well.
FollowLeaderOfAnyTerm(n, req) ==
  IF req.term # currentTerm[n] \/ state[n] # "Follower"
  THEN BecomeFollower(n, req.term)
  ELSE UNCHANGED <<nodeVars, spawned>>

\* becomeFollower for a newer term, or when a leader of this term shows up.
FollowLeader(n, req) ==
  IF \/ req.term > currentTerm[n]
     \/ req.term = currentTerm[n] /\ state[n] # "Follower"
  THEN BecomeFollower(n, req.term)
  ELSE UNCHANGED <<nodeVars, spawned>>

\* Mutant of Acceptable: the term at prevLogIndex is not compared.
AcceptableByIndex(n, req) ==
  req.followerHasEntries => req.prevLogIndex < Len(log[n])

\* checkAppendEntiresRequestAcceptable
Acceptable(n, req) ==
  req.followerHasEntries =>
    /\ req.prevLogIndex < Len(log[n])
    /\ log[n][req.prevLogIndex + 1].term = req.prevLogTerm

Accepts(n, req) == req.term >= currentTerm[n] /\ Acceptable(n, req)

\* How many of the entries sent are skipped, because the log has an entry of
\* the same term at their index.
Matching(n, req) ==
  Cardinality({j \in 1..Len(req.entries) :
    \A i \in 1..j :
      /\ SentFrom(req) + i <= Len(log[n])
      /\ log[n][SentFrom(req) + i].term = req.entries[i].term})

Missing(n, req) ==
  SubSeq(req.entries, Matching(n, req) + 1, Len(req.entries))

\* log.Append puts the first k missing entries at the end of the log, wherever
\* the comparison stopped: nothing is overwritten.
StoreEntries(n, req, k) ==
  IF Accepts(n, req)
  THEN /\ log' = [log EXCEPT ![n] = @ \o SubSeq(Missing(n, req), 1, k)]
       /\ Len(log'[n]) <= MaxLog
       /\ misplaced' =
            IF k > 0 /\ SentFrom(req) + Matching(n, req) < Len(log[n])
            THEN misplaced \cup {n} ELSE misplaced
  ELSE UNCHANGED <<log, misplaced>>

\* Mutant of LearnedCommit: a length is taken for an index.
LearnedCommitLength(n, req) == Len(log[n] \o Missing(n, req))

\* min(req.LeaderCommit, r.log.NextIndex()-1), once the entries are stored
LearnedCommit(n, req) ==
  LET last == Decrement(Len(log[n] \o Missing(n, req)))
  IN  IF req.leaderCommit <= last THEN req.leaderCommit ELSE last

\* Mutant of Learns: an old LeaderCommit is learned too.
LearnsOld(n, req) == Accepts(n, req) /\ req.leaderHasComitted

\* Mutant of Learns: nothing is learned of index 0.
LearnsGreater(n, req) ==
  /\ Accepts(n, req) /\ req.leaderHasComitted
  /\ req.leaderCommit > commitIndex[n]

\* LeaderCommit = commitIndex = 0 is news as long as nothing was applied.
Learns(n, req) ==
  /\ Accepts(n, req) /\ req.leaderHasComitted
  /\ ~hasCommited[n] \/ req.leaderCommit > commitIndex[n]

LearnCommit(n, req) ==
  IF Learns(n, req)
  THEN /\ commitIndex' = [commitIndex EXCEPT ![n] = LearnedCommit(n, req)]
       /\ Signal(n)
  ELSE UNCHANGED <<commitIndex, chanVars>>

\* The reply goes out when the handler returns: not while it is blocked in
\* Signal, and not when nobody waits for it.
Reply(n, c) ==
  LET a == [call |-> c, term |-> currentTerm'[n],
            success |-> Accepts(n, c.req)]
  IN  /\ answered' = IF c.ep # 0 /\ mu'[n] = "free"
                     THEN answered \cup {a} ELSE answered
      /\ stalled' = IF c.ep # 0 /\ mu'[n] = "sending"
                    THEN stalled \cup {a} ELSE stalled

HandleAppendEntriesRequest(n) ==
  \E c \in waiting :
    /\ c.dst = n /\ ~Locked(n)
    /\ waiting' = waiting \ {c}
    /\ \/ /\ state[n] = "Dead"
          /\ UNCHANGED <<nodeVars, spawned, log, misplaced, commitIndex,
                         chanVars, answered, stalled>>
       \/ /\ state[n] # "Dead"
          /\ FollowLeader(n, c.req)
          /\ StoreEntries(n, c.req, Len(Missing(n, c.req)))
          /\ LearnCommit(n, c.req)
          /\ Reply(n, c)
    /\ UNCHANGED <<hasCommited, lastApplied, nextIndex, sender, delivered,
                   ticking, fired, armed, voteVars, building, loopVars,
                   envVars, votes, leaders>>

\* log.Append fails after k entries: the handler returns the error, which
\* sends no reply.
FailAppendEntriesRequest(n) ==
  \E c \in waiting :
    /\ c.dst = n /\ ~Locked(n) /\ state[n] # "Dead" /\ faults < MaxFaults
    /\ Accepts(n, c.req)
    /\ faults' = faults + 1
    /\ waiting' = waiting \ {c}
    /\ FollowLeader(n, c.req)
    /\ \E k \in 0..(Len(Missing(n, c.req)) - 1) : StoreEntries(n, c.req, k)
    /\ UNCHANGED <<commitVars, nextIndex, applyVars, ticking, fired, armed,
                   voteVars, building, stalled, answered, loopVars,
                   submitted, timeouts, stops, votes, leaders>>

-----------------------------------------------------------------------------
(* Applying committed entries: the commitChanSender goroutine.             *)

\* The next signal of the channel the goroutine ranges over; it returns when
\* that channel is closed and empty.
ReceiveSignal(n) ==
  LET detached == sender[n].detached
      queued == IF detached THEN sender[n].backlog ELSE ready[n]
  IN  /\ Alive(n) /\ sender[n].phase = "recv"
      /\ \/ /\ queued > 0
            /\ sender' = [sender EXCEPT ![n].phase = "lock",
                            ![n].backlog = IF detached THEN @ - 1 ELSE @]
            /\ ready' = IF detached THEN ready
                        ELSE [ready EXCEPT ![n] = @ - 1]
         \/ /\ queued = 0
            /\ detached \/ closed[n]
            /\ sender' = [sender EXCEPT ![n].phase = "done"]
            /\ UNCHANGED ready
      /\ UNCHANGED <<nodeVars, storeVars, mu, closed, delivered, timerVars,
                     voteVars, netVars, envVars, histVars>>

\* Mutant of Batch: the slice is taken from the start of the log.
BatchFromStart(n, first) ==
  [i \in 1..(commitIndex[n] + 1 - first) |->
     [command |-> log[n][i].command,
      index |-> lastApplied[n] + i,
      term |-> currentTerm[n]]]

\* Mutant of Batch: the entries are numbered from commitIndex.
BatchFromCommit(n, first) ==
  [i \in 1..(commitIndex[n] + 1 - first) |->
     [command |-> log[n][first + i].command,
      index |-> commitIndex[n] + i,
      term |-> currentTerm[n]]]

\* The batch read under the lock: the entries from first to commitIndex,
\* numbered from lastApplied + 1.
Batch(n, first) ==
  [i \in 1..(commitIndex[n] + 1 - first) |->
     [command |-> log[n][first + i].command,
      index |-> lastApplied[n] + i,
      term |-> currentTerm[n]]]

\* Mutant of FirstToApply: the last applied entry is applied again.
FirstToApplyAgain(n) == lastApplied[n]

FirstToApply(n) == IF hasCommited[n] THEN lastApplied[n] + 1 ELSE 0

\* Reading from past the end of the log ends the goroutine, and slicing past
\* what was read panics.
CollectBatch(n) ==
  LET first == FirstToApply(n)
      todo == ~hasCommited[n] \/ commitIndex[n] > lastApplied[n]
  IN  /\ ~Locked(n) /\ sender[n].phase = "lock"
      /\ \/ /\ todo
            /\ IF commitIndex[n] < Len(log[n])
               THEN /\ sender' = [sender EXCEPT ![n].phase = "send",
                                                ![n].batch = Batch(n, first)]
                    /\ lastApplied' = [lastApplied EXCEPT
                                         ![n] = commitIndex[n]]
                    /\ hasCommited' = [hasCommited EXCEPT ![n] = TRUE]
                    /\ UNCHANGED mu
               ELSE /\ sender' = [sender EXCEPT ![n].phase = "done"]
                    /\ mu' = IF first < Len(log[n])
                             THEN [mu EXCEPT ![n] = "panicked"] ELSE mu
                    /\ UNCHANGED <<lastApplied, hasCommited>>
         \/ /\ ~todo
            /\ sender' = [sender EXCEPT ![n].phase = "recv"]
            /\ UNCHANGED <<lastApplied, hasCommited, mu>>
      /\ UNCHANGED <<nodeVars, log, commitIndex, nextIndex, ready, closed,
                     delivered, timerVars, voteVars, netVars, envVars,
                     histVars>>

\* One entry is sent on commitChan, without the lock.
DeliverEntry(n) ==
  /\ Alive(n) /\ sender[n].phase = "send" /\ sender[n].batch # <<>>
  /\ delivered' = [delivered EXCEPT ![n] = Append(@, Head(sender[n].batch))]
  /\ sender' = [sender EXCEPT
       ![n].batch = Tail(@),
       ![n].phase = IF Len(sender[n].batch) = 1 THEN "recv" ELSE "send"]
  /\ UNCHANGED <<nodeVars, storeVars, chanVars, timerVars, voteVars, netVars,
                 envVars, histVars>>

-----------------------------------------------------------------------------
Next ==
  \/ \E n \in Node :
       \/ Stop(n) \/ Resume(n)
       \/ StartTimer(n)
       \/ \E t \in 0..MaxTimeouts : ExitTimer(n, t) \/ ExpireTimer(n, t)
       \/ CheckDead(n) \/ StartElection(n)
       \/ HandleRequestVoteRequest(n)
       \/ \E c \in Command : Submit(n, c)
       \/ FinishSignal(n)
       \/ \E ep \in loops[n] : HeartbeatLoop(n, ep)
       \/ SendAppendEntries(n) \/ AbandonCall(n)
       \/ HandleAppendEntriesReply(n)
       \/ HandleAppendEntriesRequest(n) \/ FailAppendEntriesRequest(n)
       \/ ReceiveSignal(n) \/ CollectBatch(n) \/ DeliverEntry(n)
  \/ \E id \in DOMAIN elections :
       \/ ElectionTimeout(id) \/ ReceiveVote(id) \/ EvaluateVote(id)
       \/ Demote(id) \/ FinishDemotion(id)
       \/ Crown(id) \/ FinishCoronation(id)

Spec == Init /\ [][Next]_vars
=============================================================================
