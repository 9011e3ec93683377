--------------------------- MODULE RaftTypeProofs ---------------------------
(***************************************************************************)
(* Type correctness of the Raft node: Spec => []TypeOK.  TypeOK is one     *)
(* conjunct for each group of variables; a step keeps the groups it leaves *)
(* unchanged for trivial reasons, which the first lemmas state once.  The  *)
(* last section says how logs grow.                                        *)
(***************************************************************************)
EXTENDS RaftProperties, FiniteSetTheorems, SequenceTheorems, TLAPS

\* Zenon proves the steps without arithmetic; the others cite SMT.
USE Zenon

\* A group of variables that a step of Raft leaves unchanged keeps its type.
LEMMA NodeUnchanged == NodeType /\ UNCHANGED nodeVars => NodeType'
BY DEF NodeType, nodeVars

\* The same for the log and the commit state.
LEMMA StoreUnchanged == StoreType /\ UNCHANGED storeVars => StoreType'
BY DEF StoreType, storeVars, commitVars

\* The same for the lock, the signal channel and commitChanSender.
LEMMA ApplyUnchanged == ApplyType /\ UNCHANGED applyVars => ApplyType'
BY DEF ApplyType, applyVars, chanVars

\* The same for the election timers.
LEMMA TimerUnchanged == TimerType /\ UNCHANGED timerVars => TimerType'
BY DEF TimerType, timerVars

\* The same for the elections and their messages.
LEMMA VoteUnchanged == VoteType /\ UNCHANGED voteVars => VoteType'
BY DEF VoteType, voteVars

\* The same for the AppendEntries calls and the heartbeat goroutines.
LEMMA NetUnchanged == NetType /\ UNCHANGED netVars => NetType'
BY DEF NetType, netVars, callVars, loopVars

\* The same for the counters of the environment.
LEMMA EnvUnchanged == EnvType /\ UNCHANGED envVars => EnvType'
BY DEF EnvType, envVars

\* The same for the history variables.
LEMMA HistUnchanged == HistType /\ UNCHANGED histVars => HistType'
BY DEF HistType, histVars

-----------------------------------------------------------------------------
(* The operators of Raft return what their names say.                      *)

\* lastLogIndexAndTerm returns natural numbers, also of an empty log.
LEMMA LastLogType ==
  ASSUME StoreType, NEW n \in Node
  PROVE  LastLogIndex(n) \in Nat /\ LastLogTerm(n) \in Nat
<1>1. log[n] \in Seq(Entry) BY DEF StoreType
<1>2. CASE log[n] = <<>> BY <1>2 DEF LastLogIndex, LastLogTerm
<1>3. CASE log[n] # <<>>
  <2>1. Len(log[n]) \in Nat \ {0} BY <1>1, <1>3, EmptySeq
  <2>2. log[n][Len(log[n])] \in Entry BY <1>1, <2>1, ElementOfSeq, SMT
  <2>3. QED BY <1>3, <2>1, <2>2, SMT DEF LastLogIndex, LastLogTerm, Entry
<1>4. QED BY <1>2, <1>3

\* The request a heartbeat goroutine builds is well formed.
LEMMA HeartbeatRequestType ==
  ASSUME NodeType, StoreType, NEW n \in Node, NEW p \in Node
  PROVE  HeartbeatRequest(n, p) \in AppendEntriesRequest
<1> DEFINE ni == nextIndex[n][p]
           prev == IF ni > 0 THEN ni - 1 ELSE 0
           prevTerm == IF ni > 0 /\ prev < Len(log[n])
                       THEN log[n][prev + 1].term ELSE 0
           sent == SubSeq(log[n], ni + 1, Len(log[n]))
<1>1. /\ log[n] \in Seq(Entry) /\ Len(log[n]) \in Nat
      /\ ni \in Nat /\ prev \in Nat
  BY LenProperties, SMT DEF StoreType
<1>2. prevTerm \in Nat
  <2>1. CASE ni > 0 /\ prev < Len(log[n])
    <3>1. prev + 1 \in 1..Len(log[n]) BY <1>1, <2>1, SMT
    <3>2. log[n][prev + 1] \in Entry BY <1>1, <3>1, ElementOfSeq
    <3>3. QED BY <2>1, <3>2 DEF Entry
  <2>2. QED BY <2>1
<1>3. sent \in Seq(Entry)
  <2>1. \A i \in (ni + 1)..Len(log[n]) : log[n][i] \in Entry
    BY <1>1, ElementOfSeq, SMT
  <2>2. QED BY <1>1, <2>1, SubSeqProperties, SMT
<1>4. /\ currentTerm[n] \in Nat /\ commitIndex[n] \in Nat
      /\ hasCommited[n] \in BOOLEAN /\ (ni > 0) \in BOOLEAN
  BY <1>1, SMT DEF NodeType, StoreType
<1>5. HeartbeatRequest(n, p) =
        [term |-> currentTerm[n], prevLogIndex |-> prev,
         prevLogTerm |-> prevTerm, entries |-> sent,
         leaderCommit |-> commitIndex[n], followerHasEntries |-> ni > 0,
         leaderHasComitted |-> hasCommited[n]]
  BY DEF HeartbeatRequest
<1>6. QED
  <2> HIDE DEF ni, prev, prevTerm, sent
  <2> QED BY <1>1, <1>2, <1>3, <1>4, <1>5, SMT DEF AppendEntriesRequest

\* What is left to store of a request is a sequence of entries.
LEMMA MissingType ==
  ASSUME NEW n \in Node, NEW req \in AppendEntriesRequest
  PROVE  Matching(n, req) \in Nat /\ Missing(n, req) \in Seq(Entry)
<1> DEFINE J == {j \in 1..Len(req.entries) :
                   \A i \in 1..j :
                     /\ SentFrom(req) + i <= Len(log[n])
                     /\ log[n][SentFrom(req) + i].term = req.entries[i].term}
<1>1. req.entries \in Seq(Entry) /\ Len(req.entries) \in Nat
  BY LenProperties DEF AppendEntriesRequest
<1>2. IsFiniteSet(1..Len(req.entries)) BY <1>1, FS_Interval, SMT
<1>3. Cardinality(J) \in Nat
  <2>1. J \in SUBSET (1..Len(req.entries)) OBVIOUS
  <2>2. IsFiniteSet(J) BY <1>2, <2>1, FS_Subset
  <2> HIDE DEF J
  <2>3. QED BY <2>2, FS_CardinalityType
<1>4. Matching(n, req) \in Nat BY <1>3 DEF Matching
<1>5. \A i \in (Matching(n, req) + 1)..Len(req.entries) :
        req.entries[i] \in Entry
  BY <1>1, <1>4, ElementOfSeq, SMT
<1>6. Missing(n, req) \in Seq(Entry)
  BY <1>1, <1>4, <1>5, SubSeqProperties, SMT DEF Missing
<1>7. QED BY <1>4, <1>6

\* nextIndex as sent, and its decrement, are natural numbers.
LEMMA SentFromType ==
  ASSUME NEW req \in AppendEntriesRequest
  PROVE  SentFrom(req) \in Nat /\ Decrement(SentFrom(req)) \in Nat
BY BoundAssumption, SMT DEF SentFrom, Decrement, AppendEntriesRequest

\* min(LeaderCommit, NextIndex() - 1) is a natural number.
LEMMA LearnedCommitType ==
  ASSUME StoreType, NEW n \in Node, NEW req \in AppendEntriesRequest
  PROVE  LearnedCommit(n, req) \in Nat
<1>1. log[n] \in Seq(Entry) /\ Missing(n, req) \in Seq(Entry)
  BY MissingType DEF StoreType
<1>2. Len(log[n] \o Missing(n, req)) \in Nat
  BY <1>1, ConcatProperties, LenProperties
<1>3. Decrement(Len(log[n] \o Missing(n, req))) \in Nat
  BY <1>2, BoundAssumption, SMT DEF Decrement
<1>4. req.leaderCommit \in Nat BY DEF AppendEntriesRequest
<1>5. QED BY <1>3, <1>4 DEF LearnedCommit

\* Replacing the record of one election keeps the list of elections typed.
LEMMA ElectionsType ==
  ASSUME VoteType, NEW id \in DOMAIN elections, NEW e \in Election
  PROVE  [elections EXCEPT ![id] = e] \in Seq(Election)
BY ExceptSeq, LenProperties, SMT DEF VoteType

\* An element of the list of elections is an election.
LEMMA ElectionType ==
  ASSUME VoteType, NEW id \in DOMAIN elections
  PROVE  elections[id] \in Election /\ elections[id].node \in Node
<1>1. id \in 1..Len(elections) BY LenProperties DEF VoteType
<1>2. elections[id] \in Election BY <1>1, ElementOfSeq DEF VoteType
<1>3. QED BY <1>2 DEF Election

\* The record of an election while a reply is looked at and after.
LEMMA LookingType ==
  ASSUME NEW e \in Election, NEW r \in RequestVoteReply
  PROVE  Looking(e, r) \in Election /\ Tallied(e) \in Election
<1> DEFINE V == IF r.granted THEN e.voters \cup {r.src} ELSE e.voters
           k == IF e.repGranted THEN e.voteCount + 1 ELSE e.voteCount
<1>1. V \in SUBSET Node /\ k \in Nat BY SMT DEF Election, RequestVoteReply
<1>2. Looking(e, r) = [e EXCEPT !.phase = "eval", !.repTerm = r.term,
                                !.repGranted = r.granted, !.voters = V]
  BY DEF Looking
<1>3. Tallied(e) = [e EXCEPT !.phase = "run", !.repTerm = 0,
                             !.repGranted = FALSE, !.voteCount = k]
  BY DEF Tallied
<1> HIDE DEF V, k
<1>4. r.term \in Nat /\ r.granted \in BOOLEAN /\ 0 \in Nat
  BY DEF RequestVoteReply
<1>5. Looking(e, r) \in Election BY <1>1, <1>2, <1>4 DEF Election
<1>6. Tallied(e) \in Election BY <1>1, <1>3, <1>4 DEF Election
<1>7. QED BY <1>5, <1>6

\* startElection returning keeps the types.
LEMMA ReturnType ==
  ASSUME VoteType, NEW id \in DOMAIN elections, Return(id), UNCHANGED rvReq
  PROVE  VoteType'
<1> DEFINE e == [elections[id] EXCEPT !.phase = "done", !.voteCount = 0,
                   !.repTerm = 0, !.repGranted = FALSE, !.voters = {}]
<1>1. e \in Election BY ElectionType DEF Election
<1>2. elections' = [elections EXCEPT ![id] = e] BY DEF Return
<1>3. elections' \in Seq(Election)
  <2> HIDE DEF e
  <2> QED BY <1>1, <1>2, ElectionsType
<1>4. QED BY <1>3 DEF VoteType, Return

\* becomeFollower keeps the types, whatever the term.
LEMMA BecomeFollowerType ==
  ASSUME NodeType, TimerType, NEW n \in Node, NEW term \in Nat,
         BecomeFollower(n, term), UNCHANGED <<ticking, fired, armed>>
  PROVE  NodeType' /\ TimerType'
BY SMT DEF NodeType, TimerType, BecomeFollower, State

\* Signalling a commit keeps the types.
LEMMA SignalType ==
  ASSUME ApplyType, NEW n \in Node, Signal(n), UNCHANGED <<sender, delivered>>
  PROVE  ApplyType'
BY SMT DEF ApplyType, Signal

\* Writing one cell of a table of counters keeps it a table of counters.
LEMMA CellType ==
  ASSUME NEW S, NEW f \in [Node -> [S -> Nat]], NEW n \in Node, NEW t, NEW v,
         t \in S => v \in Nat
  PROVE  [f EXCEPT ![n][t] = v] \in [Node -> [S -> Nat]]
<1> DEFINE row == [f[n] EXCEPT ![t] = v]
<1>1. row \in [S -> Nat] OBVIOUS
<1>2. [f EXCEPT ![n] = row] \in [Node -> [S -> Nat]]
  <2> HIDE DEF row
  <2> QED BY <1>1
<1>3. QED BY <1>2

\* A table of timers holds natural numbers.
LEMMA TickingType ==
  ASSUME TimerType, NEW n \in Node, NEW t \in 0..MaxTimeouts
  PROVE  ticking[n][t] \in Nat
<1>1. ticking[n] \in [0..MaxTimeouts -> Nat] BY DEF TimerType
<1>2. QED BY <1>1

\* A step that starts at most one election timer keeps the timers typed.
LEMMA SpawnType ==
  ASSUME TimerType, NEW n \in Node, UNCHANGED <<ticking, fired, armed>>,
         UNCHANGED spawned \/ spawned' = [spawned EXCEPT ![n] = @ + 1]
  PROVE  TimerType'
<1>1. spawned \in [Node -> Nat] BY DEF TimerType
<1>2. [spawned EXCEPT ![n] = @ + 1] \in [Node -> Nat] BY <1>1, SMT
<1>3. spawned' \in [Node -> Nat] BY <1>1, <1>2
<1>4. QED BY <1>3 DEF TimerType

\* Replacing the state of one commitChanSender.
LEMMA SenderType ==
  ASSUME ApplyType, NEW n \in Node, NEW s \in Sender
  PROVE  [sender EXCEPT ![n] = s] \in [Node -> Sender]
BY DEF ApplyType

\* commitChanSender of one node goes on to another phase.
LEMMA SenderPhase ==
  ASSUME ApplyType, NEW n \in Node,
         NEW ph \in {"recv", "lock", "send", "done"}
  PROVE  [sender EXCEPT ![n].phase = ph] \in [Node -> Sender]
<1> DEFINE s == [sender[n] EXCEPT !.phase = ph]
<1>1. s \in Sender BY DEF ApplyType, Sender
<1>2. [sender EXCEPT ![n] = s] \in [Node -> Sender]
  <2> HIDE DEF s
  <2> QED BY <1>1, SenderType
<1>3. QED BY <1>2

\* ... and has fewer signals waiting,
LEMMA SenderBacklog ==
  ASSUME ApplyType, NEW n \in Node, NEW b \in Nat,
         NEW ph \in {"recv", "lock", "send", "done"}
  PROVE  [sender EXCEPT ![n].phase = ph, ![n].backlog = b] \in [Node -> Sender]
<1> DEFINE s == [sender[n] EXCEPT !.phase = ph, !.backlog = b]
<1>1. s \in Sender BY DEF ApplyType, Sender
<1>2. [sender EXCEPT ![n] = s] \in [Node -> Sender]
  <2> HIDE DEF s
  <2> QED BY <1>1, SenderType
<1>3. QED BY <1>2 DEF ApplyType

\* ... or has other entries to send.
LEMMA SenderBatch ==
  ASSUME ApplyType, NEW n \in Node, NEW q \in Seq(CommitEntry),
         NEW ph \in {"recv", "lock", "send", "done"}
  PROVE  /\ [sender EXCEPT ![n].phase = ph, ![n].batch = q] \in [Node -> Sender]
         /\ [sender EXCEPT ![n].batch = q, ![n].phase = ph] \in [Node -> Sender]
<1> DEFINE s == [sender[n] EXCEPT !.phase = ph, !.batch = q]
           t == [sender[n] EXCEPT !.batch = q, !.phase = ph]
<1>1. s \in Sender BY DEF ApplyType, Sender
<1>2. t \in Sender BY DEF ApplyType, Sender
<1>3. /\ [sender EXCEPT ![n] = s] \in [Node -> Sender]
      /\ [sender EXCEPT ![n] = t] \in [Node -> Sender]
  <2> HIDE DEF s, t
  <2> QED BY <1>1, <1>2, SenderType
<1>4. [sender EXCEPT ![n] = s] =
        [sender EXCEPT ![n].phase = ph, ![n].batch = q]
  BY DEF ApplyType
<1>5. [sender EXCEPT ![n] = t] =
        [sender EXCEPT ![n].batch = q, ![n].phase = ph]
  BY DEF ApplyType
<1>6. QED BY <1>3, <1>4, <1>5

-----------------------------------------------------------------------------
(* One lemma for each kind of step.                                        *)

\* The timers: runElectionTimer and the first half of startElection.
LEMMA TimerStepType ==
  ASSUME TypeOK, NEW n \in Node,
         \/ StartTimer(n) \/ CheckDead(n)
         \/ \E t \in 0..MaxTimeouts : ExitTimer(n, t) \/ ExpireTimer(n, t)
  PROVE  TypeOK'
<1> USE DEF TypeOK
<1>1. CASE StartTimer(n)
  <2>1. spawned' \in [Node -> Nat] BY <1>1, SMT DEF TimerType, StartTimer
  <2>2. ticking' \in [Node -> [0..MaxTimeouts -> Nat]]
    <3>1. currentTerm[n] \in 0..MaxTimeouts =>
            ticking[n][currentTerm[n]] + 1 \in Nat
      BY TickingType, SMT
    <3>2. ticking \in [Node -> [0..MaxTimeouts -> Nat]] BY DEF TimerType
    <3>3. QED BY <1>1, <3>1, <3>2, CellType DEF StartTimer
  <2>3. TimerType' BY <1>1, <2>1, <2>2 DEF TimerType, StartTimer
  <2>4. QED
    BY <1>1, <2>3, NodeUnchanged, StoreUnchanged, ApplyUnchanged,
       VoteUnchanged, NetUnchanged, EnvUnchanged, HistUnchanged
    DEF StartTimer
<1>2. CASE CheckDead(n)
  <2>1. TimerType'
    <3>1. fired' = [fired EXCEPT ![n] = @ - 1] /\ fired[n] > 0
      BY <1>2 DEF CheckDead
    <3>2. UNCHANGED armed \/ armed' = [armed EXCEPT ![n] = @ + 1]
      BY <1>2 DEF CheckDead
    <3>3. UNCHANGED <<spawned, ticking>> BY <1>2 DEF CheckDead
    <3>4. fired' \in [Node -> Nat] BY <3>1, SMT DEF TimerType
    <3>5. armed' \in [Node -> Nat] BY <3>2, SMT DEF TimerType
    <3>6. QED BY <3>3, <3>4, <3>5 DEF TimerType
  <2>2. ApplyType' BY <1>2 DEF ApplyType, CheckDead
  <2>3. QED
    BY <1>2, <2>1, <2>2, NodeUnchanged, StoreUnchanged, VoteUnchanged,
       NetUnchanged, EnvUnchanged, HistUnchanged
    DEF CheckDead
<1>3. ASSUME NEW t \in 0..MaxTimeouts, ExitTimer(n, t) PROVE TypeOK'
  <2>1. ticking' \in [Node -> [0..MaxTimeouts -> Nat]]
    <3>0. ticking[n][t] > 0 BY <1>3 DEF ExitTimer
    <3>1. ticking[n][t] - 1 \in Nat BY <3>0, TickingType, SMT
    <3>2. ticking \in [Node -> [0..MaxTimeouts -> Nat]] BY DEF TimerType
    <3>3. QED BY <1>3, <3>1, <3>2, CellType DEF ExitTimer
  <2>2. TimerType' BY <1>3, <2>1 DEF TimerType, ExitTimer
  <2>3. QED
    BY <1>3, <2>2, NodeUnchanged, StoreUnchanged, ApplyUnchanged,
       VoteUnchanged, NetUnchanged, EnvUnchanged, HistUnchanged
    DEF ExitTimer
<1>4. ASSUME NEW t \in 0..MaxTimeouts, ExpireTimer(n, t) PROVE TypeOK'
  <2>1. ticking' \in [Node -> [0..MaxTimeouts -> Nat]]
    <3>0. ticking[n][t] > 0 BY <1>4 DEF ExpireTimer
    <3>1. ticking[n][t] - 1 \in Nat BY <3>0, TickingType, SMT
    <3>2. ticking \in [Node -> [0..MaxTimeouts -> Nat]] BY DEF TimerType
    <3>3. QED BY <1>4, <3>1, <3>2, CellType DEF ExpireTimer
  <2>2. TimerType'
    <3>1. fired' = [fired EXCEPT ![n] = @ + 1] /\ UNCHANGED <<spawned, armed>>
      BY <1>4 DEF ExpireTimer
    <3>2. QED BY <2>1, <3>1, SMT DEF TimerType
  <2>3. EnvType'
    <3>1. timeouts' = timeouts + 1 /\ UNCHANGED <<submitted, stops, faults>>
      BY <1>4 DEF ExpireTimer
    <3>2. QED BY <3>1, SMT DEF EnvType
  <2>4. QED
    BY <1>4, <2>2, <2>3, NodeUnchanged, StoreUnchanged, ApplyUnchanged,
       VoteUnchanged, NetUnchanged, HistUnchanged
    DEF ExpireTimer
<1>5. QED BY <1>1, <1>2, <1>3, <1>4

\* Stop and Resume.
LEMMA StopResumeType ==
  ASSUME TypeOK, NEW n \in Node, Stop(n) \/ Resume(n) PROVE TypeOK'
<1> USE DEF TypeOK
<1>1. CASE Stop(n)
  <2>1. NodeType' BY <1>1 DEF NodeType, Stop, State
  <2>2. ApplyType' BY <1>1 DEF ApplyType, Stop
  <2>3. EnvType' BY <1>1, SMT DEF EnvType, Stop
  <2>4. QED
    BY <1>1, <2>1, <2>2, <2>3, StoreUnchanged, TimerUnchanged,
       VoteUnchanged, NetUnchanged, HistUnchanged
    DEF Stop
<1>2. CASE Resume(n)
  <2>1. NodeType' /\ TimerType'
    <3>1. currentTerm[n] \in Nat BY DEF NodeType
    <3>2. QED BY <1>2, <3>1, BecomeFollowerType DEF Resume
  <2>2. sender' \in [Node -> Sender]
    <3> DEFINE s == [sender[n] EXCEPT !.detached = TRUE,
                       !.backlog = IF sender[n].detached THEN @ ELSE ready[n]]
    <3>1. s \in Sender BY DEF ApplyType, Sender
    <3>2. sender' = [sender EXCEPT ![n] = s]
      BY <1>2 DEF Resume, ApplyType
    <3> HIDE DEF s
    <3>3. QED BY <3>1, <3>2 DEF ApplyType
  <2>3. ApplyType' BY <1>2, <2>2 DEF Resume, ApplyType
  <2>4. QED
    BY <1>2, <2>1, <2>3, StoreUnchanged, VoteUnchanged, NetUnchanged,
       EnvUnchanged, HistUnchanged
    DEF Resume
<1>3. QED BY <1>1, <1>2

\* startElection and HandleRequestVoteRequest.
LEMMA VoteStepType ==
  ASSUME TypeOK, NEW n \in Node, StartElection(n) \/ HandleRequestVoteRequest(n)
  PROVE  TypeOK'
<1> USE DEF TypeOK
<1>1. CASE StartElection(n)
  <2> DEFINE term == currentTerm[n] + 1
             id == Len(elections) + 1
  <2>1. term \in Nat /\ id \in Nat
    BY LenProperties, SMT DEF NodeType, VoteType
  <2>2. NodeType'
    <3>1. /\ state' = [state EXCEPT ![n] = "Candidate"]
          /\ currentTerm' = [currentTerm EXCEPT ![n] = term]
          /\ votedFor' = [votedFor EXCEPT ![n] = n]
      BY <1>1 DEF StartElection
    <3> HIDE DEF term
    <3>2. QED BY <2>1, <3>1 DEF NodeType, State
  <2>3. TimerType'
    <3>1. /\ armed[n] > 0 /\ armed' = [armed EXCEPT ![n] = @ - 1]
          /\ UNCHANGED <<spawned, ticking, fired>>
      BY <1>1 DEF StartElection
    <3>2. QED BY <3>1, SMT DEF TimerType
  <2>4. EnvType'
    <3>1. /\ faults' = faults \/ faults' = faults + 1
          /\ UNCHANGED <<submitted, timeouts, stops>>
      BY <1>1 DEF StartElection
    <3>2. QED BY <3>1, SMT DEF EnvType
  <2>5. elections' \in Seq(Election)
    <3>1. \A ph \in {"run", "failed"} : NewElection(n, term, ph) \in Election
      BY <2>1 DEF NewElection, Election
    <3>2. \E ph \in {"run", "failed"} :
            elections' = Append(elections, NewElection(n, term, ph))
      BY <1>1 DEF StartElection
    <3> HIDE DEF term
    <3>3. QED BY <3>1, <3>2, AppendProperties, SMT DEF VoteType
  <2>6. rvReq' \subseteq RequestVoteRequest
    <3>1. \A p \in Peers(n) : Ballot(n, id, p, term) \in RequestVoteRequest
      BY <2>1, LastLogType DEF Ballot, RequestVoteRequest, Peers
    <3>2. \/ rvReq' = rvReq
          \/ rvReq' = rvReq \cup {Ballot(n, id, p, term) : p \in Peers(n)}
      BY <1>1 DEF StartElection
    <3> HIDE DEF term, id
    <3>3. QED BY <3>1, <3>2 DEF VoteType
  <2>7. VoteType' BY <1>1, <2>5, <2>6 DEF VoteType, StartElection
  <2>8. HistType'
    <3>1. [voter |-> n, term |-> term, candidate |-> n] \in
            [voter : Node, term : Nat, candidate : Node]
      BY <2>1
    <3>2. QED BY <1>1, <3>1 DEF HistType, StartElection
  <2>9. QED
    BY <1>1, <2>2, <2>3, <2>4, <2>7, <2>8, StoreUnchanged, ApplyUnchanged,
       NetUnchanged
    DEF StartElection
<1>2. CASE HandleRequestVoteRequest(n)
  <2>1. PICK m \in rvReq : HandleRequestVoteRequest(n)!(m)
    BY <1>2 DEF HandleRequestVoteRequest
  <2>2. /\ m \in RequestVoteRequest /\ Grants(n, m) \in BOOLEAN
        /\ m.id \in Nat /\ m.term \in Nat /\ m.src \in Node
    BY DEF VoteType, RequestVoteRequest, Grants
  <2>3. NodeType' BY <2>1, <2>2 DEF NodeType, State, nodeVars
  <2>4. TimerType' BY <2>1, SpawnType
  <2>5. rvRep' \subseteq RequestVoteReply
    <3>1. currentTerm'[n] \in Nat BY <2>3 DEF NodeType
    <3>2. [id |-> m.id, src |-> n, term |-> currentTerm'[n],
           granted |-> Grants(n, m)] \in RequestVoteReply
      BY <2>2, <3>1 DEF RequestVoteReply
    <3>3. rvRep' \subseteq rvRep \cup
            {[id |-> m.id, src |-> n, term |-> currentTerm'[n],
              granted |-> Grants(n, m)]}
      BY <2>1
    <3>4. QED BY <3>2, <3>3 DEF VoteType
  <2>6. VoteType' BY <2>1, <2>5 DEF VoteType
  <2>7. HistType'
    <3>1. [voter |-> n, term |-> m.term, candidate |-> m.src] \in
            [voter : Node, term : Nat, candidate : Node]
      BY <2>2
    <3>2. votes' \subseteq votes \cup
            {[voter |-> n, term |-> m.term, candidate |-> m.src]}
      BY <2>1
    <3>3. UNCHANGED <<leaders, misplaced>> BY <2>1
    <3>4. QED BY <3>1, <3>2, <3>3 DEF HistType
  <2>8. QED
    BY <2>1, <2>3, <2>4, <2>6, <2>7, StoreUnchanged, ApplyUnchanged,
       NetUnchanged, EnvUnchanged
<1>3. QED BY <1>1, <1>2

\* What startElection does with replies, and how it ends.
LEMMA ElectionStepType ==
  ASSUME TypeOK, NEW id \in DOMAIN elections,
         \/ ElectionTimeout(id) \/ ReceiveVote(id) \/ EvaluateVote(id)
         \/ Demote(id) \/ FinishDemotion(id)
         \/ Crown(id) \/ FinishCoronation(id)
  PROVE  TypeOK'
<1> USE DEF TypeOK
<1> DEFINE n == elections[id].node
<1>0. elections[id] \in Election /\ n \in Node BY ElectionType
<1>a. \A ph \in {"demote", "demoted", "crown", "crowned"} :
        [elections[id] EXCEPT !.phase = ph] \in Election
  BY <1>0 DEF Election
<1>1. CASE ElectionTimeout(id)
  <2>1. VoteType' BY <1>1, ReturnType DEF ElectionTimeout
  <2>2. TimerType' BY <1>0, <1>1, SpawnType DEF ElectionTimeout
  <2>3. QED
    BY <1>1, <2>1, <2>2, NodeUnchanged, StoreUnchanged, ApplyUnchanged,
       NetUnchanged, EnvUnchanged, HistUnchanged
    DEF ElectionTimeout
<1>2. CASE ReceiveVote(id)
  <2>1. UNCHANGED rvReq BY <1>2 DEF ReceiveVote
  <2>2. PICK r \in rvRep :
          \/ Return(id)
          \/ /\ elections' = [elections EXCEPT ![id] = Looking(elections[id], r)]
             /\ rvRep' = rvRep \ {r}
    BY <1>2 DEF ReceiveVote
  <2>3. Looking(elections[id], r) \in Election
    BY <1>0, LookingType DEF VoteType
  <2>4. ASSUME ~Return(id) PROVE VoteType'
    <3>1. elections' \in Seq(Election) BY <2>2, <2>3, <2>4, ElectionsType
    <3>2. QED BY <2>1, <2>2, <2>4, <3>1 DEF VoteType
  <2>5. VoteType' BY <2>1, <2>4, ReturnType
  <2>6. QED
    BY <1>2, <2>5, NodeUnchanged, StoreUnchanged, ApplyUnchanged,
       TimerUnchanged, NetUnchanged, EnvUnchanged, HistUnchanged
    DEF ReceiveVote
<1>3. CASE EvaluateVote(id)
  <2>1. UNCHANGED rvReq BY <1>3 DEF EvaluateVote
  <2>2. Tallied(elections[id]) \in Election
    <3>1. [id |-> 0, src |-> n, term |-> 0, granted |-> FALSE]
            \in RequestVoteReply
      BY <1>0 DEF RequestVoteReply
    <3>2. QED BY <1>0, <3>1, LookingType
  <2>3. Verdict(elections[id]) # "run" =>
          Verdict(elections[id]) \in {"demote", "crown"}
    BY DEF Verdict
  <2>4. ASSUME ~Return(id) PROVE VoteType'
    <3>1. elections' \in Seq(Election)
      <4> DEFINE turned == [elections[id] EXCEPT !.phase = Verdict(elections[id])]
      <4>1. \/ elections' = [elections EXCEPT ![id] = Tallied(elections[id])]
            \/ /\ Verdict(elections[id]) # "run"
               /\ elections' = [elections EXCEPT ![id] = turned]
        BY <1>3, <2>4 DEF EvaluateVote
      <4>2. Verdict(elections[id]) # "run" => turned \in Election
        BY <1>a, <2>3
      <4> HIDE DEF turned
      <4>3. QED BY <2>2, <4>1, <4>2, ElectionsType
    <3>2. QED BY <1>3, <2>1, <2>4, <3>1 DEF VoteType, EvaluateVote
  <2>5. VoteType' BY <2>1, <2>4, ReturnType
  <2>6. QED
    BY <1>3, <2>5, NodeUnchanged, StoreUnchanged, ApplyUnchanged,
       TimerUnchanged, NetUnchanged, EnvUnchanged, HistUnchanged
    DEF EvaluateVote
<1>4. CASE Demote(id)
  <2>1. NodeType' BY <1>0, <1>4 DEF NodeType, Demote, State, Election
  <2>2. elections' \in Seq(Election) BY <1>a, <1>4, ElectionsType DEF Demote
  <2>3. VoteType' BY <1>4, <2>2 DEF VoteType, Demote
  <2>4. QED
    BY <1>4, <2>1, <2>3, StoreUnchanged, ApplyUnchanged, TimerUnchanged,
       NetUnchanged, EnvUnchanged, HistUnchanged
    DEF Demote
<1>5. CASE FinishDemotion(id)
  <2>1. VoteType' BY <1>5, ReturnType DEF FinishDemotion
  <2>2. NodeType' BY <1>0, <1>5 DEF NodeType, FinishDemotion
  <2>3. TimerType' BY <1>0, <1>5, SpawnType DEF FinishDemotion
  <2>4. QED
    BY <1>5, <2>1, <2>2, <2>3, StoreUnchanged, ApplyUnchanged,
       NetUnchanged, EnvUnchanged, HistUnchanged
    DEF FinishDemotion
<1>6. CASE Crown(id)
  <2>1. NodeType' BY <1>0, <1>6 DEF NodeType, Crown, State
  <2>2. elections' \in Seq(Election) BY <1>a, <1>6, ElectionsType DEF Crown
  <2>3. VoteType' BY <1>6, <2>2 DEF VoteType, Crown
  <2>4. HistType'
    <3>1. [node |-> n, term |-> currentTerm[n], elected |-> elections[id].term]
            \in [node : Node, term : Nat, elected : Nat]
      BY <1>0 DEF NodeType, Election
    <3>2. QED BY <1>6, <3>1 DEF HistType, Crown
  <2>5. QED
    BY <1>6, <2>1, <2>3, <2>4, StoreUnchanged, ApplyUnchanged,
       TimerUnchanged, NetUnchanged, EnvUnchanged
    DEF Crown
<1>7. CASE FinishCoronation(id)
  <2>1. VoteType' BY <1>7, ReturnType DEF FinishCoronation
  <2>2. Len(log[n]) \in Nat BY <1>0, LenProperties DEF StoreType
  <2>3. StoreType'
    BY <1>0, <1>7, <2>2 DEF StoreType, FinishCoronation, commitVars
  <2>4. NetType'
    <3>1. epoch[n] + 1 \in Nat /\ loops[n] \in SUBSET Nat
      BY <1>0, SMT DEF NetType
    <3>2. loops[n] \cup {epoch[n] + 1} \in SUBSET Nat BY <3>1
    <3>3. /\ epoch' = [epoch EXCEPT ![n] = epoch[n] + 1]
          /\ loops' = [loops EXCEPT ![n] = loops[n] \cup {epoch[n] + 1}]
          /\ UNCHANGED callVars
      BY <1>7 DEF FinishCoronation
    <3>4. epoch' \in [Node -> Nat] BY <3>1, <3>3 DEF NetType
    <3>5. loops' \in [Node -> SUBSET Nat] BY <3>2, <3>3 DEF NetType
    <3>6. QED BY <3>3, <3>4, <3>5 DEF NetType, callVars
  <2>5. QED
    BY <1>7, <2>1, <2>3, <2>4, NodeUnchanged, ApplyUnchanged,
       TimerUnchanged, EnvUnchanged, HistUnchanged
    DEF FinishCoronation
<1>8. QED BY <1>1, <1>2, <1>3, <1>4, <1>5, <1>6, <1>7

\* Submit, and the end of a blocked signal.
LEMMA SubmitSignalType ==
  ASSUME TypeOK, NEW n \in Node,
         FinishSignal(n) \/ \E c \in Command : Submit(n, c)
  PROVE  TypeOK'
<1> USE DEF TypeOK
<1>1. CASE FinishSignal(n)
  <2>1. ApplyType'
    <3>1. /\ mu' = [mu EXCEPT ![n] = "free"]
          /\ ready' = [ready EXCEPT ![n] = @ + 1]
          /\ UNCHANGED <<closed, sender, delivered>>
      BY <1>1 DEF FinishSignal
    <3>2. QED BY <3>1, SMT DEF ApplyType
  <2>2. NetType' BY <1>1 DEF NetType, FinishSignal, loopVars
  <2>3. QED
    BY <1>1, <2>1, <2>2, NodeUnchanged, StoreUnchanged, TimerUnchanged,
       VoteUnchanged, EnvUnchanged, HistUnchanged
    DEF FinishSignal
<1>2. ASSUME NEW c \in Command, Submit(n, c) PROVE TypeOK'
  <2> DEFINE e == [command |-> c, term |-> currentTerm[n]]
  <2>1. e \in Entry BY DEF Entry, NodeType
  <2>2. Append(log[n], e) \in Seq(Entry)
    <3> HIDE DEF e
    <3> QED BY <2>1, AppendProperties DEF StoreType
  <2>3. log' = [log EXCEPT ![n] = Append(log[n], e)] BY <1>2 DEF Submit
  <2>4. log' \in [Node -> Seq(Entry)]
    <3> HIDE DEF e
    <3> QED BY <2>2, <2>3 DEF StoreType
  <2>5. StoreType' BY <1>2, <2>4 DEF StoreType, Submit, commitVars
  <2>6. EnvType' BY <1>2 DEF EnvType, Submit
  <2>7. QED
    BY <1>2, <2>5, <2>6, NodeUnchanged, ApplyUnchanged, TimerUnchanged,
       VoteUnchanged, NetUnchanged, HistUnchanged
    DEF Submit
<1>3. QED BY <1>1, <1>2

\* The leader's side of AppendEntries, up to the reply.
LEMMA CallStepType ==
  ASSUME TypeOK, NEW n \in Node,
         \/ \E ep \in loops[n] : HeartbeatLoop(n, ep)
         \/ SendAppendEntries(n) \/ AbandonCall(n)
  PROVE  TypeOK'
<1> USE DEF TypeOK
<1>1. ASSUME NEW ep \in loops[n], HeartbeatLoop(n, ep) PROVE NetType'
  <2>1. \A p \in Peers(n) :
          [src |-> n, dst |-> p, ep |-> ep, saved |-> currentTerm[n]]
            \in [src : Node, dst : Node, ep : Nat, saved : Nat]
    BY DEF Peers, NodeType, NetType
  <2>2. building' \subseteq [src : Node, dst : Node, ep : Nat, saved : Nat]
    <3>1. \/ UNCHANGED building
          \/ building' = building \cup
               {[src |-> n, dst |-> p, ep |-> ep, saved |-> currentTerm[n]] :
                   p \in Peers(n)}
      BY <1>1 DEF HeartbeatLoop
    <3>2. {[src |-> n, dst |-> p, ep |-> ep, saved |-> currentTerm[n]] :
              p \in Peers(n)}
            \subseteq [src : Node, dst : Node, ep : Nat, saved : Nat]
      BY <2>1
    <3>3. QED BY <3>1, <3>2 DEF NetType
  <2>3. loops' \in [Node -> SUBSET Nat] BY <1>1 DEF HeartbeatLoop, NetType
  <2>4. QED BY <1>1, <2>2, <2>3 DEF HeartbeatLoop, NetType
<1>2. CASE SendAppendEntries(n)
  <2>1. PICK b \in building :
          /\ building' = building \ {b}
          /\ waiting' = waiting \cup
               {[src |-> n, dst |-> b.dst, ep |-> b.ep, saved |-> b.saved,
                 req |-> HeartbeatRequest(n, b.dst)]}
    BY <1>2 DEF SendAppendEntries
  <2>2. b.dst \in Node /\ b.ep \in Nat /\ b.saved \in Nat BY DEF NetType
  <2>3. HeartbeatRequest(n, b.dst) \in AppendEntriesRequest
    BY <2>2, HeartbeatRequestType
  <2>4. [src |-> n, dst |-> b.dst, ep |-> b.ep, saved |-> b.saved,
         req |-> HeartbeatRequest(n, b.dst)] \in Call
    BY <2>2, <2>3 DEF Call
  <2>5. UNCHANGED <<stalled, answered, epoch, loops>>
    BY <1>2 DEF SendAppendEntries, loopVars
  <2>6. NetType' BY <2>1, <2>4, <2>5 DEF NetType
  <2>7. QED
    BY <1>2, <2>6, NodeUnchanged, StoreUnchanged, ApplyUnchanged,
       TimerUnchanged, VoteUnchanged, EnvUnchanged, HistUnchanged
    DEF SendAppendEntries
<1>3. CASE AbandonCall(n)
  <2>1. waiting' \subseteq Call
    <3>1. \A c \in waiting : [c EXCEPT !.ep = 0, !.saved = 0] \in Call
      BY DEF NetType, Call
    <3>2. QED BY <1>3, <3>1 DEF AbandonCall, NetType
  <2>2. stalled' \subseteq stalled /\ answered' \subseteq answered
    BY <1>3 DEF AbandonCall
  <2>3. NetType' BY <1>3, <2>1, <2>2 DEF AbandonCall, NetType, loopVars
  <2>4. QED
    BY <1>3, <2>3, NodeUnchanged, StoreUnchanged, ApplyUnchanged,
       TimerUnchanged, VoteUnchanged, EnvUnchanged, HistUnchanged
    DEF AbandonCall
<1>4. ASSUME NEW ep \in loops[n], HeartbeatLoop(n, ep) PROVE TypeOK'
  BY <1>1, <1>4, NodeUnchanged, StoreUnchanged, ApplyUnchanged,
     TimerUnchanged, VoteUnchanged, EnvUnchanged, HistUnchanged
  DEF HeartbeatLoop
<1>5. QED BY <1>2, <1>3, <1>4

\* The leader's handling of a reply, updateCommitIndex included.
LEMMA ReplyStepType ==
  ASSUME TypeOK, NEW n \in Node, HandleAppendEntriesReply(n)
  PROVE  TypeOK'
<1> USE DEF TypeOK
<1>1. PICK a \in answered : HandleAppendEntriesReply(n)!(a)
  BY DEF HandleAppendEntriesReply
<1> DEFINE req == a.call.req
<1>2. /\ a.term \in Nat /\ req \in AppendEntriesRequest
      /\ a.call.dst \in Node /\ req.entries \in Seq(Entry)
  BY DEF NetType, Answer, Call, AppendEntriesRequest
<1>3. /\ UNCHANGED <<log, hasCommited, lastApplied, sender, delivered, ticking,
                     fired, armed, voteVars, building, waiting, stalled,
                     loopVars, envVars, histVars>>
      /\ answered' = answered \ {a}
  BY <1>1
<1>4. NetType' BY <1>3 DEF NetType, loopVars
<1>5. NodeType' /\ TimerType'
  <2>1. \/ BecomeFollower(n, a.term)
        \/ UNCHANGED <<nodeVars, spawned>>
    BY <1>1
  <2>2. CASE BecomeFollower(n, a.term)
    BY <1>2, <1>3, <2>2, BecomeFollowerType
  <2>3. CASE UNCHANGED <<nodeVars, spawned>>
    BY <1>3, <2>3, NodeUnchanged, TimerUnchanged DEF timerVars
  <2>4. QED BY <2>1, <2>2, <2>3
<1>6. nextIndex' \in [Node -> [Node -> Nat]]
  <2>1. /\ SentFrom(req) \in Nat /\ Decrement(SentFrom(req)) \in Nat
        /\ Len(req.entries) \in Nat
    BY <1>2, SentFromType, LenProperties
  <2>2. nextIndex \in [Node -> [Node -> Nat]] BY DEF StoreType
  <2>3. ASSUME NEW v \in Nat
        PROVE  [nextIndex EXCEPT ![n][a.call.dst] = v] \in [Node -> [Node -> Nat]]
    BY <2>2, CellType
  <2>4. \/ UNCHANGED nextIndex
        \/ nextIndex' = [nextIndex EXCEPT ![n][a.call.dst] =
                           SentFrom(req) + Len(req.entries)]
        \/ nextIndex' = [nextIndex EXCEPT ![n][a.call.dst] =
                           Decrement(SentFrom(req))]
    BY <1>1
  <2>5. SentFrom(req) + Len(req.entries) \in Nat BY <2>1, SMT
  <2>6. [nextIndex EXCEPT ![n][a.call.dst] = SentFrom(req) + Len(req.entries)]
          \in [Node -> [Node -> Nat]]
    BY <2>3, <2>5
  <2>7. [nextIndex EXCEPT ![n][a.call.dst] = Decrement(SentFrom(req))]
          \in [Node -> [Node -> Nat]]
    BY <2>1, <2>3
  <2>8. QED BY <2>2, <2>4, <2>6, <2>7
<1>7. commitIndex' \in [Node -> Nat] /\ ApplyType'
  <2>1. \/ UNCHANGED <<commitIndex, chanVars>>
        \/ UpdateCommitIndex(n, nextIndex'[n])
    BY <1>1
  <2>2. CASE UNCHANGED <<commitIndex, chanVars>>
    BY <1>3, <2>2, ApplyUnchanged DEF StoreType, applyVars
  <2>3. ASSUME NEW i \in Agreed(n, nextIndex'[n]),
               commitIndex' = [commitIndex EXCEPT ![n] = i], Signal(n)
        PROVE  commitIndex' \in [Node -> Nat] /\ ApplyType'
    <3>1. Len(log[n]) \in Nat /\ commitIndex[n] \in Nat
      BY LenProperties DEF StoreType
    <3>2. i \in Nat
      <4> DEFINE first == IF hasCommited[n] THEN commitIndex[n] + 1 ELSE 0
      <4>1. i \in first..(Len(log[n]) - 1) BY <2>3 DEF Agreed
      <4>2. first \in Nat BY <3>1, SMT
      <4> HIDE DEF first
      <4>3. QED BY <3>1, <4>1, <4>2, SMT
    <3>3. QED BY <1>3, <2>3, <3>2, SignalType DEF StoreType
  <2>4. QED BY <2>1, <2>2, <2>3 DEF UpdateCommitIndex
<1>8. StoreType' BY <1>3, <1>6, <1>7 DEF StoreType
<1>9. QED
  BY <1>3, <1>4, <1>5, <1>7, <1>8, VoteUnchanged, EnvUnchanged, HistUnchanged

\* Storing the first k of the missing entries.
LEMMA StoreEntriesType ==
  ASSUME StoreType, HistType, NEW n \in Node, NEW req \in AppendEntriesRequest,
         NEW k \in 0..Len(Missing(n, req)), StoreEntries(n, req, k)
  PROVE  log' \in [Node -> Seq(Entry)] /\ misplaced' \subseteq Node
<1> DEFINE new == SubSeq(Missing(n, req), 1, k)
<1>1. Missing(n, req) \in Seq(Entry) /\ Len(Missing(n, req)) \in Nat
  BY MissingType, LenProperties
<1>2. \A i \in 1..k : Missing(n, req)[i] \in Entry BY <1>1, ElementOfSeq, SMT
<1>3. new \in Seq(Entry)
  <2> HIDE DEF new
  <2>1. k \in Int BY <1>1, SMT
  <2>2. QED BY <1>1, <1>2, <2>1, SubSeqProperties, SMT DEF new
<1>4. \/ UNCHANGED log
      \/ log' = [log EXCEPT ![n] = log[n] \o new]
  BY DEF StoreEntries
<1>5. log' \in [Node -> Seq(Entry)]
  <2> HIDE DEF new
  <2>1. log[n] \in Seq(Entry) BY DEF StoreType
  <2>2. log[n] \o new \in Seq(Entry) BY <1>3, <2>1, ConcatProperties
  <2>3. QED BY <1>4, <2>2 DEF StoreType
<1>6. misplaced' \subseteq Node BY DEF StoreEntries, HistType
<1>7. QED BY <1>5, <1>6

\* Following the sender of a request.
LEMMA FollowLeaderType ==
  ASSUME NodeType, TimerType, NEW n \in Node, NEW req \in AppendEntriesRequest,
         FollowLeader(n, req), UNCHANGED <<ticking, fired, armed>>
  PROVE  NodeType' /\ TimerType'
<1>1. req.term \in Nat BY DEF AppendEntriesRequest
<1>2. BecomeFollower(n, req.term) \/ UNCHANGED <<nodeVars, spawned>>
  BY DEF FollowLeader
<1>3. CASE BecomeFollower(n, req.term) BY <1>1, <1>3, BecomeFollowerType
<1>4. CASE UNCHANGED <<nodeVars, spawned>>
  BY <1>4, NodeUnchanged, TimerUnchanged DEF timerVars
<1>5. QED BY <1>2, <1>3, <1>4

\* The follower's side of AppendEntries.
LEMMA RequestStepType ==
  ASSUME TypeOK, NEW n \in Node,
         HandleAppendEntriesRequest(n) \/ FailAppendEntriesRequest(n)
  PROVE  TypeOK'
<1> USE DEF TypeOK
<1>1. CASE HandleAppendEntriesRequest(n)
  <2>1. PICK c \in waiting : HandleAppendEntriesRequest(n)!(c)
    BY <1>1 DEF HandleAppendEntriesRequest
  <2>2. c \in Call /\ c.req \in AppendEntriesRequest BY DEF NetType, Call
  <2>3. /\ waiting' = waiting \ {c}
        /\ UNCHANGED <<hasCommited, lastApplied, nextIndex, sender, delivered,
                       ticking, fired, armed, voteVars, building, loopVars,
                       envVars, votes, leaders>>
    BY <2>1
  <2>4. CASE state[n] = "Dead"
    <3>1. UNCHANGED <<nodeVars, spawned, log, misplaced, commitIndex, chanVars,
                      answered, stalled>>
      BY <2>1, <2>4
    <3>2. NetType' BY <2>3, <3>1 DEF NetType, loopVars
    <3>3. QED
      BY <2>3, <3>1, <3>2, NodeUnchanged, StoreUnchanged, ApplyUnchanged,
         TimerUnchanged, VoteUnchanged, EnvUnchanged, HistUnchanged
      DEF storeVars, commitVars, applyVars, timerVars, histVars
  <2>5. CASE state[n] # "Dead"
    <3>1. /\ FollowLeader(n, c.req) /\ LearnCommit(n, c.req) /\ Reply(n, c)
          /\ StoreEntries(n, c.req, Len(Missing(n, c.req)))
      BY <2>1, <2>5
    <3>2. NodeType' /\ TimerType' BY <2>2, <2>3, <3>1, FollowLeaderType
    <3>3. log' \in [Node -> Seq(Entry)] /\ misplaced' \subseteq Node
      <4>1. Len(Missing(n, c.req)) \in 0..Len(Missing(n, c.req))
        BY <2>2, MissingType, LenProperties, SMT
      <4>2. QED BY <2>2, <3>1, <4>1, StoreEntriesType
    <3>4. commitIndex' \in [Node -> Nat]
      <4>1. LearnedCommit(n, c.req) \in Nat BY <2>2, LearnedCommitType
      <4>2. \/ UNCHANGED commitIndex
            \/ commitIndex' =
                 [commitIndex EXCEPT ![n] = LearnedCommit(n, c.req)]
        BY <3>1 DEF LearnCommit
      <4>3. QED BY <4>1, <4>2 DEF StoreType
    <3>5. ApplyType'
      <4>1. Signal(n) \/ UNCHANGED chanVars BY <3>1 DEF LearnCommit
      <4>2. QED BY <2>3, <4>1, SignalType, ApplyUnchanged DEF applyVars
    <3>6. NetType'
      <4> DEFINE a == [call |-> c, term |-> currentTerm'[n],
                       success |-> Accepts(n, c.req)]
      <4>1. Accepts(n, c.req) \in BOOLEAN BY DEF Accepts
      <4>2. currentTerm'[n] \in Nat BY <3>2 DEF NodeType
      <4>3. a \in Answer BY <2>2, <4>1, <4>2 DEF Answer
      <4>4. /\ answered' \subseteq answered \cup {a}
            /\ stalled' \subseteq stalled \cup {a}
        BY <3>1 DEF Reply
      <4> HIDE DEF a
      <4>5. QED BY <2>3, <4>3, <4>4 DEF NetType, loopVars
    <3>7. StoreType' BY <2>3, <3>3, <3>4 DEF StoreType
    <3>8. HistType' BY <2>3, <3>3 DEF HistType
    <3>9. QED
      BY <2>3, <3>2, <3>5, <3>6, <3>7, <3>8, VoteUnchanged, EnvUnchanged
  <2>6. QED BY <2>4, <2>5
<1>2. CASE FailAppendEntriesRequest(n)
  <2>1. PICK c \in waiting : FailAppendEntriesRequest(n)!(c)
    BY <1>2 DEF FailAppendEntriesRequest
  <2>2. c.req \in AppendEntriesRequest BY DEF NetType, Call
  <2>3. /\ waiting' = waiting \ {c} /\ faults' = faults + 1
        /\ FollowLeader(n, c.req)
        /\ UNCHANGED <<commitVars, nextIndex, applyVars, ticking, fired, armed,
                       voteVars, building, stalled, answered, loopVars,
                       submitted, timeouts, stops, votes, leaders>>
    BY <2>1
  <2>4. PICK k \in 0..(Len(Missing(n, c.req)) - 1) : StoreEntries(n, c.req, k)
    BY <2>1
  <2>5. log' \in [Node -> Seq(Entry)] /\ misplaced' \subseteq Node
    <3>1. k \in 0..Len(Missing(n, c.req))
      BY <2>2, MissingType, LenProperties, SMT
    <3>2. QED BY <2>2, <2>4, <3>1, StoreEntriesType
  <2>6. NodeType' /\ TimerType' BY <2>2, <2>3, FollowLeaderType
  <2>7. StoreType' BY <2>3, <2>5 DEF StoreType, commitVars
  <2>8. NetType' BY <2>3 DEF NetType, loopVars
  <2>9. EnvType' BY <2>3, SMT DEF EnvType
  <2>10. HistType' BY <2>3, <2>5 DEF HistType
  <2>11. QED
    BY <2>3, <2>6, <2>7, <2>8, <2>9, <2>10, VoteUnchanged, ApplyUnchanged
<1>3. QED BY <1>1, <1>2

\* The batch commitChanSender cuts out of the log is a sequence of entries.
LEMMA BatchType ==
  ASSUME NodeType, StoreType, NEW n \in Node, commitIndex[n] < Len(log[n])
  PROVE  Batch(n, FirstToApply(n)) \in Seq(CommitEntry)
<1> DEFINE first == FirstToApply(n)
           len == commitIndex[n] + 1 - first
           b(i) == [command |-> log[n][first + i].command,
                    index |-> lastApplied[n] + i, term |-> currentTerm[n]]
<1>1. /\ log[n] \in Seq(Entry) /\ Len(log[n]) \in Nat
      /\ commitIndex[n] \in Nat /\ lastApplied[n] \in Nat
      /\ currentTerm[n] \in Nat
  BY LenProperties DEF StoreType, NodeType
<1>2. first \in Nat
  <2>1. lastApplied[n] + 1 \in Nat BY <1>1, SMT
  <2>2. first = lastApplied[n] + 1 \/ first = 0 BY DEF FirstToApply
  <2> HIDE DEF first
  <2>3. QED BY <2>1, <2>2, SMT
<1>3. \A i \in 1..len : b(i) \in CommitEntry
  <2> HIDE DEF first
  <2>1. TAKE i \in 1..len
  <2>2. first + i \in 1..Len(log[n]) BY <1>1, <1>2, SMT
  <2>3. log[n][first + i] \in Entry BY <1>1, <2>2, ElementOfSeq
  <2>4. log[n][first + i].command \in Command BY <2>3 DEF Entry
  <2>5. lastApplied[n] + i \in Nat BY <1>1, <1>2, SMT
  <2>6. QED BY <1>1, <2>4, <2>5 DEF CommitEntry
<1>4. Batch(n, first) = [i \in 1..len |-> b(i)] BY DEF Batch
<1>5. \E k \in Nat : 1..len = 1..k
  <2> HIDE DEF first
  <2>1. CASE len \in Nat BY <2>1
  <2>2. CASE len \notin Nat
    <3>1. 1..len = 1..0 BY <1>1, <1>2, <2>2, SMT
    <3>2. QED BY <3>1
  <2>3. QED BY <2>1, <2>2
<1> HIDE DEF first, len, b
<1>6. PICK k \in Nat : 1..len = 1..k BY <1>5
<1>7. [i \in 1..len |-> b(i)] \in [1..k -> CommitEntry] BY <1>3, <1>6
<1>8. ASSUME NEW f \in [1..k -> CommitEntry] PROVE f \in Seq(CommitEntry)
  BY SeqDef
<1>9. QED BY <1>4, <1>7, <1>8 DEF first

\* The commitChanSender goroutine.
LEMMA SenderStepType ==
  ASSUME TypeOK, NEW n \in Node,
         ReceiveSignal(n) \/ CollectBatch(n) \/ DeliverEntry(n)
  PROVE  TypeOK'
<1> USE DEF TypeOK
<1>0. sender[n] \in Sender BY DEF ApplyType
<1>1. CASE ReceiveSignal(n)
  <2> DEFINE detached == sender[n].detached
             b == IF detached THEN sender[n].backlog - 1 ELSE sender[n].backlog
  <2>0. detached \in BOOLEAN /\ ready[n] \in Nat /\ sender[n].backlog \in Nat
    BY <1>0 DEF ApplyType, Sender
  <2>1. sender' \in [Node -> Sender]
    <3>1. CASE sender' = [sender EXCEPT ![n].phase = "done"]
      BY <3>1, SenderPhase
    <3>2. CASE sender' # [sender EXCEPT ![n].phase = "done"]
      <4>1. /\ sender' = [sender EXCEPT ![n].phase = "lock", ![n].backlog = b]
            /\ detached => sender[n].backlog > 0
        BY <1>1, <3>2 DEF ReceiveSignal
      <4>2. b \in Nat BY <2>0, <4>1, SMT
      <4> HIDE DEF b
      <4>3. QED BY <4>1, <4>2, SenderBacklog
    <3>3. QED BY <3>1, <3>2
  <2>2. ready' \in [Node -> Nat]
    <3>1. \/ UNCHANGED ready
          \/ ready[n] > 0 /\ ready' = [ready EXCEPT ![n] = ready[n] - 1]
      BY <1>1 DEF ReceiveSignal
    <3>2. ready \in [Node -> Nat] BY DEF ApplyType
    <3>3. ready[n] \in Nat BY <3>2
    <3>4. ready[n] > 0 => ready[n] - 1 \in Nat BY <3>3, SMT
    <3>5. QED BY <3>1, <3>2, <3>4
  <2>3. ApplyType' BY <1>1, <2>1, <2>2 DEF ReceiveSignal, ApplyType
  <2>4. QED
    BY <1>1, <2>3, NodeUnchanged, StoreUnchanged, TimerUnchanged,
       VoteUnchanged, NetUnchanged, EnvUnchanged, HistUnchanged
    DEF ReceiveSignal
<1>2. CASE CollectBatch(n)
  <2>1. sender' \in [Node -> Sender]
    <3>1. ASSUME NEW ph \in {"recv", "done"}
          PROVE  [sender EXCEPT ![n].phase = ph] \in [Node -> Sender]
      BY SenderPhase
    <3>2. ASSUME commitIndex[n] < Len(log[n])
          PROVE  [sender EXCEPT ![n].phase = "send",
                    ![n].batch = Batch(n, FirstToApply(n))] \in [Node -> Sender]
      <4>1. Batch(n, FirstToApply(n)) \in Seq(CommitEntry) BY <3>2, BatchType
      <4>2. QED BY <4>1, SenderBatch
    <3>3. QED BY <1>2, <3>1, <3>2 DEF CollectBatch
  <2>2. StoreType' BY <1>2 DEF CollectBatch, StoreType
  <2>3. mu' \in [Node -> {"free", "leaked", "sending", "panicked"}]
    BY <1>2 DEF CollectBatch, ApplyType
  <2>4. ApplyType' BY <1>2, <2>1, <2>3 DEF CollectBatch, ApplyType
  <2>5. QED
    BY <1>2, <2>2, <2>4, NodeUnchanged, TimerUnchanged, VoteUnchanged,
       NetUnchanged, EnvUnchanged, HistUnchanged
    DEF CollectBatch
<1>3. CASE DeliverEntry(n)
  <2> DEFINE h == Head(sender[n].batch)
             t == Tail(sender[n].batch)
             ph == IF Len(sender[n].batch) = 1 THEN "recv" ELSE "send"
  <2>1. sender[n].batch \in Seq(CommitEntry) /\ sender[n].batch # <<>>
    BY <1>0, <1>3 DEF DeliverEntry, Sender
  <2>2. h \in CommitEntry /\ t \in Seq(CommitEntry)
    BY <2>1, HeadTailProperties
  <2>3. /\ delivered' = [delivered EXCEPT ![n] = Append(delivered[n], h)]
        /\ sender' = [sender EXCEPT ![n].batch = t, ![n].phase = ph]
    BY <1>3 DEF DeliverEntry
  <2>4. ph \in {"recv", "send"} OBVIOUS
  <2> HIDE DEF h, t, ph
  <2>5. sender' \in [Node -> Sender]
    BY <2>2, <2>3, <2>4, SenderBatch
  <2>6. delivered' \in [Node -> Seq(CommitEntry)]
    <3>1. Append(delivered[n], h) \in Seq(CommitEntry)
      BY <2>2, AppendProperties DEF ApplyType
    <3>2. QED BY <2>3, <3>1 DEF ApplyType
  <2>7. ApplyType' BY <1>3, <2>5, <2>6 DEF DeliverEntry, ApplyType, chanVars
  <2>8. QED
    BY <1>3, <2>7, NodeUnchanged, StoreUnchanged, TimerUnchanged,
       VoteUnchanged, NetUnchanged, EnvUnchanged, HistUnchanged
    DEF DeliverEntry
<1>4. QED BY <1>1, <1>2, <1>3

-----------------------------------------------------------------------------
\* NewRaft starts every node in a well-typed state.
LEMMA InitType == Init => TypeOK
<1> SUFFICES ASSUME Init PROVE TypeOK
  OBVIOUS
<1> USE DEF Init
<1>1. NodeType BY DEF NodeType, State
<1>2. StoreType
  <2>1. [n \in Node |-> <<>>] \in [Node -> Seq(Entry)] BY EmptySeq
  <2>2. QED BY <2>1 DEF StoreType
<1>3. ApplyType
  <2>1. <<>> \in Seq(CommitEntry) BY EmptySeq
  <2>2. [phase |-> "recv", detached |-> FALSE, backlog |-> 0, batch |-> <<>>]
          \in Sender
    BY <2>1 DEF Sender
  <2>3. sender \in [Node -> Sender] BY <2>2
  <2>4. QED BY <2>1, <2>3 DEF ApplyType
<1>4. TimerType BY DEF TimerType
<1>5. VoteType
  <2>1. elections \in Seq(Election) BY EmptySeq
  <2>2. QED BY <2>1 DEF VoteType
<1>6. NetType BY DEF NetType
<1>7. EnvType BY DEF EnvType
<1>8. HistType BY DEF HistType
<1>9. QED BY <1>1, <1>2, <1>3, <1>4, <1>5, <1>6, <1>7, <1>8 DEF TypeOK

\* Every step of every node keeps the types.
LEMMA NextType == TypeOK /\ [Next]_vars => TypeOK'
<1> SUFFICES ASSUME TypeOK, [Next]_vars PROVE TypeOK'
  OBVIOUS
<1>1. CASE UNCHANGED vars
  BY <1>1, NodeUnchanged, StoreUnchanged, ApplyUnchanged, TimerUnchanged,
     VoteUnchanged, NetUnchanged, EnvUnchanged, HistUnchanged
  DEF vars, TypeOK
<1>2. ASSUME NEW n \in Node,
             \/ Stop(n) \/ Resume(n)
             \/ StartTimer(n)
             \/ \E t \in 0..MaxTimeouts : ExitTimer(n, t) \/ ExpireTimer(n, t)
             \/ CheckDead(n) \/ StartElection(n)
             \/ HandleRequestVoteRequest(n)
             \/ \E c \in Command : Submit(n, c)
             \/ FinishSignal(n)
             \/ \E ep \in loops[n] : HeartbeatLoop(n, ep)
             \/ SendAppendEntries(n) \/ AbandonCall(n)
             \/ HandleAppendEntriesReply(n)
             \/ HandleAppendEntriesRequest(n) \/ FailAppendEntriesRequest(n)
             \/ ReceiveSignal(n) \/ CollectBatch(n) \/ DeliverEntry(n)
      PROVE  TypeOK'
  BY <1>2, StopResumeType, TimerStepType, VoteStepType, SubmitSignalType,
     CallStepType, ReplyStepType, RequestStepType, SenderStepType
<1>3. ASSUME NEW id \in DOMAIN elections,
             \/ ElectionTimeout(id) \/ ReceiveVote(id) \/ EvaluateVote(id)
             \/ Demote(id) \/ FinishDemotion(id)
             \/ Crown(id) \/ FinishCoronation(id)
      PROVE  TypeOK'
  BY <1>3, ElectionStepType
<1>4. QED BY <1>1, <1>2, <1>3 DEF Next

\* Whatever the size of the cluster, the capacity of newCommitReadyChan and the
\* number of timeouts, stops and failures, every variable of every node and
\* every message keeps its shape: no index read by HandleAppendEntriesRequest,
\* updateCommitIndex or commitChanSender is out of its range, since a value read
\* there would not be known to have a type.
THEOREM TypeCorrect == Spec => []TypeOK
<1>1. Init => TypeOK BY InitType
<1>2. TypeOK /\ [Next]_vars => TypeOK' BY NextType
<1>3. QED BY <1>1, <1>2, PTL DEF Spec

-----------------------------------------------------------------------------
(* Logs only grow.                                                         *)

\* The log of n keeps the entries it has.
Extended(n) ==
  /\ Len(log'[n]) >= Len(log[n])
  /\ \A i \in 1..Len(log[n]) : log'[n][i] = log[n][i]

\* Entries put behind a log by Submit or HandleAppendEntriesRequest leave the
\* others where they are.
LEMMA ConcatExtends ==
  ASSUME StoreType, NEW n \in Node, NEW s \in Seq(Entry),
         log' = [log EXCEPT ![n] = log[n] \o s]
  PROVE  /\ \A m \in Node : Extended(m)
         /\ Len(log'[n]) = Len(log[n]) + Len(s)
<1>1. /\ log \in [Node -> Seq(Entry)]
      /\ \A m \in Node : Len(log[m]) \in Nat /\ Len(s) \in Nat
  BY LenProperties DEF StoreType
<1>2. log'[n] = log[n] \o s /\ \A m \in Node \ {n} : log'[m] = log[m]
  BY <1>1
<1>3. /\ Len(log[n] \o s) = Len(log[n]) + Len(s)
      /\ \A i \in 1..Len(log[n]) : (log[n] \o s)[i] = log[n][i]
  <2>1. log[n] \in Seq(Entry) BY <1>1
  <2>2. /\ Len(log[n] \o s) = Len(log[n]) + Len(s)
        /\ \A i \in 1..Len(log[n]) + Len(s) :
             (log[n] \o s)[i] = IF i <= Len(log[n]) THEN log[n][i]
                                ELSE s[i - Len(log[n])]
    BY <2>1, ConcatProperties
  <2>3. QED BY <1>1, <2>2, SMT
<1>4. Extended(n) BY <1>1, <1>2, <1>3, SMT DEF Extended
<1>5. \A m \in Node \ {n} : Extended(m) BY <1>1, <1>2, SMT DEF Extended
<1>6. QED BY <1>2, <1>3, <1>4, <1>5

\* StoreEntries only extends the log, by the entries that were missing.
LEMMA StoreExtends ==
  ASSUME StoreType, NEW n \in Node, NEW req \in AppendEntriesRequest,
         NEW k \in 0..Len(Missing(n, req)), StoreEntries(n, req, k)
  PROVE  /\ \A m \in Node : Extended(m)
         /\ Accepts(n, req) => Len(log'[n]) = Len(log[n]) + k
<1> DEFINE new == SubSeq(Missing(n, req), 1, k)
<1>1. Missing(n, req) \in Seq(Entry) /\ Len(Missing(n, req)) \in Nat
  BY MissingType, LenProperties
<1>2. \A i \in 1..k : Missing(n, req)[i] \in Entry BY <1>1, ElementOfSeq, SMT
<1>3. new \in Seq(Entry) /\ Len(new) = k BY <1>1, <1>2, SubSeqProperties, SMT
<1>4. \/ ~Accepts(n, req) /\ UNCHANGED log
      \/ log' = [log EXCEPT ![n] = log[n] \o new]
  BY DEF StoreEntries
<1> HIDE DEF new
<1>5. CASE UNCHANGED log /\ ~Accepts(n, req)
  <2>1. \A m \in Node : Len(log[m]) \in Nat
    BY LenProperties DEF StoreType
  <2>2. QED BY <1>5, <2>1, SMT DEF Extended
<1>6. CASE log' = [log EXCEPT ![n] = log[n] \o new]
  BY <1>3, <1>6, ConcatExtends
<1>7. QED BY <1>4, <1>5, <1>6

\* A log that stays the same is extended by nothing.
LEMMA SameExtended ==
  ASSUME StoreType, UNCHANGED log PROVE \A m \in Node : Extended(m)
<1>1. \A m \in Node : Len(log[m]) \in Nat BY LenProperties DEF StoreType
<1>2. QED BY <1>1, SMT DEF Extended

=============================================================================
