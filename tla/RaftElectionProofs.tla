------------------------- MODULE RaftElectionProofs -------------------------
(***************************************************************************)
(* Who becomes leader had the votes of a majority, two leaders of one      *)
(* term have one of two causes, and no node loses its last timer.          *)
(*                                                                         *)
(* That startElection counts right is not inductive: no peer may be        *)
(* counted twice, so ElectionInv follows each request to its one reply     *)
(* and each reply to the tally it is added to, and knows that a reply      *)
(* that grants a vote was preceded by that vote.                           *)
(*                                                                         *)
(* That a timer is left needs that the term of a timer stays within the    *)
(* domain of ticking: no term is larger than the number of elections       *)
(* (TermInv), and the expiries that may still become elections are within  *)
(* the budget of timeouts (BudgetInv).                                     *)
(***************************************************************************)
EXTENDS RaftTypeProofs

\* Zenon proves the steps without arithmetic; the others cite SMT.
USE Zenon

\* A RequestVote request belongs to an election that has neither counted its
\* addressee nor has a reply of it, and there is no second one.
BallotOpen(m) ==
  /\ m.id \in DOMAIN elections
  /\ elections[m.id].node = m.src /\ elections[m.id].term = m.term
  /\ m.dst \notin elections[m.id].voters
  /\ \A r \in rvRep : r.id = m.id => r.src # m.dst
  /\ \A k \in rvReq : k.id = m.id /\ k.dst = m.dst => k = m

\* A reply in flight is not counted yet, is the only one of its sender, and
\* when it grants a vote that vote was given.
ReplyOpen(r) ==
  /\ r.id \in DOMAIN elections
  /\ r.granted =>
       r.src \in VotersOf(elections[r.id].node, elections[r.id].term)
  /\ r.src \notin elections[r.id].voters
  /\ \A s \in rvRep : s.id = r.id /\ s.src = r.src => s = r

\* voteCount is the number of the peers whose votes were counted; a reply is
\* looked at before it is counted.
Tallies(e) ==
  /\ e.voters \subseteq VotersOf(e.node, e.term)
  /\ e.phase = "run" => Cardinality(e.voters) = e.voteCount
  /\ e.phase = "eval" => Cardinality(e.voters) =
                           IF e.repGranted THEN e.voteCount + 1 ELSE e.voteCount
  /\ e.phase = "crown" => Majority(Cardinality(e.voters))

ElectionInv ==
  /\ TypeOK
  /\ \A m \in rvReq : BallotOpen(m)
  /\ \A r \in rvRep : ReplyOpen(r)
  /\ \A id \in DOMAIN elections : Tallies(elections[id])
  /\ LeaderHasMajority

-----------------------------------------------------------------------------
(* Votes are never taken back.                                             *)

\* The voters of a node in a term only become more.
LEMMA VotersGrow ==
  ASSUME votes \subseteq votes'
  PROVE  \A n, t : VotersOf(n, t) \subseteq VotersOf(n, t)'
BY DEF VotersOf

\* A set that contains a majority is one.
LEMMA MajorityGrows ==
  ASSUME NEW S, NEW T, S \subseteq T, IsFiniteSet(T), Majority(Cardinality(S))
  PROVE  Cardinality(T) * 2 > Cardinality(Node)
<1>1. IsFiniteSet(S) /\ Cardinality(S) <= Cardinality(T) BY FS_Subset
<1>2. /\ Cardinality(S) \in Nat /\ Cardinality(T) \in Nat
      /\ Cardinality(Node) \in Nat
  BY <1>1, NodeAssumption, FS_CardinalityType
<1>3. QED BY <1>1, <1>2, SMT DEF Majority

\* So whoever had a majority keeps it, and only Crown makes leaders.
LEMMA MajorityKept ==
  ASSUME LeaderHasMajority, votes \subseteq votes', UNCHANGED leaders
  PROVE  LeaderHasMajority'
<1> SUFFICES ASSUME NEW l \in leaders
             PROVE  Cardinality(VotersOf(l.node, l.elected)') * 2
                      > Cardinality(Node)
  BY DEF LeaderHasMajority
<1>1. Majority(Cardinality(VotersOf(l.node, l.elected)))
  BY DEF LeaderHasMajority, Majority
<1>2. VotersOf(l.node, l.elected) \subseteq VotersOf(l.node, l.elected)'
  BY VotersGrow
<1>3. IsFiniteSet(VotersOf(l.node, l.elected)')
  <2>1. VotersOf(l.node, l.elected)' \subseteq Node BY DEF VotersOf
  <2>2. QED BY <2>1, NodeAssumption, FS_Subset
<1>4. QED BY <1>1, <1>2, <1>3, MajorityGrows

\* A tally stays right when votes are added.
LEMMA TalliesKept ==
  ASSUME NEW e, Tallies(e), votes \subseteq votes'
  PROVE  Tallies(e)'
<1>1. e.voters \subseteq VotersOf(e.node, e.term)' BY VotersGrow DEF Tallies
<1>2. QED BY <1>1 DEF Tallies, Majority

-----------------------------------------------------------------------------
(* Steps that leave the votes alone.                                       *)

\* What a step leaves alone that has nothing to do with elections.
VoteFrame == UNCHANGED <<elections, rvReq, rvRep, votes, leaders>>

\* Such a step keeps the invariant.
LEMMA VoteFrameKeeps ==
  ASSUME ElectionInv, TypeOK', VoteFrame PROVE ElectionInv'
BY DEF ElectionInv, VoteFrame, BallotOpen, ReplyOpen, Tallies, Majority,
       VotersOf, LeaderHasMajority

\* Stop and Resume, the timers, clients, replication and applying are such steps.
LEMMA VoteFrames ==
  ASSUME NEW n,
         \/ Stop(n) \/ Resume(n)
         \/ StartTimer(n)
         \/ \E t \in 0..MaxTimeouts : ExitTimer(n, t) \/ ExpireTimer(n, t)
         \/ CheckDead(n)
         \/ \E c \in Command : Submit(n, c)
         \/ FinishSignal(n)
         \/ \E ep \in loops[n] : HeartbeatLoop(n, ep)
         \/ SendAppendEntries(n) \/ AbandonCall(n)
         \/ HandleAppendEntriesReply(n)
         \/ HandleAppendEntriesRequest(n) \/ FailAppendEntriesRequest(n)
         \/ ReceiveSignal(n) \/ CollectBatch(n) \/ DeliverEntry(n)
  PROVE  VoteFrame
<1> USE DEF VoteFrame, voteVars, histVars
<1>1. CASE Stop(n) \/ Resume(n) \/ StartTimer(n) \/ CheckDead(n)
  BY <1>1 DEF Stop, Resume, StartTimer, CheckDead
<1>2. CASE \E t \in 0..MaxTimeouts : ExitTimer(n, t) \/ ExpireTimer(n, t)
  BY <1>2 DEF ExitTimer, ExpireTimer
<1>3. CASE \/ \E c \in Command : Submit(n, c)
           \/ FinishSignal(n)
           \/ \E ep \in loops[n] : HeartbeatLoop(n, ep)
           \/ SendAppendEntries(n) \/ AbandonCall(n)
  BY <1>3 DEF Submit, FinishSignal, HeartbeatLoop, SendAppendEntries, AbandonCall
<1>4. CASE HandleAppendEntriesReply(n) BY <1>4 DEF HandleAppendEntriesReply
<1>5. CASE HandleAppendEntriesRequest(n) \/ FailAppendEntriesRequest(n)
  BY <1>5 DEF HandleAppendEntriesRequest, FailAppendEntriesRequest
<1>6. CASE ReceiveSignal(n) \/ CollectBatch(n) \/ DeliverEntry(n)
  BY <1>6 DEF ReceiveSignal, CollectBatch, DeliverEntry
<1>7. QED BY <1>1, <1>2, <1>3, <1>4, <1>5, <1>6

\* One election goes on without having counted anybody new.
LEMMA RecordKept ==
  ASSUME ElectionInv, TypeOK', NEW id \in DOMAIN elections, NEW e,
         elections' = [elections EXCEPT ![id] = e],
         e.node = elections[id].node, e.term = elections[id].term,
         e.voters \subseteq elections[id].voters, Tallies(e),
         rvRep' \subseteq rvRep, UNCHANGED <<rvReq, votes>>
  PROVE  /\ \A m \in rvReq' : BallotOpen(m)'
         /\ \A r \in rvRep' : ReplyOpen(r)'
         /\ \A i \in DOMAIN elections' : Tallies(elections[i])'
<1>1. /\ DOMAIN elections' = DOMAIN elections /\ elections'[id] = e
      /\ \A i \in DOMAIN elections : i # id => elections'[i] = elections[i]
  <2>1. elections \in Seq(Election) BY DEF ElectionInv, TypeOK, VoteType
  <2>2. elections = [i \in DOMAIN elections |-> elections[i]]
    BY <2>1, LenProperties, SMT
  <2>3. QED BY <2>2
<1>2. \A i \in DOMAIN elections :
        /\ elections'[i].node = elections[i].node
        /\ elections'[i].term = elections[i].term
        /\ elections'[i].voters \subseteq elections[i].voters
  BY <1>1
<1>3. \A n, t : VotersOf(n, t)' = VotersOf(n, t) BY DEF VotersOf
<1>4. ASSUME NEW m \in rvReq' PROVE BallotOpen(m)'
  <2>1. BallotOpen(m) BY DEF ElectionInv
  <2>2. QED BY <1>1, <1>2, <2>1 DEF BallotOpen
<1>5. ASSUME NEW r \in rvRep' PROVE ReplyOpen(r)'
  <2>1. ReplyOpen(r) BY DEF ElectionInv
  <2>2. QED BY <1>1, <1>2, <1>3, <2>1 DEF ReplyOpen
<1>6. ASSUME NEW i \in DOMAIN elections' PROVE Tallies(elections[i])'
  <2>1. CASE i = id
    <3>1. Tallies(e)' BY TalliesKept
    <3>2. QED BY <1>1, <2>1, <3>1 DEF Tallies
  <2>2. CASE i # id
    <3>1. Tallies(elections[i]) /\ elections'[i] = elections[i]
      BY <1>1, <2>2 DEF ElectionInv
    <3>2. QED BY <1>3, <3>1 DEF Tallies, Majority
  <2>3. QED BY <2>1, <2>2
<1>7. QED BY <1>4, <1>5, <1>6

\* When no leader is made either the invariant is kept.
LEMMA RecordChanged ==
  ASSUME ElectionInv, TypeOK', NEW id \in DOMAIN elections, NEW e,
         elections' = [elections EXCEPT ![id] = e],
         e.node = elections[id].node, e.term = elections[id].term,
         e.voters \subseteq elections[id].voters, Tallies(e),
         rvRep' \subseteq rvRep, UNCHANGED <<rvReq, votes, leaders>>
  PROVE  ElectionInv'
<1>1. LeaderHasMajority' BY MajorityKept DEF ElectionInv
<1>2. /\ \A m \in rvReq' : BallotOpen(m)'
      /\ \A r \in rvRep' : ReplyOpen(r)'
      /\ \A i \in DOMAIN elections' : Tallies(elections[i])'
  BY RecordKept
<1>3. QED BY <1>1, <1>2 DEF ElectionInv

-----------------------------------------------------------------------------
(* The steps of startElection once its requests are out.                   *)

\* startElection returns and forgets what it counted.
LEMMA ReturnKeeps ==
  ASSUME ElectionInv, TypeOK', NEW id \in DOMAIN elections, Return(id),
         UNCHANGED <<rvReq, votes, leaders>>
  PROVE  ElectionInv'
<1> DEFINE e == [elections[id] EXCEPT !.phase = "done", !.voteCount = 0,
                   !.repTerm = 0, !.repGranted = FALSE, !.voters = {}]
<1>1. elections[id] \in Election BY ElectionType DEF ElectionInv, TypeOK
<1>2. /\ e.node = elections[id].node /\ e.term = elections[id].term
      /\ e.voters = {} /\ e.phase = "done"
  BY <1>1 DEF Election
<1>3. elections' = [elections EXCEPT ![id] = e] /\ rvRep' \subseteq rvRep
  BY DEF Return
<1> HIDE DEF e
<1>4. Tallies(e) BY <1>2 DEF Tallies
<1>5. QED BY <1>2, <1>3, <1>4, RecordChanged

\* A phase that counts nothing: the reply under evaluation had a higher term,
\* or becomeFollower or becomeLeader has begun.
LEMMA PhaseKeeps ==
  ASSUME ElectionInv, TypeOK', NEW id \in DOMAIN elections,
         NEW ph \in {"demote", "demoted", "crowned"},
         elections' = [elections EXCEPT ![id].phase = ph],
         UNCHANGED <<rvReq, rvRep, votes, leaders>>
  PROVE  ElectionInv'
<1> DEFINE e == [elections[id] EXCEPT !.phase = ph]
<1>1. elections[id] \in Election BY ElectionType DEF ElectionInv, TypeOK
<1>2. /\ e.node = elections[id].node /\ e.term = elections[id].term
      /\ e.voters = elections[id].voters /\ e.phase = ph
  BY <1>1 DEF Election
<1>3. elections' = [elections EXCEPT ![id] = e] OBVIOUS
<1> HIDE DEF e
<1>4. Tallies(e) BY <1>2 DEF Tallies, ElectionInv
<1>5. QED BY <1>2, <1>3, <1>4, RecordChanged

\* EvaluateVote: a reply that makes the majority, with the votes counted before,
\* is a majority of votes given, and one that does not is added to the count.
LEMMA EvaluateKeeps ==
  ASSUME ElectionInv, TypeOK', NEW id \in DOMAIN elections, EvaluateVote(id)
  PROVE  ElectionInv'
<1> DEFINE e == elections[id]
<1>1. e \in Election /\ Tallies(e) /\ e.phase = "eval"
  BY ElectionType DEF ElectionInv, TypeOK, EvaluateVote
<1>2. /\ e.voteCount \in Nat /\ e.repGranted \in BOOLEAN
      /\ Cardinality(e.voters) =
           IF e.repGranted THEN e.voteCount + 1 ELSE e.voteCount
  BY <1>1 DEF Election, Tallies
<1>3. UNCHANGED <<rvReq, votes, leaders>> BY DEF EvaluateVote, histVars
<1>4. CASE Return(id) BY <1>3, <1>4, ReturnKeeps
<1>5. CASE /\ Verdict(e) = "run" /\ UNCHANGED rvRep
           /\ elections' = [elections EXCEPT ![id] = Tallied(e)]
  <2> DEFINE t == Tallied(e)
  <2>1. /\ t.node = e.node /\ t.term = e.term /\ t.voters = e.voters
        /\ t.phase = "run"
        /\ t.voteCount = IF e.repGranted THEN e.voteCount + 1 ELSE e.voteCount
    BY <1>1 DEF Tallied, Election
  <2> HIDE DEF t
  <2>2. Tallies(t) BY <1>1, <1>2, <2>1 DEF Tallies
  <2>3. elections' = [elections EXCEPT ![id] = t] BY <1>5 DEF t
  <2>4. QED BY <1>3, <1>5, <2>1, <2>2, <2>3, RecordChanged
<1>6. CASE /\ Verdict(e) # "run" /\ UNCHANGED rvRep
           /\ elections' = [elections EXCEPT ![id].phase = Verdict(e)]
  <2>1. CASE Verdict(e) = "demote"
    BY <1>3, <1>6, <2>1, PhaseKeeps
  <2>2. CASE Verdict(e) = "crown"
    <3> DEFINE t == [e EXCEPT !.phase = "crown"]
    <3>1. /\ t.node = e.node /\ t.term = e.term /\ t.voters = e.voters
          /\ t.phase = "crown"
      BY <1>1 DEF Election
    <3>2. Wins(e) BY <2>2 DEF Verdict
    <3>3. Majority(Cardinality(e.voters)) BY <1>2, <3>2 DEF Wins
    <3>4. elections' = [elections EXCEPT ![id] = t] BY <1>6, <2>2
    <3> HIDE DEF t
    <3>5. Tallies(t) BY <1>1, <3>1, <3>3 DEF Tallies
    <3>6. QED BY <1>3, <1>6, <3>1, <3>4, <3>5, RecordChanged
  <2>3. QED BY <1>6, <2>1, <2>2 DEF Verdict
<1>7. QED BY <1>4, <1>5, <1>6 DEF EvaluateVote

\* Crown: the new leader has its majority.
LEMMA CrownKeeps ==
  ASSUME ElectionInv, TypeOK', NEW id \in DOMAIN elections, Crown(id)
  PROVE  ElectionInv'
<1> DEFINE e == elections[id]
           c == [e EXCEPT !.phase = "crowned"]
           l == [node |-> e.node, term |-> currentTerm[e.node],
                 elected |-> e.term]
<1>1. e \in Election /\ Tallies(e) /\ e.phase = "crown"
  BY ElectionType DEF ElectionInv, TypeOK, Crown
<1>2. /\ elections' = [elections EXCEPT ![id].phase = "crowned"]
      /\ UNCHANGED <<rvReq, rvRep, votes>> /\ leaders' = leaders \cup {l}
  BY DEF Crown
<1>3. /\ c.node = e.node /\ c.term = e.term /\ c.voters = e.voters
      /\ c.phase = "crowned"
  BY <1>1 DEF Election
<1>4. elections' = [elections EXCEPT ![id] = c] BY <1>2
<1> HIDE DEF c
<1>5. Tallies(c) BY <1>1, <1>3 DEF Tallies
<1>6. /\ \A m \in rvReq' : BallotOpen(m)'
      /\ \A r \in rvRep' : ReplyOpen(r)'
      /\ \A i \in DOMAIN elections' : Tallies(elections[i])'
  BY <1>2, <1>3, <1>4, <1>5, RecordKept
<1>7. \A n, t : VotersOf(n, t)' = VotersOf(n, t) BY <1>2 DEF VotersOf
<1>8. LeaderHasMajority'
  <2>1. Majority(Cardinality(e.voters)) /\ e.voters \subseteq VotersOf(e.node, e.term)
    BY <1>1 DEF Tallies
  <2>2. IsFiniteSet(VotersOf(e.node, e.term))
    <3>1. VotersOf(e.node, e.term) \subseteq Node BY DEF VotersOf
    <3>2. QED BY <3>1, NodeAssumption, FS_Subset
  <2>3. Cardinality(VotersOf(e.node, e.term)) * 2 > Cardinality(Node)
    BY <2>1, <2>2, MajorityGrows
  <2>4. l.node = e.node /\ l.elected = e.term OBVIOUS
  <2> HIDE DEF l, e
  <2>5. QED BY <1>2, <1>7, <2>3, <2>4 DEF ElectionInv, LeaderHasMajority
<1>9. QED BY <1>6, <1>8 DEF ElectionInv

\* ReceiveVote: the one reply of its sender is looked at, and with it one more
\* vote that was given.
LEMMA LookKeeps ==
  ASSUME ElectionInv, TypeOK', NEW id \in DOMAIN elections,
         elections[id].phase = "run", NEW r \in rvRep, r.id = id,
         elections' = [elections EXCEPT ![id] = Looking(elections[id], r)],
         rvRep' = rvRep \ {r}, UNCHANGED <<rvReq, votes, leaders>>
  PROVE  ElectionInv'
<1> DEFINE e == elections[id]
           f == Looking(e, r)
           V == IF r.granted THEN e.voters \cup {r.src} ELSE e.voters
<1>1. e \in Election /\ Tallies(e) /\ e.voteCount \in Nat
  BY ElectionType DEF ElectionInv, TypeOK, Election
<1>2. /\ f.node = e.node /\ f.term = e.term /\ f.phase = "eval"
      /\ f.voteCount = e.voteCount /\ f.repGranted = r.granted
      /\ f.voters = V
  BY <1>1 DEF Election, Looking
<1>3. ReplyOpen(r) /\ r.granted \in BOOLEAN
  BY DEF ElectionInv, TypeOK, VoteType, RequestVoteReply
<1>4. r.src \notin e.voters /\ (r.granted => r.src \in VotersOf(e.node, e.term))
  BY <1>3 DEF ReplyOpen
<1>5. /\ DOMAIN elections' = DOMAIN elections /\ elections'[id] = f
      /\ \A i \in DOMAIN elections : i # id => elections'[i] = elections[i]
  <2>1. elections \in Seq(Election) BY DEF ElectionInv, TypeOK, VoteType
  <2>2. elections = [i \in DOMAIN elections |-> elections[i]]
    BY <2>1, LenProperties, SMT
  <2> HIDE DEF f
  <2>3. QED BY <2>2 DEF f
<1>6. Tallies(f)
  <2>1. IsFiniteSet(e.voters) /\ Cardinality(e.voters) = e.voteCount
    <3>1. e.voters \subseteq Node BY <1>1 DEF Election
    <3>2. QED BY <1>1, <3>1, NodeAssumption, FS_Subset DEF Tallies
  <2>2. Cardinality(e.voters \cup {r.src}) = e.voteCount + 1
    BY <1>4, <2>1, FS_AddElement
  <2>3. Cardinality(V) = IF r.granted THEN e.voteCount + 1 ELSE e.voteCount
    BY <2>1, <2>2
  <2>4. V \subseteq VotersOf(e.node, e.term) BY <1>1, <1>4 DEF Tallies
  <2> HIDE DEF V, f
  <2>5. QED BY <1>2, <2>3, <2>4 DEF Tallies
<1>7. /\ V \subseteq e.voters \cup {r.src}
      /\ elections'[id].voters = V /\ elections'[id].node = e.node
      /\ elections'[id].term = e.term
  BY <1>2, <1>5
<1> HIDE DEF f, V
<1>8. \A n, t : VotersOf(n, t)' = VotersOf(n, t) BY DEF VotersOf
<1>9. ASSUME NEW m \in rvReq' PROVE BallotOpen(m)'
  <2>1. BallotOpen(m) BY DEF ElectionInv
  <2>2. CASE m.id # id BY <1>5, <2>1, <2>2 DEF BallotOpen
  <2>3. CASE m.id = id
    <3>1. m.dst \notin V BY <1>7, <2>1, <2>3 DEF BallotOpen
    <3>2. QED BY <1>5, <1>7, <2>1, <2>3, <3>1 DEF BallotOpen
  <2>4. QED BY <2>2, <2>3
<1>10. ASSUME NEW s \in rvRep' PROVE ReplyOpen(s)'
  <2>1. ReplyOpen(s) BY DEF ElectionInv
  <2>2. CASE s.id # id BY <1>5, <1>8, <2>1, <2>2 DEF ReplyOpen
  <2>3. CASE s.id = id
    <3>1. s.src \notin V BY <1>7, <2>1, <2>3 DEF ReplyOpen
    <3>2. QED BY <1>5, <1>7, <1>8, <2>1, <2>3, <3>1 DEF ReplyOpen
  <2>4. QED BY <2>2, <2>3
<1>11. ASSUME NEW i \in DOMAIN elections' PROVE Tallies(elections[i])'
  <2>1. Tallies(elections'[i]) BY <1>5, <1>6 DEF ElectionInv
  <2>2. QED BY <1>8, <2>1 DEF Tallies, Majority
<1>12. LeaderHasMajority' BY MajorityKept DEF ElectionInv
<1>13. QED BY <1>9, <1>10, <1>11, <1>12 DEF ElectionInv

\* All that startElection does once its requests are out.
LEMMA ElectionStepKeeps ==
  ASSUME ElectionInv, TypeOK', NEW id \in DOMAIN elections,
         \/ ElectionTimeout(id) \/ ReceiveVote(id) \/ EvaluateVote(id)
         \/ Demote(id) \/ FinishDemotion(id)
         \/ Crown(id) \/ FinishCoronation(id)
  PROVE  ElectionInv'
<1>1. CASE ElectionTimeout(id) \/ FinishDemotion(id) \/ FinishCoronation(id)
  BY <1>1, ReturnKeeps
  DEF ElectionTimeout, FinishDemotion, FinishCoronation, histVars
<1>2. CASE ReceiveVote(id)
  <2>1. UNCHANGED <<rvReq, votes, leaders>> /\ elections[id].phase = "run"
    BY <1>2 DEF ReceiveVote, histVars
  <2>2. PICK r \in rvRep :
          /\ r.id = id
          /\ \/ Return(id)
             \/ /\ elections' = [elections EXCEPT ![id] = Looking(elections[id], r)]
                /\ rvRep' = rvRep \ {r}
    BY <1>2 DEF ReceiveVote
  <2>3. QED BY <2>1, <2>2, ReturnKeeps, LookKeeps
<1>3. CASE EvaluateVote(id) BY <1>3, EvaluateKeeps
<1>4. CASE Demote(id) BY <1>4, PhaseKeeps DEF Demote, histVars
<1>5. CASE Crown(id) BY <1>5, CrownKeeps
<1>6. QED BY <1>1, <1>2, <1>3, <1>4, <1>5

-----------------------------------------------------------------------------
(* The steps that give votes.                                              *)

\* StartElection: the new election has counted the candidate's own vote, and
\* one request for each peer is out.
LEMMA StartElectionKeeps ==
  ASSUME ElectionInv, TypeOK', NEW n \in Node, StartElection(n)
  PROVE  ElectionInv'
<1>a. PICK term : term = currentTerm[n] + 1 OBVIOUS
<1>b. PICK id : id = Len(elections) + 1 OBVIOUS
<1>1. PICK ph \in {"run", "failed"} :
        elections' = Append(elections, NewElection(n, term, ph))
  BY <1>a DEF StartElection
<1> DEFINE e == NewElection(n, term, ph)
<1>2. /\ votes' = votes \cup {[voter |-> n, term |-> term, candidate |-> n]}
      /\ UNCHANGED <<rvRep, leaders>>
      /\ \A m \in rvReq' : \/ m \in rvReq
                           \/ \E p \in Peers(n) : m = Ballot(n, id, p, term)
  BY <1>a, <1>b DEF StartElection
<1>3. /\ e.node = n /\ e.term = term /\ e.voters = {n} /\ e.voteCount = 1
      /\ e.phase = ph
  BY DEF NewElection
<1>4. elections \in Seq(Election) /\ DOMAIN elections = 1..Len(elections)
  BY LenProperties DEF ElectionInv, TypeOK, VoteType
<1>5. e \in Election
  <2>1. term \in Nat BY <1>a, SMT DEF ElectionInv, TypeOK, NodeType
  <2>2. QED BY <2>1 DEF NewElection, Election
<1>6. \A p \in Peers(n) :
        LET m == Ballot(n, id, p, term)
        IN  m.id = id /\ m.src = n /\ m.dst = p /\ m.term = term /\ p # n
  BY DEF Ballot, Peers
<1> HIDE DEF e
<1>7. /\ DOMAIN elections' = DOMAIN elections \cup {id} /\ elections'[id] = e
      /\ id \notin DOMAIN elections
      /\ \A i \in DOMAIN elections : elections'[i] = elections[i]
  <2>1. Len(elections) \in Nat BY <1>4, LenProperties
  <2>2. QED BY <1>1, <1>4, <1>5, <1>b, <2>1, AppendProperties, SMT DEF e
<1>8. votes \subseteq votes' BY <1>2
<1>9. ASSUME NEW m \in rvReq' PROVE BallotOpen(m)'
  <2>1. CASE m \in rvReq
    <3>1. BallotOpen(m) BY <2>1 DEF ElectionInv
    <3>2. ASSUME NEW k \in rvReq', k.id = m.id, k.dst = m.dst PROVE k = m
      <4>1. k \in rvReq
        <5>1. m.id # id BY <1>7, <3>1 DEF BallotOpen
        <5>2. k.id # id BY <3>2, <5>1
        <5>3. \A p \in Peers(n) : Ballot(n, id, p, term).id = id BY <1>6
        <5>4. QED BY <1>2, <3>2, <5>2, <5>3
      <4>2. QED BY <3>1, <3>2, <4>1 DEF BallotOpen
    <3>3. QED BY <1>2, <1>7, <3>1, <3>2 DEF BallotOpen
  <2>2. ASSUME NEW p \in Peers(n), m = Ballot(n, id, p, term)
        PROVE  BallotOpen(m)'
    <3>1. m.id = id /\ m.src = n /\ m.dst = p /\ m.term = term /\ p # n
      BY <1>6, <2>2
    <3>2. ASSUME NEW k \in rvReq', k.id = m.id, k.dst = m.dst PROVE k = m
      <4>1. k \notin rvReq BY <1>7, <3>1, <3>2 DEF ElectionInv, BallotOpen
      <4>2. PICK q \in Peers(n) : k = Ballot(n, id, q, term) BY <1>2, <4>1
      <4>3. q = p BY <1>6, <3>1, <3>2, <4>2
      <4>4. QED BY <2>2, <4>2, <4>3
    <3>3. \A r \in rvRep' : r.id # id
      BY <1>2, <1>7 DEF ElectionInv, ReplyOpen
    <3>4. QED BY <1>3, <1>7, <3>1, <3>2, <3>3 DEF BallotOpen
  <2>3. QED BY <1>2, <2>1, <2>2
<1>10. ASSUME NEW r \in rvRep' PROVE ReplyOpen(r)'
  <2>1. ReplyOpen(r) /\ elections'[r.id] = elections[r.id]
    BY <1>2, <1>7 DEF ElectionInv, ReplyOpen
  <2>2. \A m, t : VotersOf(m, t) \subseteq VotersOf(m, t)' BY <1>8, VotersGrow
  <2>3. QED BY <1>2, <1>7, <2>1, <2>2 DEF ReplyOpen
<1>11. ASSUME NEW i \in DOMAIN elections' PROVE Tallies(elections[i])'
  <2>1. CASE i = id
    <3>1. n \in VotersOf(n, term)' BY <1>2 DEF VotersOf
    <3>2. Cardinality({n}) = 1 BY FS_Singleton
    <3>3. QED BY <1>3, <1>7, <2>1, <3>1, <3>2 DEF Tallies
  <2>2. CASE i \in DOMAIN elections
    <3>1. PICK f : f = elections[i] OBVIOUS
    <3>2. Tallies(f)' BY <1>8, <2>2, <3>1, TalliesKept DEF ElectionInv
    <3>3. elections'[i] = f BY <1>7, <2>2, <3>1
    <3>4. QED BY <3>2, <3>3 DEF Tallies
  <2>3. QED BY <1>7, <2>1, <2>2
<1>12. LeaderHasMajority' BY <1>2, <1>8, MajorityKept DEF ElectionInv
<1>13. QED BY <1>9, <1>10, <1>11, <1>12 DEF ElectionInv

\* HandleRequestVoteRequest: the request is used up, and a reply that grants
\* the vote follows it.
LEMMA GrantKeeps ==
  ASSUME ElectionInv, TypeOK', NEW n \in Node, HandleRequestVoteRequest(n)
  PROVE  ElectionInv'
<1>1. PICK m \in rvReq : HandleRequestVoteRequest(n)!(m)
  BY DEF HandleRequestVoteRequest
<1> DEFINE new == [id |-> m.id, src |-> n, term |-> currentTerm'[n],
                   granted |-> Grants(n, m)]
           vote == [voter |-> n, term |-> m.term, candidate |-> m.src]
<1>2. /\ m.dst = n /\ rvReq' = rvReq \ {m} /\ UNCHANGED <<elections, leaders>>
      /\ votes \subseteq votes'
      /\ rvRep' = rvRep \/ (rvRep' = rvRep \cup {new} /\ state[n] # "Dead")
      /\ state[n] # "Dead" /\ Grants(n, m) => vote \in votes'
  BY <1>1
<1>3. BallotOpen(m) BY DEF ElectionInv
<1>4. new.id = m.id /\ new.src = n /\ new.granted = Grants(n, m) OBVIOUS
<1>5. rvRep' = rvRep \cup {new} => (new.granted => vote \in votes') \/ rvRep' = rvRep
  BY <1>2, <1>4
<1> HIDE DEF new
<1>6. ASSUME NEW k \in rvReq' PROVE BallotOpen(k)'
  <2>1. BallotOpen(k) /\ k # m BY <1>2 DEF ElectionInv
  <2>2. ~(k.id = m.id /\ k.dst = n) BY <1>2, <1>3, <2>1 DEF BallotOpen
  <2>3. \A r \in rvRep' : r.id = k.id => r.src # k.dst
    BY <1>2, <1>4, <2>1, <2>2 DEF BallotOpen
  <2>4. QED BY <1>2, <2>1, <2>3 DEF BallotOpen
<1>7. ASSUME NEW r \in rvRep' PROVE ReplyOpen(r)'
  <2>1. \A p, t : VotersOf(p, t) \subseteq VotersOf(p, t)' BY <1>2, VotersGrow
  <2>2. \A s \in rvRep : ~(s.id = m.id /\ s.src = n)
    BY <1>2, <1>3 DEF BallotOpen
  <2>3. CASE r \in rvRep
    <3>1. ReplyOpen(r) BY <2>3 DEF ElectionInv
    <3>2. \A s \in rvRep' : s.id = r.id /\ s.src = r.src => s = r
      BY <1>2, <1>4, <2>2, <2>3, <3>1 DEF ReplyOpen
    <3>3. QED BY <1>2, <2>1, <3>1, <3>2 DEF ReplyOpen
  <2>4. CASE r = new /\ r \notin rvRep
    <3>1. r.granted => n \in VotersOf(m.src, m.term)'
      BY <1>2, <1>5, <2>4 DEF VotersOf
    <3>2. \A s \in rvRep' : s.id = r.id /\ s.src = r.src => s = r
      BY <1>2, <1>4, <2>2, <2>4
    <3>3. QED BY <1>2, <1>3, <1>4, <2>4, <3>1, <3>2 DEF BallotOpen, ReplyOpen
  <2>5. QED BY <1>2, <2>3, <2>4
<1>8. ASSUME NEW i \in DOMAIN elections' PROVE Tallies(elections[i])'
  <2>1. PICK f : f = elections[i] OBVIOUS
  <2>2. Tallies(f)' BY <1>2, <2>1, TalliesKept DEF ElectionInv
  <2>3. QED BY <1>2, <2>1, <2>2 DEF Tallies
<1>9. LeaderHasMajority' BY <1>2, MajorityKept DEF ElectionInv
<1>10. QED BY <1>6, <1>7, <1>8, <1>9 DEF ElectionInv

-----------------------------------------------------------------------------
(* The invariant and what follows from it.                                 *)

\* Every step of every node keeps the invariant.
LEMMA NextElection == ElectionInv /\ [Next]_vars => ElectionInv'
<1> SUFFICES ASSUME ElectionInv, [Next]_vars PROVE ElectionInv'
  OBVIOUS
<1>0. TypeOK' BY NextType DEF ElectionInv
<1>1. CASE UNCHANGED vars
  <2>1. VoteFrame BY <1>1 DEF vars, VoteFrame, voteVars, histVars
  <2>2. QED BY <1>0, <2>1, VoteFrameKeeps
<1>2. ASSUME NEW n \in Node,
             \/ Stop(n) \/ Resume(n)
             \/ StartTimer(n)
             \/ \E t \in 0..MaxTimeouts : ExitTimer(n, t) \/ ExpireTimer(n, t)
             \/ CheckDead(n) \/ StartElection(n)
             \/ HandleRequestVoteRequest(n)
             \/ \E c \in Command : Submit(n, c)
             \/ FinishSignal(n)
             \/ \E ep \in loops[n] : HeartbeatLoop(n, ep)
             \/ SendAppendEntries(n) \/ AbandonCall(n)
             \/ HandleAppendEntriesReply(n)
             \/ HandleAppendEntriesRequest(n) \/ FailAppendEntriesRequest(n)
             \/ ReceiveSignal(n) \/ CollectBatch(n) \/ DeliverEntry(n)
      PROVE  ElectionInv'
  BY <1>0, <1>2, VoteFrames, VoteFrameKeeps, StartElectionKeeps, GrantKeeps
<1>3. ASSUME NEW id \in DOMAIN elections,
             \/ ElectionTimeout(id) \/ ReceiveVote(id) \/ EvaluateVote(id)
             \/ Demote(id) \/ FinishDemotion(id)
             \/ Crown(id) \/ FinishCoronation(id)
      PROVE  ElectionInv'
  BY <1>0, <1>3, ElectionStepKeeps
<1>4. QED BY <1>1, <1>2, <1>3 DEF Next

\* The invariant holds in every reachable state.
THEOREM ElectionInvariant == Spec => []ElectionInv
<1>1. Init => ElectionInv
  <2> SUFFICES ASSUME Init PROVE ElectionInv OBVIOUS
  <2>1. TypeOK BY InitType
  <2>2. DOMAIN elections = {}
    <3>1. elections = <<>> BY DEF Init
    <3>2. QED BY <3>1, SMT
  <2>3. QED BY <2>1, <2>2 DEF Init, ElectionInv, LeaderHasMajority
<1>2. QED BY <1>1, NextElection, PTL DEF Spec

\* startElection, HandleRequestVoteRequest: in a cluster of any size, whoever
\* becomes leader was granted a majority's votes of one of its elections,
\* however requests and replies are lost, late or overtaken and whatever the
\* node has become while startElection ran without the lock.
THEOREM LeadersAreElected == Spec => []LeaderHasMajority
<1>1. ElectionInv => LeaderHasMajority BY DEF ElectionInv
<1>2. QED BY <1>1, ElectionInvariant, PTL

\* Two majorities of one term share a voter: two leaders of a term are the work
\* of a double vote, or of votes that becomeLeader counted in another term.
LEMMA MajoritiesMeet == TypeOK /\ LeaderHasMajority => TwoLeadersHaveACause
<1> SUFFICES ASSUME TypeOK, LeaderHasMajority,
                    NEW l \in leaders, NEW m \in leaders,
                    l.term = m.term, l.node # m.node,
                    ~Usurper(l), ~Usurper(m)
             PROVE  DoubleVote(l.term)
  BY DEF TwoLeadersHaveACause
<1> DEFINE V == VotersOf(l.node, l.elected)
           W == VotersOf(m.node, m.elected)
<1>1. V \subseteq Node /\ W \subseteq Node BY DEF VotersOf
<1>2. Cardinality(V) * 2 > Cardinality(Node) /\ Cardinality(W) * 2 > Cardinality(Node)
  BY DEF LeaderHasMajority
<1>3. V \cap W # {}
  <2> HIDE DEF V, W
  <2>1. IsFiniteSet(V) /\ IsFiniteSet(W) BY <1>1, NodeAssumption, FS_Subset
  <2>2. /\ Cardinality(V) \in Nat /\ Cardinality(W) \in Nat
        /\ Cardinality(Node) \in Nat
    BY <2>1, NodeAssumption, FS_CardinalityType
  <2>3. Cardinality(V) + Cardinality(W) > Cardinality(Node)
    BY <1>2, <2>2, SMT
  <2>4. QED BY <1>1, <2>3, NodeAssumption, FS_MajoritiesIntersect
<1>4. PICK v : v \in V /\ v \in W BY <1>3
<1>5. /\ [voter |-> v, term |-> l.elected, candidate |-> l.node] \in votes
      /\ [voter |-> v, term |-> m.elected, candidate |-> m.node] \in votes
  BY <1>4 DEF VotersOf
<1>6. l.elected = l.term /\ m.elected = l.term BY DEF Usurper
<1>7. QED BY <1>5, <1>6 DEF DoubleVote

\* So in a cluster of any size no interleaving of elections, timeouts and late
\* replies makes two leaders of one term in any other way.
THEOREM SplitsHaveACause == Spec => []TwoLeadersHaveACause
<1>1. ElectionInv => TwoLeadersHaveACause BY MajoritiesMeet DEF ElectionInv
<1>2. QED BY <1>1, ElectionInvariant, PTL

-----------------------------------------------------------------------------
(* Terms come from elections, and elections from expired timers: no term is *)
(* above the number of elections, which with the expiries that may still    *)
(* become elections is bounded by the timeouts.                            *)

\* Term t is 0, or the term of a node, a message or a reply looked at.
Seen(t) ==
  \/ t = 0
  \/ \E n \in Node : t = currentTerm[n]
  \/ \E m \in rvReq : t = m.term
  \/ \E r \in rvRep : t = r.term
  \/ \E c \in waiting : t = c.req.term
  \/ \E a \in stalled \cup answered : t = a.term
  \/ \E id \in DOMAIN elections : t = elections[id].repTerm

TermInv == TypeOK /\ \A t : Seen(t) => t <= Len(elections)

\* A step that makes no election and invents no term.
NoNewTerm ==
  /\ Len(elections') = Len(elections)
  /\ \A t : Seen(t)' => Seen(t)

\* Such a step keeps the terms below the number of elections.
LEMMA NoNewTermKeeps == ASSUME TermInv, TypeOK', NoNewTerm PROVE TermInv'
BY DEF TermInv, NoNewTerm

\* It is enough to look at what the step changes.
LEMMA OldTerms ==
  ASSUME \A n \in Node : Seen(currentTerm'[n]),
         \A m \in rvReq' : Seen(m.term),
         \A r \in rvRep' : Seen(r.term),
         \A c \in waiting' : Seen(c.req.term),
         \A a \in stalled' \cup answered' : Seen(a.term),
         \A id \in DOMAIN elections' : Seen(elections'[id].repTerm),
         Len(elections') = Len(elections)
  PROVE  NoNewTerm
<1> SUFFICES ASSUME NEW t, Seen(t)' PROVE Seen(t) BY DEF NoNewTerm
<1>1. \/ t = 0
      \/ \E n \in Node : t = currentTerm'[n]
      \/ \E m \in rvReq' : t = m.term
      \/ \E r \in rvRep' : t = r.term
      \/ \E c \in waiting' : t = c.req.term
      \/ \E a \in stalled' \cup answered' : t = a.term
      \/ \E id \in DOMAIN elections' : t = elections'[id].repTerm
  BY DEF Seen
<1>2. CASE t = 0 BY <1>2 DEF Seen
<1>3. QED BY <1>1, <1>2

\* What is seen of the variables of the elections, of the calls, of the terms.
LEMMA SeenNow ==
  /\ Seen(0)
  /\ \A n \in Node : Seen(currentTerm[n])
  /\ \A m \in rvReq : Seen(m.term)
  /\ \A r \in rvRep : Seen(r.term)
  /\ \A c \in waiting : Seen(c.req.term)
  /\ \A a \in stalled \cup answered : Seen(a.term)
  /\ \A id \in DOMAIN elections : Seen(elections[id].repTerm)
BY DEF Seen

\* The term of a node that follows somebody.
LEMMA FollowedTerm ==
  ASSUME NodeType, NEW n \in Node, NEW t, Seen(t),
         \/ UNCHANGED currentTerm
         \/ currentTerm' = [currentTerm EXCEPT ![n] = t]
  PROVE  \A m \in Node : Seen(currentTerm'[m])
<1>1. currentTerm \in [Node -> Nat] BY DEF NodeType
<1>2. \A m \in Node : currentTerm'[m] = currentTerm[m] \/ currentTerm'[m] = t
  BY <1>1
<1>3. QED BY <1>2, SeenNow

\* What a change of one record leaves of the elections.
LEMMA OneElection ==
  ASSUME VoteType, VoteType', NEW id \in DOMAIN elections, NEW e,
         elections' = [elections EXCEPT ![id] = e]
  PROVE  /\ Len(elections') = Len(elections)
         /\ DOMAIN elections' = DOMAIN elections /\ elections'[id] = e
         /\ \A i \in DOMAIN elections : i # id => elections'[i] = elections[i]
<1>1. /\ elections \in [1..Len(elections) -> Election]
      /\ Len(elections) \in Nat /\ DOMAIN elections = 1..Len(elections)
      /\ Len(elections') \in Nat /\ DOMAIN elections' = 1..Len(elections')
  BY LenProperties DEF VoteType
<1>2. /\ DOMAIN elections' = DOMAIN elections /\ elections'[id] = e
      /\ \A i \in DOMAIN elections : i # id => elections'[i] = elections[i]
  BY <1>1
<1>3. Len(elections') = Len(elections) BY <1>1, <1>2, SMT
<1>4. QED BY <1>2, <1>3

\* The steps that concern neither terms nor elections.
LEMMA QuietTerms ==
  ASSUME UNCHANGED <<currentTerm, rvReq, rvRep, elections, waiting, stalled,
                     answered>>
  PROVE  NoNewTerm
BY OldTerms, SeenNow

\* The steps of one node other than StartElection.
LEMMA NodeTermSteps ==
  ASSUME TypeOK, NEW n \in Node,
         \/ Stop(n) \/ Resume(n) \/ StartTimer(n)
         \/ \E t \in 0..MaxTimeouts : ExitTimer(n, t) \/ ExpireTimer(n, t)
         \/ CheckDead(n)
         \/ \E c \in Command : Submit(n, c)
         \/ \E ep \in loops[n] : HeartbeatLoop(n, ep)
         \/ ReceiveSignal(n) \/ CollectBatch(n) \/ DeliverEntry(n)
         \/ FinishSignal(n) \/ SendAppendEntries(n) \/ AbandonCall(n)
  PROVE  NoNewTerm
<1>0. NodeType BY DEF TypeOK
<1>1. CASE Resume(n)
  <2>1. /\ currentTerm' = [currentTerm EXCEPT ![n] = currentTerm[n]]
        /\ UNCHANGED <<rvReq, rvRep, elections, waiting, stalled, answered>>
    BY <1>1 DEF Resume, BecomeFollower, voteVars, netVars, callVars
  <2>2. \A m \in Node : Seen(currentTerm'[m])
    BY <1>0, <2>1, SeenNow, FollowedTerm
  <2>3. QED BY <2>1, <2>2, SeenNow, OldTerms
<1>2. CASE FinishSignal(n)
  <2>1. /\ stalled' \cup answered' \subseteq stalled \cup answered
        /\ UNCHANGED <<currentTerm, rvReq, rvRep, elections, waiting>>
    BY <1>2 DEF FinishSignal, voteVars, nodeVars
  <2>2. QED BY <2>1, SeenNow, OldTerms
<1>3. CASE SendAppendEntries(n)
  <2>1. PICK b \in building : SendAppendEntries(n)!(b)
    BY <1>3 DEF SendAppendEntries
  <2> DEFINE d == [src |-> n, dst |-> b.dst, ep |-> b.ep, saved |-> b.saved,
                   req |-> HeartbeatRequest(n, b.dst)]
  <2>2. /\ waiting' = waiting \cup {d}
        /\ UNCHANGED <<currentTerm, rvReq, rvRep, elections, stalled, answered>>
    BY <2>1 DEF voteVars, nodeVars
  <2>3. d.req.term = currentTerm[n] BY DEF HeartbeatRequest
  <2> HIDE DEF d
  <2>4. \A c \in waiting' : Seen(c.req.term) BY <2>2, <2>3, SeenNow
  <2>5. QED BY <2>2, <2>4, SeenNow, OldTerms
<1>4. CASE AbandonCall(n)
  <2>1. \A c \in waiting : [c EXCEPT !.ep = 0, !.saved = 0].req = c.req
    BY DEF TypeOK, NetType, Call
  <2>2. \A c \in waiting' : \E d \in waiting : c.req = d.req
    BY <1>4, <2>1 DEF AbandonCall
  <2>3. /\ stalled' \cup answered' \subseteq stalled \cup answered
        /\ UNCHANGED <<currentTerm, rvReq, rvRep, elections>>
    BY <1>4 DEF AbandonCall, voteVars, nodeVars
  <2>4. \A c \in waiting' : Seen(c.req.term) BY <2>2, SeenNow
  <2>5. QED BY <2>3, <2>4, SeenNow, OldTerms
<1>5. CASE \/ Stop(n) \/ StartTimer(n)
           \/ \E t \in 0..MaxTimeouts : ExitTimer(n, t) \/ ExpireTimer(n, t)
           \/ CheckDead(n)
           \/ \E c \in Command : Submit(n, c)
           \/ \E ep \in loops[n] : HeartbeatLoop(n, ep)
           \/ ReceiveSignal(n) \/ CollectBatch(n) \/ DeliverEntry(n)
  <2>1. UNCHANGED <<currentTerm, rvReq, rvRep, elections, waiting, stalled,
                    answered>>
    BY <1>5 DEF Stop, StartTimer, ExitTimer, ExpireTimer, CheckDead, Submit,
       HeartbeatLoop, ReceiveSignal, CollectBatch, DeliverEntry, voteVars,
       nodeVars, netVars, callVars
  <2>2. QED BY <2>1, QuietTerms
<1>6. QED BY <1>1, <1>2, <1>3, <1>4, <1>5

\* The handlers of the messages: whoever follows a term was told of it, and
\* replies with the term it has by then.
LEMMA HandlerTermSteps ==
  ASSUME TypeOK, NEW n \in Node,
         \/ HandleRequestVoteRequest(n) \/ HandleAppendEntriesReply(n)
         \/ HandleAppendEntriesRequest(n) \/ FailAppendEntriesRequest(n)
  PROVE  NoNewTerm
<1>0. NodeType BY DEF TypeOK
<1>1. CASE HandleRequestVoteRequest(n)
  <2>1. PICK m \in rvReq : HandleRequestVoteRequest(n)!(m)
    BY <1>1 DEF HandleRequestVoteRequest
  <2> DEFINE new == [id |-> m.id, src |-> n, term |-> currentTerm'[n],
                     granted |-> Grants(n, m)]
  <2>2. /\ rvReq' \subseteq rvReq /\ rvRep' \subseteq rvRep \cup {new}
        /\ UNCHANGED <<elections, waiting, stalled, answered>>
    BY <2>1 DEF netVars, callVars
  <2>3. \/ UNCHANGED currentTerm
        \/ currentTerm' = [currentTerm EXCEPT ![n] = m.term]
    BY <2>1 DEF nodeVars
  <2>4. \A k \in Node : Seen(currentTerm'[k])
    BY <1>0, <2>3, SeenNow, FollowedTerm
  <2>5. new.term = currentTerm'[n] OBVIOUS
  <2> HIDE DEF new
  <2>6. \A r \in rvRep' : Seen(r.term) BY <2>2, <2>4, <2>5, SeenNow
  <2>7. QED BY <2>2, <2>4, <2>6, SeenNow, OldTerms
<1>2. CASE HandleAppendEntriesReply(n)
  <2>1. PICK a \in answered : HandleAppendEntriesReply(n)!(a)
    BY <1>2 DEF HandleAppendEntriesReply
  <2>2. /\ answered' \subseteq answered
        /\ UNCHANGED <<rvReq, rvRep, elections, waiting, stalled>>
    BY <2>1 DEF voteVars
  <2>3. \/ UNCHANGED currentTerm
        \/ currentTerm' = [currentTerm EXCEPT ![n] = a.term]
    BY <2>1 DEF nodeVars, BecomeFollower
  <2>4. \A k \in Node : Seen(currentTerm'[k])
    BY <1>0, <2>3, SeenNow, FollowedTerm
  <2>5. QED BY <2>2, <2>4, SeenNow, OldTerms
<1>3. CASE HandleAppendEntriesRequest(n)
  <2>1. PICK c \in waiting : HandleAppendEntriesRequest(n)!(c)
    BY <1>3 DEF HandleAppendEntriesRequest
  <2> DEFINE new == [call |-> c, term |-> currentTerm'[n],
                     success |-> Accepts(n, c.req)]
  <2>2. /\ waiting' \subseteq waiting /\ UNCHANGED <<rvReq, rvRep, elections>>
    BY <2>1 DEF voteVars
  <2>3. \/ UNCHANGED currentTerm
        \/ currentTerm' = [currentTerm EXCEPT ![n] = c.req.term]
    BY <2>1 DEF nodeVars, FollowLeader, BecomeFollower
  <2>4. stalled' \cup answered' \subseteq stalled \cup answered \cup {new}
    <3>1. UNCHANGED <<answered, stalled>> \/ Reply(n, c) BY <2>1
    <3>2. QED BY <3>1 DEF Reply
  <2>5. \A k \in Node : Seen(currentTerm'[k])
    BY <1>0, <2>3, SeenNow, FollowedTerm
  <2>6. new.term = currentTerm'[n] OBVIOUS
  <2> HIDE DEF new
  <2>7. \A a \in stalled' \cup answered' : Seen(a.term)
    BY <2>4, <2>5, <2>6, SeenNow
  <2>8. QED BY <2>2, <2>5, <2>7, SeenNow, OldTerms
<1>4. CASE FailAppendEntriesRequest(n)
  <2>1. PICK c \in waiting : FailAppendEntriesRequest(n)!(c)
    BY <1>4 DEF FailAppendEntriesRequest
  <2>2. /\ waiting' \subseteq waiting
        /\ UNCHANGED <<rvReq, rvRep, elections, stalled, answered>>
    BY <2>1 DEF voteVars
  <2>3. \/ UNCHANGED currentTerm
        \/ currentTerm' = [currentTerm EXCEPT ![n] = c.req.term]
    BY <2>1 DEF nodeVars, FollowLeader, BecomeFollower
  <2>4. \A k \in Node : Seen(currentTerm'[k])
    BY <1>0, <2>3, SeenNow, FollowedTerm
  <2>5. QED BY <2>2, <2>4, SeenNow, OldTerms
<1>5. QED BY <1>1, <1>2, <1>3, <1>4

\* The steps of startElection: it looks at the term of a reply, and follows it.
LEMMA ElectionTermSteps ==
  ASSUME TypeOK, TypeOK', NEW id \in DOMAIN elections,
         \/ ElectionTimeout(id) \/ ReceiveVote(id) \/ EvaluateVote(id)
         \/ Demote(id) \/ FinishDemotion(id)
         \/ Crown(id) \/ FinishCoronation(id)
  PROVE  NoNewTerm
<1> DEFINE e == elections[id]
<1>0. /\ NodeType /\ VoteType /\ VoteType'
      /\ e \in Election /\ e.node \in Node
  BY ElectionType DEF TypeOK
<1>1. UNCHANGED <<rvReq, waiting, stalled, answered>>
  BY DEF ElectionTimeout, ReceiveVote, EvaluateVote, Demote, FinishDemotion,
         Crown, FinishCoronation, netVars, callVars
<1>2. ASSUME NEW f, elections' = [elections EXCEPT ![id] = f],
             Seen(f.repTerm), rvRep' \subseteq rvRep,
             \A n \in Node : Seen(currentTerm'[n])
      PROVE  NoNewTerm
  <2>1. /\ Len(elections') = Len(elections) /\ DOMAIN elections' = DOMAIN elections
        /\ elections'[id] = f
        /\ \A i \in DOMAIN elections : i # id => elections'[i] = elections[i]
    BY <1>0, <1>2, OneElection
  <2>2. \A i \in DOMAIN elections' : Seen(elections'[i].repTerm)
    BY <1>2, <2>1, SeenNow
  <2>3. QED BY <1>1, <1>2, <2>1, <2>2, SeenNow, OldTerms
<1>3. ASSUME Return(id), UNCHANGED currentTerm PROVE NoNewTerm
  <2> DEFINE f == [e EXCEPT !.phase = "done", !.voteCount = 0, !.repTerm = 0,
                            !.repGranted = FALSE, !.voters = {}]
  <2>1. elections' = [elections EXCEPT ![id] = f] /\ rvRep' \subseteq rvRep
    BY <1>3 DEF Return
  <2>2. f.repTerm = 0 BY <1>0 DEF Election
  <2> HIDE DEF f
  <2>3. QED BY <1>2, <1>3, <2>1, <2>2, SeenNow
<1>4. ASSUME NEW ph, elections' = [elections EXCEPT ![id].phase = ph],
             UNCHANGED rvRep, \A n \in Node : Seen(currentTerm'[n])
      PROVE  NoNewTerm
  <2> DEFINE f == [e EXCEPT !.phase = ph]
  <2>1. elections' = [elections EXCEPT ![id] = f] /\ rvRep' \subseteq rvRep
    BY <1>4
  <2>2. f.repTerm = e.repTerm BY <1>0 DEF Election
  <2> HIDE DEF f
  <2>3. QED BY <1>2, <1>4, <2>1, <2>2, SeenNow
<1>5. CASE ElectionTimeout(id) \/ FinishDemotion(id) \/ FinishCoronation(id)
  BY <1>3, <1>5
  DEF ElectionTimeout, FinishDemotion, FinishCoronation, nodeVars
<1>6. CASE ReceiveVote(id)
  <2>1. UNCHANGED currentTerm BY <1>6 DEF ReceiveVote, nodeVars
  <2>2. PICK r \in rvRep :
          \/ Return(id)
          \/ /\ elections' = [elections EXCEPT ![id] = Looking(e, r)]
             /\ rvRep' = rvRep \ {r}
    BY <1>6 DEF ReceiveVote
  <2> DEFINE f == Looking(e, r)
  <2>3. f.repTerm = r.term BY <1>0 DEF Election, Looking
  <2>4. \/ Return(id)
        \/ elections' = [elections EXCEPT ![id] = f] /\ rvRep' \subseteq rvRep
    BY <2>2
  <2> HIDE DEF f
  <2>5. QED BY <1>2, <1>3, <2>1, <2>3, <2>4, SeenNow
<1>7. CASE EvaluateVote(id)
  <2>1. UNCHANGED currentTerm BY <1>7 DEF EvaluateVote, nodeVars
  <2>2. \/ Return(id)
        \/ /\ elections' = [elections EXCEPT ![id].phase = Verdict(e)]
           /\ UNCHANGED rvRep
        \/ elections' = [elections EXCEPT ![id] = Tallied(e)] /\ UNCHANGED rvRep
    BY <1>7 DEF EvaluateVote
  <2> DEFINE f == Tallied(e)
  <2>3. f.repTerm = 0 BY <1>0 DEF Election, Tallied
  <2>4. CASE elections' = [elections EXCEPT ![id] = f] /\ UNCHANGED rvRep
    <3> HIDE DEF f
    <3>1. QED BY <1>2, <2>1, <2>3, <2>4, SeenNow
  <2>5. QED BY <1>3, <1>4, <2>1, <2>2, <2>4, SeenNow
<1>8. CASE Demote(id)
  <2>1. /\ elections' = [elections EXCEPT ![id].phase = "demoted"]
        /\ UNCHANGED rvRep
        /\ currentTerm' = [currentTerm EXCEPT ![e.node] = e.repTerm]
    BY <1>8 DEF Demote
  <2>2. \A n \in Node : Seen(currentTerm'[n])
    BY <1>0, <2>1, SeenNow, FollowedTerm
  <2>3. QED BY <1>4, <2>1, <2>2
<1>9. CASE Crown(id) BY <1>4, <1>9, SeenNow DEF Crown
<1>10. QED BY <1>5, <1>6, <1>7, <1>8, <1>9

\* Everything seen is a number.
LEMMA SeenType == ASSUME TypeOK, NEW t, Seen(t) PROVE t \in Nat
<1>1. CASE t = 0 BY <1>1, SMT
<1>2. CASE \E n \in Node : t = currentTerm[n] BY <1>2 DEF TypeOK, NodeType
<1>3. CASE \E m \in rvReq : t = m.term
  BY <1>3 DEF TypeOK, VoteType, RequestVoteRequest
<1>4. CASE \E r \in rvRep : t = r.term
  BY <1>4 DEF TypeOK, VoteType, RequestVoteReply
<1>5. CASE \E c \in waiting : t = c.req.term
  BY <1>5 DEF TypeOK, NetType, Call, AppendEntriesRequest
<1>6. CASE \E a \in stalled \cup answered : t = a.term
  BY <1>6 DEF TypeOK, NetType, Answer
<1>7. CASE \E id \in DOMAIN elections : t = elections[id].repTerm
  BY <1>7, ElectionType DEF TypeOK, Election
<1>8. QED BY <1>1, <1>2, <1>3, <1>4, <1>5, <1>6, <1>7 DEF Seen

\* What StartElection appends to the elections.
LEMMA OneMoreElection ==
  ASSUME TypeOK, NEW n \in Node, StartElection(n)
  PROVE  /\ Len(elections) \in Nat /\ Len(elections') = Len(elections) + 1
         /\ DOMAIN elections' = DOMAIN elections \cup {Len(elections) + 1}
         /\ \A i \in DOMAIN elections : elections'[i] = elections[i]
         /\ \E ph \in {"run", "failed"} :
              elections'[Len(elections) + 1] =
                NewElection(n, currentTerm[n] + 1, ph)
<1>a. PICK term : term = currentTerm[n] + 1 OBVIOUS
<1>1. PICK ph \in {"run", "failed"} :
        elections' = Append(elections, NewElection(n, term, ph))
  BY <1>a DEF StartElection
<1> DEFINE e == NewElection(n, term, ph)
<1>2. /\ elections \in Seq(Election) /\ Len(elections) \in Nat
      /\ DOMAIN elections = 1..Len(elections)
  BY LenProperties DEF TypeOK, VoteType
<1>3. e \in Election
  <2>1. term \in Nat BY <1>a, SMT DEF TypeOK, NodeType
  <2>2. QED BY <2>1 DEF NewElection, Election
<1>4. elections' = Append(elections, e) BY <1>1
<1>5. e = NewElection(n, currentTerm[n] + 1, ph) BY <1>a
<1> HIDE DEF e
<1>6. /\ Len(elections') = Len(elections) + 1
      /\ DOMAIN elections' = DOMAIN elections \cup {Len(elections) + 1}
      /\ \A i \in DOMAIN elections : elections'[i] = elections[i]
      /\ elections'[Len(elections) + 1] = e
  BY <1>2, <1>3, <1>4, AppendProperties, SMT
<1>7. QED BY <1>2, <1>5, <1>6

\* StartElection makes an election for the one new term.
LEMMA StartElectionTerms ==
  ASSUME TermInv, TypeOK', NEW n \in Node, StartElection(n)
  PROVE  TermInv'
<1>0. TypeOK /\ currentTerm \in [Node -> Nat] BY DEF TermInv, TypeOK, NodeType
<1>a. PICK term : term = currentTerm[n] + 1 OBVIOUS
<1>b. PICK id : id = Len(elections) + 1 OBVIOUS
<1>1. PICK ph \in {"run", "failed"} :
        /\ Len(elections) \in Nat /\ Len(elections') = id
        /\ DOMAIN elections' = DOMAIN elections \cup {id}
        /\ \A i \in DOMAIN elections : elections'[i] = elections[i]
        /\ elections'[id] = NewElection(n, term, ph)
  BY <1>0, <1>a, <1>b, OneMoreElection
<1>2. /\ currentTerm' = [currentTerm EXCEPT ![n] = term]
      /\ UNCHANGED <<rvRep, waiting, stalled, answered>>
      /\ \A m \in rvReq' : \/ m \in rvReq
                           \/ \E p \in Peers(n) : m = Ballot(n, id, p, term)
  BY <1>a, <1>b DEF StartElection, netVars, callVars
<1>3. \A p \in Peers(n) : Ballot(n, id, p, term).term = term BY DEF Ballot
<1>4. elections'[id].repTerm = 0
  <2>1. NewElection(n, term, ph).repTerm = 0 BY DEF NewElection
  <2>2. QED BY <1>1, <2>1
<1>5. ASSUME NEW t, Seen(t)' PROVE Seen(t) \/ t = term
  <2>1. \/ t = 0
        \/ \E k \in Node : t = currentTerm'[k]
        \/ \E m \in rvReq' : t = m.term
        \/ \E r \in rvRep : t = r.term
        \/ \E c \in waiting : t = c.req.term
        \/ \E a \in stalled \cup answered : t = a.term
        \/ \E i \in DOMAIN elections' : t = elections'[i].repTerm
    BY <1>2, <1>5 DEF Seen
  <2>2. CASE \E k \in Node : t = currentTerm'[k]
    BY <1>0, <1>2, <2>2, SeenNow
  <2>3. CASE \E m \in rvReq' : t = m.term BY <1>2, <1>3, <2>3, SeenNow
  <2>4. CASE \E i \in DOMAIN elections' : t = elections'[i].repTerm
    BY <1>1, <1>4, <2>4, SeenNow
  <2>5. QED BY <2>1, <2>2, <2>3, <2>4, SeenNow
<1>6. ASSUME NEW t, Seen(t)' PROVE t <= Len(elections')
  <2>1. CASE Seen(t)
    <3>1. t \in Nat /\ t <= Len(elections) BY <1>0, <2>1, SeenType DEF TermInv
    <3>2. QED BY <1>1, <1>b, <3>1, SMT
  <2>2. CASE t = term
    <3>1. currentTerm[n] \in Nat /\ currentTerm[n] <= Len(elections)
      BY <1>0, SeenNow DEF TermInv
    <3>2. QED BY <1>1, <1>a, <1>b, <2>2, <3>1, SMT
  <2>3. QED BY <1>5, <1>6, <2>1, <2>2
<1>7. QED BY <1>6 DEF TermInv

\* The expiries of timers that may still become elections, one for each.
Pending == {p \in Node \X Nat : p[2] < fired[p[1]] + armed[p[1]]}

BudgetInv ==
  /\ TermInv
  /\ IsFiniteSet(Pending)
  /\ Cardinality(Pending) + Len(elections) <= timeouts
  /\ timeouts <= MaxTimeouts

\* A step that uses up no timer and makes no election.
LEMMA BudgetKept ==
  ASSUME BudgetInv, TypeOK', NoNewTerm, UNCHANGED <<fired, armed, timeouts>>
  PROVE  BudgetInv'
<1>1. Pending' = Pending BY DEF Pending
<1>2. TermInv' BY NoNewTermKeeps DEF BudgetInv
<1>3. QED BY <1>1, <1>2 DEF BudgetInv, NoNewTerm

\* How the pending expiries of one node become one more or one less.
LEMMA PendingMoves ==
  ASSUME TypeOK, TypeOK', NEW n \in Node,
         \A m \in Node \ {n} : fired'[m] = fired[m] /\ armed'[m] = armed[m]
  PROVE  /\ fired'[n] + armed'[n] = fired[n] + armed[n] + 1 =>
              /\ Pending' = Pending \cup {<<n, fired[n] + armed[n]>>}
              /\ <<n, fired[n] + armed[n]>> \notin Pending
         /\ fired'[n] + armed'[n] = fired[n] + armed[n] => Pending' = Pending
         /\ fired[n] + armed[n] = fired'[n] + armed'[n] + 1 =>
              /\ Pending' = Pending \ {<<n, fired'[n] + armed'[n]>>}
              /\ <<n, fired'[n] + armed'[n]>> \in Pending
<1>1. /\ fired \in [Node -> Nat] /\ armed \in [Node -> Nat]
      /\ fired' \in [Node -> Nat] /\ armed' \in [Node -> Nat]
  BY DEF TypeOK, TimerType
<1>2. PICK x \in Nat : x = fired[n] + armed[n] BY <1>1, SMT
<1>3. PICK y \in Nat : y = fired'[n] + armed'[n] BY <1>1, SMT
<1>4. \A p : p \in Pending <=>
        /\ p \in Node \X Nat
        /\ IF p[1] = n THEN p[2] < x ELSE p[2] < fired[p[1]] + armed[p[1]]
  BY <1>2 DEF Pending
<1>5. \A p : p \in Pending' <=>
        /\ p \in Node \X Nat
        /\ IF p[1] = n THEN p[2] < y ELSE p[2] < fired[p[1]] + armed[p[1]]
  BY <1>3 DEF Pending
<1>6. ASSUME y = x + 1
      PROVE  Pending' = Pending \cup {<<n, x>>} /\ <<n, x>> \notin Pending
  BY <1>4, <1>5, <1>6, SMT
<1>7. ASSUME y = x PROVE Pending' = Pending BY <1>4, <1>5, <1>7
<1>8. ASSUME x = y + 1
      PROVE  Pending' = Pending \ {<<n, y>>} /\ <<n, y>> \in Pending
  BY <1>4, <1>5, <1>8, SMT
<1>9. QED BY <1>2, <1>3, <1>6, <1>7, <1>8

\* The timer that expires is paid for by timeouts, and what startElection makes
\* of it is one election or nothing.
LEMMA BudgetSteps ==
  ASSUME BudgetInv, TypeOK', NEW n \in Node,
         \/ \E t \in 0..MaxTimeouts : ExpireTimer(n, t)
         \/ CheckDead(n) \/ StartElection(n)
  PROVE  BudgetInv'
<1>0. /\ TypeOK /\ fired \in [Node -> Nat] /\ armed \in [Node -> Nat]
      /\ fired[n] \in Nat /\ armed[n] \in Nat /\ timeouts \in Nat
      /\ Len(elections) \in Nat /\ Cardinality(Pending) \in Nat
      /\ IsFiniteSet(Pending) /\ TermInv
      /\ Cardinality(Pending) + Len(elections) <= timeouts
      /\ timeouts <= MaxTimeouts /\ MaxTimeouts \in Nat
  BY LenProperties, FS_CardinalityType, BoundAssumption
  DEF BudgetInv, TermInv, TypeOK, TimerType, EnvType, VoteType
<1>1. CASE \E t \in 0..MaxTimeouts : ExpireTimer(n, t)
  <2>1. PICK t \in 0..MaxTimeouts : ExpireTimer(n, t) BY <1>1
  <2>2. /\ fired' = [fired EXCEPT ![n] = fired[n] + 1] /\ UNCHANGED armed
        /\ timeouts < MaxTimeouts /\ timeouts' = timeouts + 1
        /\ UNCHANGED elections
    BY <2>1 DEF ExpireTimer, voteVars
  <2>3. fired'[n] + armed'[n] = fired[n] + armed[n] + 1 BY <1>0, <2>2, SMT
  <2>4. PICK p : Pending' = Pending \cup {p} /\ p \notin Pending
    BY <1>0, <2>2, <2>3, PendingMoves
  <2>5. IsFiniteSet(Pending') /\ Cardinality(Pending') = Cardinality(Pending) + 1
    BY <1>0, <2>4, FS_AddElement
  <2>6. TermInv' BY <1>0, <1>1, NodeTermSteps, NoNewTermKeeps
  <2>7. /\ Cardinality(Pending') + Len(elections') <= timeouts'
        /\ timeouts' <= MaxTimeouts
    BY <1>0, <2>2, <2>5, SMT
  <2>8. QED BY <2>5, <2>6, <2>7 DEF BudgetInv
<1>2. CASE CheckDead(n)
  <2>1. /\ fired' = [fired EXCEPT ![n] = fired[n] - 1] /\ fired[n] > 0
        /\ armed' = armed \/ armed' = [armed EXCEPT ![n] = armed[n] + 1]
        /\ UNCHANGED <<timeouts, elections>>
    BY <1>2 DEF CheckDead, voteVars, envVars
  <2>2. \A m \in Node \ {n} : fired'[m] = fired[m] /\ armed'[m] = armed[m]
    BY <1>0, <2>1
  <2>3. \/ fired'[n] + armed'[n] = fired[n] + armed[n]
        \/ fired[n] + armed[n] = fired'[n] + armed'[n] + 1
    BY <1>0, <2>1, SMT
  <2>4. \/ Pending' = Pending
        \/ \E p \in Pending : Pending' = Pending \ {p}
    BY <1>0, <2>2, <2>3, PendingMoves
  <2>5. /\ IsFiniteSet(Pending')
        /\ Cardinality(Pending') \in {Cardinality(Pending), Cardinality(Pending) - 1}
    <3>1. CASE Pending' = Pending BY <1>0, <3>1
    <3>2. ASSUME NEW p \in Pending, Pending' = Pending \ {p}
          PROVE  /\ IsFiniteSet(Pending')
                 /\ Cardinality(Pending') = Cardinality(Pending) - 1
      BY <1>0, <3>2, FS_RemoveElement
    <3>3. QED BY <2>4, <3>1, <3>2
  <2>6. TermInv' BY <1>0, <1>2, NodeTermSteps, NoNewTermKeeps
  <2>7. Cardinality(Pending') + Len(elections') <= timeouts'
    BY <1>0, <2>1, <2>5, SMT
  <2>8. QED BY <1>0, <2>1, <2>5, <2>6, <2>7 DEF BudgetInv
<1>3. CASE StartElection(n)
  <2>1. /\ armed' = [armed EXCEPT ![n] = armed[n] - 1] /\ armed[n] > 0
        /\ UNCHANGED <<fired, timeouts>>
    BY <1>3 DEF StartElection
  <2>2. Len(elections') = Len(elections) + 1 BY <1>0, <1>3, OneMoreElection
  <2>3. \A m \in Node \ {n} : fired'[m] = fired[m] /\ armed'[m] = armed[m]
    BY <1>0, <2>1
  <2>4. fired[n] + armed[n] = fired'[n] + armed'[n] + 1 BY <1>0, <2>1, SMT
  <2>5. PICK p \in Pending : Pending' = Pending \ {p}
    BY <1>0, <2>3, <2>4, PendingMoves
  <2>6. IsFiniteSet(Pending') /\ Cardinality(Pending') = Cardinality(Pending) - 1
    BY <1>0, <2>5, FS_RemoveElement
  <2>7. TermInv' BY <1>0, <1>3, StartElectionTerms
  <2>8. Cardinality(Pending') + Len(elections') <= timeouts'
    BY <1>0, <2>1, <2>2, <2>6, SMT
  <2>9. QED BY <1>0, <2>1, <2>6, <2>7, <2>8 DEF BudgetInv
<1>4. QED BY <1>1, <1>2, <1>3

\* NewRaft: no term, no expiry.
LEMMA InitBudget == Init => BudgetInv
<1> SUFFICES ASSUME Init PROVE BudgetInv OBVIOUS
<1>1. TypeOK BY InitType
<1>2. DOMAIN elections = {} /\ Len(elections) = 0
  <2>1. elections = <<>> BY DEF Init
  <2>2. QED BY <2>1, SMT
<1>3. \A t : Seen(t) => t = 0 BY <1>2 DEF Init, Seen
<1>4. Pending = {}
  <2>1. \A n \in Node : fired[n] + armed[n] = 0
    <3>1. \A n \in Node : fired[n] = 0 /\ armed[n] = 0 BY DEF Init
    <3>2. QED BY <3>1, SMT
  <2>2. ASSUME NEW p \in Node \X Nat PROVE ~(p[2] < fired[p[1]] + armed[p[1]])
    <3>1. p[1] \in Node /\ p[2] \in Nat OBVIOUS
    <3>2. fired[p[1]] + armed[p[1]] = 0 BY <2>1, <3>1
    <3>3. QED BY <3>1, <3>2, SMT
  <2>3. QED BY <2>2 DEF Pending
<1>5. timeouts = 0 BY DEF Init
<1>6. TermInv BY <1>1, <1>2, <1>3, SMT DEF TermInv
<1>7. IsFiniteSet(Pending) /\ Cardinality(Pending) = 0 BY <1>4, FS_EmptySet
<1>8. QED BY <1>2, <1>5, <1>6, <1>7, BoundAssumption, SMT DEF BudgetInv

\* Every step of every node stays within the budget.
LEMMA NextBudget == BudgetInv /\ [Next]_vars => BudgetInv'
<1> SUFFICES ASSUME BudgetInv, [Next]_vars PROVE BudgetInv' OBVIOUS
<1>0. TypeOK /\ TypeOK' BY NextType DEF BudgetInv, TermInv
<1>1. CASE UNCHANGED vars
  BY <1>0, <1>1, QuietTerms, BudgetKept
  DEF vars, nodeVars, voteVars, netVars, callVars, timerVars, envVars
<1>2. ASSUME NEW n \in Node,
             \/ \E t \in 0..MaxTimeouts : ExpireTimer(n, t)
             \/ CheckDead(n) \/ StartElection(n)
      PROVE  BudgetInv'
  BY <1>0, <1>2, BudgetSteps
<1>3. ASSUME NEW n \in Node,
             \/ Stop(n) \/ Resume(n) \/ StartTimer(n)
             \/ \E t \in 0..MaxTimeouts : ExitTimer(n, t)
             \/ \E c \in Command : Submit(n, c)
             \/ \E ep \in loops[n] : HeartbeatLoop(n, ep)
             \/ ReceiveSignal(n) \/ CollectBatch(n) \/ DeliverEntry(n)
             \/ FinishSignal(n) \/ SendAppendEntries(n) \/ AbandonCall(n)
      PROVE  BudgetInv'
  <2>1. UNCHANGED <<fired, armed, timeouts>>
    BY <1>3 DEF Stop, Resume, StartTimer, ExitTimer, Submit, HeartbeatLoop,
       ReceiveSignal, CollectBatch, DeliverEntry, FinishSignal,
       SendAppendEntries, AbandonCall, timerVars, envVars
  <2>2. NoNewTerm BY <1>0, <1>3, NodeTermSteps
  <2>3. QED BY <1>0, <2>1, <2>2, BudgetKept
<1>4. ASSUME NEW n \in Node,
             \/ HandleRequestVoteRequest(n) \/ HandleAppendEntriesReply(n)
             \/ HandleAppendEntriesRequest(n) \/ FailAppendEntriesRequest(n)
      PROVE  BudgetInv'
  <2>1. UNCHANGED <<fired, armed, timeouts>>
    BY <1>4 DEF HandleRequestVoteRequest, HandleAppendEntriesReply,
       HandleAppendEntriesRequest, FailAppendEntriesRequest, envVars
  <2>2. NoNewTerm BY <1>0, <1>4, HandlerTermSteps
  <2>3. QED BY <1>0, <2>1, <2>2, BudgetKept
<1>5. ASSUME NEW id \in DOMAIN elections,
             \/ ElectionTimeout(id) \/ ReceiveVote(id) \/ EvaluateVote(id)
             \/ Demote(id) \/ FinishDemotion(id)
             \/ Crown(id) \/ FinishCoronation(id)
      PROVE  BudgetInv'
  <2>1. UNCHANGED <<fired, armed, timeouts>>
    BY <1>5 DEF ElectionTimeout, ReceiveVote, EvaluateVote, Demote,
       FinishDemotion, Crown, FinishCoronation, timerVars, envVars
  <2>2. NoNewTerm BY <1>0, <1>5, ElectionTermSteps
  <2>3. QED BY <1>0, <2>1, <2>2, BudgetKept
<1>6. QED BY <1>1, <1>2, <1>3, <1>4, <1>5 DEF Next

-----------------------------------------------------------------------------
(* The timer of a node is never lost.                                      *)

\* A timer of n is starting, running, or about to start an election.
Timed(n) ==
  \/ spawned[n] > 0 \/ ticking[n][currentTerm[n]] > 0
  \/ fired[n] > 0 \/ armed[n] > 0

\* An election of n is in one of the phases P.
Campaigns(n, P) ==
  \E id \in DOMAIN elections : elections[id].node = n /\ elections[id].phase \in P

\* The phases in which startElection finds out what becomes of a candidate.
Open == {"run", "eval", "demote", "crown"}

\* An open election answers for a candidate only: for a follower it may just
\* return, without a timer.
Awake(n) ==
  \/ Campaigns(n, {"failed"}) \/ Campaigns(n, {"demoted"})
  \/ state[n] \in {"Leader", "Dead"} \/ Timed(n)
  \/ state[n] = "Candidate" /\ Campaigns(n, Open)

TimerInv == BudgetInv /\ \A n \in Node : Awake(n)

\* A step after which every election of m is in a phase as good as before.
Advances(m) ==
  \A id \in DOMAIN elections : elections[id].node = m =>
    /\ id \in DOMAIN elections' /\ elections'[id].node = m
    /\ elections[id].phase \in {"failed", "demoted"} =>
         elections'[id].phase = elections[id].phase
    /\ elections[id].phase \in Open => elections'[id].phase \in Open

\* What such a step keeps of the elections.
LEMMA CampaignsKept ==
  ASSUME NEW m, Advances(m)
  PROVE  /\ Campaigns(m, {"failed"}) => Campaigns(m, {"failed"})'
         /\ Campaigns(m, {"demoted"}) => Campaigns(m, {"demoted"})'
         /\ Campaigns(m, Open) => Campaigns(m, Open)'
BY DEF Advances, Campaigns, Open

\* Node m and its timers are left alone.
LeftAlone(m) ==
  /\ state'[m] = state[m] /\ currentTerm'[m] = currentTerm[m]
  /\ spawned'[m] = spawned[m] /\ ticking'[m] = ticking[m]
  /\ fired'[m] = fired[m] /\ armed'[m] = armed[m]

\* Then it stays as awake as it was.
LEMMA AwakeKept ==
  ASSUME NEW m \in Node, Awake(m), LeftAlone(m), Advances(m)
  PROVE  Awake(m)'
<1>1. Timed(m) => Timed(m)' BY DEF Timed, LeftAlone
<1>2. QED BY <1>1, CampaignsKept DEF Awake, LeftAlone

\* A timer that was just started keeps a node awake.
LEMMA SpawnAwakes ==
  ASSUME TimerType, NEW n \in Node,
         spawned' = [spawned EXCEPT ![n] = spawned[n] + 1]
  PROVE  Awake(n)' /\ \A m \in Node \ {n} : spawned'[m] = spawned[m]
<1>1. spawned \in [Node -> Nat] BY DEF TimerType
<1>2. spawned'[n] > 0 BY <1>1, SMT
<1>3. QED BY <1>1, <1>2 DEF Awake, Timed

\* becomeFollower starts a timer.
LEMMA FollowAwakes ==
  ASSUME TypeOK, NEW n \in Node, NEW t, BecomeFollower(n, t),
         UNCHANGED <<ticking, fired, armed, elections>>
  PROVE  Awake(n)' /\ \A m \in Node \ {n} : LeftAlone(m)
<1>1. /\ spawned' = [spawned EXCEPT ![n] = spawned[n] + 1]
      /\ state' = [state EXCEPT ![n] = "Follower"]
      /\ currentTerm' = [currentTerm EXCEPT ![n] = t]
  BY DEF BecomeFollower
<1>2. Awake(n)' /\ \A m \in Node \ {n} : spawned'[m] = spawned[m]
  BY <1>1, SpawnAwakes DEF TypeOK
<1>3. \A m \in Node \ {n} : state'[m] = state[m] /\ currentTerm'[m] = currentTerm[m]
  BY <1>1 DEF TypeOK, NodeType
<1>4. QED BY <1>2, <1>3 DEF LeftAlone

\* A step that does not touch the elections.
LEMMA SameCampaigns == UNCHANGED elections => \A m : Advances(m)
BY DEF Advances

\* A step of one node that leaves the others alone.
LEMMA OneAwake ==
  ASSUME TimerInv, BudgetInv', NEW n \in Node, Awake(n)',
         \A m \in Node \ {n} : LeftAlone(m) /\ Advances(m)
  PROVE  TimerInv'
<1>1. ASSUME NEW m \in Node PROVE Awake(m)'
  BY AwakeKept DEF TimerInv
<1>2. QED BY <1>1 DEF TimerInv

\* A step that leaves all nodes and timers alone.
LEMMA AllAwake ==
  ASSUME TimerInv, BudgetInv',
         UNCHANGED <<state, currentTerm, timerVars, elections>>
  PROVE  TimerInv'
<1>1. \A m \in Node : LeftAlone(m) /\ Advances(m)
  BY SameCampaigns DEF LeftAlone, timerVars
<1>2. ASSUME NEW m \in Node PROVE Awake(m)'
  BY <1>1, AwakeKept DEF TimerInv
<1>3. QED BY <1>2 DEF TimerInv

\* Stop, Resume and the steps of the timers: one goroutine takes over from
\* the other.  Starting one counts for the term the node has by then, which is
\* one of 0..MaxTimeouts.
LEMMA TimerStepsAwake ==
  ASSUME TimerInv, BudgetInv', NEW n \in Node,
         \/ Stop(n) \/ Resume(n) \/ StartTimer(n)
         \/ \E t \in 0..MaxTimeouts : ExitTimer(n, t) \/ ExpireTimer(n, t)
         \/ CheckDead(n)
  PROVE  TimerInv'
<1>0. /\ TypeOK /\ state \in [Node -> State]
      /\ spawned \in [Node -> Nat] /\ fired \in [Node -> Nat]
      /\ armed \in [Node -> Nat]
      /\ ticking \in [Node -> [0..MaxTimeouts -> Nat]]
      /\ currentTerm[n] \in 0..MaxTimeouts /\ Awake(n)
  <2>1. TypeOK BY DEF TimerInv, BudgetInv, TermInv
  <2>2. /\ currentTerm[n] \in Nat /\ timeouts \in Nat /\ Len(elections) \in Nat
        /\ MaxTimeouts \in Nat /\ Cardinality(Pending) \in Nat
    BY <2>1, BoundAssumption, LenProperties, FS_CardinalityType
    DEF TypeOK, NodeType, EnvType, VoteType, TimerInv, BudgetInv
  <2>3. /\ currentTerm[n] <= Len(elections)
        /\ Cardinality(Pending) + Len(elections) <= timeouts
        /\ timeouts <= MaxTimeouts
    BY SeenNow DEF TimerInv, BudgetInv, TermInv
  <2>4. currentTerm[n] \in 0..MaxTimeouts BY <2>2, <2>3, SMT
  <2>5. QED BY <2>1, <2>4 DEF TypeOK, NodeType, TimerType, TimerInv
<1>1. CASE Stop(n)
  <2>1. /\ state' = [state EXCEPT ![n] = "Dead"]
        /\ UNCHANGED <<currentTerm, timerVars, elections>>
    BY <1>1 DEF Stop, voteVars
  <2>2. Awake(n)' BY <1>0, <2>1 DEF Awake
  <2>3. \A m \in Node \ {n} : LeftAlone(m) /\ Advances(m)
    BY <1>0, <2>1, SameCampaigns DEF LeftAlone, timerVars
  <2>4. QED BY <2>2, <2>3, OneAwake
<1>2. CASE Resume(n)
  <2>1. /\ BecomeFollower(n, currentTerm[n])
        /\ UNCHANGED <<ticking, fired, armed, elections>>
    BY <1>2 DEF Resume, voteVars
  <2>2. QED BY <1>0, <2>1, FollowAwakes, SameCampaigns, OneAwake
<1>3. CASE StartTimer(n)
  <2>1. /\ spawned' = [spawned EXCEPT ![n] = spawned[n] - 1]
        /\ ticking' = [ticking EXCEPT
             ![n][currentTerm[n]] = ticking[n][currentTerm[n]] + 1]
        /\ UNCHANGED <<state, currentTerm, fired, armed, elections>>
    BY <1>3 DEF StartTimer, voteVars, nodeVars
  <2>2. /\ ticking'[n][currentTerm[n]] = ticking[n][currentTerm[n]] + 1
        /\ ticking[n][currentTerm[n]] \in Nat
    BY <1>0, <2>1
  <2>3. ticking'[n][currentTerm'[n]] > 0
    <3>1. ticking[n][currentTerm[n]] + 1 > 0 BY <2>2, SMT
    <3>2. QED BY <2>1, <2>2, <3>1
  <2>4. Awake(n)' BY <2>3 DEF Awake, Timed
  <2>5. \A m \in Node \ {n} : LeftAlone(m) /\ Advances(m)
    BY <1>0, <2>1, SameCampaigns DEF LeftAlone
  <2>6. QED BY <2>4, <2>5, OneAwake
<1>4. ASSUME NEW t \in 0..MaxTimeouts, ExitTimer(n, t) PROVE TimerInv'
  <2>1. /\ ticking' = [ticking EXCEPT ![n][t] = ticking[n][t] - 1]
        /\ t = currentTerm[n] => state[n] \in {"Leader", "Dead"}
        /\ UNCHANGED <<state, currentTerm, spawned, fired, armed, elections>>
    BY <1>4 DEF ExitTimer, voteVars, nodeVars
  <2>2. Awake(n)'
    <3>1. CASE t = currentTerm[n] BY <2>1, <3>1 DEF Awake
    <3>2. CASE t # currentTerm[n]
      <4>1. ticking'[n][currentTerm'[n]] = ticking[n][currentTerm[n]]
        BY <1>0, <2>1, <3>2
      <4>2. Timed(n) => Timed(n)' BY <2>1, <4>1 DEF Timed
      <4>3. Advances(n) BY <2>1, SameCampaigns
      <4>4. QED BY <1>0, <2>1, <4>2, <4>3, CampaignsKept DEF Awake
    <3>3. QED BY <3>1, <3>2
  <2>3. \A m \in Node \ {n} : LeftAlone(m) /\ Advances(m)
    BY <1>0, <2>1, SameCampaigns DEF LeftAlone
  <2>4. QED BY <2>2, <2>3, OneAwake
<1>5. ASSUME NEW t \in 0..MaxTimeouts, ExpireTimer(n, t) PROVE TimerInv'
  <2>1. /\ ticking' = [ticking EXCEPT ![n][t] = ticking[n][t] - 1]
        /\ fired' = [fired EXCEPT ![n] = fired[n] + 1]
        /\ UNCHANGED <<state, currentTerm, spawned, armed, elections>>
    BY <1>5 DEF ExpireTimer, voteVars, nodeVars
  <2>2. fired'[n] > 0 BY <1>0, <2>1, SMT
  <2>3. Awake(n)' BY <2>2 DEF Awake, Timed
  <2>4. \A m \in Node \ {n} : LeftAlone(m) /\ Advances(m)
    BY <1>0, <2>1, SameCampaigns DEF LeftAlone
  <2>5. QED BY <2>3, <2>4, OneAwake
<1>6. CASE CheckDead(n)
  <2>1. /\ fired' = [fired EXCEPT ![n] = fired[n] - 1]
        /\ \/ state[n] = "Dead" /\ UNCHANGED armed
           \/ armed' = [armed EXCEPT ![n] = armed[n] + 1]
        /\ UNCHANGED <<state, currentTerm, spawned, ticking, elections>>
    BY <1>6 DEF CheckDead, voteVars, nodeVars
  <2>2. state'[n] = "Dead" \/ armed'[n] > 0 BY <1>0, <2>1, SMT
  <2>3. Awake(n)' BY <2>2 DEF Awake, Timed
  <2>4. \A m \in Node \ {n} : LeftAlone(m) /\ Advances(m)
    BY <1>0, <2>1, SameCampaigns DEF LeftAlone
  <2>5. QED BY <2>3, <2>4, OneAwake
<1>7. QED BY <1>1, <1>2, <1>3, <1>4, <1>5, <1>6

\* StartElection: the new election is open, or it is the failed one.
LEMMA StartElectionAwake ==
  ASSUME TimerInv, BudgetInv', NEW n \in Node, StartElection(n)
  PROVE  TimerInv'
<1>0. /\ TypeOK /\ state \in [Node -> State] /\ currentTerm \in [Node -> Nat]
      /\ armed \in [Node -> Nat]
  BY DEF TimerInv, BudgetInv, TermInv, TypeOK, NodeType, TimerType
<1>a. PICK term : term = currentTerm[n] + 1 OBVIOUS
<1>b. PICK id : id = Len(elections) + 1 OBVIOUS
<1>1. /\ state' = [state EXCEPT ![n] = "Candidate"]
      /\ currentTerm' = [currentTerm EXCEPT ![n] = term]
      /\ armed' = [armed EXCEPT ![n] = armed[n] - 1]
      /\ UNCHANGED <<spawned, ticking, fired>>
  BY <1>a DEF StartElection
<1>2. PICK ph \in {"run", "failed"} :
        /\ DOMAIN elections' = DOMAIN elections \cup {id}
        /\ \A i \in DOMAIN elections : elections'[i] = elections[i]
        /\ elections'[id] = NewElection(n, term, ph)
  BY <1>0, <1>a, <1>b, OneMoreElection
<1>3. elections'[id].node = n /\ elections'[id].phase = ph
  <2>1. NewElection(n, term, ph).node = n /\ NewElection(n, term, ph).phase = ph
    BY DEF NewElection
  <2>2. QED BY <1>2, <2>1
<1>4. Awake(n)'
  <2>1. state'[n] = "Candidate" BY <1>0, <1>1
  <2>2. CASE ph = "run"
    <3>1. Campaigns(n, Open)' BY <1>2, <1>3, <2>2 DEF Campaigns, Open
    <3>2. QED BY <2>1, <3>1 DEF Awake
  <2>3. CASE ph = "failed"
    <3>1. Campaigns(n, {"failed"})' BY <1>2, <1>3, <2>3 DEF Campaigns
    <3>2. QED BY <3>1 DEF Awake
  <2>4. QED BY <2>2, <2>3
<1>5. ASSUME NEW m \in Node \ {n} PROVE LeftAlone(m) /\ Advances(m)
  <2>1. LeftAlone(m) BY <1>0, <1>1 DEF LeftAlone
  <2>2. Advances(m) BY <1>2 DEF Advances
  <2>3. QED BY <2>1, <2>2
<1>6. QED BY <1>4, <1>5, OneAwake

\* The handlers of the messages become follower, with a timer, or change
\* neither the node nor its timers.
LEMMA HandlersAwake ==
  ASSUME TimerInv, BudgetInv', NEW n \in Node,
         \/ HandleRequestVoteRequest(n) \/ HandleAppendEntriesReply(n)
         \/ HandleAppendEntriesRequest(n) \/ FailAppendEntriesRequest(n)
  PROVE  TimerInv'
<1>0. TypeOK /\ NodeType /\ TimerType
  BY DEF TimerInv, BudgetInv, TermInv, TypeOK
<1>1. UNCHANGED <<ticking, fired, armed, elections>>
  BY DEF HandleRequestVoteRequest, HandleAppendEntriesReply,
         HandleAppendEntriesRequest, FailAppendEntriesRequest, voteVars
<1>2. CASE UNCHANGED <<state, currentTerm, spawned>>
  BY <1>1, <1>2, AllAwake DEF timerVars
<1>3. ASSUME NEW t, state' = [state EXCEPT ![n] = "Follower"],
             currentTerm' = [currentTerm EXCEPT ![n] = t],
             spawned' = [spawned EXCEPT ![n] = spawned[n] + 1]
      PROVE  TimerInv'
  <2>1. Awake(n)' /\ \A m \in Node \ {n} : spawned'[m] = spawned[m]
    BY <1>0, <1>3, SpawnAwakes
  <2>2. \A m \in Node \ {n} :
          state'[m] = state[m] /\ currentTerm'[m] = currentTerm[m]
    BY <1>0, <1>3 DEF NodeType
  <2>3. \A m \in Node \ {n} : LeftAlone(m) /\ Advances(m)
    BY <1>1, <2>1, <2>2, SameCampaigns DEF LeftAlone
  <2>4. QED BY <2>1, <2>3, OneAwake
<1>4. CASE HandleRequestVoteRequest(n)
  <2>1. PICK m \in rvReq : HandleRequestVoteRequest(n)!(m)
    BY <1>4 DEF HandleRequestVoteRequest
  <2>2. \/ UNCHANGED <<state, currentTerm, spawned>>
        \/ /\ state' = [state EXCEPT ![n] = "Follower"]
           /\ currentTerm' = [currentTerm EXCEPT ![n] = m.term]
           /\ spawned' = [spawned EXCEPT ![n] = spawned[n] + 1]
    BY <2>1 DEF nodeVars
  <2>3. QED BY <1>2, <1>3, <2>2
<1>5. ASSUME NEW t, BecomeFollower(n, t) \/ UNCHANGED <<nodeVars, spawned>>
      PROVE  TimerInv'
  BY <1>2, <1>3, <1>5 DEF BecomeFollower, nodeVars
<1>6. CASE HandleAppendEntriesReply(n)
  <2>1. PICK a \in answered : HandleAppendEntriesReply(n)!(a)
    BY <1>6 DEF HandleAppendEntriesReply
  <2>2. BecomeFollower(n, a.term) \/ UNCHANGED <<nodeVars, spawned>> BY <2>1
  <2>3. QED BY <1>5, <2>2
<1>7. CASE HandleAppendEntriesRequest(n)
  <2>1. PICK c \in waiting : HandleAppendEntriesRequest(n)!(c)
    BY <1>7 DEF HandleAppendEntriesRequest
  <2>2. BecomeFollower(n, c.req.term) \/ UNCHANGED <<nodeVars, spawned>>
    BY <2>1 DEF FollowLeader
  <2>3. QED BY <1>5, <2>2
<1>8. CASE FailAppendEntriesRequest(n)
  <2>1. PICK c \in waiting : FailAppendEntriesRequest(n)!(c)
    BY <1>8 DEF FailAppendEntriesRequest
  <2>2. BecomeFollower(n, c.req.term) \/ UNCHANGED <<nodeVars, spawned>>
    BY <2>1 DEF FollowLeader
  <2>3. QED BY <1>5, <2>2
<1>9. QED BY <1>4, <1>6, <1>7, <1>8

\* startElection: an open election stays open or ends in a timer, in a leader,
\* or where the node is no candidate and something else keeps it awake.
LEMMA ElectionsAwake ==
  ASSUME TimerInv, BudgetInv', NEW id \in DOMAIN elections,
         NEW n, n = elections[id].node,
         \/ ElectionTimeout(id) \/ ReceiveVote(id) \/ EvaluateVote(id)
         \/ Demote(id) \/ FinishDemotion(id)
         \/ Crown(id) \/ FinishCoronation(id)
  PROVE  TimerInv'
<1> DEFINE e == elections[id]
<1>0. /\ TypeOK /\ NodeType /\ TimerType /\ VoteType /\ VoteType'
      /\ e \in Election /\ n \in Node /\ Awake(n)
      /\ state \in [Node -> State] /\ currentTerm \in [Node -> Nat]
  BY ElectionType
  DEF TimerInv, BudgetInv, TermInv, TypeOK, NodeType
<1>1. UNCHANGED <<ticking, fired, armed>>
  BY DEF ElectionTimeout, ReceiveVote, EvaluateVote, Demote, FinishDemotion,
         Crown, FinishCoronation, timerVars
<1>2. ASSUME NEW f, elections' = [elections EXCEPT ![id] = f], f.node = n
      PROVE  /\ id \in DOMAIN elections' /\ elections'[id] = f
             /\ \A m \in Node \ {n} : Advances(m)
             /\ (/\ e.phase \in {"failed", "demoted"} => f.phase = e.phase
                 /\ e.phase \in Open => f.phase \in Open) => Advances(n)
             /\ e.phase \notin {"failed", "demoted"} =>
                  /\ Campaigns(n, {"failed"}) => Campaigns(n, {"failed"})'
                  /\ Campaigns(n, {"demoted"}) => Campaigns(n, {"demoted"})'
  <2>1. /\ DOMAIN elections' = DOMAIN elections /\ elections'[id] = f
        /\ \A i \in DOMAIN elections : i # id => elections'[i] = elections[i]
    BY <1>0, <1>2, OneElection
  <2>2. \A m \in Node \ {n} : Advances(m) BY <2>1 DEF Advances
  <2>3. (/\ e.phase \in {"failed", "demoted"} => f.phase = e.phase
         /\ e.phase \in Open => f.phase \in Open) => Advances(n)
    BY <1>2, <2>1 DEF Advances
  <2>4. e.phase \notin {"failed", "demoted"} =>
          /\ Campaigns(n, {"failed"}) => Campaigns(n, {"failed"})'
          /\ Campaigns(n, {"demoted"}) => Campaigns(n, {"demoted"})'
    BY <2>1 DEF Campaigns
  <2>5. QED BY <2>1, <2>2, <2>3, <2>4
<1> DEFINE d == [e EXCEPT !.phase = "done", !.voteCount = 0, !.repTerm = 0,
                          !.repGranted = FALSE, !.voters = {}]
<1>3. Return(id) => elections' = [elections EXCEPT ![id] = d] BY DEF Return
<1>4. d.node = n /\ d.phase = "done" BY <1>0 DEF Election
<1> HIDE DEF d
<1>5. ASSUME NEW ph, elections' = [elections EXCEPT ![id].phase = ph]
      PROVE  /\ id \in DOMAIN elections' /\ elections'[id].phase = ph
             /\ elections'[id].node = n
             /\ \A m \in Node \ {n} : Advances(m)
             /\ (/\ e.phase \in {"failed", "demoted"} => ph = e.phase
                 /\ e.phase \in Open => ph \in Open) => Advances(n)
  <2> DEFINE f == [e EXCEPT !.phase = ph]
  <2>1. elections' = [elections EXCEPT ![id] = f] BY <1>5
  <2>2. f.node = n /\ f.phase = ph BY <1>0 DEF Election
  <2> HIDE DEF f
  <2>3. QED BY <1>2, <2>1, <2>2
<1>6. ASSUME UNCHANGED <<state, currentTerm, spawned>>
      PROVE  \A m \in Node : LeftAlone(m)
  BY <1>1, <1>6 DEF LeftAlone
<1>7. CASE ElectionTimeout(id) \/ FinishDemotion(id)
  <2>1. /\ spawned' = [spawned EXCEPT ![n] = spawned[n] + 1] /\ Return(id)
        /\ UNCHANGED <<state, currentTerm>>
    BY <1>7 DEF ElectionTimeout, FinishDemotion, nodeVars
  <2>2. Awake(n)' /\ \A m \in Node \ {n} : spawned'[m] = spawned[m]
    BY <1>0, <2>1, SpawnAwakes
  <2>3. \A m \in Node \ {n} : LeftAlone(m) /\ Advances(m)
    BY <1>1, <1>2, <1>3, <1>4, <2>1, <2>2 DEF LeftAlone
  <2>4. QED BY <1>0, <2>2, <2>3, OneAwake
<1>8. CASE ReceiveVote(id)
  <2>1. /\ e.phase = "run" /\ UNCHANGED <<state, currentTerm, spawned>>
    BY <1>8 DEF ReceiveVote, nodeVars, timerVars
  <2>2. CASE state[n] # "Candidate" /\ Return(id)
    <3>1. Timed(n) => Timed(n)' BY <1>1, <2>1 DEF Timed
    <3>2. Awake(n)'
      BY <1>0, <1>2, <1>3, <1>4, <2>1, <2>2, <3>1 DEF Awake
    <3>3. \A m \in Node \ {n} : LeftAlone(m) /\ Advances(m)
      BY <1>2, <1>3, <1>4, <1>6, <2>1, <2>2
    <3>4. QED BY <1>0, <3>2, <3>3, OneAwake
  <2>3. ASSUME NEW r \in rvRep,
               elections' = [elections EXCEPT ![id] = Looking(e, r)]
        PROVE  TimerInv'
    <3> DEFINE f == Looking(e, r)
    <3>1. f.node = n /\ f.phase = "eval" BY <1>0 DEF Looking, Election
    <3>2. elections' = [elections EXCEPT ![id] = f] BY <2>3
    <3> HIDE DEF f
    <3>3. \A m \in Node \ {n} : Advances(m) BY <1>2, <3>1, <3>2
    <3>4. Advances(n) BY <1>2, <2>1, <3>1, <3>2 DEF Open
    <3>5. LeftAlone(n) /\ \A m \in Node \ {n} : LeftAlone(m)
      BY <1>0, <1>6, <2>1
    <3>6. QED BY <1>0, <3>3, <3>4, <3>5, AwakeKept, OneAwake
  <2>4. QED BY <1>8, <2>2, <2>3 DEF ReceiveVote
<1>9. CASE EvaluateVote(id)
  <2>1. /\ e.phase = "eval" /\ UNCHANGED <<state, currentTerm, spawned>>
    BY <1>9 DEF EvaluateVote, nodeVars, timerVars
  <2>2. LeftAlone(n) /\ \A m \in Node \ {n} : LeftAlone(m)
    BY <1>0, <1>6, <2>1
  <2>3. CASE state[n] = "Dead" /\ Return(id)
    <3>1. Awake(n)' BY <2>1, <2>3 DEF Awake
    <3>2. \A m \in Node \ {n} : Advances(m) BY <1>2, <1>3, <1>4, <2>3
    <3>3. QED BY <1>0, <2>2, <3>1, <3>2, OneAwake
  <2>4. CASE /\ Verdict(e) # "run"
             /\ elections' = [elections EXCEPT ![id].phase = Verdict(e)]
    <3>1. Verdict(e) \in Open BY <2>4 DEF Verdict, Open
    <3>2. \A m \in Node \ {n} : Advances(m) BY <1>5, <2>4
    <3>3. Advances(n) BY <1>5, <2>1, <2>4, <3>1
    <3>4. QED BY <1>0, <2>2, <3>2, <3>3, AwakeKept, OneAwake
  <2>5. CASE elections' = [elections EXCEPT ![id] = Tallied(e)]
    <3> DEFINE f == Tallied(e)
    <3>1. f.node = n /\ f.phase = "run" BY <1>0 DEF Tallied, Election
    <3>2. elections' = [elections EXCEPT ![id] = f] BY <2>5
    <3> HIDE DEF f
    <3>3. \A m \in Node \ {n} : Advances(m) BY <1>2, <3>1, <3>2
    <3>4. Advances(n) BY <1>2, <2>1, <3>1, <3>2 DEF Open
    <3>5. QED BY <1>0, <2>2, <3>3, <3>4, AwakeKept, OneAwake
  <2>6. QED BY <1>9, <2>3, <2>4, <2>5 DEF EvaluateVote
<1>10. CASE Demote(id)
  <2>1. /\ elections' = [elections EXCEPT ![id].phase = "demoted"]
        /\ state' = [state EXCEPT ![n] = "Follower"]
        /\ currentTerm' = [currentTerm EXCEPT ![n] = e.repTerm]
        /\ UNCHANGED spawned
    BY <1>10 DEF Demote, timerVars
  <2>2. Campaigns(n, {"demoted"})' BY <1>5, <2>1 DEF Campaigns
  <2>3. Awake(n)' BY <2>2 DEF Awake
  <2>4. \A m \in Node \ {n} :
          state'[m] = state[m] /\ currentTerm'[m] = currentTerm[m]
    BY <1>0, <2>1
  <2>5. \A m \in Node \ {n} : LeftAlone(m) /\ Advances(m)
    BY <1>1, <1>5, <2>1, <2>4 DEF LeftAlone
  <2>6. QED BY <1>0, <2>3, <2>5, OneAwake
<1>11. CASE Crown(id)
  <2>1. /\ elections' = [elections EXCEPT ![id].phase = "crowned"]
        /\ state' = [state EXCEPT ![n] = "Leader"]
        /\ UNCHANGED <<currentTerm, spawned>>
    BY <1>11 DEF Crown, timerVars
  <2>2. state'[n] = "Leader" /\ \A m \in Node \ {n} : state'[m] = state[m]
    BY <1>0, <2>1
  <2>3. Awake(n)' BY <2>2 DEF Awake
  <2>4. \A m \in Node \ {n} : LeftAlone(m) /\ Advances(m)
    BY <1>1, <1>5, <2>1, <2>2 DEF LeftAlone
  <2>5. QED BY <1>0, <2>3, <2>4, OneAwake
<1>12. CASE FinishCoronation(id)
  <2>1. /\ e.phase = "crowned" /\ Return(id)
        /\ UNCHANGED <<state, currentTerm, spawned>>
    BY <1>12 DEF FinishCoronation, nodeVars, timerVars
  <2>2. \A m \in Node \ {n} : Advances(m) BY <1>2, <1>3, <1>4, <2>1
  <2>3. Advances(n) BY <1>2, <1>3, <1>4, <2>1 DEF Open
  <2>4. LeftAlone(n) /\ \A m \in Node \ {n} : LeftAlone(m)
    BY <1>0, <1>6, <2>1
  <2>5. QED BY <1>0, <2>2, <2>3, <2>4, AwakeKept, OneAwake
<1>13. QED BY <1>7, <1>8, <1>9, <1>10, <1>11, <1>12

\* Every step of every node keeps every node awake.
LEMMA NextTimer == TimerInv /\ [Next]_vars => TimerInv'
<1> SUFFICES ASSUME TimerInv, [Next]_vars PROVE TimerInv' OBVIOUS
<1>0. BudgetInv' BY NextBudget DEF TimerInv
<1>1. CASE UNCHANGED vars BY <1>0, <1>1, AllAwake DEF vars, nodeVars, voteVars
<1>2. ASSUME NEW n \in Node,
             \/ Stop(n) \/ Resume(n) \/ StartTimer(n)
             \/ \E t \in 0..MaxTimeouts : ExitTimer(n, t) \/ ExpireTimer(n, t)
             \/ CheckDead(n) \/ StartElection(n)
             \/ HandleRequestVoteRequest(n) \/ HandleAppendEntriesReply(n)
             \/ HandleAppendEntriesRequest(n) \/ FailAppendEntriesRequest(n)
      PROVE  TimerInv'
  BY <1>0, <1>2, TimerStepsAwake, StartElectionAwake, HandlersAwake
<1>3. ASSUME NEW n \in Node,
             \/ \E c \in Command : Submit(n, c)
             \/ \E ep \in loops[n] : HeartbeatLoop(n, ep)
             \/ ReceiveSignal(n) \/ CollectBatch(n) \/ DeliverEntry(n)
             \/ FinishSignal(n) \/ SendAppendEntries(n) \/ AbandonCall(n)
      PROVE  TimerInv'
  <2>1. UNCHANGED <<state, currentTerm, timerVars, elections>>
    BY <1>3 DEF Submit, HeartbeatLoop, ReceiveSignal, CollectBatch,
       DeliverEntry, FinishSignal, SendAppendEntries, AbandonCall, nodeVars,
       voteVars
  <2>2. QED BY <1>0, <2>1, AllAwake
<1>4. ASSUME NEW id \in DOMAIN elections,
             \/ ElectionTimeout(id) \/ ReceiveVote(id) \/ EvaluateVote(id)
             \/ Demote(id) \/ FinishDemotion(id)
             \/ Crown(id) \/ FinishCoronation(id)
      PROVE  TimerInv'
  BY <1>0, <1>4, ElectionsAwake
<1>5. QED BY <1>1, <1>2, <1>3, <1>4 DEF Next

\* The invariant holds in every reachable state.
THEOREM TimerInvariant == Spec => []TimerInv
<1>1. Init => TimerInv
  <2> SUFFICES ASSUME Init PROVE TimerInv OBVIOUS
  <2>1. ASSUME NEW n \in Node PROVE Awake(n)
    <3>1. spawned[n] > 0
      <4>1. spawned[n] = 1 BY DEF Init
      <4>2. QED BY <4>1, SMT
    <3>2. QED BY <3>1 DEF Awake, Timed
  <2>2. QED BY <2>1, InitBudget DEF TimerInv
<1>2. QED BY <1>1, NextTimer, PTL DEF Spec

\* runElectionTimer, becomeFollower, startElection: for any cluster and any
\* order of timeouts, replies, Stop and Resume, a follower or candidate always
\* has a goroutine that leads to its next election, unless the broadcast of one
\* failed.
THEOREM TimersAreKept == Spec => []TimerIsNeverLost
<1>1. TimerInv => TimerIsNeverLost
  <2> SUFFICES ASSUME TimerInv, NEW n \in Node,
                      state[n] \in {"Follower", "Candidate"},
                      \A id \in DOMAIN elections :
                        elections[id].node = n => elections[id].phase # "failed"
               PROVE  CanCampaign(n)
    BY DEF TimerIsNeverLost
  <2>1. Awake(n) /\ ~Campaigns(n, {"failed"}) BY DEF TimerInv, Campaigns
  <2>2. state[n] \notin {"Leader", "Dead"} OBVIOUS
  <2>3. Timed(n) => CanCampaign(n) BY DEF Timed, CanCampaign
  <2>4. Campaigns(n, {"demoted"}) \/ Campaigns(n, Open) => CanCampaign(n)
    BY DEF Campaigns, Open, CanCampaign
  <2>5. QED BY <2>1, <2>2, <2>3, <2>4 DEF Awake
<1>2. QED BY <1>1, TimerInvariant, PTL
=============================================================================
