----------------------- MODULE RaftReplicationProofs -----------------------
(***************************************************************************)
(* Rounds of heartbeats are started by leaders, terms go back in two places *)
(* only, and logs match unless entries were misplaced or a term had two    *)
(* leaders.  Log matching is not inductive: the invariant says instead that *)
(* every entry of every log is also, with all that precedes it, in the log *)
(* of the one node that led the entry's term (Owned), and that the entries *)
(* of a request are still where its sender read them (Slice).              *)
(***************************************************************************)
EXTENDS RaftTypeProofs

\* Zenon proves the steps without arithmetic; the others cite SMT.
USE Zenon

\* Node n once became leader while its term was t.
Led(n, t) == \E l \in leaders : l.node = n /\ l.term = t

\* The AppendEntries calls under way, and those whose answer is not handled yet.
Calls == building \cup waiting \cup {a.call : a \in stalled \cup answered}

LeadInv ==
  /\ TypeOK
  /\ \A n \in Node : state[n] = "Leader" => Led(n, currentTerm[n])
  /\ \A c \in Calls : c.ep # 0 => Led(c.src, c.saved)

-----------------------------------------------------------------------------
(* Leaders and their rounds.                                               *)

\* A step that makes nobody leader and starts no round.
LeadFrame ==
  /\ UNCHANGED leaders
  /\ \A n \in Node : state'[n] = "Leader" =>
       state[n] = "Leader" /\ currentTerm'[n] = currentTerm[n]
  /\ \A c \in Calls' : c.ep # 0 =>
       \E d \in Calls : d.ep # 0 /\ d.src = c.src /\ d.saved = c.saved

\* Such a step keeps the invariant.
LEMMA LeadFrameKeeps == ASSUME LeadInv, TypeOK', LeadFrame PROVE LeadInv'
<1>1. \A n, t : Led(n, t)' <=> Led(n, t) BY DEF LeadFrame, Led
<1>2. ASSUME NEW n \in Node, state'[n] = "Leader" PROVE Led(n, currentTerm[n])'
  <2>1. state[n] = "Leader" /\ currentTerm'[n] = currentTerm[n]
    BY <1>2 DEF LeadFrame
  <2>2. Led(n, currentTerm[n]) BY <2>1 DEF LeadInv
  <2>3. QED BY <2>1, <2>2 DEF Led, LeadFrame
<1>3. ASSUME NEW c \in Calls', c.ep # 0 PROVE Led(c.src, c.saved)'
  <2>1. PICK d \in Calls : d.ep # 0 /\ d.src = c.src /\ d.saved = c.saved
    BY <1>3 DEF LeadFrame
  <2>2. Led(d.src, d.saved) BY <2>1 DEF LeadInv
  <2>3. QED BY <1>1, <2>1, <2>2
<1>4. QED BY <1>2, <1>3 DEF LeadInv

\* Nobody becomes leader, nor stays leader in another term, where the state of a
\* node becomes something else or nothing changes.
LEMMA DeposedFrame ==
  ASSUME NodeType, NEW n \in Node,
         \/ UNCHANGED <<state, currentTerm>>
         \/ \E t, s : /\ s # "Leader" /\ state' = [state EXCEPT ![n] = s]
                      /\ \/ UNCHANGED currentTerm
                         \/ currentTerm' = [currentTerm EXCEPT ![n] = t]
  PROVE  \A m \in Node : state'[m] = "Leader" =>
           state[m] = "Leader" /\ currentTerm'[m] = currentTerm[m]
BY DEF NodeType

\* Neither does becomeFollower make a leader.
LEMMA FollowerFrame ==
  ASSUME NodeType, NEW n \in Node, NEW t,
         BecomeFollower(n, t) \/ UNCHANGED <<nodeVars, spawned>>
  PROVE  \A m \in Node : state'[m] = "Leader" =>
           state[m] = "Leader" /\ currentTerm'[m] = currentTerm[m]
<1>1. CASE BecomeFollower(n, t)
  BY <1>1 DEF NodeType, BecomeFollower
<1>2. CASE UNCHANGED <<nodeVars, spawned>> BY <1>2 DEF nodeVars
<1>3. QED BY <1>1, <1>2

\* The steps that leave the calls alone and depose somebody at most.
LEMMA NodeLeadFrames ==
  ASSUME TypeOK, NEW n \in Node,
         \/ Stop(n) \/ Resume(n) \/ StartTimer(n)
         \/ \E t \in 0..MaxTimeouts : ExitTimer(n, t) \/ ExpireTimer(n, t)
         \/ CheckDead(n) \/ StartElection(n) \/ HandleRequestVoteRequest(n)
         \/ \E c \in Command : Submit(n, c)
         \/ ReceiveSignal(n) \/ CollectBatch(n) \/ DeliverEntry(n)
  PROVE  LeadFrame
<1>0. NodeType BY DEF TypeOK
<1>1. UNCHANGED <<callVars, leaders>>
  BY DEF Stop, Resume, StartTimer, ExitTimer, ExpireTimer, CheckDead,
         StartElection, HandleRequestVoteRequest, Submit, ReceiveSignal,
         CollectBatch, DeliverEntry, netVars, histVars
<1>2. \A c \in Calls' : c \in Calls BY <1>1 DEF Calls, callVars
<1>3. SUFFICES \A m \in Node : state'[m] = "Leader" =>
                 state[m] = "Leader" /\ currentTerm'[m] = currentTerm[m]
  BY <1>1, <1>2 DEF LeadFrame
<1>4. CASE Stop(n) BY <1>0, <1>4, DeposedFrame DEF Stop
<1>5. CASE Resume(n) BY <1>0, <1>5, FollowerFrame DEF Resume
<1>6. CASE StartElection(n) BY <1>0, <1>6, DeposedFrame DEF StartElection
<1>7. CASE HandleRequestVoteRequest(n)
  <2>1. PICK m \in rvReq : HandleRequestVoteRequest(n)!(m)
    BY <1>7 DEF HandleRequestVoteRequest
  <2>2. \/ UNCHANGED <<state, currentTerm>>
        \/ /\ state' = [state EXCEPT ![n] = "Follower"]
           /\ currentTerm' = [currentTerm EXCEPT ![n] = m.term]
    BY <2>1 DEF nodeVars
  <2>3. QED BY <1>0, <2>2, DeposedFrame
<1>8. CASE \/ StartTimer(n) \/ CheckDead(n)
           \/ \E t \in 0..MaxTimeouts : ExitTimer(n, t) \/ ExpireTimer(n, t)
           \/ \E c \in Command : Submit(n, c)
           \/ ReceiveSignal(n) \/ CollectBatch(n) \/ DeliverEntry(n)
  BY <1>8 DEF StartTimer, ExitTimer, ExpireTimer, CheckDead, Submit,
     ReceiveSignal, CollectBatch, DeliverEntry, nodeVars
<1>9. QED BY <1>4, <1>5, <1>6, <1>7, <1>8

\* The steps of startElection that crown nobody.
LEMMA ElectionLeadFrames ==
  ASSUME TypeOK, NEW id \in DOMAIN elections,
         \/ ElectionTimeout(id) \/ ReceiveVote(id) \/ EvaluateVote(id)
         \/ Demote(id) \/ FinishDemotion(id) \/ FinishCoronation(id)
  PROVE  LeadFrame
<1>0. NodeType /\ elections[id].node \in Node BY ElectionType DEF TypeOK
<1>1. UNCHANGED <<callVars, leaders>>
  BY DEF ElectionTimeout, ReceiveVote, EvaluateVote, Demote, FinishDemotion,
         FinishCoronation, netVars, histVars
<1>2. \A c \in Calls' : c \in Calls BY <1>1 DEF Calls, callVars
<1>3. CASE Demote(id)
  BY <1>0, <1>1, <1>2, <1>3, DeposedFrame DEF Demote, LeadFrame
<1>4. CASE UNCHANGED <<state, currentTerm>>
  BY <1>1, <1>2, <1>4 DEF LeadFrame
<1>5. QED
  BY <1>3, <1>4 DEF ElectionTimeout, ReceiveVote, EvaluateVote, FinishDemotion,
     FinishCoronation, nodeVars

\* The steps that move a call on, or drop it.
LEMMA CallLeadFrames ==
  ASSUME TypeOK, NEW n \in Node,
         \/ FinishSignal(n) \/ SendAppendEntries(n) \/ AbandonCall(n)
         \/ HandleAppendEntriesReply(n)
         \/ HandleAppendEntriesRequest(n) \/ FailAppendEntriesRequest(n)
  PROVE  LeadFrame
<1>0. NodeType BY DEF TypeOK
<1> DEFINE Kept == \A c \in Calls' : c.ep # 0 =>
              \E d \in Calls : d.ep # 0 /\ d.src = c.src /\ d.saved = c.saved
<1>1. CASE FinishSignal(n)
  <2>1. \A c \in Calls' : c \in Calls BY <1>1 DEF FinishSignal, Calls
  <2>2. QED BY <1>1, <2>1 DEF FinishSignal, LeadFrame, nodeVars, histVars
<1>2. CASE SendAppendEntries(n)
  <2>1. PICK b \in building : SendAppendEntries(n)!(b)
    BY <1>2 DEF SendAppendEntries
  <2> DEFINE d == [src |-> n, dst |-> b.dst, ep |-> b.ep, saved |-> b.saved,
                   req |-> HeartbeatRequest(n, b.dst)]
  <2>2. b \in Calls /\ d.ep = b.ep /\ d.src = b.src /\ d.saved = b.saved
    BY <2>1 DEF Calls
  <2>3. \A c \in Calls' : c \in Calls \/ c = d BY <2>1 DEF Calls
  <2> HIDE DEF d
  <2>4. Kept BY <2>2, <2>3
  <2>5. QED BY <2>1, <2>4 DEF LeadFrame, nodeVars, histVars
<1>3. CASE AbandonCall(n)
  <2>1. \A c \in waiting : [c EXCEPT !.ep = 0, !.saved = 0].ep = 0
    BY DEF TypeOK, NetType, Call
  <2>2. \A c \in waiting' : c.ep # 0 => c \in waiting
    BY <1>3, <2>1 DEF AbandonCall
  <2>3. /\ stalled' \subseteq stalled /\ answered' \subseteq answered
        /\ UNCHANGED <<building, state, currentTerm, leaders>>
    BY <1>3 DEF AbandonCall, nodeVars, histVars
  <2>4. \A c \in Calls' : c.ep # 0 => c \in Calls BY <2>2, <2>3 DEF Calls
  <2>5. QED BY <2>3, <2>4 DEF LeadFrame
<1>4. CASE HandleAppendEntriesReply(n)
  <2>1. PICK a \in answered : HandleAppendEntriesReply(n)!(a)
    BY <1>4 DEF HandleAppendEntriesReply
  <2>2. /\ answered' \subseteq answered
        /\ UNCHANGED <<building, waiting, stalled, leaders>>
    BY <2>1 DEF histVars
  <2>3. \A c \in Calls' : c \in Calls BY <2>2 DEF Calls
  <2>4. BecomeFollower(n, a.term) \/ UNCHANGED <<nodeVars, spawned>> BY <2>1
  <2>5. QED BY <1>0, <2>2, <2>3, <2>4, FollowerFrame DEF LeadFrame
<1>5. CASE HandleAppendEntriesRequest(n)
  <2>1. PICK c \in waiting : HandleAppendEntriesRequest(n)!(c)
    BY <1>5 DEF HandleAppendEntriesRequest
  <2>2. /\ waiting' \subseteq waiting /\ UNCHANGED <<building, leaders>>
    BY <2>1
  <2>3. /\ \A a \in answered' : a \in answered \/ a.call = c
        /\ \A a \in stalled' : a \in stalled \/ a.call = c
    <3>1. UNCHANGED <<answered, stalled>> \/ Reply(n, c) BY <2>1
    <3>2. CASE UNCHANGED <<answered, stalled>> BY <3>2
    <3>3. CASE Reply(n, c)
      <4> DEFINE a0 == [call |-> c, term |-> currentTerm'[n],
                        success |-> Accepts(n, c.req)]
      <4>1. /\ answered' \subseteq answered \cup {a0}
            /\ stalled' \subseteq stalled \cup {a0}
        BY <3>3 DEF Reply
      <4>2. a0.call = c OBVIOUS
      <4> HIDE DEF a0
      <4>3. QED BY <4>1, <4>2
    <3>4. QED BY <3>1, <3>2, <3>3
  <2>4. \A d \in Calls' : d \in Calls BY <2>2, <2>3 DEF Calls
  <2>5. BecomeFollower(n, c.req.term) \/ UNCHANGED <<nodeVars, spawned>>
    BY <2>1 DEF FollowLeader
  <2>6. QED BY <1>0, <2>2, <2>4, <2>5, FollowerFrame DEF LeadFrame
<1>6. CASE FailAppendEntriesRequest(n)
  <2>1. PICK c \in waiting : FailAppendEntriesRequest(n)!(c)
    BY <1>6 DEF FailAppendEntriesRequest
  <2>2. /\ waiting' \subseteq waiting
        /\ UNCHANGED <<building, stalled, answered, leaders>>
    BY <2>1
  <2>3. \A d \in Calls' : d \in Calls BY <2>2 DEF Calls
  <2>4. BecomeFollower(n, c.req.term) \/ UNCHANGED <<nodeVars, spawned>>
    BY <2>1 DEF FollowLeader
  <2>5. QED BY <1>0, <2>2, <2>3, <2>4, FollowerFrame DEF LeadFrame
<1>7. QED BY <1>1, <1>2, <1>3, <1>4, <1>5, <1>6

\* A round: started by a leader, with the term it leads.
LEMMA HeartbeatLead ==
  ASSUME LeadInv, TypeOK', NEW n \in Node, NEW ep \in loops[n],
         HeartbeatLoop(n, ep)
  PROVE  LeadInv'
<1>1. UNCHANGED <<state, currentTerm, leaders, waiting, stalled, answered>>
  BY DEF HeartbeatLoop, nodeVars, histVars
<1> DEFINE New == {[src |-> n, dst |-> p, ep |-> ep, saved |-> currentTerm[n]] :
                      p \in Peers(n)}
<1>2. CASE UNCHANGED building
  <2>1. LeadFrame BY <1>1, <1>2 DEF LeadFrame, Calls
  <2>2. QED BY <2>1, LeadFrameKeeps
<1>3. CASE state[n] = "Leader" /\ building' = building \cup New
  <2>1. Led(n, currentTerm[n]) BY <1>3 DEF LeadInv
  <2>2. ASSUME NEW c \in New PROVE c.src = n /\ c.saved = currentTerm[n]
    <3>1. PICK p \in Peers(n) :
            c = [src |-> n, dst |-> p, ep |-> ep, saved |-> currentTerm[n]]
      OBVIOUS
    <3>2. QED BY <3>1
  <2> HIDE DEF New
  <2>3. \A c \in Calls' : c \in Calls \/ c \in New BY <1>1, <1>3 DEF Calls
  <2>4. \A c \in Calls' : c.ep # 0 => Led(c.src, c.saved)
    BY <2>1, <2>2, <2>3 DEF LeadInv
  <2>5. QED BY <1>1, <2>4 DEF LeadInv, Led
<1>4. QED BY <1>2, <1>3 DEF HeartbeatLoop

\* becomeLeader: the history notes the term the node has by now.
LEMMA CrownLead ==
  ASSUME LeadInv, TypeOK', NEW id \in DOMAIN elections, Crown(id)
  PROVE  LeadInv'
<1> DEFINE n == elections[id].node
           l == [node |-> n, term |-> currentTerm[n],
                 elected |-> elections[id].term]
<1>0. state \in [Node -> State] BY DEF LeadInv, TypeOK, NodeType
<1>1. /\ UNCHANGED <<currentTerm, callVars>>
      /\ state' = [state EXCEPT ![n] = "Leader"]
      /\ leaders' = leaders \cup {l}
  BY DEF Crown, netVars
<1>2. l.node = n /\ l.term = currentTerm[n] OBVIOUS
<1> HIDE DEF l, n
<1>3. \A m, t : Led(m, t) => Led(m, t)' BY <1>1 DEF Led
<1>4. ASSUME NEW m \in Node, state'[m] = "Leader" PROVE Led(m, currentTerm[m])'
  <2>1. CASE m = n BY <1>1, <1>2, <2>1 DEF Led
  <2>2. CASE m # n
    <3>1. state[m] = "Leader" BY <1>0, <1>1, <1>4, <2>2
    <3>2. Led(m, currentTerm[m]) BY <3>1 DEF LeadInv
    <3>3. QED BY <1>1, <3>2 DEF Led
  <2>3. QED BY <2>1, <2>2
<1>5. ASSUME NEW c \in Calls', c.ep # 0 PROVE Led(c.src, c.saved)'
  <2>1. c \in Calls BY <1>1 DEF Calls, callVars
  <2>2. Led(c.src, c.saved) BY <1>5, <2>1 DEF LeadInv
  <2>3. QED BY <1>3, <2>2
<1>6. QED BY <1>4, <1>5 DEF LeadInv

\* NewRaft: there is no leader and no call.
LEMMA InitLead == Init => LeadInv
<1> SUFFICES ASSUME Init PROVE LeadInv OBVIOUS
<1>1. TypeOK BY InitType
<1>2. Calls = {} BY DEF Init, Calls
<1>3. \A n \in Node : state[n] # "Leader" BY DEF Init
<1>4. QED BY <1>1, <1>2, <1>3 DEF LeadInv

\* Every step of every node keeps the invariant.
LEMMA NextLead == LeadInv /\ [Next]_vars => LeadInv'
<1> SUFFICES ASSUME LeadInv, [Next]_vars PROVE LeadInv' OBVIOUS
<1>0. TypeOK /\ TypeOK' BY NextType DEF LeadInv
<1>1. CASE UNCHANGED vars
  <2>1. LeadFrame
    BY <1>1 DEF vars, LeadFrame, Calls, netVars, callVars, nodeVars, histVars
  <2>2. QED BY <1>0, <2>1, LeadFrameKeeps
<1>2. ASSUME NEW n \in Node,
             \/ Stop(n) \/ Resume(n)
             \/ StartTimer(n)
             \/ \E t \in 0..MaxTimeouts : ExitTimer(n, t) \/ ExpireTimer(n, t)
             \/ CheckDead(n) \/ StartElection(n)
             \/ HandleRequestVoteRequest(n)
             \/ \E c \in Command : Submit(n, c)
             \/ FinishSignal(n)
             \/ \E ep \in loops[n] : HeartbeatLoop(n, ep)
             \/ SendAppendEntries(n) \/ AbandonCall(n)
             \/ HandleAppendEntriesReply(n)
             \/ HandleAppendEntriesRequest(n) \/ FailAppendEntriesRequest(n)
             \/ ReceiveSignal(n) \/ CollectBatch(n) \/ DeliverEntry(n)
      PROVE  LeadInv'
  BY <1>0, <1>2, NodeLeadFrames, CallLeadFrames, LeadFrameKeeps, HeartbeatLead
<1>3. ASSUME NEW id \in DOMAIN elections,
             \/ ElectionTimeout(id) \/ ReceiveVote(id) \/ EvaluateVote(id)
             \/ Demote(id) \/ FinishDemotion(id)
             \/ Crown(id) \/ FinishCoronation(id)
      PROVE  LeadInv'
  BY <1>0, <1>3, ElectionLeadFrames, LeadFrameKeeps, CrownLead
<1>4. QED BY <1>1, <1>2, <1>3 DEF Next

\* The invariant holds in every reachable state.
THEOREM LeadInvariant == Spec => []LeadInv
<1>1. QED BY InitLead, NextLead, PTL DEF Spec

\* sendLeaderHeartbeats: in any cluster, whatever happened to the node since, a
\* call and the answer compared with its saved term belong to a round that was
\* started by a leader of that term.
THEOREM RoundsAreLed == Spec => []RequestNeedsLeader
<1>1. LeadInv => RequestNeedsLeader
  BY DEF LeadInv, RequestNeedsLeader, Calls, Led
<1>2. QED BY <1>1, LeadInvariant, PTL

-----------------------------------------------------------------------------
(* Where a term goes back.                                                 *)

\* The term of no node goes back in this step.
TermsKept == \A m \in Node : ~(currentTerm'[m] < currentTerm[m])

\* A step that leaves the terms alone, or takes one node to a term that is not
\* below its own, takes nobody back.
LEMMA TermRaised ==
  ASSUME NodeType, NEW n \in Node, NEW t \in Nat,
         \/ UNCHANGED currentTerm
         \/ currentTerm' = [currentTerm EXCEPT ![n] = t] /\ t >= currentTerm[n]
  PROVE  TermsKept
<1>1. currentTerm \in [Node -> Nat] BY DEF NodeType
<1>2. CASE UNCHANGED currentTerm BY <1>1, <1>2, SMT DEF TermsKept
<1>3. CASE currentTerm' = [currentTerm EXCEPT ![n] = t] /\ t >= currentTerm[n]
  BY <1>1, <1>3, SMT DEF TermsKept
<1>4. QED BY <1>2, <1>3

\* FollowLeader compares the term of the request with the node's own.
LEMMA FollowRaises ==
  ASSUME NodeType, NEW n \in Node, NEW req \in AppendEntriesRequest,
         FollowLeader(n, req)
  PROVE  TermsKept
<1>1. req.term \in Nat /\ currentTerm[n] \in Nat
  BY DEF AppendEntriesRequest, NodeType
<1>2. \/ UNCHANGED currentTerm
      \/ /\ currentTerm' = [currentTerm EXCEPT ![n] = req.term]
         /\ req.term > currentTerm[n] \/ req.term = currentTerm[n]
  BY DEF FollowLeader, BecomeFollower, nodeVars
<1>3. req.term > currentTerm[n] \/ req.term = currentTerm[n] =>
        req.term >= currentTerm[n]
  BY <1>1, SMT
<1>4. QED BY <1>1, <1>2, <1>3, TermRaised

\* The steps of a node, its handling of replies apart, take no term back.
LEMMA NodeTerms ==
  ASSUME TypeOK, NEW n \in Node,
         \/ Stop(n) \/ Resume(n)
         \/ StartTimer(n)
         \/ \E t \in 0..MaxTimeouts : ExitTimer(n, t) \/ ExpireTimer(n, t)
         \/ CheckDead(n) \/ StartElection(n)
         \/ HandleRequestVoteRequest(n)
         \/ \E c \in Command : Submit(n, c)
         \/ FinishSignal(n)
         \/ \E ep \in loops[n] : HeartbeatLoop(n, ep)
         \/ SendAppendEntries(n) \/ AbandonCall(n)
         \/ HandleAppendEntriesRequest(n) \/ FailAppendEntriesRequest(n)
         \/ ReceiveSignal(n) \/ CollectBatch(n) \/ DeliverEntry(n)
  PROVE  TermsKept
<1>0. NodeType /\ currentTerm[n] \in Nat BY DEF TypeOK, NodeType
<1>1. CASE Resume(n)
  <2>1. currentTerm[n] >= currentTerm[n] BY <1>0, SMT
  <2>2. QED BY <1>0, <1>1, <2>1, TermRaised DEF Resume, BecomeFollower
<1>2. CASE StartElection(n)
  <2>1. currentTerm' = [currentTerm EXCEPT ![n] = currentTerm[n] + 1]
    BY <1>2 DEF StartElection
  <2>2. currentTerm[n] + 1 \in Nat /\ currentTerm[n] + 1 >= currentTerm[n]
    BY <1>0, SMT
  <2>3. QED BY <1>0, <2>1, <2>2, TermRaised
<1>3. CASE HandleRequestVoteRequest(n)
  <2>1. PICK m \in rvReq : HandleRequestVoteRequest(n)!(m)
    BY <1>3 DEF HandleRequestVoteRequest
  <2>2. m.term \in Nat BY DEF TypeOK, VoteType, RequestVoteRequest
  <2>3. \/ UNCHANGED currentTerm
        \/ /\ currentTerm' = [currentTerm EXCEPT ![n] = m.term]
           /\ m.term > currentTerm[n]
    BY <2>1 DEF nodeVars
  <2>4. m.term > currentTerm[n] => m.term >= currentTerm[n]
    BY <1>0, <2>2, SMT
  <2>5. QED BY <1>0, <2>2, <2>3, <2>4, TermRaised
<1>4. CASE HandleAppendEntriesRequest(n) \/ FailAppendEntriesRequest(n)
  <2>1. PICK c \in waiting : FollowLeader(n, c.req) \/ UNCHANGED currentTerm
    BY <1>4
    DEF HandleAppendEntriesRequest, FailAppendEntriesRequest, nodeVars
  <2>2. c.req \in AppendEntriesRequest BY DEF TypeOK, NetType, Call
  <2>3. QED BY <1>0, <2>1, <2>2, FollowRaises, TermRaised
<1>5. CASE UNCHANGED currentTerm BY <1>0, <1>5, TermRaised
<1>6. QED
  BY <1>1, <1>2, <1>3, <1>4, <1>5 DEF Stop, StartTimer, ExitTimer, ExpireTimer,
     CheckDead, Submit, FinishSignal, HeartbeatLoop, SendAppendEntries,
     AbandonCall, ReceiveSignal, CollectBatch, DeliverEntry, nodeVars

\* The term of a node goes back only where becomeFollower is given a term that
\* was compared with an old one: by sendLeaderHeartbeats with an answer to a call
\* of an older term, and by startElection, which compares without the lock.
THEOREM TermsGoBackInTwoPlaces == Spec => TermGoesBackOnlyByLateReply
<1>1. TypeOK /\ [Next]_vars =>
        [\A n \in Node :
           currentTerm'[n] < currentTerm[n] =>
             TakesLateAnswer(n) \/ Demotes(n)]_vars
  <2> SUFFICES ASSUME TypeOK, Next, NEW m \in Node,
                      currentTerm'[m] < currentTerm[m]
               PROVE  TakesLateAnswer(m) \/ Demotes(m)
    OBVIOUS
  <2>0. NodeType /\ currentTerm \in [Node -> Nat] BY DEF TypeOK, NodeType
  <2>1. ~TermsKept BY DEF TermsKept
  <2>2. ASSUME NEW n \in Node, HandleAppendEntriesReply(n)
        PROVE  TakesLateAnswer(m)
    <3>1. PICK a \in answered : HandleAppendEntriesReply(n)!(a)
      BY <2>2 DEF HandleAppendEntriesReply
    <3>2. a.term \in Nat /\ a.call.saved \in Nat
      BY DEF TypeOK, NetType, Answer, Call
    <3>3. ~UNCHANGED currentTerm BY <2>0, <2>1, TermRaised
    <3>4. /\ currentTerm' = [currentTerm EXCEPT ![n] = a.term]
          /\ a.term > a.call.saved
      BY <3>1, <3>3 DEF BecomeFollower, nodeVars
    <3>5. m = n /\ a.term < currentTerm[n]
      <4>1. m # n => currentTerm'[m] = currentTerm[m] BY <2>0, <3>4
      <4>2. ~(currentTerm[m] < currentTerm[m]) BY <2>0, SMT
      <4>3. m = n BY <4>1, <4>2
      <4>4. currentTerm'[n] = a.term BY <2>0, <3>4
      <4>5. QED BY <4>3, <4>4
    <3>6. a.call.saved < currentTerm[n] BY <2>0, <3>2, <3>4, <3>5, SMT
    <3>7. a \in answered \ answered' /\ a.call.src = n BY <3>1
    <3>8. QED BY <3>5, <3>6, <3>7 DEF TakesLateAnswer
  <2>3. ASSUME NEW id \in DOMAIN elections, Demote(id) PROVE Demotes(m)
    <3> DEFINE n == elections[id].node
    <3>1. /\ elections[id].phase = "demote"
          /\ currentTerm' = [currentTerm EXCEPT ![n] = elections[id].repTerm]
          /\ elections' = [elections EXCEPT ![id].phase = "demoted"]
      BY <2>3 DEF Demote
    <3>2. elections[id] \in Election BY ElectionType DEF TypeOK
    <3>3. elections'[id].phase = "demoted" BY <3>1, <3>2, SMT DEF Election
    <3> HIDE DEF n
    <3>4. m = n
      <4>1. m # n => currentTerm'[m] = currentTerm[m] BY <2>0, <3>1
      <4>2. ~(currentTerm[m] < currentTerm[m]) BY <2>0, SMT
      <4>3. QED BY <4>1, <4>2
    <3>5. QED BY <3>1, <3>3, <3>4 DEF Demotes, n
  <2>4. ASSUME NEW id \in DOMAIN elections,
               \/ ElectionTimeout(id) \/ ReceiveVote(id) \/ EvaluateVote(id)
               \/ FinishDemotion(id) \/ Crown(id) \/ FinishCoronation(id)
        PROVE  FALSE
    <3>1. UNCHANGED currentTerm
      BY <2>4 DEF ElectionTimeout, ReceiveVote, EvaluateVote, FinishDemotion,
         Crown, FinishCoronation, nodeVars
    <3>2. QED BY <2>0, <2>1, <3>1, TermRaised
  <2>5. QED BY <2>1, <2>2, <2>3, <2>4, NodeTerms DEF Next
<1>2. QED BY <1>1, TypeCorrect, PTL DEF Spec, TermGoesBackOnlyByLateReply

-----------------------------------------------------------------------------
(* Log matching.                                                           *)

\* The entries of a request are in the log of its sender n, from the index it
\* read them at, and so is the entry before them.
Slice(req, n) ==
  req.entries # <<>> =>
    /\ SentFrom(req) + Len(req.entries) <= Len(log[n])
    /\ \A j \in 1..Len(req.entries) :
         log[n][SentFrom(req) + j] = req.entries[j]
    /\ req.followerHasEntries =>
         req.prevLogTerm = log[n][req.prevLogIndex + 1].term

\* The log of m up to position i is that of a leader of the term at i.
Owned(m, i) ==
  \E l \in leaders :
    /\ l.term = log[m][i].term
    /\ i <= Len(log[l.node])
    /\ \A j \in 1..i : log[l.node][j] = log[m][j]

\* No entry was appended behind one it conflicts with, no term had two leaders.
Orderly == misplaced = {} /\ ~SplitTerm

MatchInv ==
  /\ LeadInv
  /\ \A c \in waiting : Slice(c.req, c.src)
  /\ Orderly => \A m \in Node : \A i \in 1..Len(log[m]) : Owned(m, i)

\* What no step undoes: logs keep their entries, and the history its records.
Grown ==
  /\ \A m \in Node : Extended(m)
  /\ leaders \subseteq leaders' /\ misplaced \subseteq misplaced'

\* So what was disorderly stays so.
LEMMA OrderlyBefore == ASSUME Grown, Orderly' PROVE Orderly
<1>1. misplaced = {} BY DEF Grown, Orderly
<1>2. SplitTerm => SplitTerm' BY DEF Grown, SplitTerm
<1>3. QED BY <1>1, <1>2 DEF Orderly

\* The entries of a request stay where they are in the sender's log.
LEMMA SliceKept ==
  ASSUME StoreType, TypeOK', Grown, NEW req \in AppendEntriesRequest,
         NEW n \in Node, Slice(req, n)
  PROVE  Slice(req, n)'
<1> SUFFICES ASSUME req.entries # <<>> PROVE Slice(req, n)' BY DEF Slice
<1> DEFINE from == SentFrom(req)
           len == Len(req.entries)
<1>1. /\ from \in Nat /\ len \in Nat /\ Len(log[n]) \in Nat
      /\ Len(log'[n]) \in Nat /\ req.prevLogIndex \in Nat
      /\ len > 0
  <2>1. req.entries \in Seq(Entry) BY DEF AppendEntriesRequest
  <2>2. len \in Nat \ {0} BY <2>1, EmptySeq
  <2>3. from \in Nat BY SentFromType
  <2>4. Len(log[n]) \in Nat /\ Len(log'[n]) \in Nat
    BY LenProperties DEF StoreType, TypeOK
  <2>5. QED BY <2>2, <2>3, <2>4, SMT DEF AppendEntriesRequest
<1>2. /\ from + len <= Len(log[n])
      /\ \A j \in 1..len : log[n][from + j] = req.entries[j]
      /\ req.followerHasEntries =>
           req.prevLogTerm = log[n][req.prevLogIndex + 1].term
  BY DEF Slice
<1>3. /\ Len(log'[n]) >= Len(log[n])
      /\ \A i \in 1..Len(log[n]) : log'[n][i] = log[n][i]
  BY DEF Grown, Extended
<1>4. req.followerHasEntries => from = req.prevLogIndex + 1 BY DEF SentFrom
<1> HIDE DEF from, len
<1>5. from + len <= Len(log'[n]) BY <1>1, <1>2, <1>3, SMT
<1>6. ASSUME NEW j \in 1..len PROVE log'[n][from + j] = req.entries[j]
  <2>1. from + j \in 1..Len(log[n]) BY <1>1, <1>2, SMT
  <2>2. QED BY <1>2, <1>3, <2>1
<1>7. ASSUME req.followerHasEntries
      PROVE  req.prevLogTerm = log'[n][req.prevLogIndex + 1].term
  <2>1. req.prevLogIndex + 1 \in 1..Len(log[n]) BY <1>1, <1>2, <1>4, <1>7, SMT
  <2>2. QED BY <1>2, <1>3, <1>7, <2>1
<1>8. QED BY <1>5, <1>6, <1>7 DEF Slice, from, len, SentFrom

\* An entry keeps its owner.
LEMMA OwnedKept ==
  ASSUME TypeOK, TypeOK', Grown, NEW m \in Node, NEW i \in 1..Len(log[m]),
         Owned(m, i)
  PROVE  Owned(m, i)'
<1>1. PICK l \in leaders :
        /\ l.term = log[m][i].term
        /\ i <= Len(log[l.node])
        /\ \A j \in 1..i : log[l.node][j] = log[m][j]
  BY DEF Owned
<1>2. l \in leaders' BY DEF Grown
<1>3. l.node \in Node BY DEF TypeOK, HistType
<1>4. /\ Len(log[m]) \in Nat /\ Len(log[l.node]) \in Nat
      /\ Len(log'[l.node]) \in Nat
  BY <1>3, LenProperties DEF TypeOK, StoreType
<1>5. /\ \A j \in 1..Len(log[m]) : log'[m][j] = log[m][j]
      /\ \A j \in 1..Len(log[l.node]) : log'[l.node][j] = log[l.node][j]
      /\ Len(log'[l.node]) >= Len(log[l.node])
  BY <1>3 DEF Grown, Extended
<1>6. i <= Len(log'[l.node]) BY <1>1, <1>4, <1>5, SMT
<1>7. ASSUME NEW j \in 1..i PROVE log'[l.node][j] = log'[m][j]
  <2>1. j \in 1..Len(log[m]) /\ j \in 1..Len(log[l.node])
    BY <1>1, <1>4, SMT
  <2>2. QED BY <1>1, <1>5, <2>1
<1>8. l.term = log'[m][i].term BY <1>1, <1>5
<1>9. QED BY <1>2, <1>6, <1>7, <1>8 DEF Owned

\* As long as all is orderly, two logs that have an entry of the same term at a
\* position agree up to it: its leader's log has both prefixes.
LEMMA OwnersMatch ==
  ASSUME MatchInv, Orderly, NEW n \in Node, NEW m \in Node,
         NEW i \in 1..Len(log[n]), i \in 1..Len(log[m]),
         log[n][i].term = log[m][i].term
  PROVE  \A j \in 1..i : log[n][j] = log[m][j]
<1>1. PICK l \in leaders :
        /\ l.term = log[n][i].term
        /\ \A j \in 1..i : log[l.node][j] = log[n][j]
  BY DEF MatchInv, Owned
<1>2. PICK k \in leaders :
        /\ k.term = log[m][i].term
        /\ \A j \in 1..i : log[k.node][j] = log[m][j]
  BY DEF MatchInv, Owned
<1>3. l.node = k.node BY <1>1, <1>2 DEF Orderly, SplitTerm
<1>4. QED BY <1>1, <1>2, <1>3

\* HandleAppendEntriesRequest: the entries that are skipped are the first ones,
\* and the log has entries of their terms at their places.
LEMMA MatchingPrefix ==
  ASSUME NEW n \in Node, NEW req \in AppendEntriesRequest, StoreType
  PROVE  /\ Matching(n, req) \in 0..Len(req.entries)
         /\ \A i \in 1..Matching(n, req) :
              /\ SentFrom(req) + i <= Len(log[n])
              /\ log[n][SentFrom(req) + i].term = req.entries[i].term
<1> DEFINE Same(i) == /\ SentFrom(req) + i <= Len(log[n])
                      /\ log[n][SentFrom(req) + i].term = req.entries[i].term
           J == {j \in 1..Len(req.entries) : \A i \in 1..j : Same(i)}
           M == Cardinality(J)
<1>1. Matching(n, req) = M BY DEF Matching
<1>2. Len(req.entries) \in Nat BY LenProperties DEF AppendEntriesRequest
<1>3. /\ IsFiniteSet(1..Len(req.entries))
      /\ Cardinality(1..Len(req.entries)) = Len(req.entries)
  BY <1>2, FS_Interval, SMT
<1>4. J \in SUBSET (1..Len(req.entries)) OBVIOUS
<1>5. IsFiniteSet(J) /\ M <= Len(req.entries) /\ M \in Nat
  <2> HIDE DEF J
  <2> QED BY <1>3, <1>4, FS_Subset, FS_CardinalityType
<1>6. ASSUME NEW j \in J, NEW k \in 1..j PROVE k \in J
  <2>1. k \in 1..Len(req.entries) BY <1>2, SMT
  <2>2. \A i \in 1..k : i \in 1..j BY <1>2, SMT
  <2>3. \A i \in 1..j : Same(i) OBVIOUS
  <2> HIDE DEF Same
  <2>4. QED BY <2>1, <2>2, <2>3
<1>7. M > 0 => M \in J
  <2> SUFFICES ASSUME M > 0, M \notin J PROVE FALSE OBVIOUS
  <2>1. ASSUME NEW j \in J PROVE j \in 1..(M - 1)
    <3>1. j \in Nat /\ j >= 1 BY <1>2, <1>4, SMT
    <3>2. M \notin 1..j BY <1>6
    <3> HIDE DEF M, J
    <3>3. QED BY <1>5, <3>1, <3>2, SMT
  <2>2. J \in SUBSET (1..(M - 1)) BY <2>1
  <2> HIDE DEF J
  <2>3. PICK m \in Nat : m = M BY <1>5
  <2>4. IsFiniteSet(1..(m - 1)) /\ Cardinality(1..(m - 1)) = m - 1
    <3>1. m - 1 \in Int /\ 1 \in Int /\ m > 0 BY <2>3, SMT
    <3>2. /\ IsFiniteSet(1..(m - 1))
          /\ Cardinality(1..(m - 1)) = IF 1 > m - 1 THEN 0 ELSE (m - 1) - 1 + 1
      BY <3>1, FS_Interval
    <3>3. QED BY <3>1, <3>2, SMT
  <2>5. Cardinality(J) <= Cardinality(1..(m - 1)) BY <2>2, <2>3, <2>4, FS_Subset
  <2>6. m <= m - 1 BY <2>3, <2>4, <2>5
  <2>7. QED BY <2>3, <2>6, SMT
<1>8. ASSUME NEW i \in 1..M PROVE Same(i)
  <2>1. M > 0 BY <1>5, SMT
  <2>2. M \in J BY <1>7, <2>1
  <2>3. QED BY <2>2
<1> HIDE DEF J, Same
<1>9. M \in 0..Len(req.entries) BY <1>2, <1>5, SMT
<1>10. QED BY <1>1, <1>8, <1>9 DEF Same

\* Where a request was accepted and what it brings goes right behind the log, the
\* log becomes a prefix of the sender's.
LEMMA StoredIsPrefix ==
  ASSUME MatchInv, Orderly, NEW n \in Node, NEW c \in waiting,
         NEW k \in 1..Len(Missing(n, c.req)), Accepts(n, c.req),
         SentFrom(c.req) + Matching(n, c.req) >= Len(log[n])
  PROVE  /\ Len(log[n]) + k <= Len(log[c.src])
         /\ \A i \in 1..(Len(log[n]) + k) :
              (log[n] \o SubSeq(Missing(n, c.req), 1, k))[i] = log[c.src][i]
<1> DEFINE req == c.req
           src == c.src
           from == SentFrom(req)
           M == Matching(n, req)
           len == Len(req.entries)
           mine == log[n]
           new == SubSeq(Missing(n, req), 1, k)
<1>1. /\ req \in AppendEntriesRequest /\ src \in Node /\ TypeOK /\ StoreType
  BY DEF MatchInv, LeadInv, TypeOK, NetType, Call
<1>2. /\ mine \in Seq(Entry) /\ req.entries \in Seq(Entry)
      /\ log[src] \in Seq(Entry)
  BY <1>1 DEF StoreType, AppendEntriesRequest
<1>3. /\ Len(mine) \in Nat /\ len \in Nat /\ Len(log[src]) \in Nat
      /\ from \in Nat /\ req.prevLogIndex \in Nat
  BY <1>1, <1>2, LenProperties, SentFromType DEF AppendEntriesRequest
<1>4. /\ M \in 0..len
      /\ \A i \in 1..M : /\ from + i <= Len(mine)
                         /\ mine[from + i].term = req.entries[i].term
  BY <1>1, MatchingPrefix
<1>5. Missing(n, req) \in Seq(Entry) /\ Len(Missing(n, req)) \in Nat
  BY <1>1, MissingType, LenProperties
<1>6. /\ Len(Missing(n, req)) = len - M
      /\ \A i \in 1..(len - M) : Missing(n, req)[i] = req.entries[M + i]
  <2>1. \A i \in (M + 1)..len : req.entries[i] \in Entry
    BY <1>2, <1>3, <1>4, ElementOfSeq, SMT
  <2>2. M + 1 \in Int /\ len \in Int BY <1>3, <1>4, SMT
  <2>3. /\ Len(Missing(n, req)) = IF M + 1 <= len THEN len - (M + 1) + 1 ELSE 0
        /\ \A i \in 1..(len - (M + 1) + 1) :
             Missing(n, req)[i] = req.entries[M + 1 + i - 1]
    <3>1. Missing(n, req) = SubSeq(req.entries, M + 1, len) BY DEF Missing
    <3> HIDE DEF M, len, req
    <3>2. QED BY <2>1, <2>2, <3>1, SubSeqProperties, SMT
  <2> HIDE DEF M, len, req
  <2>4. Len(Missing(n, req)) = len - M BY <1>3, <1>4, <2>3, SMT
  <2>5. ASSUME NEW i \in 1..(len - M)
        PROVE  Missing(n, req)[i] = req.entries[M + i]
    <3>1. i \in 1..(len - (M + 1) + 1) /\ M + 1 + i - 1 = M + i
      BY <1>3, <1>4, SMT
    <3>2. QED BY <2>3, <3>1
  <2>6. QED BY <2>4, <2>5
<1>7. M + k <= len /\ k \in Nat /\ k >= 1 /\ len > 0
  <2> HIDE DEF M, len, req
  <2> QED BY <1>3, <1>4, <1>6, SMT DEF req
<1>8. /\ from + len <= Len(log[src])
      /\ \A j \in 1..len : log[src][from + j] = req.entries[j]
      /\ req.followerHasEntries =>
           req.prevLogTerm = log[src][req.prevLogIndex + 1].term
  <2>1. req.entries # <<>> BY <1>2, <1>7, EmptySeq, SMT
  <2>2. Slice(req, src) BY DEF MatchInv
  <2>3. QED BY <2>1, <2>2 DEF Slice
<1>9. /\ req.followerHasEntries =>
           /\ from = req.prevLogIndex + 1 /\ from <= Len(mine)
           /\ mine[from].term = req.prevLogTerm
      /\ ~req.followerHasEntries => from = 0
  <2>1. req.followerHasEntries => from = req.prevLogIndex + 1 BY DEF SentFrom
  <2>2. req.followerHasEntries =>
          /\ req.prevLogIndex < Len(mine)
          /\ mine[req.prevLogIndex + 1].term = req.prevLogTerm
    BY DEF Accepts, Acceptable
  <2>3. req.followerHasEntries => from <= Len(mine)
    <3> HIDE DEF from, req, mine
    <3> QED BY <1>3, <2>1, <2>2, SMT
  <2>4. QED BY <2>1, <2>2, <2>3 DEF SentFrom
<1>10. from + M = Len(mine)
  <2>1. M > 0 => from + M <= Len(mine)
    <3> HIDE DEF from, req, mine, M, len
    <3>1. M > 0 => M \in 1..M BY <1>3, <1>4, SMT
    <3>2. QED BY <1>4, <3>1
  <2>2. M = 0 => from <= Len(mine)
    <3>1. 0 <= Len(mine) BY <1>3, SMT
    <3>2. QED BY <1>9, <3>1 DEF AppendEntriesRequest
  <2>3. from + M >= Len(mine) OBVIOUS
  <2> HIDE DEF from, req, mine, M, len
  <2>4. QED BY <1>3, <1>4, <2>1, <2>2, <2>3, SMT
<1>11. ASSUME Len(mine) > 0
       PROVE  mine[Len(mine)].term = log[src][Len(mine)].term
  <2>1. CASE M > 0
    <3>1. M \in 1..M /\ M \in 1..len
      <4> HIDE DEF from, req, mine, M, len
      <4> QED BY <1>3, <1>4, <2>1, SMT
    <3>2. mine[from + M].term = req.entries[M].term BY <1>4, <3>1
    <3>3. log[src][from + M] = req.entries[M] BY <1>8, <3>1
    <3>4. QED BY <1>10, <3>2, <3>3
  <2>2. CASE M = 0
    <3>1. from = Len(mine)
      <4> HIDE DEF from, req, mine, M, len
      <4> QED BY <1>3, <1>10, <2>2, SMT
    <3>2. from # 0
      <4> HIDE DEF from, req, mine, M, len
      <4> QED BY <1>3, <1>11, <3>1, SMT
    <3>3. req.followerHasEntries BY <1>9, <3>2
    <3>4. QED BY <1>8, <1>9, <3>1, <3>3
  <2>3. M > 0 \/ M = 0
    <3> HIDE DEF from, req, mine, M, len
    <3> QED BY <1>3, <1>4, SMT
  <2>4. QED BY <2>1, <2>2, <2>3
<1>12. Len(mine) + k <= Len(log[src])
  <2> HIDE DEF from, req, mine, M, len, src
  <2> QED BY <1>3, <1>4, <1>7, <1>8, <1>10, SMT
<1>13. \A i \in 1..Len(mine) : mine[i] = log[src][i]
  <2>1. CASE Len(mine) > 0
    <3>1. Len(mine) \in 1..Len(mine) /\ Len(mine) \in 1..Len(log[src])
      <4> HIDE DEF mine, src
      <4> QED BY <1>3, <1>7, <1>12, <2>1, SMT
    <3>2. \A i \in 1..Len(mine) : log[n][i] = log[src][i]
      BY <1>1, <1>11, <2>1, <3>1, OwnersMatch
    <3>3. QED BY <3>2
  <2>2. CASE ~(Len(mine) > 0)
    <3> HIDE DEF mine, src
    <3> QED BY <1>3, <2>2, SMT
  <2>3. QED BY <2>1, <2>2
<1>14. /\ new \in Seq(Entry) /\ Len(new) = k
       /\ \A i \in 1..k : new[i] = req.entries[M + i]
  <2>1. \A i \in 1..k : Missing(n, req)[i] \in Entry
    BY <1>5, <1>7, ElementOfSeq, SMT
  <2>2. k \in Int /\ 1 \in Int BY <1>7, SMT
  <2>3. /\ new \in Seq(Entry)
        /\ Len(new) = IF 1 <= k THEN k - 1 + 1 ELSE 0
        /\ \A i \in 1..(k - 1 + 1) : new[i] = Missing(n, req)[1 + i - 1]
    <3> HIDE DEF M, len, req
    <3> QED BY <2>1, <2>2, SubSeqProperties, SMT
  <2>4. \A i \in 1..k : i \in 1..(len - M)
    <3> HIDE DEF from, req, mine, M, len, src
    <3> QED BY <1>3, <1>4, <1>7, SMT
  <2>5. \A i \in 1..k : new[i] = Missing(n, req)[i]
    <3> HIDE DEF from, req, mine, M, len, src, new
    <3> QED BY <1>7, <2>3, SMT
  <2>6. Len(new) = k
    <3> HIDE DEF from, req, mine, M, len, src, new
    <3> QED BY <1>7, <2>3, SMT
  <2>7. QED BY <1>6, <2>3, <2>4, <2>5, <2>6
<1> HIDE DEF from, req, mine, M, len, src, new
<1>15. \A i \in 1..(Len(mine) + k) :
         (mine \o new)[i] = IF i <= Len(mine) THEN mine[i]
                            ELSE new[i - Len(mine)]
  <2>1. \A i \in 1..(Len(mine) + Len(new)) :
          (mine \o new)[i] = IF i <= Len(mine) THEN mine[i]
                             ELSE new[i - Len(mine)]
    BY <1>2, <1>14, ConcatProperties
  <2>2. QED BY <1>14, <2>1
<1>16. ASSUME NEW i \in 1..(Len(mine) + k)
       PROVE  (mine \o new)[i] = log[src][i]
  <2>1. CASE i <= Len(mine)
    <3>1. i \in 1..Len(mine) BY <1>3, <1>7, <2>1, SMT
    <3>2. QED BY <1>13, <1>15, <2>1, <3>1
  <2>2. CASE ~(i <= Len(mine))
    <3> DEFINE d == i - Len(mine)
    <3>1. d \in 1..k /\ M + d \in 1..len /\ from + (M + d) = i
      <4>1. d \in Nat /\ d >= 1 /\ d <= k BY <1>3, <1>7, <2>2, SMT
      <4>2. QED BY <1>3, <1>4, <1>7, <1>10, <4>1, SMT
    <3>2. (mine \o new)[i] = new[d] BY <1>15, <2>2
    <3> HIDE DEF d
    <3>3. QED BY <1>8, <1>14, <3>1, <3>2
  <2>3. QED BY <2>1, <2>2
<1>17. QED BY <1>12, <1>16 DEF mine, src, new, req

\* What a step that neither submits, sends nor stores leaves alone.
LogFrame ==
  /\ UNCHANGED <<log, misplaced>> /\ leaders \subseteq leaders'
  /\ \A c \in waiting' : \E d \in waiting : c.req = d.req /\ c.src = d.src

\* When logs have grown, and the requests in flight are old ones or cut out of
\* their sender's log, only the entries that are new need an owner.
LEMMA GrownKeeps ==
  ASSUME MatchInv, LeadInv', Grown,
         \A c \in waiting' : \/ Slice(c.req, c.src)'
                             \/ \E d \in waiting : c.req = d.req /\ c.src = d.src,
         Orderly' =>
           \A m \in Node : \A i \in 1..Len(log'[m]) :
             i \in 1..Len(log[m]) \/ Owned(m, i)'
  PROVE  MatchInv'
<1>0. TypeOK /\ TypeOK' /\ StoreType BY DEF MatchInv, LeadInv, TypeOK
<1>1. ASSUME NEW c \in waiting' PROVE Slice(c.req, c.src)'
  <2>1. ASSUME NEW d \in waiting, c.req = d.req, c.src = d.src
        PROVE  Slice(c.req, c.src)'
    <3>1. d.req \in AppendEntriesRequest /\ d.src \in Node
      BY <1>0 DEF TypeOK, NetType, Call
    <3>2. Slice(d.req, d.src) BY DEF MatchInv
    <3>3. Slice(d.req, d.src)' BY <1>0, <3>1, <3>2, SliceKept
    <3>4. QED BY <2>1, <3>3
  <2>2. QED BY <2>1
<1>2. ASSUME Orderly', NEW m \in Node, NEW i \in 1..Len(log'[m])
      PROVE  Owned(m, i)'
  <2>1. Orderly BY <1>2, OrderlyBefore
  <2>2. CASE i \in 1..Len(log[m])
    <3>1. Owned(m, i) BY <2>1, <2>2 DEF MatchInv
    <3>2. QED BY <1>0, <2>2, <3>1, OwnedKept
  <2>3. QED BY <1>2, <2>2
<1>3. QED BY <1>1, <1>2 DEF MatchInv

\* A step that leaves the logs alone.
LEMMA LogFrameKeeps ==
  ASSUME MatchInv, LeadInv', LogFrame PROVE MatchInv'
<1>1. StoreType BY DEF MatchInv, LeadInv, TypeOK
<1>2. Grown BY <1>1, SameExtended DEF LogFrame, Grown
<1>3. QED BY <1>2, GrownKeeps DEF LogFrame

\* Submit: the new entry is in the log of the leader of its term.
LEMMA SubmitMatch ==
  ASSUME MatchInv, LeadInv', NEW n \in Node, NEW c \in Command,
         Submit(n, c)
  PROVE  MatchInv'
<1> DEFINE e == [command |-> c, term |-> currentTerm[n]]
<1>0. TypeOK /\ StoreType /\ TypeOK' BY DEF MatchInv, LeadInv, TypeOK
<1>1. e \in Entry /\ e.term = currentTerm[n] BY <1>0 DEF TypeOK, NodeType, Entry
<1>2. /\ log' = [log EXCEPT ![n] = Append(log[n], e)] /\ state[n] = "Leader"
      /\ UNCHANGED <<misplaced, leaders, waiting>>
  BY DEF Submit, netVars, callVars, histVars
<1> HIDE DEF e
<1>3. log \in [Node -> Seq(Entry)] /\ log[n] \in Seq(Entry)
  BY <1>0 DEF StoreType
<1>4. Append(log[n], e) = log[n] \o <<e>> /\ <<e>> \in Seq(Entry)
  BY <1>1, <1>3, AppendIsConcat, SMT
<1>5. Grown BY <1>0, <1>2, <1>4, ConcatExtends DEF Grown
<1>6. ASSUME NEW m \in Node, NEW i \in 1..Len(log'[m]), i \notin 1..Len(log[m])
      PROVE  Owned(m, i)'
  <2>1. m = n BY <1>2, <1>3, <1>6
  <2>2. /\ Len(log[n]) \in Nat /\ Len(Append(log[n], e)) = Len(log[n]) + 1
        /\ Append(log[n], e)[Len(log[n]) + 1] = e
    BY <1>1, <1>3, AppendProperties, LenProperties, SMT
  <2>3. log'[n] = Append(log[n], e) BY <1>2, <1>3
  <2>4. i = Len(log[n]) + 1 /\ i <= Len(log'[n])
    BY <1>6, <2>1, <2>2, <2>3, SMT
  <2>5. PICK l \in leaders : l.node = n /\ l.term = currentTerm[n]
    BY <1>2 DEF MatchInv, LeadInv, Led
  <2>6. l.term = log'[n][i].term BY <1>1, <2>2, <2>3, <2>4, <2>5
  <2>7. QED BY <1>2, <2>1, <2>4, <2>5, <2>6 DEF Owned
<1>7. QED BY <1>2, <1>5, <1>6, GrownKeeps

\* SendAppendEntries: the request is cut out of the log of its sender.
LEMMA SendMatch ==
  ASSUME MatchInv, LeadInv', NEW n \in Node, SendAppendEntries(n)
  PROVE  MatchInv'
<1>0. TypeOK /\ StoreType BY DEF MatchInv, LeadInv, TypeOK
<1>1. UNCHANGED <<log, misplaced, leaders>>
  BY DEF SendAppendEntries, storeVars, histVars
<1>2. PICK b \in building :
        waiting' = waiting \cup
          {[src |-> n, dst |-> b.dst, ep |-> b.ep, saved |-> b.saved,
            req |-> HeartbeatRequest(n, b.dst)]}
  BY DEF SendAppendEntries
<1>3. Grown BY <1>0, <1>1, SameExtended DEF Grown
<1> DEFINE ni == nextIndex[n][b.dst]
           mine == log[n]
<1>p. PICK req : req = HeartbeatRequest(n, b.dst) OBVIOUS
<1>4. Slice(req, n)
  <2>0. b.dst \in Node BY <1>0 DEF TypeOK, NetType
  <2>1. mine \in Seq(Entry) /\ Len(mine) \in Nat /\ ni \in Nat
    BY <1>0, <2>0, LenProperties DEF StoreType
  <2>2. /\ req.prevLogIndex = IF ni > 0 THEN ni - 1 ELSE 0
        /\ req.prevLogTerm = IF ni > 0 /\ req.prevLogIndex < Len(mine)
                             THEN mine[req.prevLogIndex + 1].term ELSE 0
        /\ req.entries = SubSeq(mine, ni + 1, Len(mine))
        /\ req.followerHasEntries <=> (ni > 0)
    BY <1>p DEF HeartbeatRequest
  <2> HIDE DEF ni, mine
  <2>3. SentFrom(req) = ni
    <3>1. ni > 0 => ni - 1 + 1 = ni BY <2>1, SMT
    <3>2. ~(ni > 0) => ni = 0 BY <2>1, SMT
    <3>3. QED BY <2>2, <3>1, <3>2 DEF SentFrom
  <2>4. \A i \in (ni + 1)..Len(mine) : mine[i] \in Entry
    BY <2>1, ElementOfSeq, SMT
  <2>5. ni + 1 \in Int /\ Len(mine) \in Int BY <2>1, SMT
  <2>6. /\ Len(req.entries) = IF ni + 1 <= Len(mine)
                              THEN Len(mine) - (ni + 1) + 1 ELSE 0
        /\ \A i \in 1..(Len(mine) - (ni + 1) + 1) :
             req.entries[i] = mine[ni + 1 + i - 1]
        /\ req.entries \in Seq(Entry)
    BY <2>2, <2>4, <2>5, SubSeqProperties, SMT
  <2>7. ASSUME req.entries # <<>>
        PROVE  ni < Len(mine) /\ Len(req.entries) = Len(mine) - ni
    <3>1. Len(req.entries) # 0 BY <2>6, <2>7, EmptySeq, SMT
    <3>2. QED BY <2>1, <2>6, <3>1, SMT
  <2>8. ASSUME req.entries # <<>>, NEW j \in 1..Len(req.entries)
        PROVE  mine[ni + j] = req.entries[j]
    <3>1. j \in 1..(Len(mine) - (ni + 1) + 1) /\ ni + 1 + j - 1 = ni + j
      BY <2>1, <2>7, <2>8, SMT
    <3>2. QED BY <2>6, <3>1
  <2>9. ASSUME req.entries # <<>>, req.followerHasEntries
        PROVE  req.prevLogTerm = mine[req.prevLogIndex + 1].term
    <3>1. ni > 0 /\ req.prevLogIndex = ni - 1 BY <2>2, <2>9
    <3>2. req.prevLogIndex < Len(mine) BY <2>1, <2>7, <2>9, <3>1, SMT
    <3>3. QED BY <2>2, <3>1, <3>2
  <2>10. req.entries # <<>> => SentFrom(req) + Len(req.entries) <= Len(mine)
    BY <2>1, <2>3, <2>7, SMT
  <2>11. QED BY <2>3, <2>8, <2>9, <2>10 DEF Slice, mine
<1>5. Slice(req, n)' BY <1>1, <1>4 DEF Slice, SentFrom
<1>6. ASSUME NEW c \in waiting'
      PROVE  \/ Slice(c.req, c.src)'
             \/ \E d \in waiting : c.req = d.req /\ c.src = d.src
  <2>1. CASE c \in waiting BY <2>1
  <2>2. CASE c = [src |-> n, dst |-> b.dst, ep |-> b.ep, saved |-> b.saved,
                  req |-> HeartbeatRequest(n, b.dst)]
    <3>1. c.req = req /\ c.src = n BY <1>p, <2>2
    <3>2. QED BY <1>5, <3>1
  <2>3. QED BY <1>2, <2>1, <2>2
<1>7. QED BY <1>1, <1>3, <1>6, GrownKeeps

\* HandleAppendEntriesRequest stores entries: behind a log that ends before them
\* they continue the sender's log, and anywhere else they are misplaced.
LEMMA StoreMatch ==
  ASSUME MatchInv, LeadInv', NEW n \in Node, NEW c \in waiting,
         NEW k \in 0..Len(Missing(n, c.req)), StoreEntries(n, c.req, k),
         waiting' \subseteq waiting, UNCHANGED leaders
  PROVE  MatchInv'
<1> DEFINE req == c.req
           new == SubSeq(Missing(n, req), 1, k)
<1>0. /\ TypeOK /\ StoreType /\ TypeOK' /\ req \in AppendEntriesRequest
      /\ c.src \in Node
  BY DEF MatchInv, LeadInv, TypeOK, NetType, Call
<1>1. /\ \A m \in Node : Extended(m)
      /\ Accepts(n, req) => Len(log'[n]) = Len(log[n]) + k
  BY <1>0, StoreExtends DEF MatchInv
<1>2. misplaced \subseteq misplaced' BY DEF StoreEntries
<1>3. Grown BY <1>1, <1>2 DEF Grown
<1>4. Len(Missing(n, req)) \in Nat BY <1>0, MissingType, LenProperties
<1>5. ASSUME Orderly', NEW m \in Node, NEW i \in 1..Len(log'[m]),
             i \notin 1..Len(log[m])
      PROVE  Owned(m, i)'
  <2>1. Orderly BY <1>3, <1>5, OrderlyBefore
  <2>2. Accepts(n, req) BY <1>5 DEF StoreEntries
  <2>3. log \in [Node -> Seq(Entry)] BY <1>0 DEF StoreType
  <2>4. log' = [log EXCEPT ![n] = log[n] \o new] BY <2>2 DEF StoreEntries
  <2>5. m = n BY <1>5, <2>3, <2>4
  <2>6. Len(log[n]) \in Nat BY <2>3, LenProperties
  <2>7. k \in 1..Len(Missing(n, req)) /\ k > 0
    BY <1>1, <1>4, <1>5, <2>2, <2>5, <2>6, SMT
  <2>8. SentFrom(req) + Matching(n, req) >= Len(log[n])
    <3>1. misplaced' = {} BY <1>5 DEF Orderly
    <3>2. ~(SentFrom(req) + Matching(n, req) < Len(log[n]))
      BY <2>2, <2>7, <3>1 DEF StoreEntries
    <3>3. SentFrom(req) \in Nat /\ Matching(n, req) \in Nat
      BY <1>0, SentFromType, MissingType
    <3>4. QED BY <2>6, <3>2, <3>3, SMT
  <2>9. /\ Len(log[n]) + k <= Len(log[c.src])
        /\ \A j \in 1..(Len(log[n]) + k) : (log[n] \o new)[j] = log[c.src][j]
    BY <2>1, <2>2, <2>7, <2>8, StoredIsPrefix
  <2>10. log'[n] = log[n] \o new BY <2>3, <2>4
  <2> HIDE DEF new
  <2>11. /\ Len(log[c.src]) \in Nat /\ k \in Nat /\ i \in Nat
         /\ Len(log'[c.src]) \in Nat
    <3>1. Len(log[c.src]) \in Nat /\ Len(log'[c.src]) \in Nat
      BY <1>0, <2>3, LenProperties DEF TypeOK, StoreType
    <3>2. Len(log'[n]) \in Nat BY <1>0, LenProperties DEF TypeOK, StoreType
    <3>3. k \in Nat /\ i \in Nat BY <1>4, <1>5, <2>5, <2>7, <3>2, SMT
    <3>4. QED BY <3>1, <3>3
  <2>12. i \in 1..(Len(log[n]) + k) /\ i \in 1..Len(log[c.src])
    BY <1>1, <1>5, <2>2, <2>5, <2>6, <2>9, <2>11, SMT
  <2>13. Owned(c.src, i) BY <1>0, <2>1, <2>12 DEF MatchInv
  <2>14. Owned(c.src, i)' BY <1>0, <1>3, <2>12, <2>13, OwnedKept
  <2>15. \A j \in 1..i : log'[n][j] = log'[c.src][j]
    <3>1. \A j \in 1..i : j \in 1..(Len(log[n]) + k) /\ j \in 1..Len(log[c.src])
      BY <2>6, <2>11, <2>12, SMT
    <3>2. \A j \in 1..Len(log[c.src]) : log'[c.src][j] = log[c.src][j]
      BY <1>0, <1>1 DEF Extended
    <3>3. QED BY <2>9, <2>10, <3>1, <3>2
  <2>16. i \in 1..i BY <2>12, SMT
  <2>17. log'[n][i] = log'[c.src][i] BY <2>15, <2>16
  <2>18. PICK l \in leaders' :
           /\ l.term = log'[c.src][i].term
           /\ i <= Len(log'[l.node])
           /\ \A j \in 1..i : log'[l.node][j] = log'[c.src][j]
    BY <2>14 DEF Owned
  <2>19. \A j \in 1..i : log'[l.node][j] = log'[n][j] BY <2>15, <2>18
  <2>20. QED BY <2>5, <2>17, <2>18, <2>19 DEF Owned
<1>6. QED BY <1>3, <1>5, GrownKeeps

\* Every node step but these leaves the logs alone.
LEMMA NodeLogFrames ==
  ASSUME TypeOK, NEW n \in Node,
         \/ Stop(n) \/ Resume(n)
         \/ StartTimer(n)
         \/ \E t \in 0..MaxTimeouts : ExitTimer(n, t) \/ ExpireTimer(n, t)
         \/ CheckDead(n) \/ StartElection(n)
         \/ HandleRequestVoteRequest(n)
         \/ FinishSignal(n)
         \/ \E ep \in loops[n] : HeartbeatLoop(n, ep)
         \/ AbandonCall(n)
         \/ HandleAppendEntriesReply(n)
         \/ ReceiveSignal(n) \/ CollectBatch(n) \/ DeliverEntry(n)
  PROVE  LogFrame
<1>1. CASE AbandonCall(n)
  <2>1. UNCHANGED <<log, misplaced, leaders>>
    BY <1>1 DEF AbandonCall, storeVars, histVars
  <2>2. \A c \in waiting : /\ [c EXCEPT !.ep = 0, !.saved = 0].req = c.req
                           /\ [c EXCEPT !.ep = 0, !.saved = 0].src = c.src
    BY DEF TypeOK, NetType, Call
  <2>3. \A c \in waiting' : \E d \in waiting : c.req = d.req /\ c.src = d.src
    BY <1>1, <2>2 DEF AbandonCall
  <2>4. QED BY <2>1, <2>3 DEF LogFrame
<1>2. CASE UNCHANGED <<log, misplaced, leaders, waiting>> BY <1>2 DEF LogFrame
<1>3. QED
  BY <1>1, <1>2 DEF Stop, Resume, StartTimer, ExitTimer, ExpireTimer, CheckDead,
     StartElection, HandleRequestVoteRequest, FinishSignal, HeartbeatLoop,
     HandleAppendEntriesReply, ReceiveSignal, CollectBatch, DeliverEntry,
     storeVars, netVars, callVars, histVars

\* So does startElection.
LEMMA ElectionLogFrames ==
  ASSUME NEW id,
         \/ ElectionTimeout(id) \/ ReceiveVote(id) \/ EvaluateVote(id)
         \/ Demote(id) \/ FinishDemotion(id)
         \/ Crown(id) \/ FinishCoronation(id)
  PROVE  LogFrame
<1>1. UNCHANGED <<log, misplaced, waiting>> /\ leaders \subseteq leaders'
  BY DEF ElectionTimeout, ReceiveVote, EvaluateVote, Demote, FinishDemotion,
     Crown, FinishCoronation, storeVars, netVars, callVars, histVars
<1>2. QED BY <1>1 DEF LogFrame

\* The follower's side of AppendEntries.
LEMMA RequestMatch ==
  ASSUME MatchInv, LeadInv', NEW n \in Node,
         HandleAppendEntriesRequest(n) \/ FailAppendEntriesRequest(n)
  PROVE  MatchInv'
<1>0. TypeOK BY DEF MatchInv, LeadInv
<1>1. CASE HandleAppendEntriesRequest(n)
  <2>1. PICK c \in waiting : HandleAppendEntriesRequest(n)!(c)
    BY <1>1 DEF HandleAppendEntriesRequest
  <2>2. waiting' \subseteq waiting /\ UNCHANGED leaders BY <2>1
  <2>3. c.req \in AppendEntriesRequest BY <1>0 DEF TypeOK, NetType, Call
  <2>4. CASE state[n] = "Dead"
    <3>1. UNCHANGED <<log, misplaced>> BY <2>1, <2>4
    <3>2. QED BY <2>2, <3>1, LogFrameKeeps DEF LogFrame
  <2>5. CASE state[n] # "Dead"
    <3>1. StoreEntries(n, c.req, Len(Missing(n, c.req))) BY <2>1, <2>5
    <3>2. Len(Missing(n, c.req)) \in 0..Len(Missing(n, c.req))
      BY <2>3, MissingType, LenProperties, SMT
    <3>3. QED BY <2>2, <3>1, <3>2, StoreMatch
  <2>6. QED BY <2>4, <2>5
<1>2. CASE FailAppendEntriesRequest(n)
  <2>1. PICK c \in waiting : FailAppendEntriesRequest(n)!(c)
    BY <1>2 DEF FailAppendEntriesRequest
  <2>2. waiting' \subseteq waiting /\ UNCHANGED leaders BY <2>1
  <2>3. c.req \in AppendEntriesRequest BY <1>0 DEF TypeOK, NetType, Call
  <2>4. PICK k \in 0..(Len(Missing(n, c.req)) - 1) : StoreEntries(n, c.req, k)
    BY <2>1
  <2>5. k \in 0..Len(Missing(n, c.req)) BY <2>3, MissingType, LenProperties, SMT
  <2>6. QED BY <2>2, <2>4, <2>5, StoreMatch
<1>3. QED BY <1>1, <1>2

\* NewRaft: all logs are empty.
LEMMA InitMatch == Init => MatchInv
<1> SUFFICES ASSUME Init PROVE MatchInv OBVIOUS
<1>1. LeadInv BY InitLead
<1>2. waiting = {} BY DEF Init
<1>3. ASSUME NEW m \in Node PROVE 1..Len(log[m]) = {}
  <2>1. log[m] = <<>> BY DEF Init
  <2>2. QED BY <2>1, SMT
<1>4. QED BY <1>1, <1>2, <1>3 DEF MatchInv

\* Every step of every node keeps the invariant.
LEMMA NextMatch == MatchInv /\ [Next]_vars => MatchInv'
<1> SUFFICES ASSUME MatchInv, [Next]_vars PROVE MatchInv' OBVIOUS
<1>0. LeadInv' /\ TypeOK BY NextLead DEF MatchInv, LeadInv
<1>1. CASE UNCHANGED vars
  <2>1. LogFrame BY <1>1 DEF vars, LogFrame, storeVars, netVars, callVars, histVars
  <2>2. QED BY <1>0, <2>1, LogFrameKeeps
<1>2. ASSUME NEW n \in Node,
             \/ Stop(n) \/ Resume(n)
             \/ StartTimer(n)
             \/ \E t \in 0..MaxTimeouts : ExitTimer(n, t) \/ ExpireTimer(n, t)
             \/ CheckDead(n) \/ StartElection(n)
             \/ HandleRequestVoteRequest(n)
             \/ \E c \in Command : Submit(n, c)
             \/ FinishSignal(n)
             \/ \E ep \in loops[n] : HeartbeatLoop(n, ep)
             \/ SendAppendEntries(n) \/ AbandonCall(n)
             \/ HandleAppendEntriesReply(n)
             \/ HandleAppendEntriesRequest(n) \/ FailAppendEntriesRequest(n)
             \/ ReceiveSignal(n) \/ CollectBatch(n) \/ DeliverEntry(n)
      PROVE  MatchInv'
  BY <1>0, <1>2, NodeLogFrames, LogFrameKeeps, SubmitMatch, SendMatch,
     RequestMatch
<1>3. ASSUME NEW id \in DOMAIN elections,
             \/ ElectionTimeout(id) \/ ReceiveVote(id) \/ EvaluateVote(id)
             \/ Demote(id) \/ FinishDemotion(id)
             \/ Crown(id) \/ FinishCoronation(id)
      PROVE  MatchInv'
  BY <1>0, <1>3, ElectionLogFrames, LogFrameKeeps
<1>4. QED BY <1>1, <1>2, <1>3 DEF Next

\* The invariant holds in every reachable state.
THEOREM MatchInvariant == Spec => []MatchInv
<1>1. QED BY InitMatch, NextMatch, PTL DEF Spec

\* HandleAppendEntriesRequest: in any cluster and with any number of lost, late
\* and overtaking requests, failing appends, stops and elections, the logs of two
\* nodes match unless entries were appended behind one they conflict with, or
\* some term had two leaders.
THEOREM LogsMatch == Spec => []LogMatchingUnlessMisplaced
<1>1. MatchInv => LogMatchingUnlessMisplaced
  <2> SUFFICES ASSUME MatchInv, Orderly, NEW n \in Node, NEW m \in Node,
                      NEW i \in 1..Len(log[n]), i <= Len(log[m]),
                      log[n][i].term = log[m][i].term
               PROVE  SubSeq(log[n], 1, i) = SubSeq(log[m], 1, i)
    BY DEF LogMatchingUnlessMisplaced, LogMatching, Orderly
  <2>1. /\ log[n] \in Seq(Entry) /\ log[m] \in Seq(Entry)
        /\ Len(log[n]) \in Nat /\ Len(log[m]) \in Nat
    BY LenProperties DEF MatchInv, LeadInv, TypeOK, StoreType
  <2>2. i \in 1..Len(log[m]) /\ i \in Int /\ 1 \in Int /\ 1 <= i BY <2>1, SMT
  <2>3. \A j \in 1..i : log[n][j] = log[m][j] BY <2>2, OwnersMatch
  <2>4. \A j \in 1..i : log[n][j] \in Entry /\ log[m][j] \in Entry
    <3>1. \A j \in 1..i : j \in 1..Len(log[n]) BY <2>1, SMT
    <3>2. QED BY <2>1, <2>3, <3>1, ElementOfSeq
  <2>5. PICK s : s = log[n] OBVIOUS
  <2>6. PICK t : t = log[m] OBVIOUS
  <2>7. /\ SubSeq(s, 1, i) \in Seq(Entry)
        /\ Len(SubSeq(s, 1, i)) = i
        /\ \A j \in 1..i : SubSeq(s, 1, i)[j] = s[j]
        /\ SubSeq(t, 1, i) \in Seq(Entry)
        /\ Len(SubSeq(t, 1, i)) = i
        /\ \A j \in 1..i : SubSeq(t, 1, i)[j] = t[j]
    <3>1. /\ \A j \in 1..i : s[j] \in Entry
          /\ \A j \in 1..i : t[j] \in Entry
      BY <2>4, <2>5, <2>6
    <3>2. QED BY <2>2, <3>1, SubSeqProperties, SMT
  <2>8. SubSeq(s, 1, i) = SubSeq(t, 1, i)
    <3>1. \A j \in 1..i : SubSeq(s, 1, i)[j] = SubSeq(t, 1, i)[j]
      BY <2>3, <2>5, <2>6, <2>7
    <3>2. /\ Len(SubSeq(s, 1, i)) = Len(SubSeq(t, 1, i))
          /\ \A j \in 1..Len(SubSeq(s, 1, i)) :
               SubSeq(s, 1, i)[j] = SubSeq(t, 1, i)[j]
      BY <2>7, <3>1
    <3>3. QED BY <2>7, <3>2, SeqEqual
  <2>9. QED BY <2>5, <2>6, <2>8
<1>2. QED BY <1>1, MatchInvariant, PTL

=============================================================================
