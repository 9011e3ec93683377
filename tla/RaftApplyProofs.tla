--------------------------- MODULE RaftApplyProofs ---------------------------
(***************************************************************************)
(* What a node applies is its log, in order and without repetition, its    *)
(* commit index does not go back, its entries are numbered with one        *)
(* repetition, and so the node implements AppliedLog.                      *)
(*                                                                         *)
(* None of this is inductive: it needs that commitIndex is an index of     *)
(* the log as soon as anybody was told to read up to it (Readable), which  *)
(* in turn rests on every AppendEntries request of a leader that has       *)
(* committed something carrying, or presupposing, at least one entry       *)
(* (InformedRequest).                                                      *)
(***************************************************************************)
EXTENDS RaftTypeProofs, RaftRefinement

\* Zenon proves the steps without arithmetic; the others cite SMT.
USE Zenon

\* A signal was sent for commitIndex, or something was applied up to it.
Signalled(n) ==
  \/ hasCommited[n] \/ ready[n] > 0 \/ mu[n] = "sending"
  \/ sender[n].backlog > 0 \/ sender[n].phase = "lock"

Readable(n) ==
  /\ Signalled(n) => commitIndex[n] < Len(log[n])
  /\ hasCommited[n] => lastApplied[n] <= commitIndex[n]

\* The goroutine is sending exactly as long as it has something to send.
Batched(n) == sender[n].phase = "send" <=> sender[n].batch # <<>>

\* What n has sent or is about to send is its log up to lastApplied.
Applied(n) ==
  /\ Len(Out(n)) = IF hasCommited[n] THEN lastApplied[n] + 1 ELSE 0
  /\ \A i \in 1..Len(Out(n)) : Out(n)[i].command = log[n][i].command

InformedRequest(req) ==
  req.leaderHasComitted /\ ~req.followerHasEntries => req.entries # <<>>

ApplyInv ==
  /\ TypeOK
  /\ \A n \in Node : Readable(n) /\ Batched(n) /\ Applied(n)
  /\ \A c \in waiting : InformedRequest(c.req)

-----------------------------------------------------------------------------
(* Reading, sending and applying while logs grow.                          *)

\* A node that keeps what it applied stays a prefix of a log that grows.
LEMMA AppliedKept ==
  ASSUME TypeOK, NEW n \in Node, Readable(n), Applied(n), Extended(n),
         Out(n)' = Out(n),
         hasCommited'[n] = hasCommited[n], lastApplied'[n] = lastApplied[n]
  PROVE  Applied(n)'
<1>1. /\ lastApplied[n] \in Nat /\ commitIndex[n] \in Nat
      /\ Len(log[n]) \in Nat
  BY LenProperties DEF TypeOK, StoreType
<1>2. Len(Out(n)) <= Len(log[n]) /\ Len(Out(n)) \in Nat
  BY <1>1, SMT DEF Applied, Readable, Signalled
<1>3. \A i \in 1..Len(Out(n)) : log'[n][i] = log[n][i]
  BY <1>1, <1>2, SMT DEF Extended
<1>4. QED BY <1>3 DEF Applied

\* The parts of ApplyInv that speak of numbers, for one node.
LEMMA ReadableFacts ==
  ASSUME ApplyInv, NEW n \in Node
  PROVE  /\ lastApplied[n] \in Nat /\ commitIndex[n] \in Nat
         /\ Len(log[n]) \in Nat
         /\ hasCommited[n] => /\ commitIndex[n] < Len(log[n])
                              /\ lastApplied[n] <= commitIndex[n]
<1>1. TypeOK /\ Readable(n) BY DEF ApplyInv
<1>2. /\ lastApplied[n] \in Nat /\ commitIndex[n] \in Nat
      /\ Len(log[n]) \in Nat
  BY <1>1, LenProperties DEF TypeOK, StoreType
<1>3. hasCommited[n] => Signalled(n) BY DEF Signalled
<1>4. hasCommited[n] => /\ commitIndex[n] < Len(log[n])
                        /\ lastApplied[n] <= commitIndex[n]
  BY <1>1, <1>3 DEF Readable
<1>5. QED BY <1>2, <1>4

\* A node stays readable when its log grows and it is not signalled anew.
LEMMA ReadableKept ==
  ASSUME NEW n \in Node, Readable(n), Extended(n), Signalled(n)' => Signalled(n),
         Len(log[n]) \in Nat, Len(log'[n]) \in Nat, commitIndex[n] \in Nat,
         commitIndex'[n] = commitIndex[n], hasCommited'[n] = hasCommited[n],
         lastApplied'[n] = lastApplied[n]
  PROVE  Readable(n)'
<1>1. Len(log'[n]) >= Len(log[n]) BY DEF Extended
<1>2. Signalled(n)' => commitIndex'[n] < Len(log'[n])
  <2>1. Signalled(n) => commitIndex[n] < Len(log[n]) BY DEF Readable
  <2>2. commitIndex[n] < Len(log[n]) => commitIndex'[n] < Len(log'[n])
    BY <1>1, SMT
  <2>3. QED BY <2>1, <2>2
<1>3. hasCommited'[n] => lastApplied'[n] <= commitIndex'[n] BY DEF Readable
<1>4. QED BY <1>2, <1>3 DEF Readable

\* What a step leaves alone: the log, the commit state and the sender of every
\* node, and the requests under way; no handler gets blocked in its signal.
Frame ==
  /\ UNCHANGED <<log, commitVars, ready, sender, delivered>>
  /\ \A n \in Node : mu'[n] = "sending" => mu[n] = "sending"
  /\ \A c \in waiting' : \E d \in waiting : c.req = d.req

\* Such a step keeps the invariant.
LEMMA FrameKeeps == ASSUME ApplyInv, TypeOK', Frame PROVE ApplyInv'
<1>1. ASSUME NEW n \in Node PROVE Readable(n)' /\ Batched(n)' /\ Applied(n)'
  BY DEF ApplyInv, Frame, Readable, Signalled, Batched, Applied, Out, commitVars
<1>2. \A c \in waiting' : InformedRequest(c.req)
  BY DEF ApplyInv, Frame
<1>3. QED BY <1>1, <1>2 DEF ApplyInv, InformedRequest

-----------------------------------------------------------------------------
(* The steps that are none of its business.                                *)

\* Stop, the timers, the elections and the start of a call are such steps.
LEMMA NodeFrames ==
  ASSUME TypeOK, NEW n \in Node,
         \/ Stop(n) \/ StartTimer(n)
         \/ \E t \in 0..MaxTimeouts : ExitTimer(n, t) \/ ExpireTimer(n, t)
         \/ CheckDead(n) \/ StartElection(n) \/ HandleRequestVoteRequest(n)
         \/ \E ep \in loops[n] : HeartbeatLoop(n, ep)
         \/ AbandonCall(n)
  PROVE  Frame
<1>0. mu \in [Node -> {"free", "leaked", "sending", "panicked"}]
  BY DEF TypeOK, ApplyType
<1> USE DEF Frame, storeVars, applyVars, chanVars, netVars, callVars
<1>1. CASE Stop(n) BY <1>0, <1>1 DEF Stop
<1>2. CASE StartTimer(n) BY <1>2 DEF StartTimer
<1>3. CASE \E t \in 0..MaxTimeouts : ExitTimer(n, t) \/ ExpireTimer(n, t)
  BY <1>3 DEF ExitTimer, ExpireTimer
<1>4. CASE CheckDead(n) BY <1>0, <1>4 DEF CheckDead
<1>5. CASE StartElection(n) BY <1>5 DEF StartElection
<1>6. CASE HandleRequestVoteRequest(n) BY <1>6 DEF HandleRequestVoteRequest
<1>7. CASE \E ep \in loops[n] : HeartbeatLoop(n, ep)
  BY <1>7 DEF HeartbeatLoop
<1>8. CASE AbandonCall(n)
  <2>1. UNCHANGED <<log, commitVars, ready, sender, delivered, mu>>
    BY <1>8 DEF AbandonCall
  <2>2. \A c \in waiting : [c EXCEPT !.ep = 0, !.saved = 0].req = c.req
    BY DEF TypeOK, NetType, Call
  <2>3. \A c \in waiting' : \E d \in waiting : c.req = d.req
    BY <1>8, <2>2 DEF AbandonCall
  <2>4. QED BY <2>1, <2>3
<1>9. QED BY <1>1, <1>2, <1>3, <1>4, <1>5, <1>6, <1>7, <1>8

\* So is everything startElection does once the requests are out.
LEMMA ElectionFrames ==
  ASSUME NEW id,
         \/ ElectionTimeout(id) \/ ReceiveVote(id) \/ EvaluateVote(id)
         \/ Demote(id) \/ FinishDemotion(id)
         \/ Crown(id) \/ FinishCoronation(id)
  PROVE  Frame
BY DEF ElectionTimeout, ReceiveVote, EvaluateVote, Demote, FinishDemotion,
       Crown, FinishCoronation, Frame, storeVars, applyVars, chanVars, netVars,
       callVars

-----------------------------------------------------------------------------
(* The steps that change the log, the commit index or what is applied.     *)

\* Submit: the log grows.
LEMMA SubmitKeeps ==
  ASSUME ApplyInv, TypeOK', NEW n \in Node, NEW c \in Command, Submit(n, c)
  PROVE  ApplyInv'
<1> DEFINE e == [command |-> c, term |-> currentTerm[n]]
<1>1. e \in Entry BY DEF ApplyInv, TypeOK, NodeType, Entry
<1>2. log' = [log EXCEPT ![n] = Append(log[n], e)] BY DEF Submit
<1> HIDE DEF e
<1>3. log[n] \in Seq(Entry) BY DEF ApplyInv, TypeOK, StoreType
<1>4. Append(log[n], e) = log[n] \o <<e>> /\ <<e>> \in Seq(Entry)
  BY <1>1, <1>3, AppendIsConcat, SMT
<1>5. \A m \in Node : Extended(m)
  BY <1>2, <1>4, ConcatExtends DEF ApplyInv, TypeOK
<1>6. UNCHANGED <<commitVars, ready, mu, sender, delivered, waiting>>
  BY DEF Submit, applyVars, chanVars, netVars, callVars
<1>7. ASSUME NEW m \in Node PROVE Readable(m)' /\ Batched(m)' /\ Applied(m)'
  <2>1. Applied(m)'
    BY <1>5, <1>6, AppliedKept DEF ApplyInv, commitVars, Out
  <2>2. /\ commitIndex[m] \in Nat /\ Len(log[m]) \in Nat
        /\ Len(log'[m]) \in Nat
    BY LenProperties DEF ApplyInv, TypeOK, StoreType
  <2>3. Readable(m)'
    <3>1. Signalled(m)' => Signalled(m) BY <1>6 DEF Signalled, commitVars
    <3>2. Readable(m) BY DEF ApplyInv
    <3>3. QED BY <1>5, <1>6, <2>2, <3>1, <3>2, ReadableKept DEF commitVars
  <2>4. QED BY <1>6, <2>1, <2>3 DEF ApplyInv, Batched
<1>8. QED BY <1>6, <1>7 DEF ApplyInv, InformedRequest

\* Resume: the signals of the old channel stay with the goroutine.
LEMMA ResumeKeeps ==
  ASSUME ApplyInv, TypeOK', NEW n \in Node, Resume(n)
  PROVE  ApplyInv'
<1>1. UNCHANGED <<log, commitVars, mu, delivered, waiting>>
  BY DEF Resume, storeVars, netVars, callVars
<1>2. sender[n] \in Sender /\ ready[n] \in Nat
  BY DEF ApplyInv, TypeOK, ApplyType
<1>3. /\ ready' = [ready EXCEPT ![n] = 0]
      /\ sender'[n].phase = sender[n].phase
      /\ sender'[n].batch = sender[n].batch
      /\ sender'[n].backlog = IF sender[n].detached THEN sender[n].backlog
                              ELSE ready[n]
      /\ \A m \in Node \ {n} : sender'[m] = sender[m]
  BY <1>2, SMT DEF Resume, ApplyInv, TypeOK, ApplyType, Sender
<1>4. ASSUME NEW m \in Node PROVE Readable(m)' /\ Batched(m)' /\ Applied(m)'
  <2>1. Signalled(m)' => Signalled(m)
    <3>1. ready'[m] = IF m = n THEN 0 ELSE ready[m]
      BY <1>3 DEF ApplyInv, TypeOK, ApplyType
    <3>2. mu'[m] = mu[m] /\ hasCommited'[m] = hasCommited[m]
      BY <1>1 DEF commitVars
    <3>3. CASE m = n BY <1>3, <3>1, <3>2, <3>3, SMT DEF Signalled
    <3>4. CASE m # n BY <1>3, <3>1, <3>2, <3>4 DEF Signalled
    <3>5. QED BY <3>3, <3>4
  <2>2. sender'[m].batch = sender[m].batch /\ sender'[m].phase = sender[m].phase
    BY <1>3
  <2>3. QED
    BY <1>1, <2>1, <2>2
    DEF ApplyInv, Readable, Batched, Applied, Out, commitVars
<1>5. QED BY <1>1, <1>4 DEF ApplyInv, InformedRequest

\* A blocked signal that goes through.
LEMMA FinishSignalKeeps ==
  ASSUME ApplyInv, TypeOK', NEW n \in Node, FinishSignal(n)
  PROVE  ApplyInv'
<1>1. UNCHANGED <<log, commitVars, sender, delivered, waiting>>
  BY DEF FinishSignal, storeVars
<1>2. ASSUME NEW m \in Node PROVE Readable(m)' /\ Batched(m)' /\ Applied(m)'
  <2>1. Signalled(m)' => Signalled(m)
    BY <1>1 DEF Signalled, FinishSignal, ApplyInv, TypeOK, ApplyType, commitVars
  <2>2. QED
    BY <1>1, <2>1 DEF ApplyInv, Readable, Batched, Applied, Out, commitVars
<1>3. QED BY <1>1, <1>2 DEF ApplyInv, InformedRequest

\* SendAppendEntries: a leader that committed something sends its log from the
\* start to a peer it believes has none of it.
LEMMA SendKeeps ==
  ASSUME ApplyInv, TypeOK', NEW n \in Node, SendAppendEntries(n)
  PROVE  ApplyInv'
<1>1. UNCHANGED <<log, commitVars, mu, ready, sender, delivered>>
  BY DEF SendAppendEntries, storeVars, applyVars, chanVars
<1>2. PICK b \in building :
        waiting' = waiting \cup
          {[src |-> n, dst |-> b.dst, ep |-> b.ep, saved |-> b.saved,
            req |-> HeartbeatRequest(n, b.dst)]}
  BY DEF SendAppendEntries
<1>3. InformedRequest(HeartbeatRequest(n, b.dst))
  <2> DEFINE ni == nextIndex[n][b.dst]
             req == HeartbeatRequest(n, b.dst)
  <2>1. /\ log[n] \in Seq(Entry) /\ Len(log[n]) \in Nat
        /\ commitIndex[n] \in Nat /\ ni \in Nat
    BY LenProperties DEF ApplyInv, TypeOK, StoreType, NetType
  <2>2. /\ req.leaderHasComitted = hasCommited[n]
        /\ req.followerHasEntries = (ni > 0)
        /\ req.entries = SubSeq(log[n], ni + 1, Len(log[n]))
    BY DEF HeartbeatRequest
  <2> HIDE DEF req
  <2>3. ASSUME hasCommited[n], ~(ni > 0) PROVE req.entries # <<>>
    <3> HIDE DEF ni
    <3>1. Len(log[n]) > 0 BY <2>3, ReadableFacts, SMT
    <3>2. ni = 0 BY <2>1, <2>3, SMT
    <3>3. SubSeq(log[n], 1, Len(log[n])) = log[n] BY <2>1, SubSeqFull
    <3>4. req.entries = log[n] BY <2>2, <3>2, <3>3, SMT
    <3>5. QED BY <2>1, <3>1, <3>4, EmptySeq, SMT
  <2>4. QED BY <2>2, <2>3 DEF InformedRequest, req
<1>4. \A c \in waiting' : InformedRequest(c.req) BY <1>2, <1>3, SMT DEF ApplyInv
<1>5. ASSUME NEW m \in Node PROVE Readable(m)' /\ Batched(m)' /\ Applied(m)'
  BY <1>1 DEF ApplyInv, Readable, Signalled, Batched, Applied, Out, commitVars
<1>6. QED BY <1>4, <1>5 DEF ApplyInv, InformedRequest

\* What a step that signals a commit changes of the sender's state.
LEMMA SignalFrame ==
  ASSUME TypeOK, NEW n \in Node, Signal(n) \/ UNCHANGED chanVars
  PROVE  \A m \in Node \ {n} : mu'[m] = mu[m] /\ ready'[m] = ready[m]
BY DEF TypeOK, ApplyType, Signal, chanVars

\* Node n may learn that more of its log is committed.
CommitStep(n) ==
  \/ UNCHANGED <<commitIndex, chanVars>>
  \/ /\ Signal(n)
     /\ \A m \in Node \ {n} : commitIndex'[m] = commitIndex[m]
     /\ commitIndex'[n] < Len(log'[n])
     /\ hasCommited[n] => commitIndex[n] <= commitIndex'[n]

\* A commit index moved inside the log, never below what is applied.
LEMMA CommitMoved ==
  ASSUME ApplyInv, TypeOK', NEW n \in Node,
         \A m \in Node : Extended(m),
         UNCHANGED <<hasCommited, lastApplied, sender, delivered>>,
         \A c \in waiting' : c \in waiting,
         CommitStep(n)
  PROVE  ApplyInv'
<1>1. ASSUME NEW m \in Node
      PROVE  /\ commitIndex[m] \in Nat /\ commitIndex'[m] \in Nat
             /\ Len(log[m]) \in Nat /\ Len(log'[m]) \in Nat
             /\ lastApplied[m] \in Nat
  BY LenProperties DEF ApplyInv, TypeOK, StoreType
<1>2. ASSUME NEW m \in Node PROVE Readable(m)'
  <2>0. Readable(m) BY DEF ApplyInv
  <2>1. CASE UNCHANGED <<commitIndex, chanVars>>
    <3>1. Signalled(m)' => Signalled(m) BY <2>1 DEF Signalled, chanVars
    <3>2. QED BY <1>1, <2>0, <2>1, <3>1, ReadableKept
  <2>2. CASE Signal(n) /\ m # n /\ commitIndex'[m] = commitIndex[m]
    <3>1. mu'[m] = mu[m] /\ ready'[m] = ready[m]
      BY <2>2, SignalFrame DEF ApplyInv
    <3>2. Signalled(m)' => Signalled(m) BY <3>1 DEF Signalled
    <3>3. QED BY <1>1, <2>0, <2>2, <3>2, ReadableKept
  <2>3. CASE /\ commitIndex'[n] < Len(log'[n]) /\ m = n
             /\ hasCommited[n] => commitIndex[n] <= commitIndex'[n]
    <3>1. hasCommited[m] => lastApplied[m] <= commitIndex[m] BY <2>0 DEF Readable
    <3>2. hasCommited'[m] => lastApplied'[m] <= commitIndex'[m]
      BY <1>1, <2>3, <3>1, SMT
    <3>3. QED BY <2>3, <3>2 DEF Readable
  <2>4. QED BY <2>1, <2>2, <2>3 DEF CommitStep
<1>3. ASSUME NEW m \in Node PROVE Batched(m)' /\ Applied(m)'
  <2>1. Applied(m)' BY AppliedKept DEF ApplyInv, Out
  <2>2. QED BY <2>1 DEF ApplyInv, Batched
<1>4. QED BY <1>2, <1>3 DEF ApplyInv, InformedRequest

\* A leader's handling of a reply: updateCommitIndex only commits indexes of its
\* log above those it has committed.
LEMMA ReplyCommit ==
  ASSUME ApplyInv, NEW n \in Node, HandleAppendEntriesReply(n)
  PROVE  /\ UNCHANGED <<log, hasCommited, lastApplied, sender, delivered, waiting>>
         /\ CommitStep(n)
<1>1. PICK a \in answered : HandleAppendEntriesReply(n)!(a)
  BY DEF HandleAppendEntriesReply
<1>2. UNCHANGED <<log, hasCommited, lastApplied, sender, delivered, waiting>>
  BY <1>1
<1>3. \/ UNCHANGED <<commitIndex, chanVars>>
      \/ UpdateCommitIndex(n, nextIndex'[n])
  BY <1>1
<1>4. ASSUME NEW i \in Agreed(n, nextIndex'[n]),
             commitIndex' = [commitIndex EXCEPT ![n] = i], Signal(n)
      PROVE  CommitStep(n)
  <2>1. /\ commitIndex \in [Node -> Nat] /\ Len(log[n]) \in Nat
    BY LenProperties DEF ApplyInv, TypeOK, StoreType
  <2>2. i < Len(log[n]) /\ (hasCommited[n] => commitIndex[n] <= i)
    BY <2>1, SMT DEF Agreed
  <2>3. QED BY <1>2, <1>4, <2>1, <2>2 DEF CommitStep
<1>5. CommitStep(n) BY <1>3, <1>4 DEF UpdateCommitIndex, CommitStep
<1>6. QED BY <1>2, <1>5

\* So the step keeps the invariant.
LEMMA ReplyKeeps ==
  ASSUME ApplyInv, TypeOK', NEW n \in Node, HandleAppendEntriesReply(n)
  PROVE  ApplyInv'
<1>1. /\ UNCHANGED <<log, hasCommited, lastApplied, sender, delivered, waiting>>
      /\ CommitStep(n)
  BY ReplyCommit
<1>2. ASSUME NEW m \in Node PROVE Extended(m)
  <2>1. Len(log[m]) \in Nat BY LenProperties DEF ApplyInv, TypeOK, StoreType
  <2>2. QED BY <1>1, <2>1, SMT DEF Extended
<1>3. QED BY <1>1, <1>2, CommitMoved

\* After an accepted request that says something is committed the log is not
\* empty, so that NextIndex() - 1 does not wrap around.
LEMMA InformedLog ==
  ASSUME ApplyInv, NEW n \in Node, NEW req \in AppendEntriesRequest,
         Accepts(n, req), req.leaderHasComitted, InformedRequest(req)
  PROVE  Len(log[n]) + Len(Missing(n, req)) > 0
<1>1. /\ log[n] \in Seq(Entry) /\ Len(log[n]) \in Nat
      /\ req.entries \in Seq(Entry) /\ Len(req.entries) \in Nat
      /\ req.prevLogIndex \in Nat
  BY LenProperties DEF ApplyInv, TypeOK, StoreType, AppendEntriesRequest
<1>2. Missing(n, req) \in Seq(Entry) /\ Len(Missing(n, req)) \in Nat
  BY MissingType, LenProperties
<1>3. CASE req.followerHasEntries
  BY <1>1, <1>2, <1>3, SMT DEF Accepts, Acceptable
<1>4. CASE ~req.followerHasEntries /\ Len(log[n]) = 0
  <2>1. req.entries # <<>> BY <1>4 DEF InformedRequest
  <2>2. Len(req.entries) > 0 BY <1>1, <2>1, EmptySeq, SMT
  <2>3. {j \in 1..Len(req.entries) :
           \A i \in 1..j :
             /\ SentFrom(req) + i <= Len(log[n])
             /\ log[n][SentFrom(req) + i].term = req.entries[i].term} = {}
    BY <1>1, <1>4, SMT DEF SentFrom
  <2>4. Matching(n, req) = 0 BY <2>3, FS_EmptySet DEF Matching
  <2>5. Missing(n, req) = req.entries BY <1>1, <2>4, SubSeqFull, SMT DEF Missing
  <2>6. QED BY <1>4, <2>2, <2>5, SMT
<1>5. QED BY <1>1, <1>2, <1>3, <1>4, SMT

\* A follower's handling of a request: what it learns is an index of its log,
\* and not below what it has applied.
LEMMA RequestCommit ==
  ASSUME ApplyInv, NEW n \in Node, HandleAppendEntriesRequest(n)
  PROVE  /\ UNCHANGED <<hasCommited, lastApplied, sender, delivered>>
         /\ \A c \in waiting' : c \in waiting
         /\ \A m \in Node : Extended(m)
         /\ CommitStep(n)
<1>1. PICK c \in waiting : HandleAppendEntriesRequest(n)!(c)
  BY DEF HandleAppendEntriesRequest
<1>2. /\ UNCHANGED <<hasCommited, lastApplied, sender, delivered>>
      /\ \A d \in waiting' : d \in waiting
  BY <1>1
<1>3. \A m \in Node : Len(log[m]) \in Nat
  BY LenProperties DEF ApplyInv, TypeOK, StoreType
<1>4. CASE state[n] = "Dead"
  <2>1. UNCHANGED <<log, commitIndex, chanVars>> BY <1>1, <1>4
  <2>2. QED BY <1>2, <1>3, <2>1, SMT DEF Extended, CommitStep
<1>5. CASE state[n] # "Dead"
  <2> DEFINE req == c.req
  <2>1. req \in AppendEntriesRequest /\ InformedRequest(req)
    BY DEF ApplyInv, TypeOK, NetType, Call
  <2>2. /\ StoreEntries(n, req, Len(Missing(n, req)))
        /\ LearnCommit(n, req)
    BY <1>1, <1>5
  <2> HIDE DEF req
  <2>3. /\ Missing(n, req) \in Seq(Entry) /\ Len(Missing(n, req)) \in Nat
        /\ Len(Missing(n, req)) \in 0..Len(Missing(n, req))
    BY <2>1, MissingType, LenProperties, SMT
  <2>4. /\ \A m \in Node : Extended(m)
        /\ Accepts(n, req) =>
             Len(log'[n]) = Len(log[n]) + Len(Missing(n, req))
    BY <2>1, <2>2, <2>3, StoreExtends DEF ApplyInv, TypeOK
  <2>5. CommitStep(n)
    <3>1. CASE ~Learns(n, req) BY <2>2, <3>1 DEF LearnCommit, CommitStep
    <3>2. CASE Learns(n, req)
      <4> DEFINE len == Len(log[n]) + Len(Missing(n, req))
                 new == LearnedCommit(n, req)
      <4>1. Accepts(n, req) /\ req.leaderHasComitted BY <3>2 DEF Learns
      <4>2. len > 0 /\ len \in Nat BY <1>3, <2>1, <2>3, <4>1, InformedLog, SMT
      <4>3. Len(log[n] \o Missing(n, req)) = len
        <5>1. log[n] \in Seq(Entry) BY DEF ApplyInv, TypeOK, StoreType
        <5>2. QED BY <2>3, <5>1, ConcatProperties
      <4>4. req.leaderCommit \in Nat BY <2>1 DEF AppendEntriesRequest
      <4>5. new = IF req.leaderCommit <= len - 1 THEN req.leaderCommit
                  ELSE len - 1
        BY <4>2, <4>3, SMT DEF LearnedCommit, Decrement
      <4>6. commitIndex \in [Node -> Nat] BY DEF ApplyInv, TypeOK, StoreType
      <4>7. hasCommited[n] => commitIndex[n] < Len(log[n])
        BY ReadableFacts
      <4>8. hasCommited[n] => req.leaderCommit > commitIndex[n]
        BY <3>2 DEF Learns
      <4>9. commitIndex' = [commitIndex EXCEPT ![n] = new] /\ Signal(n)
        BY <2>2, <3>2 DEF LearnCommit
      <4>10. Len(log'[n]) = len BY <2>4, <4>1
      <4> HIDE DEF new
      <4>11. new < len /\ (hasCommited[n] => commitIndex[n] <= new)
        BY <1>3, <2>3, <4>2, <4>4, <4>5, <4>6, <4>7, <4>8, SMT
      <4>12. QED BY <4>6, <4>9, <4>10, <4>11 DEF CommitStep
    <3>3. QED BY <3>1, <3>2
  <2>6. QED BY <1>2, <2>4, <2>5
<1>6. QED BY <1>4, <1>5

\* A request whose append fails changes the log only.
LEMMA FailCommit ==
  ASSUME ApplyInv, NEW n \in Node, FailAppendEntriesRequest(n)
  PROVE  /\ UNCHANGED <<hasCommited, lastApplied, sender, delivered>>
         /\ \A c \in waiting' : c \in waiting
         /\ \A m \in Node : Extended(m)
         /\ CommitStep(n)
<1>1. PICK c \in waiting : FailAppendEntriesRequest(n)!(c)
  BY DEF FailAppendEntriesRequest
<1>2. PICK k \in 0..(Len(Missing(n, c.req)) - 1) : StoreEntries(n, c.req, k)
  BY <1>1
<1>3. c.req \in AppendEntriesRequest BY DEF ApplyInv, TypeOK, NetType, Call
<1>4. k \in 0..Len(Missing(n, c.req)) BY <1>3, MissingType, LenProperties, SMT
<1>5. \A m \in Node : Extended(m) BY <1>2, <1>3, <1>4, StoreExtends
  DEF ApplyInv, TypeOK
<1>6. UNCHANGED <<commitVars, applyVars>> /\ waiting' = waiting \ {c} BY <1>1
<1>7. QED BY <1>5, <1>6 DEF commitVars, applyVars, CommitStep

\* Both keep the invariant.
LEMMA RequestKeeps ==
  ASSUME ApplyInv, TypeOK', NEW n \in Node,
         HandleAppendEntriesRequest(n) \/ FailAppendEntriesRequest(n)
  PROVE  ApplyInv'
BY RequestCommit, FailCommit, CommitMoved

\* The goroutine takes a signal, which somebody sent, or ends.
LEMMA ReceiveKeeps ==
  ASSUME ApplyInv, TypeOK', NEW n \in Node, ReceiveSignal(n)
  PROVE  ApplyInv'
<1>1. UNCHANGED <<log, commitVars, mu, delivered, waiting>>
  BY DEF ReceiveSignal, storeVars, netVars, callVars
<1>2. sender \in [Node -> Sender] /\ sender[n] \in Sender /\ ready[n] \in Nat
  BY DEF ApplyInv, TypeOK, ApplyType
<1>3. /\ sender[n].phase = "recv" /\ sender'[n].phase \in {"lock", "done"}
      /\ sender'[n].batch = sender[n].batch
      /\ \A m \in Node \ {n} : sender'[m] = sender[m]
  BY <1>2, SMT DEF ReceiveSignal, Sender
<1>4. \A m \in Node \ {n} : ready'[m] = ready[m]
  BY DEF ReceiveSignal, ApplyInv, TypeOK, ApplyType
<1>5. Signalled(n)' => Signalled(n)
  <2>1. CASE sender'[n].phase = "lock"
    <3>1. (IF sender[n].detached THEN sender[n].backlog ELSE ready[n]) > 0
      BY <1>2, <2>1 DEF ReceiveSignal, Sender
    <3>2. sender[n].detached \in BOOLEAN BY <1>2 DEF Sender
    <3>3. QED BY <3>1, <3>2 DEF Signalled
  <2>2. CASE sender'[n].phase = "done"
    <3>1. ready' = ready /\ sender'[n].backlog = sender[n].backlog
      BY <1>2, <2>2, SMT DEF ReceiveSignal, Sender
    <3>2. QED BY <1>1, <2>2, <3>1 DEF Signalled, commitVars
  <2>3. QED BY <1>3, <2>1, <2>2
<1>6. ASSUME NEW m \in Node PROVE Readable(m)' /\ Batched(m)' /\ Applied(m)'
  <2>1. Signalled(m)' => Signalled(m)
    BY <1>1, <1>3, <1>4, <1>5 DEF Signalled, commitVars
  <2>2. sender'[m].batch = sender[m].batch BY <1>3
  <2>3. Batched(m)' BY <1>3, <2>2 DEF ApplyInv, Batched
  <2>4. QED
    BY <1>1, <2>1, <2>2, <2>3
    DEF ApplyInv, Readable, Applied, Out, commitVars
<1>7. QED BY <1>1, <1>6 DEF ApplyInv, InformedRequest

\* What CollectBatch cuts out continues what was applied.
LEMMA BatchContinues ==
  ASSUME ApplyInv, NEW n \in Node, sender[n].phase = "lock",
         ~hasCommited[n] \/ commitIndex[n] > lastApplied[n]
  PROVE  LET b == Batch(n, FirstToApply(n))
         IN  /\ b \in Seq(CommitEntry) /\ b # <<>>
             /\ Len(delivered[n] \o b) = commitIndex[n] + 1
             /\ \A i \in 1..(commitIndex[n] + 1) :
                  (delivered[n] \o b)[i].command = log[n][i].command
<1> DEFINE first == FirstToApply(n)
           b == Batch(n, first)
           len == commitIndex[n] + 1 - first
<1>1. /\ commitIndex[n] \in Nat /\ lastApplied[n] \in Nat
      /\ delivered[n] \in Seq(CommitEntry) /\ Len(delivered[n]) \in Nat
  BY LenProperties DEF ApplyInv, TypeOK, StoreType, ApplyType
<1>2. commitIndex[n] < Len(log[n]) BY DEF ApplyInv, Readable, Signalled
<1>3. b \in Seq(CommitEntry) BY <1>2, BatchType DEF ApplyInv, TypeOK
<1>4. first \in Nat /\ len \in Nat \ {0} BY <1>1, SMT DEF FirstToApply
<1>5. Len(delivered[n]) = first
  <2>1. sender[n].batch = <<>> BY DEF ApplyInv, Batched
  <2>2. Out(n) = delivered[n] BY <1>1, <2>1, ConcatEmptySeq DEF Out
  <2>3. QED BY <2>2 DEF ApplyInv, Applied, FirstToApply
<1>6. \A i \in 1..first : delivered[n][i].command = log[n][i].command
  <2>1. sender[n].batch = <<>> BY DEF ApplyInv, Batched
  <2>2. Out(n) = delivered[n] BY <1>1, <2>1, ConcatEmptySeq DEF Out
  <2>3. QED BY <1>5, <2>2 DEF ApplyInv, Applied
<1>7. /\ DOMAIN b = 1..len
      /\ \A i \in 1..len : b[i].command = log[n][first + i].command
  BY DEF Batch
<1> HIDE DEF b, first
<1>8. Len(b) = len BY <1>3, <1>4, <1>7, LenProperties, SMT
<1>9. b # <<>> BY <1>3, <1>4, <1>8, EmptySeq
<1>10. /\ Len(delivered[n] \o b) = commitIndex[n] + 1
       /\ \A i \in 1..(commitIndex[n] + 1) :
            (delivered[n] \o b)[i] = IF i <= first THEN delivered[n][i]
                                     ELSE b[i - first]
  BY <1>1, <1>3, <1>4, <1>5, <1>8, ConcatProperties, SMT
<1>11. ASSUME NEW i \in 1..(commitIndex[n] + 1)
       PROVE  (delivered[n] \o b)[i].command = log[n][i].command
  <2>1. CASE i <= first
    <3>1. i \in 1..first BY <1>1, <1>4, <2>1, SMT
    <3>2. (delivered[n] \o b)[i] = delivered[n][i] BY <1>10, <2>1
    <3>3. QED BY <1>6, <3>1, <3>2
  <2>2. CASE i > first
    <3>1. i - first \in 1..len /\ first + (i - first) = i
      BY <1>1, <1>4, <2>2, SMT
    <3>2. ~(i <= first) BY <1>1, <1>4, <2>2, SMT
    <3>3. (delivered[n] \o b)[i] = b[i - first] BY <1>10, <3>2
    <3>4. b[i - first].command = log[n][first + (i - first)].command
      BY <1>7, <3>1
    <3>5. QED BY <3>1, <3>3, <3>4
  <2>3. i <= first \/ i > first BY <1>1, <1>4, SMT
  <2>4. QED BY <2>1, <2>2, <2>3
<1>12. /\ b \in Seq(CommitEntry) /\ b # <<>>
       /\ Len(delivered[n] \o b) = commitIndex[n] + 1
       /\ \A i \in 1..(commitIndex[n] + 1) :
            (delivered[n] \o b)[i].command = log[n][i].command
  BY <1>3, <1>9, <1>10, <1>11
<1>13. QED BY <1>12 DEF b, first

\* The goroutine collects what is committed and not applied.
LEMMA CollectKeeps ==
  ASSUME ApplyInv, TypeOK', NEW n \in Node, CollectBatch(n)
  PROVE  ApplyInv'
<1> DEFINE b == Batch(n, FirstToApply(n))
           todo == ~hasCommited[n] \/ commitIndex[n] > lastApplied[n]
<1>1. UNCHANGED <<log, commitIndex, ready, delivered, waiting>>
  BY DEF CollectBatch, netVars, callVars
<1>2. /\ sender \in [Node -> Sender] /\ sender[n] \in Sender
      /\ lastApplied \in [Node -> Nat] /\ hasCommited \in [Node -> BOOLEAN]
      /\ mu \in [Node -> {"free", "leaked", "sending", "panicked"}]
      /\ commitIndex[n] \in Nat
  BY DEF ApplyInv, TypeOK, ApplyType, StoreType
<1>3. /\ sender[n].phase = "lock" /\ sender[n].batch = <<>>
      /\ commitIndex[n] < Len(log[n])
  BY DEF CollectBatch, ApplyInv, Readable, Signalled, Batched
<1>4. ASSUME NEW m \in Node, m # n
      PROVE  Readable(m)' /\ Batched(m)' /\ Applied(m)'
  <2>1. /\ sender'[m] = sender[m] /\ lastApplied'[m] = lastApplied[m]
        /\ hasCommited'[m] = hasCommited[m] /\ mu'[m] = mu[m]
    BY <1>2, <1>4 DEF CollectBatch
  <2>2. QED
    BY <1>1, <2>1 DEF ApplyInv, Readable, Signalled, Batched, Applied, Out
<1>5. CASE ~todo
  <2>1. /\ UNCHANGED <<lastApplied, hasCommited, mu>>
        /\ sender'[n].phase = "recv" /\ sender'[n].batch = <<>>
        /\ sender'[n].backlog = sender[n].backlog
    BY <1>2, <1>3, <1>5, SMT DEF CollectBatch, Sender
  <2>2. Readable(n)' /\ Batched(n)' /\ Applied(n)'
    <3>1. Readable(n)' BY <1>1, <1>3, <2>1 DEF ApplyInv, Readable
    <3>2. Batched(n)' BY <2>1 DEF Batched
    <3>3. Applied(n)' BY <1>1, <1>3, <2>1 DEF ApplyInv, Applied, Out
    <3>4. QED BY <3>1, <3>2, <3>3
  <2>3. QED BY <1>1, <1>4, <2>2 DEF ApplyInv, InformedRequest
<1>6. CASE todo
  <2>1. /\ b \in Seq(CommitEntry) /\ b # <<>>
        /\ Len(delivered[n] \o b) = commitIndex[n] + 1
        /\ \A i \in 1..(commitIndex[n] + 1) :
             (delivered[n] \o b)[i].command = log[n][i].command
    BY <1>3, <1>6, BatchContinues
  <2>2. /\ sender' = [sender EXCEPT ![n].phase = "send", ![n].batch = b]
        /\ lastApplied' = [lastApplied EXCEPT ![n] = commitIndex[n]]
        /\ hasCommited' = [hasCommited EXCEPT ![n] = TRUE]
    BY <1>3, <1>6 DEF CollectBatch
  <2> HIDE DEF b
  <2>3. /\ sender'[n].phase = "send" /\ sender'[n].batch = b
        /\ lastApplied'[n] = commitIndex[n] /\ hasCommited'[n]
    BY <1>2, <2>2 DEF Sender
  <2>4. Readable(n)' BY <1>1, <1>2, <1>3, <2>3, SMT DEF Readable
  <2>5. Batched(n)' BY <2>1, <2>3 DEF Batched
  <2>6. Applied(n)' BY <1>1, <2>1, <2>3 DEF Applied, Out
  <2>7. QED BY <1>1, <1>4, <2>4, <2>5, <2>6 DEF ApplyInv, InformedRequest
<1>7. QED BY <1>5, <1>6

\* One entry goes out: what was sent and what is left stay the same together.
LEMMA DeliverOut ==
  ASSUME TypeOK, NEW n \in Node, DeliverEntry(n)
  PROVE  /\ \A m \in Node : Out(m)' = Out(m)
         /\ UNCHANGED <<log, commitVars>>
         /\ delivered[n] \in Seq(CommitEntry)
         /\ sender[n].batch \in Seq(CommitEntry) /\ sender[n].batch # <<>>
<1> DEFINE d == delivered[n]
           b == sender[n].batch
<1>1. /\ sender \in [Node -> Sender] /\ delivered \in [Node -> Seq(CommitEntry)]
      /\ sender[n] \in Sender /\ d \in Seq(CommitEntry)
  BY DEF TypeOK, ApplyType
<1>2. b \in Seq(CommitEntry) /\ b # <<>>
  BY <1>1 DEF DeliverEntry, Sender
<1>3. /\ delivered'[n] = Append(d, Head(b)) /\ sender'[n].batch = Tail(b)
      /\ \A m \in Node \ {n} : sender'[m] = sender[m]
                              /\ delivered'[m] = delivered[m]
  BY <1>1 DEF DeliverEntry, Sender
<1>4. UNCHANGED <<log, commitVars>> BY DEF DeliverEntry, storeVars
<1> HIDE DEF d, b
<1>5. Head(b) \in CommitEntry /\ Tail(b) \in Seq(CommitEntry)
  BY <1>2, HeadTailProperties
<1>6. Append(d, Head(b)) = d \o <<Head(b)>> /\ <<Head(b)>> \in Seq(CommitEntry)
  BY <1>1, <1>5, AppendIsConcat, SMT DEF d
<1>7. (d \o <<Head(b)>>) \o Tail(b) = d \o (<<Head(b)>> \o Tail(b))
  BY <1>1, <1>5, <1>6, ConcatAssociative, SMT DEF d
<1>8. <<Head(b)>> \o Tail(b) = b BY <1>2, HeadTailProperties, SMT
<1>9. Out(n)' = Out(n) BY <1>3, <1>6, <1>7, <1>8 DEF Out, d, b
<1>10. \A m \in Node \ {n} : Out(m)' = Out(m) BY <1>3 DEF Out
<1>11. QED BY <1>1, <1>2, <1>4, <1>9, <1>10 DEF d, b

\* So the step keeps the invariant.
LEMMA DeliverKeeps ==
  ASSUME ApplyInv, TypeOK', NEW n \in Node, DeliverEntry(n)
  PROVE  ApplyInv'
<1> DEFINE b == sender[n].batch
<1>0. TypeOK BY DEF ApplyInv
<1>1. /\ UNCHANGED <<log, commitVars, mu, ready, waiting>>
      /\ sender \in [Node -> Sender] /\ sender[n] \in Sender
  BY <1>0
  DEF DeliverEntry, storeVars, chanVars, netVars, callVars, TypeOK, ApplyType
<1>2. /\ \A m \in Node : Out(m)' = Out(m)
      /\ b \in Seq(CommitEntry) /\ b # <<>>
  BY <1>0, DeliverOut
<1>3. /\ sender'[n].batch = Tail(b) /\ sender[n].phase = "send"
      /\ sender'[n].phase = IF Len(b) = 1 THEN "recv" ELSE "send"
      /\ sender'[n].backlog = sender[n].backlog
      /\ \A m \in Node \ {n} : sender'[m] = sender[m]
  BY <1>1 DEF DeliverEntry, Sender
<1> HIDE DEF b
<1>4. /\ Tail(b) \in Seq(CommitEntry)
      /\ Len(b) \in Nat \ {0} /\ Len(Tail(b)) = Len(b) - 1
  BY <1>2, HeadTailProperties, LenProperties, EmptySeq
<1>5. Batched(n)'
  <2>1. CASE Len(b) = 1
    <3>1. Len(Tail(b)) = 0 BY <1>4, <2>1, SMT
    <3>2. Tail(b) = <<>> BY <1>4, <3>1, EmptySeq
    <3>3. QED BY <1>3, <2>1, <3>2 DEF Batched
  <2>2. CASE Len(b) # 1
    <3>1. Len(Tail(b)) # 0 BY <1>4, <2>2, SMT
    <3>2. Tail(b) # <<>> BY <1>4, <3>1, EmptySeq
    <3>3. QED BY <1>3, <2>2, <3>2 DEF Batched
  <2>3. QED BY <2>1, <2>2
<1>6. \A m \in Node \ {n} : Batched(m)' BY <1>3 DEF ApplyInv, Batched
<1>7. ASSUME NEW m \in Node PROVE Readable(m)' /\ Applied(m)'
  <2>1. Signalled(m)' => Signalled(m)
    <3>1. /\ sender'[m].backlog = sender[m].backlog
          /\ sender'[m].phase = "lock" => sender[m].phase = "lock"
      BY <1>3
    <3>2. QED BY <1>1, <3>1 DEF Signalled, commitVars
  <2>2. Readable(m)' BY <1>1, <2>1 DEF ApplyInv, Readable, commitVars
  <2>3. Applied(m)' BY <1>1, <1>2 DEF ApplyInv, Applied, commitVars
  <2>4. QED BY <2>2, <2>3
<1>8. QED BY <1>1, <1>5, <1>6, <1>7 DEF ApplyInv, InformedRequest

-----------------------------------------------------------------------------
(* The invariant and what follows from it.                                 *)

\* NewRaft: nothing is signalled, nothing is applied.
LEMMA InitApply == Init => ApplyInv
<1> SUFFICES ASSUME Init PROVE ApplyInv OBVIOUS
<1>1. TypeOK BY InitType
<1>2. ASSUME NEW n \in Node PROVE Readable(n) /\ Batched(n) /\ Applied(n)
  <2>1. /\ sender[n].batch = <<>> /\ sender[n].phase = "recv"
        /\ sender[n].backlog = 0 /\ delivered[n] = <<>>
        /\ ~hasCommited[n] /\ ready[n] = 0 /\ mu[n] = "free"
    BY DEF Init
  <2>2. Out(n) = <<>> /\ Len(Out(n)) = 0
    <3>1. <<>> \in Seq(CommitEntry) BY EmptySeq
    <3>2. <<>> \o <<>> = <<>> BY <3>1, ConcatEmptySeq
    <3>3. QED BY <2>1, <3>2, SMT DEF Out
  <2>3. ~Signalled(n) BY <2>1, SMT DEF Signalled
  <2>4. Readable(n) BY <2>1, <2>3 DEF Readable
  <2>5. Batched(n) BY <2>1 DEF Batched
  <2>6. Applied(n) BY <2>1, <2>2, SMT DEF Applied
  <2>7. QED BY <2>4, <2>5, <2>6
<1>3. QED BY <1>1, <1>2 DEF Init, ApplyInv

\* Every step of every node keeps the invariant.
LEMMA NextApply == ApplyInv /\ [Next]_vars => ApplyInv'
<1> SUFFICES ASSUME ApplyInv, [Next]_vars PROVE ApplyInv'
  OBVIOUS
<1>0. TypeOK /\ TypeOK' BY NextType DEF ApplyInv
<1>1. CASE UNCHANGED vars
  <2>1. Frame
    BY <1>1 DEF vars, Frame, storeVars, applyVars, chanVars, netVars, callVars
  <2>2. QED BY <1>0, <2>1, FrameKeeps
<1>2. ASSUME NEW n \in Node,
             \/ Stop(n) \/ Resume(n)
             \/ StartTimer(n)
             \/ \E t \in 0..MaxTimeouts : ExitTimer(n, t) \/ ExpireTimer(n, t)
             \/ CheckDead(n) \/ StartElection(n)
             \/ HandleRequestVoteRequest(n)
             \/ \E c \in Command : Submit(n, c)
             \/ FinishSignal(n)
             \/ \E ep \in loops[n] : HeartbeatLoop(n, ep)
             \/ SendAppendEntries(n) \/ AbandonCall(n)
             \/ HandleAppendEntriesReply(n)
             \/ HandleAppendEntriesRequest(n) \/ FailAppendEntriesRequest(n)
             \/ ReceiveSignal(n) \/ CollectBatch(n) \/ DeliverEntry(n)
      PROVE  ApplyInv'
  BY <1>0, <1>2, NodeFrames, FrameKeeps, ResumeKeeps, SubmitKeeps,
     FinishSignalKeeps, SendKeeps, ReplyKeeps, RequestKeeps, ReceiveKeeps,
     CollectKeeps, DeliverKeeps
<1>3. ASSUME NEW id \in DOMAIN elections,
             \/ ElectionTimeout(id) \/ ReceiveVote(id) \/ EvaluateVote(id)
             \/ Demote(id) \/ FinishDemotion(id)
             \/ Crown(id) \/ FinishCoronation(id)
      PROVE  ApplyInv'
  BY <1>0, <1>3, ElectionFrames, FrameKeeps
<1>4. QED BY <1>1, <1>2, <1>3 DEF Next

\* The invariant holds in every reachable state.
THEOREM ApplyInvariant == Spec => []ApplyInv
<1>1. QED BY InitApply, NextApply, PTL DEF Spec

\* commitChanSender sends each node's log, in order and without a gap or a
\* repetition, for any cluster, any capacity of newCommitReadyChan and any
\* number of timeouts, stops, failures and late or lost messages.
THEOREM AppliesLogInOrder == Spec => []DeliveredIsLogPrefix
<1>1. ApplyInv => DeliveredIsLogPrefix
  <2> SUFFICES ASSUME ApplyInv, NEW n \in Node
               PROVE  /\ Len(Out(n)) = IF hasCommited[n] THEN lastApplied[n] + 1
                                       ELSE 0
                      /\ Len(Out(n)) <= Len(log[n])
                      /\ \A i \in 1..Len(Out(n)) :
                           Out(n)[i].command = log[n][i].command
    BY DEF DeliveredIsLogPrefix
  <2>1. Applied(n) BY DEF ApplyInv
  <2>2. Len(Out(n)) <= Len(log[n])
    <3>1. Len(Out(n)) = IF hasCommited[n] THEN lastApplied[n] + 1 ELSE 0
      BY <2>1 DEF Applied
    <3>2. CASE hasCommited[n] BY <3>1, <3>2, ReadableFacts, SMT
    <3>3. CASE ~hasCommited[n] BY <3>1, <3>3, ReadableFacts, SMT
    <3>4. QED BY <3>2, <3>3
  <2>3. QED BY <2>1, <2>2 DEF Applied
<1>2. QED BY <1>1, ApplyInvariant, PTL

\* A signal never makes commitChanSender read past the end of the log: it ends
\* only when Stop closes its channel, and it never panics.
THEOREM SignalsAreReadable == Spec => []SignalIsReadable
<1>1. ApplyInv => SignalIsReadable
  BY DEF ApplyInv, SignalIsReadable, Readable, Signalled
<1>2. QED BY <1>1, ApplyInvariant, PTL

\* Neither HandleAppendEntriesRequest nor updateCommitIndex takes back a commit
\* index that was acted upon.
THEOREM CommitsAreKept == Spec => CommitNeverRetreats
<1>1. ApplyInv /\ [Next]_vars =>
        [\A n \in Node : hasCommited[n] => commitIndex'[n] >= commitIndex[n]]_vars
  <2> SUFFICES ASSUME ApplyInv, Next, NEW m \in Node, hasCommited[m]
               PROVE  commitIndex'[m] >= commitIndex[m]
    OBVIOUS
  <2>0. commitIndex[m] \in Nat BY DEF ApplyInv, TypeOK, StoreType
  <2>1. ASSUME NEW n \in Node, CommitStep(n)
        PROVE  commitIndex'[m] >= commitIndex[m]
    <3>1. TypeOK' BY NextType DEF ApplyInv
    <3>2. commitIndex'[m] \in Nat BY <3>1 DEF TypeOK, StoreType
    <3>3. commitIndex'[m] = commitIndex[m] \/ commitIndex[m] <= commitIndex'[m]
      BY <2>1 DEF CommitStep
    <3>4. QED BY <2>0, <3>2, <3>3, SMT
  <2>2. ASSUME UNCHANGED commitIndex PROVE commitIndex'[m] >= commitIndex[m]
    BY <2>0, <2>2, SMT
  <2>3. ASSUME NEW n \in Node,
               \/ HandleAppendEntriesReply(n)
               \/ HandleAppendEntriesRequest(n) \/ FailAppendEntriesRequest(n)
        PROVE  commitIndex'[m] >= commitIndex[m]
    BY <2>1, <2>3, ReplyCommit, RequestCommit, FailCommit
  <2>4. ASSUME NEW n \in Node,
               \/ Resume(n) \/ FinishSignal(n) \/ SendAppendEntries(n)
               \/ \E c \in Command : Submit(n, c)
               \/ ReceiveSignal(n) \/ CollectBatch(n) \/ DeliverEntry(n)
        PROVE  UNCHANGED commitIndex
    BY <2>4 DEF Resume, FinishSignal, SendAppendEntries, Submit, ReceiveSignal,
       CollectBatch, DeliverEntry, storeVars, commitVars
  <2>5. Frame => UNCHANGED commitIndex BY DEF Frame, commitVars
  <2>6. QED
    BY <2>2, <2>3, <2>4, <2>5, NodeFrames, ElectionFrames DEF Next, ApplyInv
<1>2. QED BY <1>1, ApplyInvariant, PTL DEF Spec, CommitNeverRetreats

-----------------------------------------------------------------------------
(* How the applied entries are numbered.                                   *)

\* The entries of s have the numbers 1..k and then go on from k.
RunsTwice(s) ==
  s = <<>> \/ \E k \in DOMAIN s :
    \A i \in DOMAIN s : s[i].index = IF i <= k THEN i ELSE i - 1

\* So have those n has sent or is about to send; nothing is numbered before
\* something is applied.
Numbered(n) == (~hasCommited[n] => lastApplied[n] = 0) /\ RunsTwice(Out(n))

NumberInv == ApplyInv /\ \A n \in Node : Numbered(n)

\* Node n keeps what it has sent or is about to send.
OutKept(n) ==
  /\ Out(n)' = Out(n) /\ hasCommited'[n] = hasCommited[n]
  /\ lastApplied'[n] = lastApplied[n]

\* Every step but the cutting of a batch keeps what is sent or about to be.
LEMMA OthersKeepOut ==
  ASSUME ApplyInv, NEW n \in Node,
         \/ Frame
         \/ Resume(n) \/ FinishSignal(n) \/ SendAppendEntries(n)
         \/ \E c \in Command : Submit(n, c)
         \/ HandleAppendEntriesReply(n)
         \/ HandleAppendEntriesRequest(n) \/ FailAppendEntriesRequest(n)
         \/ ReceiveSignal(n) \/ DeliverEntry(n)
  PROVE  \A m \in Node : OutKept(m)
<1>0. TypeOK /\ sender \in [Node -> Sender]
  BY DEF ApplyInv, TypeOK, ApplyType
<1> USE DEF OutKept, Out, commitVars
<1>1. CASE Frame BY <1>1 DEF Frame
<1>2. CASE Resume(n)
  <2>1. UNCHANGED <<commitVars, delivered>> BY <1>2 DEF Resume, storeVars
  <2>2. \A m \in Node : sender'[m].batch = sender[m].batch
    BY <1>0, <1>2, SMT DEF Resume, Sender
  <2>3. QED BY <2>1, <2>2
<1>3. CASE FinishSignal(n) BY <1>3 DEF FinishSignal, storeVars
<1>4. CASE SendAppendEntries(n)
  BY <1>4 DEF SendAppendEntries, storeVars, applyVars
<1>5. CASE \E c \in Command : Submit(n, c) BY <1>5 DEF Submit, applyVars
<1>6. CASE HandleAppendEntriesReply(n) BY <1>6 DEF HandleAppendEntriesReply
<1>7. CASE HandleAppendEntriesRequest(n)
  BY <1>7 DEF HandleAppendEntriesRequest
<1>8. CASE FailAppendEntriesRequest(n)
  BY <1>8 DEF FailAppendEntriesRequest, applyVars
<1>9. CASE ReceiveSignal(n)
  <2>1. UNCHANGED <<commitVars, delivered>> BY <1>9 DEF ReceiveSignal, storeVars
  <2>2. /\ sender'[n].batch = sender[n].batch
        /\ \A m \in Node \ {n} : sender'[m] = sender[m]
    BY <1>0, <1>9, SMT DEF ReceiveSignal, Sender
  <2>3. QED BY <2>1, <2>2
<1>10. CASE DeliverEntry(n) BY <1>0, <1>10, DeliverOut
<1>11. QED
  BY <1>1, <1>2, <1>3, <1>4, <1>5, <1>6, <1>7, <1>8, <1>9, <1>10

\* The first batch is numbered by position, which makes its end the number
\* given twice; a later one continues the numbers one behind.
LEMMA CollectNumbers ==
  ASSUME NumberInv, NEW n \in Node, CollectBatch(n)
  PROVE  \A m \in Node : Numbered(m)'
<1> DEFINE first == FirstToApply(n)
           b == Batch(n, first)
           len == commitIndex[n] + 1 - first
           d == delivered[n]
           todo == ~hasCommited[n] \/ commitIndex[n] > lastApplied[n]
<1>0. ApplyInv /\ Numbered(n) BY DEF NumberInv
<1>1. /\ sender \in [Node -> Sender] /\ sender[n] \in Sender
      /\ lastApplied \in [Node -> Nat] /\ hasCommited \in [Node -> BOOLEAN]
      /\ commitIndex[n] \in Nat /\ lastApplied[n] \in Nat
      /\ d \in Seq(CommitEntry) /\ Len(d) \in Nat /\ DOMAIN d = 1..Len(d)
      /\ delivered' = delivered
  BY <1>0, LenProperties DEF ApplyInv, TypeOK, ApplyType, StoreType, CollectBatch
<1>2. /\ sender[n].phase = "lock" /\ sender[n].batch = <<>>
      /\ commitIndex[n] < Len(log[n])
  BY <1>0 DEF CollectBatch, ApplyInv, Readable, Signalled, Batched
<1>3. Out(n) = d BY <1>1, <1>2, ConcatEmptySeq DEF Out
<1>4. ASSUME NEW m \in Node, m # n PROVE Numbered(m)'
  <2>1. /\ sender'[m] = sender[m] /\ lastApplied'[m] = lastApplied[m]
        /\ hasCommited'[m] = hasCommited[m]
    BY <1>1, <1>4 DEF CollectBatch
  <2>2. Out(m)' = Out(m) BY <1>1, <2>1 DEF Out
  <2>3. QED BY <2>1, <2>2 DEF NumberInv, Numbered
<1>5. CASE ~todo
  <2>1. /\ UNCHANGED <<lastApplied, hasCommited>> /\ sender'[n].batch = <<>>
    BY <1>1, <1>2, <1>5, SMT DEF CollectBatch, Sender
  <2>2. Numbered(n)' BY <1>0, <1>1, <1>2, <2>1 DEF Numbered, Out
  <2>3. QED BY <1>4, <2>2
<1>6. CASE todo
  <2>1. /\ b \in Seq(CommitEntry) /\ Len(d \o b) = commitIndex[n] + 1
    BY <1>0, <1>2, <1>6, BatchContinues
  <2>2. /\ sender' = [sender EXCEPT ![n].phase = "send", ![n].batch = b]
        /\ hasCommited' = [hasCommited EXCEPT ![n] = TRUE]
    BY <1>2, <1>6 DEF CollectBatch
  <2>3. sender'[n].batch = b /\ hasCommited'[n] BY <1>1, <2>2 DEF Sender
  <2>4. Out(n)' = d \o b BY <1>1, <2>3 DEF Out
  <2>5. first \in Nat /\ len \in Nat \ {0} BY <1>1, <1>6, SMT DEF FirstToApply
  <2>6. Len(d) = first
    BY <1>0, <1>3 DEF ApplyInv, Applied, FirstToApply
  <2>7. DOMAIN b = 1..len /\ \A i \in 1..len : b[i].index = lastApplied[n] + i
    BY DEF Batch
  <2> HIDE DEF b
  <2>8. Len(b) = len BY <2>1, <2>5, <2>7, LenProperties, SMT
  <2>9. d \o b \in Seq(CommitEntry) BY <1>1, <2>1, ConcatProperties
  <2>10. DOMAIN (d \o b) = 1..(commitIndex[n] + 1)
    BY <2>1, <2>9, LenProperties
  <2>11. /\ \A i \in 1..first : (d \o b)[i] = d[i]
         /\ \A i \in (first + 1)..(commitIndex[n] + 1) :
              i - first \in 1..len /\ (d \o b)[i] = b[i - first]
    <3> HIDE DEF first, d
    <3>1. Len(d) \in Nat /\ d \in Seq(CommitEntry) BY <1>1 DEF d
    <3>2. \A i \in 1..(Len(d) + Len(b)) :
            (d \o b)[i] = IF i <= Len(d) THEN d[i] ELSE b[i - Len(d)]
      BY <2>1, <3>1, ConcatProperties
    <3>3. /\ \A i \in 1..first : i \in 1..(Len(d) + Len(b)) /\ i <= Len(d)
          /\ \A i \in (first + 1)..(commitIndex[n] + 1) :
               /\ i - first \in 1..len /\ ~(i <= Len(d))
               /\ i \in 1..(Len(d) + Len(b))
      BY <1>1, <2>5, <2>6, <2>8, <3>1, SMT
    <3>4. QED BY <2>6, <3>2, <3>3
  <2>12. \A i \in (first + 1)..(commitIndex[n] + 1) :
           (d \o b)[i].index = lastApplied[n] + (i - first)
    BY <2>7, <2>11
  <2> HIDE DEF d
  <2>13. CASE ~hasCommited[n]
    <3>1. first = 0 /\ lastApplied[n] = 0
      BY <1>0, <2>13 DEF Numbered, FirstToApply
    <3> HIDE DEF first
    <3>2. ASSUME NEW i \in 1..(commitIndex[n] + 1) PROVE (d \o b)[i].index = i
      <4>1. /\ i \in (first + 1)..(commitIndex[n] + 1)
            /\ lastApplied[n] + (i - first) = i
        BY <1>1, <3>1, SMT
      <4>2. QED BY <2>12, <4>1
    <3>3. /\ commitIndex[n] + 1 \in 1..(commitIndex[n] + 1)
          /\ \A i \in 1..(commitIndex[n] + 1) : i <= commitIndex[n] + 1
      BY <1>1, SMT
    <3>4. RunsTwice(d \o b) BY <2>10, <3>2, <3>3 DEF RunsTwice
    <3>5. QED BY <1>4, <2>3, <2>4, <3>4 DEF Numbered
  <2>14. CASE hasCommited[n]
    <3>1. first = lastApplied[n] + 1 BY <2>14 DEF FirstToApply
    <3> HIDE DEF first
    <3>2. Len(d) # 0 BY <1>1, <2>6, <3>1, SMT
    <3>3. d # <<>> BY <1>1, <3>2, EmptySeq DEF d
    <3>4. PICK k \in 1..first :
            \A i \in 1..first : d[i].index = IF i <= k THEN i ELSE i - 1
      BY <1>0, <1>1, <1>3, <2>6, <3>3 DEF Numbered, RunsTwice, d
    <3>5. first <= commitIndex[n] + 1 /\ k \in 1..(commitIndex[n] + 1)
      BY <1>1, <2>5, SMT
    <3>6. ASSUME NEW i \in 1..(commitIndex[n] + 1)
          PROVE  (d \o b)[i].index = IF i <= k THEN i ELSE i - 1
      <4>1. CASE i \in 1..first BY <2>11, <3>4, <4>1
      <4>2. CASE i \notin 1..first
        <5>1. i \in (first + 1)..(commitIndex[n] + 1) /\ ~(i <= k)
          BY <1>1, <2>5, <4>2, SMT
        <5>2. (d \o b)[i].index = lastApplied[n] + (i - first) BY <2>12, <5>1
        <5>3. lastApplied[n] + (i - first) = i - 1 BY <1>1, <3>1, SMT
        <5>4. QED BY <5>1, <5>2, <5>3
      <4>3. QED BY <4>1, <4>2
    <3>7. RunsTwice(d \o b)
      <4>1. k \in DOMAIN (d \o b) BY <2>10, <3>5
      <4>2. \A i \in DOMAIN (d \o b) :
              (d \o b)[i].index = IF i <= k THEN i ELSE i - 1
        BY <2>10, <3>6
      <4>3. \E j \in DOMAIN (d \o b) : \A i \in DOMAIN (d \o b) :
              (d \o b)[i].index = IF i <= j THEN i ELSE i - 1
        BY <4>1, <4>2, SMT
      <4>4. QED BY <4>3 DEF RunsTwice
    <3>8. QED BY <1>4, <2>3, <2>4, <3>7 DEF Numbered
  <2>15. QED BY <2>13, <2>14
<1>7. QED BY <1>5, <1>6

\* NewRaft and every step: the numbers stay as they are said to be.
LEMMA InitNumber == Init => NumberInv
<1> SUFFICES ASSUME Init PROVE NumberInv OBVIOUS
<1>1. ASSUME NEW n \in Node PROVE Numbered(n)
  <2>1. lastApplied[n] = 0 /\ delivered[n] = <<>> /\ sender[n].batch = <<>>
    BY DEF Init
  <2>2. <<>> \o <<>> = <<>> BY EmptySeq, ConcatEmptySeq
  <2>3. QED BY <2>1, <2>2 DEF Numbered, RunsTwice, Out
<1>2. QED BY <1>1, InitApply DEF NumberInv

LEMMA NextNumber == NumberInv /\ [Next]_vars => NumberInv'
<1> SUFFICES ASSUME NumberInv, [Next]_vars PROVE NumberInv' OBVIOUS
<1>0. ApplyInv /\ TypeOK /\ ApplyInv' BY NextApply DEF NumberInv, ApplyInv
<1>1. ASSUME \A m \in Node : OutKept(m) PROVE NumberInv'
  <2>1. \A m \in Node : Numbered(m)' BY <1>1 DEF NumberInv, Numbered, OutKept
  <2>2. QED BY <1>0, <2>1 DEF NumberInv
<1>2. CASE UNCHANGED vars
  BY <1>1, <1>2 DEF vars, storeVars, applyVars, commitVars, OutKept, Out
<1>3. ASSUME NEW n \in Node,
             \/ Stop(n) \/ Resume(n)
             \/ StartTimer(n)
             \/ \E t \in 0..MaxTimeouts : ExitTimer(n, t) \/ ExpireTimer(n, t)
             \/ CheckDead(n) \/ StartElection(n)
             \/ HandleRequestVoteRequest(n)
             \/ \E c \in Command : Submit(n, c)
             \/ FinishSignal(n)
             \/ \E ep \in loops[n] : HeartbeatLoop(n, ep)
             \/ SendAppendEntries(n) \/ AbandonCall(n)
             \/ HandleAppendEntriesReply(n)
             \/ HandleAppendEntriesRequest(n) \/ FailAppendEntriesRequest(n)
             \/ ReceiveSignal(n) \/ CollectBatch(n) \/ DeliverEntry(n)
      PROVE  NumberInv'
  <2>1. CASE CollectBatch(n) BY <1>0, <2>1, CollectNumbers DEF NumberInv
  <2>2. CASE ~CollectBatch(n)
    <3>1. \A m \in Node : OutKept(m)
      BY <1>0, <1>3, <2>2, NodeFrames, OthersKeepOut
    <3>2. QED BY <1>1, <3>1
  <2>3. QED BY <2>1, <2>2
<1>4. ASSUME NEW id \in DOMAIN elections,
             \/ ElectionTimeout(id) \/ ReceiveVote(id) \/ EvaluateVote(id)
             \/ Demote(id) \/ FinishDemotion(id)
             \/ Crown(id) \/ FinishCoronation(id)
      PROVE  NumberInv'
  <2>1. Frame BY <1>4, ElectionFrames
  <2>2. QED BY <1>1, <2>1 DEF Frame, commitVars, OutKept, Out
<1>5. QED BY <1>2, <1>3, <1>4 DEF Next

\* commitChanSender gives exactly one number twice, at the cut between the
\* first batch and the second, however the batches are cut.
THEOREM OneIndexRepeats == Spec => []IndexesRepeatOnce
<1>1. NumberInv => IndexesRepeatOnce
  BY DEF NumberInv, Numbered, RunsTwice, IndexesRepeatOnce
<1>2. QED BY <1>1, InitNumber, NextNumber, PTL DEF Spec

-----------------------------------------------------------------------------
(* Raft implements AppliedLog.                                             *)

\* The steps of AppliedLog that node n may take: storing and learning.
\* Other nodes are left alone, and what n applied was applied before.
ExtendsOnly(n) ==
  /\ Extended(n) /\ UNCHANGED delivered
  /\ hasCommited[n] => hasCommited'[n] /\ commitIndex[n] <= commitIndex'[n]
  /\ \A m \in Node \ {n} :
       /\ log'[m] = log[m] /\ hasCommited'[m] = hasCommited[m]
       /\ commitIndex'[m] = commitIndex[m]

\* Such a step is an Extend of the abstract specification.
LEMMA ExtendMapped ==
  ASSUME ApplyInv, ApplyInv', NEW n \in Node, ExtendsOnly(n)
  PROVE  AppliedLog!Extend(n)
<1>1. /\ log \in [Node -> Seq(Entry)] /\ log' \in [Node -> Seq(Entry)]
      /\ log[n] \in Seq(Entry) /\ log'[n] \in Seq(Entry)
      /\ Len(log[n]) \in Nat /\ Len(log'[n]) \in Nat
      /\ commitIndex[n] \in Nat /\ commitIndex'[n] \in Nat
  BY LenProperties DEF ApplyInv, TypeOK, StoreType
<1>2. log' = [log EXCEPT ![n] = log'[n]] BY <1>1 DEF ExtendsOnly
<1>3. /\ Len(log[n]) <= Len(log'[n])
      /\ SubSeq(log'[n], 1, Len(log[n])) = log[n]
  <2> DEFINE s == log[n]
             t == log'[n]
             u == SubSeq(t, 1, Len(s))
  <2>1. Len(s) <= Len(t) /\ \A i \in 1..Len(s) : t[i] = s[i]
    BY <1>1, SMT DEF ExtendsOnly, Extended
  <2>2. s \in Seq(Entry) /\ t \in Seq(Entry) /\ Len(s) \in Nat BY <1>1
  <2> HIDE DEF s, t
  <2>3. \A i \in 1..Len(s) : t[i] \in Entry
    BY <2>1, <2>2, ElementOfSeq
  <2>4. u \in Seq(Entry) /\ Len(u) = Len(s) /\ \A i \in 1..Len(s) : u[i] = t[i]
    BY <2>1, <2>2, <2>3, SubSeqProperties, SMT
  <2> HIDE DEF u
  <2>5. u = s BY <2>1, <2>2, <2>4, SeqEqual
  <2>6. QED BY <2>1, <2>5 DEF s, t, u
<1>4. /\ \A m \in Node \ {n} : Committed(m)' = Committed(m)
      /\ Committed(n)' \in Committed(n)..Len(log'[n])
  <2>1. \A m \in Node \ {n} : Committed(m)' = Committed(m)
    BY DEF Committed, ExtendsOnly
  <2>2. hasCommited'[n] => commitIndex'[n] < Len(log'[n])
    BY DEF ApplyInv, Readable, Signalled
  <2>3. Committed(n) = IF hasCommited[n] THEN commitIndex[n] + 1 ELSE 0
    BY DEF Committed
  <2>4. Committed(n)' = IF hasCommited'[n] THEN commitIndex'[n] + 1 ELSE 0
    BY DEF Committed
  <2>5. CASE hasCommited[n]
    <3>1. hasCommited'[n] /\ commitIndex[n] <= commitIndex'[n]
      BY <2>5 DEF ExtendsOnly
    <3>2. QED BY <1>1, <2>1, <2>2, <2>3, <2>4, <2>5, <3>1, SMT
  <2>6. CASE ~hasCommited[n] /\ hasCommited'[n]
    BY <1>1, <2>1, <2>2, <2>3, <2>4, <2>6, SMT
  <2>7. CASE ~hasCommited[n] /\ ~hasCommited'[n]
    BY <1>1, <2>1, <2>3, <2>4, <2>7, SMT
  <2>8. QED BY <2>5, <2>6, <2>7
<1>5. [m \in Node |-> Committed(m)]' =
        [[m \in Node |-> Committed(m)] EXCEPT
           ![n] = [m \in Node |-> Committed(m)]'[n]]
  BY <1>4
<1>6. [m \in Node |-> Committed(m)]'[n] \in
        [m \in Node |-> Committed(m)][n]..Len(log'[n])
  BY <1>4
<1>7. [m \in Node |-> Commands(m)]' = [m \in Node |-> Commands(m)]
  BY DEF ExtendsOnly, Commands
<1>8. QED BY <1>2, <1>3, <1>5, <1>6, <1>7 DEF AppliedLog!Extend

\* The handlers of AppendEntries, Submit and the cutting of a batch are such
\* steps.
LEMMA ExtendingSteps ==
  ASSUME ApplyInv, NEW n \in Node,
         \/ \E c \in Command : Submit(n, c)
         \/ HandleAppendEntriesReply(n)
         \/ HandleAppendEntriesRequest(n) \/ FailAppendEntriesRequest(n)
         \/ CollectBatch(n)
  PROVE  ExtendsOnly(n)
<1>0. /\ StoreType /\ TypeOK /\ log \in [Node -> Seq(Entry)]
      /\ hasCommited \in [Node -> BOOLEAN]
      /\ commitIndex[n] \in Nat /\ commitIndex[n] <= commitIndex[n]
  BY SMT DEF ApplyInv, TypeOK, StoreType
<1>1. ASSUME CommitStep(n), UNCHANGED <<hasCommited, delivered>>, Extended(n),
             \A m \in Node \ {n} : log'[m] = log[m]
      PROVE  ExtendsOnly(n)
  BY <1>0, <1>1 DEF CommitStep, ExtendsOnly
<1>2. CASE \E c \in Command : Submit(n, c)
  <2>1. PICK c \in Command : Submit(n, c) BY <1>2
  <2>2. PICK e : e = [command |-> c, term |-> currentTerm[n]] OBVIOUS
  <2>3. /\ log' = [log EXCEPT ![n] = Append(log[n], e)] /\ e \in Entry
        /\ UNCHANGED <<hasCommited, commitIndex, delivered, chanVars>>
    BY <1>0, <2>1, <2>2
    DEF Submit, commitVars, applyVars, Entry, TypeOK, NodeType
  <2>4. Append(log[n], e) = log[n] \o <<e>> /\ <<e>> \in Seq(Entry)
    BY <1>0, <2>3, AppendIsConcat, SMT
  <2>5. Extended(n) BY <1>0, <2>3, <2>4, ConcatExtends
  <2>6. \A m \in Node \ {n} : log'[m] = log[m] BY <1>0, <2>3
  <2>7. QED BY <1>1, <2>3, <2>5, <2>6 DEF CommitStep
<1>3. CASE HandleAppendEntriesReply(n)
  BY <1>0, <1>1, <1>3, ReplyCommit, SameExtended
<1>4. CASE HandleAppendEntriesRequest(n)
  <2>1. \A m \in Node \ {n} : log'[m] = log[m]
    BY <1>0, <1>4 DEF HandleAppendEntriesRequest, StoreEntries
  <2>2. QED BY <1>1, <1>4, <2>1, RequestCommit
<1>5. CASE FailAppendEntriesRequest(n)
  <2>1. \A m \in Node \ {n} : log'[m] = log[m]
    BY <1>0, <1>5 DEF FailAppendEntriesRequest, StoreEntries
  <2>2. QED BY <1>1, <1>5, <2>1, FailCommit
<1>6. CASE CollectBatch(n)
  <2>1. UNCHANGED <<log, commitIndex, delivered>> BY <1>6 DEF CollectBatch
  <2>2. /\ hasCommited[n] => hasCommited'[n]
        /\ \A m \in Node \ {n} : hasCommited'[m] = hasCommited[m]
    BY <1>0, <1>6 DEF CollectBatch
  <2>3. QED BY <1>0, <2>1, <2>2, SameExtended DEF ExtendsOnly
<1>7. QED BY <1>2, <1>3, <1>4, <1>5, <1>6

\* Sending one entry on commitChan is an Apply: it is the next one, and it is
\* committed.
LEMMA DeliverMapped ==
  ASSUME ApplyInv, NEW n \in Node, DeliverEntry(n)
  PROVE  AppliedLog!Apply(n)
<1> DEFINE d == delivered[n]
           b == sender[n].batch
           e == Head(b)
<1>1. /\ UNCHANGED <<log, commitVars>>
      /\ d \in Seq(CommitEntry) /\ b \in Seq(CommitEntry) /\ b # <<>>
  BY DeliverOut DEF ApplyInv
<1>2. /\ delivered \in [Node -> Seq(CommitEntry)]
      /\ delivered' = [delivered EXCEPT ![n] = Append(d, e)]
  BY DEF ApplyInv, TypeOK, ApplyType, DeliverEntry
<1> HIDE DEF d, b
<1>3. /\ Len(d) \in Nat /\ DOMAIN d = 1..Len(d) /\ Len(b) \in Nat \ {0}
      /\ Len(d \o b) = Len(d) + Len(b) /\ (d \o b)[Len(d) + 1] = b[1]
  BY <1>1, LenProperties, EmptySeq, ConcatProperties, SMT
<1>4. e = b[1] /\ e \in CommitEntry BY <1>1, HeadTailProperties, SMT
<1> HIDE DEF e
<1>5. /\ Len(d \o b) = IF hasCommited[n] THEN lastApplied[n] + 1 ELSE 0
      /\ \A i \in 1..Len(d \o b) : (d \o b)[i].command = log[n][i].command
  BY DEF ApplyInv, Applied, Out, d, b
<1>6. hasCommited[n]
  <2>1. Len(d \o b) # 0 BY <1>3, SMT
  <2>2. QED BY <1>5, <2>1
<1>7. Len(d) < Committed(n)
  <2>1. Len(d \o b) = lastApplied[n] + 1 BY <1>5, <1>6
  <2>2. Committed(n) = commitIndex[n] + 1 BY <1>6 DEF Committed
  <2>3. /\ lastApplied[n] \in Nat /\ commitIndex[n] \in Nat
        /\ lastApplied[n] <= commitIndex[n]
    BY <1>6, ReadableFacts
  <2>4. QED BY <1>3, <2>1, <2>2, <2>3, SMT
<1>8. e.command = log[n][Len(d) + 1].command
  <2>1. Len(d) + 1 \in 1..Len(d \o b) BY <1>3, SMT
  <2>2. QED BY <1>3, <1>4, <1>5, <2>1
<1>9. Commands(n) \in Seq(Command) /\ Len(Commands(n)) = Len(d)
  <2>1. Commands(n) = [i \in 1..Len(d) |-> d[i].command]
    BY <1>3 DEF Commands, d
  <2>2. ASSUME NEW i \in 1..Len(d) PROVE d[i].command \in Command
    <3>1. d[i] \in CommitEntry BY <1>1, ElementOfSeq
    <3>2. QED BY <3>1 DEF CommitEntry
  <2>3. QED BY <1>3, <2>1, <2>2, SMT
<1>10. Commands(n)' = Append(Commands(n), log[n][Len(d) + 1].command)
  <2> DEFINE x == e.command
             f == [i \in DOMAIN Append(d, e) |-> Append(d, e)[i].command]
             g == Append(Commands(n), x)
  <2>1. delivered'[n] = Append(d, e) BY <1>2
  <2>2. Commands(n)' = f BY <2>1 DEF Commands
  <2>3. /\ Append(d, e) \in Seq(CommitEntry)
        /\ Len(Append(d, e)) = Len(d) + 1
        /\ \A i \in 1..Len(d) : Append(d, e)[i] = d[i]
        /\ Append(d, e)[Len(d) + 1] = e
    BY <1>1, <1>4, AppendProperties, SMT
  <2>4. DOMAIN Append(d, e) = 1..(Len(d) + 1) BY <2>3, LenProperties
  <2>5. x \in Command BY <1>4 DEF CommitEntry
  <2>6. \A i \in 1..Len(d) : Commands(n)[i] = d[i].command
    BY <1>3 DEF Commands, d
  <2> HIDE DEF x
  <2>7. /\ g \in Seq(Command) /\ Len(g) = Len(d) + 1
        /\ \A i \in 1..Len(d) : g[i] = Commands(n)[i]
        /\ g[Len(d) + 1] = x
    BY <1>9, <2>5, AppendProperties, SMT
  <2> HIDE DEF g
  <2>8. g \in [1..(Len(d) + 1) -> Command] BY <2>7, LenProperties
  <2>9. ASSUME NEW i \in 1..(Len(d) + 1) PROVE g[i] = Append(d, e)[i].command
    <3>1. i \in 1..Len(d) \/ i = Len(d) + 1 BY <1>3, SMT
    <3>2. QED BY <2>3, <2>6, <2>7, <3>1 DEF x
  <2>10. f = g BY <2>4, <2>8, <2>9
  <2>11. QED BY <1>8, <2>2, <2>10 DEF g, x
<1>11. \A m \in Node \ {n} : Commands(m)' = Commands(m)
  BY <1>2 DEF Commands
<1>12. [m \in Node |-> Commands(m)]' =
         [[m \in Node |-> Commands(m)] EXCEPT
            ![n] = Append(@, log[n][Len(@) + 1].command)]
  BY <1>9, <1>10, <1>11
<1>13. [m \in Node |-> Committed(m)]' = [m \in Node |-> Committed(m)]
  BY <1>1 DEF Committed, commitVars
<1>14. Len([m \in Node |-> Commands(m)][n]) < [m \in Node |-> Committed(m)][n]
  BY <1>7, <1>9
<1>15. QED BY <1>1, <1>12, <1>13, <1>14 DEF AppliedLog!Apply

\* NewRaft: an empty log, nothing committed and nothing applied.
LEMMA InitMapped == Init => AppliedLog!Init
<1> SUFFICES ASSUME Init PROVE AppliedLog!Init OBVIOUS
<1>1. log = [n \in Node |-> <<>>] BY DEF Init
<1>2. [n \in Node |-> Committed(n)] = [n \in Node |-> 0]
  BY DEF Init, Committed
<1>3. ASSUME NEW n \in Node PROVE Commands(n) = <<>>
  <2>1. delivered[n] = <<>> BY DEF Init
  <2>2. DOMAIN delivered[n] = {} BY <2>1, SMT
  <2>3. QED BY <2>2, SMT DEF Commands
<1>4. [n \in Node |-> Commands(n)] = [n \in Node |-> <<>>] BY <1>3
<1>5. QED BY <1>1, <1>2, <1>4 DEF AppliedLog!Init

\* A step that leaves log, commit state and delivered entries is a stutter.
LEMMA StutterMapped ==
  ASSUME UNCHANGED <<log, hasCommited, commitIndex, delivered>>
  PROVE  UNCHANGED AppliedLog!vars
<1>1. [n \in Node |-> Committed(n)]' = [n \in Node |-> Committed(n)]
  BY DEF Committed
<1>2. [n \in Node |-> Commands(n)]' = [n \in Node |-> Commands(n)]
  BY DEF Commands
<1>3. QED BY <1>1, <1>2 DEF AppliedLog!vars

\* Every step of the cluster is an Extend or an Apply of one node, or nothing.
LEMMA NextMapped ==
  ApplyInv /\ ApplyInv' /\ [Next]_vars => [AppliedLog!Next]_AppliedLog!vars
<1> SUFFICES ASSUME ApplyInv, ApplyInv', [Next]_vars
             PROVE  AppliedLog!Next \/ UNCHANGED AppliedLog!vars
  OBVIOUS
<1>1. CASE UNCHANGED vars
  BY <1>1, StutterMapped DEF vars, storeVars, commitVars, applyVars
<1>2. CASE Frame BY <1>2, StutterMapped DEF Frame, commitVars
<1>3. ASSUME NEW n \in Node,
             \/ \E c \in Command : Submit(n, c)
             \/ HandleAppendEntriesReply(n)
             \/ HandleAppendEntriesRequest(n) \/ FailAppendEntriesRequest(n)
             \/ CollectBatch(n)
      PROVE  AppliedLog!Next
  BY <1>3, ExtendingSteps, ExtendMapped DEF AppliedLog!Next
<1>4. ASSUME NEW n \in Node, DeliverEntry(n) PROVE AppliedLog!Next
  BY <1>4, DeliverMapped DEF AppliedLog!Next
<1>5. ASSUME NEW n \in Node,
             \/ Resume(n) \/ FinishSignal(n) \/ SendAppendEntries(n)
             \/ ReceiveSignal(n)
      PROVE  UNCHANGED AppliedLog!vars
  <2>1. UNCHANGED <<log, hasCommited, commitIndex, delivered>>
    BY <1>5 DEF Resume, FinishSignal, SendAppendEntries, ReceiveSignal,
       storeVars, commitVars, applyVars
  <2>2. QED BY <2>1, StutterMapped
<1>6. QED
  BY <1>1, <1>2, <1>3, <1>4, <1>5, NodeFrames, ElectionFrames DEF Next, ApplyInv

\* What a node sends on its commitChan is what AppliedLog promises the state
\* machine behind it: the committed part of a log that only grows, in order,
\* without a gap or a repetition, whatever the cluster, its messages, its timers
\* and its failures do.
THEOREM RaftImplementsAppliedLog == Spec => ImplementsAppliedLog
<1>1. QED
  BY InitMapped, NextMapped, ApplyInvariant, PTL
  DEF Spec, ImplementsAppliedLog, AppliedLog!Spec
=============================================================================
