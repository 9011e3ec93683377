------------------------ MODULE FakeTransportProofs ------------------------
(***************************************************************************)
(* The in-memory transport keeps the promise of module RpcCalls, its       *)
(* Disconnect is a barrier and its broadcasts never send on a closed       *)
(* channel, for any number of nodes and of calls.  The                     *)
(* refinement rests on following each answer: an answer is given once      *)
(* (ServedInv), is in the channel or was read, not both (AnswerInv), and a *)
(* worker or call that is not done has not answered yet (WorkerInv).       *)
(***************************************************************************)
EXTENDS FakeTransportProperties, SequenceTheorems, TLAPS

\* Zenon proves the steps without arithmetic; the others cite SMT.
USE Zenon

Setup == {"NewRaft", "RegisterNode", "writing"}
Closing == {"Shutdown", "Stop", "done"}
Holding == {"locked", "checked", "calling", "handled"}

\* The nodes below hnode are registered until NewHarness is done, and then all
\* are; commit channels are closed by Shutdown alone, after Disconnect.
HarnessInv ==
  /\ hpc \in Setup \cup Closing \cup {"idle", "Disconnect", "Reconnect"}
  /\ hnode \in Node
  /\ nodes = IF hpc \in Setup THEN 1..(hnode - 1) ELSE Node
  /\ disconnected \subseteq nodes /\ hung \subseteq disconnected /\ leaked \subseteq nodes
  /\ hpc \notin Closing => hung = {}
  /\ hpc = "Stop" => hnode \in disconnected

\* A call holds the mutex of its client while it is under way.
LockInv ==
  /\ mu \in [Node -> Id \cup {None}]
  /\ readers \subseteq Id
  /\ req \in [Id -> Question \cup {None}]
  /\ pc \in [Id -> {"unused", "called", "returned", "failed"} \cup Holding]
  /\ \A c \in Node : mu[c] # None => req[mu[c]] # None /\ req[mu[c]].from = c
  /\ \A r \in Id :
       /\ pc[r] = "unused" <=> req[r] = None
       /\ req[r] # None => req[r].to # req[r].from
       /\ pc[r] \in Holding <=> req[r] # None /\ mu[req[r].from] = r
       /\ r \in readers <=> pc[r] \in Holding \ {"locked"}

\* Only a broadcast has workers, and none for its sender.
WorkerInv ==
  /\ worker \in [Id -> [Node -> {"none", "look", "run", "send", "done"}]]
  /\ \A r \in Id : pc[r] \in {"calling", "handled"} => ~Broadcast(r)
  /\ \A r \in Id, n \in Node :
       /\ worker[r][n] # "none" => /\ req[r] # None /\ Broadcast(r)
                                   /\ pc[r] \in {"checked", "returned"}
       /\ worker[r][n] = "look" => pc[r] = "checked"
       /\ worker[r][n] \in {"run", "send", "done"} => n # req[r].from
  /\ \A r \in closed : /\ r \in Id /\ pc[r] = "returned"
                       /\ \A n \in Node : worker[r][n] \in {"none", "done"}

\* Client n is done with request r.
Done(r, n) ==
  /\ req[r] # None
  /\ IF Broadcast(r) THEN worker[r][n] \in {"send", "done"}
     ELSE pc[r] \in {"handled", "returned"} /\ n = req[r].to

Served(r, n) == \E s \in served : s.id = r /\ s.by = n

\* A target handles a request at most once.
ServedInv ==
  /\ \A s \in served :
       /\ s.id \in Id /\ s.by \in Node /\ s.answer \in {None, [from |-> s.by]}
       /\ s = [id |-> s.id, by |-> s.by, answer |-> s.answer]
       /\ Done(s.id, s.by)
  /\ \A s \in served, t \in served : s.id = t.id /\ s.by = t.by => s = t
  /\ \A r \in Id : pc[r] = "handled" => Served(r, req[r].to)
  /\ \A r \in Id, n \in Node : worker[r][n] = "send" => Served(r, n)

\* Reply e of a broadcast has been sent.
Sent(r, e) ==
  /\ req[r] # None /\ Broadcast(r) /\ worker[r][e.from] = "done"
  /\ [id |-> r, by |-> e.from, answer |-> e] \in served

Returned(r) == pc[r] = "returned" /\ ~Broadcast(r)

\* Every answer to r is sent once, and is in the channel or was read.
Answered(r) ==
  /\ Len(chan[r]) <= ChanCap
  /\ \A i \in 1..Len(chan[r]) : Sent(r, chan[r][i])
  /\ \A i \in 1..Len(got[r]) : Sent(r, got[r][i]) \/ Returned(r)
  /\ \A i \in 1..Len(chan[r]), j \in 1..Len(chan[r]) :
       chan[r][i].from = chan[r][j].from => i = j
  /\ \A i \in 1..Len(got[r]), j \in 1..Len(chan[r]) :
       got[r][i].from # chan[r][j].from

AnswerInv ==
  /\ chan \in [Id -> Seq(Reply)] /\ got \in [Id -> Seq(Reply)]
  /\ \A r \in Id : Answered(r)

Inv ==
  /\ HarnessInv /\ LockInv /\ DisconnectIsABarrier
  /\ WorkerInv /\ ServedInv /\ AnswerInv

-----------------------------------------------------------------------------
LEMMA InitInv == Init => Inv
<1> SUFFICES ASSUME Init PROVE Inv
  OBVIOUS
<1>1. HarnessInv BY NAssumption, SMT DEF Init, HarnessInv, Setup, Closing, Node
<1>2. LockInv BY NoneAssumption, SMT DEF Init, LockInv, Holding
<1>3. DisconnectIsABarrier BY DEF Init, DisconnectIsABarrier
<1>4. WorkerInv BY SMT DEF Init, WorkerInv
<1>5. ServedInv BY SMT DEF Init, ServedInv
<1>6. AnswerInv BY TransportBounds, SMT DEF Init, AnswerInv, Answered
<1>7. QED BY <1>1, <1>2, <1>3, <1>4, <1>5, <1>6 DEF Inv

-----------------------------------------------------------------------------
(* The goroutine of the harness.                                           *)

\* Calls leave the harness and the flags alone.
LEMMA CallsLeaveHarness ==
  ASSUME \/ \E n \in Node : Commit(n) \/ Deliver(n) \/ \E r \in Id : Begin(n, r)
         \/ \E r \in Id : CallStep(r) \/ CloseChan(r) \/ ReadBroadcast(r)
                            \/ \E n \in Node : WorkerStep(r, n)
  PROVE  UNCHANGED <<harnessVars, leaked>>
<1> USE DEF harnessVars
<1>1. CASE \E n \in Node : Commit(n) \/ Deliver(n) \/ \E r \in Id : Begin(n, r)
  BY <1>1 DEF Begin, Commit, Deliver
<1>2. CASE \E r \in Id : CallStep(r)
  BY <1>2 DEF CallStep, LockClient, CheckCaller, CheckTarget, CallHandler, ReturnCall,
     LookAt, ReturnBroadcast
<1>3. CASE \E r \in Id : CloseChan(r) \/ ReadBroadcast(r)
  BY <1>3 DEF CloseChan, ReadBroadcast
<1>4. CASE \E r \in Id, n \in Node : WorkerStep(r, n)
  BY <1>4 DEF WorkerStep, RunWorker, SendReply
<1>5. QED BY <1>1, <1>2, <1>3, <1>4

\* The harness leaves the calls alone.
LEMMA HarnessLeavesCalls ==
  ASSUME HarnessStep \/ Ask \/ \E n \in Node : Leak(n) \/ Commit(n) \/ Deliver(n)
  PROVE  UNCHANGED callVars
BY DEF HarnessStep, NewRaft, LockTransporter, RegisterNode, Disconnect, Reconnect,
   StopAndClose, Ask, Leak, Commit, Deliver

LEMMA HarnessKept == HarnessInv /\ [Next]_vars => HarnessInv'
<1> SUFFICES ASSUME HarnessInv, [Next]_vars PROVE HarnessInv'
  OBVIOUS
<1> USE DEF HarnessInv
<1>1. ASSUME UNCHANGED <<harnessVars, leaked>> PROVE HarnessInv'
  BY <1>1 DEF harnessVars
<1>2. CASE NewRaft BY <1>2, SMT DEF NewRaft, Harness, Setup, Closing
<1>3. CASE LockTransporter BY <1>3, SMT DEF LockTransporter, Harness, Setup, Closing
<1>4. CASE RegisterNode
  BY <1>4, NAssumption, SMT DEF RegisterNode, Registering, Harness, Setup, Closing, Node
<1>5. CASE Ask
  BY <1>5, NAssumption, SMT DEF Ask, Harness, Setup, Closing, Node
<1>6. CASE Disconnect BY <1>6, NAssumption, SMT DEF Disconnect, Harness, Setup, Closing, Node
<1>7. CASE Reconnect BY <1>7, NAssumption, SMT DEF Reconnect, Harness, Setup, Closing, Node
<1>8. CASE StopAndClose
  BY <1>8, NAssumption, SMT DEF StopAndClose, Harness, Setup, Closing, Node
<1>9. ASSUME NEW n \in Node, Leak(n) PROVE HarnessInv'
  BY <1>9 DEF Leak, harnessVars
<1>10. CASE UNCHANGED vars BY <1>10, <1>1 DEF vars
<1>11. QED
  BY <1>1, <1>2, <1>3, <1>4, <1>5, <1>6, <1>7, <1>8, <1>9, <1>10, CallsLeaveHarness
  DEF Next, NodeStep, HarnessStep

-----------------------------------------------------------------------------
(* Mutexes.                                                                *)

\* The steps of a broadcast's goroutines and reader hold no mutex.
LEMMA WorkersHoldNothing ==
  ASSUME NEW r \in Id,
         \/ CloseChan(r) \/ ReadBroadcast(r)
         \/ \E n \in Node : WorkerStep(r, n) \/ LookAt(r, n)
  PROVE  UNCHANGED <<mu, readers, req, pc>>
BY DEF WorkerStep, RunWorker, SendReply, LookAt, CloseChan, ReadBroadcast

\* What CheckCaller does: a panic, a refusal, or a call or broadcast that goes on.
LEMMA CheckCallerCases ==
  ASSUME NEW r \in Id, CheckCaller(r)
  PROVE  /\ pc[r] = "locked"
         /\ UNCHANGED <<req, chan, closed, got, served, disconnected>>
         /\ \/ UNCHANGED <<mu, readers, pc, worker>>
            \/ Return(r, "failed") /\ UNCHANGED worker
            \/ /\ req[r].from \notin disconnected
               /\ RLock(r) /\ Set(r, "checked") /\ UNCHANGED mu
               /\ \/ ~Broadcast(r) /\ UNCHANGED worker
                  \/ /\ Broadcast(r)
                     /\ worker' = [worker EXCEPT ![r] = [n \in Node |->
                                     IF n \in nodes THEN "look" ELSE "none"]]
BY DEF CheckCaller, harnessVars

\* What SendReply does to the state of a broadcast.
LEMMA SendReplyCases ==
  ASSUME NEW r \in Id, NEW n \in Node, SendReply(r, n)
  PROVE  /\ worker[r][n] = "send" /\ worker' = [worker EXCEPT ![r][n] = "done"]
         /\ UNCHANGED <<req, pc, closed, got, served>>
         /\ \/ Answer(r, n) = None /\ UNCHANGED chan
            \/ /\ Answer(r, n) # None /\ (r \in closed \/ Len(chan[r]) < ChanCap)
               /\ chan' = [chan EXCEPT ![r] = Append(chan[r], Answer(r, n))]
BY DEF SendReply

\* Return releases what call r holds.
LEMMA ReturnKeepsLocks ==
  ASSUME LockInv, NEW r \in Id, pc[r] \in Holding, NEW phase \in {"returned", "failed"},
         Return(r, phase), UNCHANGED req
  PROVE  LockInv'
BY NoneAssumption, SMT DEF LockInv, Return, Set, Holding, Question

LEMMA LockKept == LockInv /\ [Next]_vars => LockInv'
<1> SUFFICES ASSUME LockInv, [Next]_vars PROVE LockInv'
  OBVIOUS
<1>1. ASSUME UNCHANGED <<mu, readers, req, pc>> PROVE LockInv'
  BY <1>1, SMT DEF LockInv
<1>2. ASSUME NEW c \in Node, NEW r \in Id, Begin(c, r) PROVE LockInv'
  <2>1. PICK to \in (Node \ {c}) \cup {Everyone} :
          req' = [req EXCEPT ![r] = [from |-> c, to |-> to]]
    BY <1>2 DEF Begin
  <2>2. [from |-> c, to |-> to] \in Question BY SMT DEF Question
  <2>3. [from |-> c, to |-> to] # None BY <2>2, NoneAssumption
  <2>4. to # c BY TargetAssumption, SMT
  <2>5. /\ pc[r] = "unused" /\ pc' = [pc EXCEPT ![r] = "called"]
        /\ UNCHANGED <<mu, readers>>
    BY <1>2 DEF Begin, Set
  <2>6. \A d \in Node : mu[d] # r BY <2>5, NoneAssumption, SMT DEF LockInv
  <2>7. QED
    BY <2>1, <2>2, <2>3, <2>4, <2>5, <2>6, SMT DEF LockInv, Holding
<1>3. ASSUME NEW r \in Id, LockClient(r) PROVE LockInv'
  BY <1>3, NoneAssumption, SMT DEF LockInv, LockClient, Set, Holding, Question
<1>4. ASSUME NEW r \in Id, CheckCaller(r) PROVE LockInv'
  <2>1. CASE UNCHANGED <<mu, readers, pc>> BY <1>1, <1>4, <2>1 DEF CheckCaller
  <2>2. CASE Return(r, "failed")
    BY <1>4, <2>2, ReturnKeepsLocks DEF CheckCaller, Holding
  <2>3. CASE RLock(r) /\ Set(r, "checked") /\ UNCHANGED mu
    BY <1>4, <2>3, NoneAssumption, SMT DEF LockInv, CheckCaller, RLock, Set, Holding
  <2>4. QED BY <1>4, <2>1, <2>2, <2>3 DEF CheckCaller
<1>5. ASSUME NEW r \in Id, CheckTarget(r) PROVE LockInv'
  <2>1. CASE Return(r, "failed")
    BY <1>5, <2>1, ReturnKeepsLocks DEF CheckTarget, Holding
  <2>2. CASE Set(r, "calling") /\ UNCHANGED <<mu, readers>>
    BY <1>5, <2>2, SMT DEF LockInv, CheckTarget, Set, Holding
  <2>3. QED BY <1>5, <2>1, <2>2 DEF CheckTarget
<1>6. ASSUME NEW r \in Id, CallHandler(r) PROVE LockInv'
  BY <1>6, SMT DEF LockInv, CallHandler, Set, Holding
<1>7. ASSUME NEW r \in Id, ReturnCall(r) \/ ReturnBroadcast(r) PROVE LockInv'
  BY <1>7, ReturnKeepsLocks DEF ReturnCall, ReturnBroadcast, Holding
<1>8. CASE UNCHANGED vars BY <1>8, <1>1 DEF vars, callVars
<1>9. CASE HarnessStep \/ Ask \/ \E n \in Node : Leak(n) \/ Commit(n) \/ Deliver(n)
  <2>1. UNCHANGED callVars
    BY <1>9, HarnessLeavesCalls
  <2>2. QED BY <1>1, <2>1 DEF callVars
<1>10. QED
  BY <1>1, <1>2, <1>3, <1>4, <1>5, <1>6, <1>7, <1>8, <1>9, WorkersHoldNothing
  DEF Next, NodeStep, CallStep

\* Only CheckCaller and the harness's Disconnect could break the barrier.
LEMMA BarrierKept ==
  LockInv /\ DisconnectIsABarrier /\ [Next]_vars => DisconnectIsABarrier'
<1> SUFFICES ASSUME LockInv, DisconnectIsABarrier, [Next]_vars
             PROVE  DisconnectIsABarrier'
  OBVIOUS
<1> USE DEF DisconnectIsABarrier
<1>1. ASSUME UNCHANGED <<req, pc>>, disconnected' \subseteq disconnected
      PROVE  DisconnectIsABarrier'
  BY <1>1
<1>2. ASSUME NEW c \in Node, NEW r \in Id, Begin(c, r) PROVE DisconnectIsABarrier'
  BY <1>2, SMT DEF LockInv, Begin, Set, harnessVars
<1>3. ASSUME NEW r \in Id,
             LockClient(r) \/ CheckCaller(r) \/ CheckTarget(r) \/ CallHandler(r)
               \/ ReturnCall(r) \/ ReturnBroadcast(r)
      PROVE  DisconnectIsABarrier'
  <2>1. UNCHANGED <<req, disconnected>>
    BY <1>3 DEF LockClient, CheckCaller, CheckTarget, CallHandler, ReturnCall,
       ReturnBroadcast, harnessVars
  <2>2. pc \in [Id -> {"unused", "called", "returned", "failed"} \cup Holding]
    BY DEF LockInv
  <2>3. CASE LockClient(r) BY <2>1, <2>2, <2>3, SMT DEF LockClient, Set
  <2>4. CASE CheckCaller(r) 
    BY <2>1, <2>2, <2>4, CheckCallerCases, SMT DEF Return, Set
  <2>5. CASE CheckTarget(r) BY <2>1, <2>2, <2>5, SMT DEF CheckTarget, Return, Set
  <2>6. CASE CallHandler(r) BY <2>1, <2>2, <2>6, SMT DEF CallHandler, Set
  <2>7. CASE ReturnCall(r) \/ ReturnBroadcast(r)
    BY <2>1, <2>2, <2>7, SMT DEF ReturnCall, ReturnBroadcast, Return, Set
  <2>8. QED BY <1>3, <2>3, <2>4, <2>5, <2>6, <2>7
<1>4. CASE Disconnect
  <2>1. \A r \in Id : pc[r] \in Holding => req[r].from # hnode
    BY <1>4, NoneAssumption, SMT DEF LockInv, Disconnect
  <2>2. QED BY <1>4, <2>1, SMT DEF Disconnect, callVars, Holding
<1>5. CASE NewRaft \/ LockTransporter \/ RegisterNode \/ Reconnect \/ StopAndClose
             \/ Ask \/ \E n \in Node : Leak(n) \/ Commit(n) \/ Deliver(n)
  BY <1>1, <1>5 DEF NewRaft, LockTransporter, RegisterNode, Reconnect, StopAndClose,
     Ask, Leak, Commit, Deliver, callVars, harnessVars
<1>6. ASSUME NEW r \in Id,
             \/ CloseChan(r) \/ ReadBroadcast(r)
             \/ \E n \in Node : WorkerStep(r, n) \/ LookAt(r, n)
      PROVE  DisconnectIsABarrier'
  <2>1. UNCHANGED disconnected
    BY <1>6, CallsLeaveHarness DEF CallStep, harnessVars
  <2>2. QED BY <1>1, <1>6, <2>1, WorkersHoldNothing
<1>7. CASE UNCHANGED vars BY <1>1, <1>7 DEF vars, callVars, harnessVars
<1>8. QED
  BY <1>2, <1>3, <1>4, <1>5, <1>6, <1>7 DEF Next, NodeStep, CallStep, HarnessStep

-----------------------------------------------------------------------------
(* The goroutines of a broadcast.                                          *)

LEMMA WorkerKept == LockInv /\ WorkerInv /\ [Next]_vars => WorkerInv'
<1> SUFFICES ASSUME LockInv, WorkerInv, [Next]_vars PROVE WorkerInv'
  OBVIOUS
<1>1. ASSUME UNCHANGED <<req, pc, worker, closed>> PROVE WorkerInv'
  BY <1>1, SMT DEF WorkerInv, Broadcast
<1>2. ASSUME NEW c \in Node, NEW r \in Id, Begin(c, r) PROVE WorkerInv'
  BY <1>2, SMT DEF LockInv, WorkerInv, Broadcast, Begin, Set
<1>3. ASSUME NEW r \in Id, LockClient(r) \/ CheckTarget(r) \/ CallHandler(r)
      PROVE  WorkerInv'
  BY <1>3, SMT DEF LockInv, WorkerInv, Broadcast, LockClient, CheckTarget, CallHandler,
     Return, Set
<1>4. ASSUME NEW r \in Id, CheckCaller(r) PROVE WorkerInv'
  <2>1. \A n \in Node : worker[r][n] = "none" 
    BY <1>4, CheckCallerCases, SMT DEF WorkerInv
  <2>2. r \notin closed /\ pc[r] = "locked" /\ req[r] # None
    BY <1>4, CheckCallerCases, SMT DEF LockInv, WorkerInv
  <2>3. UNCHANGED <<req, closed>> BY <1>4 DEF CheckCaller
  <2>4. CASE UNCHANGED <<pc, worker>> BY <1>1, <2>3, <2>4
  <2>5. CASE pc' = [pc EXCEPT ![r] = "failed"] /\ UNCHANGED worker
    BY <2>1, <2>2, <2>3, <2>5, SMT DEF LockInv, WorkerInv, Broadcast
  <2>6. CASE pc' = [pc EXCEPT ![r] = "checked"] /\ UNCHANGED worker
    BY <2>1, <2>2, <2>3, <2>6, SMT DEF LockInv, WorkerInv, Broadcast
  <2>7. CASE /\ pc' = [pc EXCEPT ![r] = "checked"] /\ Broadcast(r)
             /\ worker' = [worker EXCEPT ![r] = [n \in Node |->
                             IF n \in nodes THEN "look" ELSE "none"]]
    BY <2>1, <2>2, <2>3, <2>7, SMT DEF LockInv, WorkerInv, Broadcast
  <2>8. QED BY <1>4, <2>4, <2>5, <2>6, <2>7, CheckCallerCases DEF Return, Set
<1>5. ASSUME NEW r \in Id, ReturnCall(r) \/ ReturnBroadcast(r) PROVE WorkerInv'
  BY <1>5, SMT DEF LockInv, WorkerInv, Broadcast, ReturnCall, ReturnBroadcast, Return, Set
<1>6. ASSUME NEW r \in Id, NEW n \in Node,
             LookAt(r, n) \/ RunWorker(r, n) \/ SendReply(r, n)
      PROVE  WorkerInv'
  <2>1. CASE LookAt(r, n) BY <2>1, SMT DEF WorkerInv, Broadcast, LookAt
  <2>2. CASE RunWorker(r, n) BY <2>2, SMT DEF WorkerInv, Broadcast, RunWorker
  <2>3. CASE SendReply(r, n)
    <3>1. /\ worker[r][n] = "send" /\ worker' = [worker EXCEPT ![r][n] = "done"]
          /\ UNCHANGED <<req, pc, closed>>
      BY <2>3, SendReplyCases
    <3>2. QED BY <3>1, SMT DEF WorkerInv, Broadcast
  <2>4. QED BY <1>6, <2>1, <2>2, <2>3
<1>7. ASSUME NEW r \in Id, CloseChan(r) PROVE WorkerInv'
  BY <1>7, SMT DEF WorkerInv, Broadcast, CloseChan
<1>8. ASSUME NEW r \in Id, ReadBroadcast(r) PROVE WorkerInv'
  BY <1>1, <1>8 DEF ReadBroadcast
<1>9. CASE HarnessStep \/ Ask \/ \E n \in Node : Leak(n) \/ Commit(n) \/ Deliver(n)
  BY <1>1, <1>9, HarnessLeavesCalls DEF callVars
<1>10. CASE UNCHANGED vars BY <1>1, <1>10 DEF vars, callVars
<1>11. QED
  BY <1>2, <1>3, <1>4, <1>5, <1>6, <1>7, <1>8, <1>9, <1>10
  DEF Next, NodeStep, CallStep, WorkerStep

-----------------------------------------------------------------------------
(* What the handlers answer.                                               *)

\* A target that is not done with a request has not answered it.
LEMMA ServedOnce ==
  ASSUME ServedInv, NEW r \in Id, NEW n \in Node, ~Done(r, n)
  PROVE  ~Served(r, n)
<1>1. \A s \in served : Done(s.id, s.by) BY DEF ServedInv
<1>2. QED BY <1>1 DEF Served

\* CHOOSE finds the one answer.
LEMMA AnswerIsServed ==
  ASSUME ServedInv, NEW r \in Id, NEW n \in Node, Served(r, n)
  PROVE  /\ [id |-> r, by |-> n, answer |-> Answer(r, n)] \in served
         /\ Answer(r, n) \in {None, [from |-> n]}
<1> DEFINE s == CHOOSE t \in served : t.id = r /\ t.by = n
<1>1. s \in served /\ s.id = r /\ s.by = n BY DEF Served
<1>2. Answer(r, n) = s.answer BY DEF Answer
<1>3. QED BY <1>1, <1>2 DEF ServedInv

LEMMA ServedKept == LockInv /\ WorkerInv /\ ServedInv /\ [Next]_vars => ServedInv'
<1> SUFFICES ASSUME LockInv, WorkerInv, ServedInv, [Next]_vars PROVE ServedInv'
  OBVIOUS
\* Nothing was answered, and all that was done stays done.
<1>1. ASSUME UNCHANGED served,
             \A r \in Id, n \in Node : Done(r, n) => Done(r, n)',
             \A r \in Id : pc'[r] = "handled" => pc[r] = "handled" /\ req'[r] = req[r],
             \A r \in Id, n \in Node : worker'[r][n] = "send" => worker[r][n] = "send"
      PROVE  ServedInv'
  <2>1. \A r \in Id, n \in Node : Served(r, n)' <=> Served(r, n) BY <1>1 DEF Served
  <2>2. \A s \in served : Done(s.id, s.by)' BY <1>1 DEF ServedInv
  <2>3. \A r \in Id : pc'[r] = "handled" => Served(r, req[r].to)'
    <3> SUFFICES ASSUME NEW r \in Id, pc'[r] = "handled"
                 PROVE  \E s \in served' : s.id = r /\ s.by = req'[r].to
      BY DEF Served
    <3>1. Served(r, req[r].to) /\ req'[r] = req[r] BY <1>1 DEF ServedInv
    <3>2. QED BY <1>1, <3>1 DEF Served
  <2>4. QED BY <1>1, <2>1, <2>2, <2>3, SMT DEF ServedInv
<1>2. ASSUME NEW c \in Node, NEW r \in Id, Begin(c, r) PROVE ServedInv'
  BY <1>1, <1>2, SMT DEF LockInv, Done, Broadcast, Begin, Set
<1>3. ASSUME NEW r \in Id,
             LockClient(r) \/ CheckCaller(r) \/ CheckTarget(r)
               \/ ReturnCall(r) \/ ReturnBroadcast(r)
      PROVE  ServedInv'
  <2>1. CASE LockClient(r)
    BY <1>1, <2>1, SMT DEF LockInv, Done, Broadcast, LockClient, Set
  <2>2. CASE CheckCaller(r)
    <3>1. \A n \in Node : worker[r][n] = "none"
      BY <2>2, CheckCallerCases, SMT DEF WorkerInv
    <3>2. UNCHANGED <<req, served>> /\ pc[r] = "locked" BY <2>2, CheckCallerCases
    <3>3. PICK x \in {"locked", "failed", "checked"} : pc' = [pc EXCEPT ![r] = x]
      BY <2>2, <3>2, CheckCallerCases, SMT DEF LockInv, Return, Set
    <3>4. \A q \in Id, n \in Node : worker'[q][n] # worker[q][n] =>
            q = r /\ worker'[q][n] # "send"
      BY <2>2, CheckCallerCases, SMT DEF WorkerInv
    <3>5. QED BY <1>1, <3>1, <3>2, <3>3, <3>4, SMT DEF LockInv, Done, Broadcast
  <2>3. CASE CheckTarget(r)
    BY <1>1, <2>3, SMT DEF LockInv, Done, Broadcast, CheckTarget, Return, Set
  <2>4. CASE ReturnCall(r)
    BY <1>1, <2>4, SMT DEF LockInv, Done, Broadcast, ReturnCall, Return, Set
  <2>5. CASE ReturnBroadcast(r)
    BY <1>1, <2>5, SMT DEF LockInv, Done, Broadcast, ReturnBroadcast, Return, Set
  <2>6. QED BY <1>3, <2>1, <2>2, <2>3, <2>4, <2>5
<1>4. ASSUME NEW r \in Id, NEW n \in Node, LookAt(r, n) \/ SendReply(r, n)
      PROVE  ServedInv'
  <2>1. CASE LookAt(r, n)
    BY <1>1, <2>1, SMT DEF WorkerInv, Done, Broadcast, LookAt
  <2>2. CASE SendReply(r, n)
    BY <1>1, <2>2, SendReplyCases, SMT DEF WorkerInv, Done, Broadcast
  <2>3. QED BY <1>4, <2>1, <2>2
\* Target n answers request r, which it has not done before.
<1>5. ASSUME NEW r \in Id, NEW n \in Node, Handle(r, n), ~Done(r, n), Done(r, n)',
             \A q \in Id, m \in Node : Done(q, m) => Done(q, m)',
             \A q \in Id : pc'[q] = "handled" =>
                 \/ q = r /\ n = req'[q].to
                 \/ pc[q] = "handled" /\ req'[q] = req[q],
             \A q \in Id, m \in Node : worker'[q][m] = "send" =>
                 worker[q][m] = "send" \/ (q = r /\ m = n)
      PROVE  ServedInv'
  <2>1. PICK a \in {None, [from |-> n]} :
          served' = served \cup {[id |-> r, by |-> n, answer |-> a]}
    BY <1>5 DEF Handle
  <2>2. ~Served(r, n) BY <1>5, ServedOnce
  <2>3. \A s \in served' : s \in served \/ s = [id |-> r, by |-> n, answer |-> a]
    BY <2>1
  <2>4. \A s \in served' :
          /\ s.id \in Id /\ s.by \in Node /\ s.answer \in {None, [from |-> s.by]}
          /\ s = [id |-> s.id, by |-> s.by, answer |-> s.answer]
          /\ Done(s.id, s.by)'
    BY <1>5, <2>3, SMT DEF ServedInv
  <2>5. \A s \in served', t \in served' : s.id = t.id /\ s.by = t.by => s = t
    BY <2>2, <2>3, SMT DEF ServedInv, Served
  <2>6. Served(r, n)' /\ \A q \in Id, m \in Node : Served(q, m) => Served(q, m)'
    <3>1. [id |-> r, by |-> n, answer |-> a] \in served' /\ served \subseteq served'
      BY <2>1
    <3>2. Served(r, n)' BY <3>1, SMT DEF Served
    <3>3. QED BY <3>1, <3>2 DEF Served
  <2>7. \A q \in Id : pc'[q] = "handled" => Served(q, req[q].to)'
    <3> SUFFICES ASSUME NEW q \in Id, pc'[q] = "handled"
                 PROVE  \E s \in served' : s.id = q /\ s.by = req'[q].to
      BY DEF Served
    <3>1. QED BY <1>5, <2>1, <2>6, SMT DEF ServedInv, Served
  <2>8. \A q \in Id, m \in Node : worker'[q][m] = "send" => Served(q, m)'
    <3>1. \A q \in Id, m \in Node : worker[q][m] = "send" => Served(q, m)
      BY DEF ServedInv
    <3>2. ASSUME NEW q \in Id, NEW m \in Node, worker'[q][m] = "send"
          PROVE  Served(q, m)'
      <4>1. CASE q = r /\ m = n BY <2>6, <4>1
      <4>2. CASE worker[q][m] = "send" BY <2>6, <3>1, <4>2
      <4>3. QED BY <1>5, <3>2, <4>1, <4>2
    <3>3. QED BY <3>2
  <2>9. QED BY <2>4, <2>5, <2>7, <2>8 DEF ServedInv
<1>6. ASSUME NEW r \in Id, CallHandler(r) PROVE ServedInv'
  <2>1. /\ ~Broadcast(r) /\ req[r] # None /\ req[r].to \in Node
    BY <1>6, SMT DEF LockInv, WorkerInv, CallHandler, Broadcast, Question
  <2>2. QED
    BY <1>5, <1>6, <2>1, SMT DEF LockInv, WorkerInv, Done, Broadcast, CallHandler, Set
<1>7. ASSUME NEW r \in Id, NEW n \in Node, RunWorker(r, n) PROVE ServedInv'
  BY <1>5, <1>7, SMT DEF LockInv, WorkerInv, Done, Broadcast, RunWorker
<1>8. CASE UNCHANGED <<req, pc, worker, served>>
  BY <1>1, <1>8 DEF Done, Broadcast
<1>9. ASSUME NEW r \in Id, CloseChan(r) \/ ReadBroadcast(r) PROVE ServedInv'
  BY <1>8, <1>9 DEF CloseChan, ReadBroadcast
<1>10. CASE HarnessStep \/ Ask \/ \E n \in Node : Leak(n) \/ Commit(n) \/ Deliver(n)
  BY <1>8, <1>10, HarnessLeavesCalls DEF callVars
<1>11. CASE UNCHANGED vars BY <1>8, <1>11 DEF vars, callVars
<1>12. QED
  BY <1>2, <1>3, <1>4, <1>6, <1>7, <1>9, <1>10, <1>11
  DEF Next, NodeStep, CallStep, WorkerStep

-----------------------------------------------------------------------------
(* What callers read.                                                      *)

LEMMA AnswerTypes ==
  ASSUME AnswerInv, NEW r \in Id
  PROVE  /\ Len(chan[r]) \in Nat /\ Len(got[r]) \in Nat
         /\ \A i \in 1..Len(chan[r]) : chan[r][i] \in Reply
         /\ \A i \in 1..Len(got[r]) : got[r][i] \in Reply
BY SMT DEF AnswerInv

\* The answers to r stay where they are when neither they nor their workers move.
LEMMA AnsweredKept ==
  ASSUME AnswerInv, NEW r \in Id, chan'[r] = chan[r], got'[r] = got[r],
         \A e \in Reply : Sent(r, e) => Sent(r, e)', Returned(r) => Returned(r)'
  PROVE  Answered(r)'
<1>1. Answered(r) BY DEF AnswerInv
<1>2. \A i \in 1..Len(chan[r]) : Sent(r, chan[r][i])'
  <2> SUFFICES ASSUME NEW i \in 1..Len(chan[r]) PROVE Sent(r, chan[r][i])'
    OBVIOUS
  <2>1. chan[r][i] \in Reply /\ Sent(r, chan[r][i]) BY <1>1, AnswerTypes DEF Answered
  <2>2. QED BY <2>1 DEF Sent
<1>3. \A i \in 1..Len(got[r]) : Sent(r, got[r][i])' \/ Returned(r)'
  <2> SUFFICES ASSUME NEW i \in 1..Len(got[r]), ~Returned(r)'
               PROVE  Sent(r, got[r][i])'
    OBVIOUS
  <2>1. got[r][i] \in Reply /\ Sent(r, got[r][i]) BY <1>1, AnswerTypes DEF Answered
  <2>2. QED BY <2>1 DEF Sent
<1>4. QED BY <1>1, <1>2, <1>3 DEF Answered

\* All answers stay where they are.
LEMMA AnswersStay ==
  ASSUME LockInv, AnswerInv, UNCHANGED <<chan, got>>, served \subseteq served',
         \A r \in Id : req'[r] = req[r] \/ req[r] = None,
         \A r \in Id : pc[r] = "returned" => pc'[r] = "returned",
         \A r \in Id, n \in Node : worker[r][n] = "done" => worker'[r][n] = "done"
  PROVE  AnswerInv'
<1>1. \A r \in Id, e \in Reply : Sent(r, e) => Sent(r, e)'
  BY SMT DEF Sent, Broadcast, Reply
<1>2. \A r \in Id : Returned(r) => Returned(r)'
  BY SMT DEF LockInv, Returned, Broadcast
<1>3. \A r \in Id : Answered(r)' BY <1>1, <1>2, AnsweredKept
<1>4. QED BY <1>3 DEF AnswerInv

LEMMA AnswerKept ==
  LockInv /\ WorkerInv /\ ServedInv /\ AnswerInv /\ [Next]_vars => AnswerInv'
<1> SUFFICES ASSUME LockInv, WorkerInv, ServedInv, AnswerInv, [Next]_vars
             PROVE  AnswerInv'
  OBVIOUS
<1>1. ASSUME NEW c \in Node, NEW r \in Id, Begin(c, r) PROVE AnswerInv'
  BY <1>1, AnswersStay, SMT DEF LockInv, Begin, Set
<1>2. ASSUME NEW r \in Id, LockClient(r) \/ CheckTarget(r) \/ ReturnBroadcast(r)
      PROVE  AnswerInv'
  BY <1>2, AnswersStay, SMT DEF LockInv, LockClient, CheckTarget, ReturnBroadcast,
     Return, Set
<1>3. ASSUME NEW r \in Id, CheckCaller(r) PROVE AnswerInv'
  <2>1. \A n \in Node : worker[r][n] = "none"
    BY <1>3, CheckCallerCases, SMT DEF WorkerInv
  <2>2. UNCHANGED <<req, chan, got, served>> /\ pc[r] = "locked"
    BY <1>3, CheckCallerCases
  <2>3. \A q \in Id : pc[q] = "returned" => pc'[q] = "returned"
    BY <1>3, CheckCallerCases, SMT DEF LockInv, Return, Set
  <2>4. \A q \in Id, n \in Node : worker[q][n] = "done" => worker'[q][n] = "done"
    BY <1>3, <2>1, CheckCallerCases, SMT DEF WorkerInv
  <2>5. QED BY <2>2, <2>3, <2>4, AnswersStay
<1>4. ASSUME NEW r \in Id, CallHandler(r) PROVE AnswerInv'
  BY <1>4, AnswersStay, SMT DEF LockInv, CallHandler, Handle, Set
<1>5. ASSUME NEW r \in Id, NEW n \in Node, LookAt(r, n) \/ RunWorker(r, n)
      PROVE  AnswerInv'
  BY <1>5, AnswersStay, SMT DEF WorkerInv, LookAt, RunWorker, Handle
<1>6. ASSUME NEW r \in Id, CloseChan(r) PROVE AnswerInv'
  BY <1>6, AnswersStay, SMT DEF CloseChan
<1>7. CASE HarnessStep \/ Ask \/ \E n \in Node : Leak(n) \/ Commit(n) \/ Deliver(n)
  BY <1>7, AnswersStay, HarnessLeavesCalls DEF callVars
<1>8. CASE UNCHANGED vars BY <1>8, AnswersStay DEF vars, callVars
\* CallRPC returns: nothing of a call is in a channel.
<1>9. ASSUME NEW r \in Id, ReturnCall(r) PROVE AnswerInv'
  <2>1. ~Broadcast(r) /\ req[r] \in Question /\ pc[r] = "handled"
    BY <1>9, NoneAssumption, SMT DEF LockInv, WorkerInv, ReturnCall
  <2>2. req[r].to \in Node BY <2>1, SMT DEF Question, Broadcast
  <2>3. Served(r, req[r].to) BY <2>1 DEF ServedInv
  <2>4. Answer(r, req[r].to) # None => Answer(r, req[r].to) \in Reply
    <3>1. [from |-> req[r].to] \in Reply BY <2>2, SMT DEF Reply
    <3>2. QED BY <2>2, <2>3, <3>1, AnswerIsServed
  <2>5. UNCHANGED <<req, worker, chan, served>> /\ pc' = [pc EXCEPT ![r] = "returned"]
    BY <1>9 DEF ReturnCall, Return, Set
  <2>6. \/ UNCHANGED got
        \/ \E a \in Reply : got' = [got EXCEPT ![r] = <<a>>]
    BY <1>9, <2>4 DEF ReturnCall
  <2>7. CASE UNCHANGED got BY <2>1, <2>5, <2>7, AnswersStay, SMT DEF LockInv
  <2>8. ASSUME NEW a \in Reply, got' = [got EXCEPT ![r] = <<a>>] PROVE AnswerInv'
    <3>1. Len(chan[r]) = 0
      <4>1. \A i \in 1..Len(chan[r]) : FALSE BY <2>1 DEF AnswerInv, Answered, Sent
      <4>2. QED BY <4>1, AnswerTypes, SMT
    <3>2. <<a>> \in Seq(Reply) /\ Len(<<a>>) = 1 BY SMT
    <3>3. got' \in [Id -> Seq(Reply)] /\ Len(got'[r]) = 1
      BY <2>8, <3>2, SMT DEF AnswerInv
    <3>4. \A q \in Id, e \in Reply : Sent(q, e)' <=> Sent(q, e)
      BY <2>5 DEF Sent, Broadcast
    <3>5. \A q \in Id \ {r} : got'[q] = got[q] /\ (Returned(q)' <=> Returned(q))
      BY <2>5, <2>8, SMT DEF AnswerInv, LockInv, Returned, Broadcast
    <3>6. Returned(r)' BY <2>1, <2>5, SMT DEF LockInv, Broadcast, Returned
    <3>7. Answered(r)'
      BY <2>5, <3>1, <3>3, <3>6, TransportBounds, SMT DEF Answered
    <3>8. \A q \in Id \ {r} : Answered(q)' BY <2>5, <3>4, <3>5, AnsweredKept
    <3>9. QED BY <2>5, <3>3, <3>7, <3>8 DEF AnswerInv
  <2>9. QED BY <2>6, <2>7, <2>8
\* A worker's reply is the only one with its name.
<1>10. ASSUME NEW r \in Id, NEW n \in Node, SendReply(r, n) PROVE AnswerInv'
  <2>1. /\ worker[r][n] = "send" /\ worker' = [worker EXCEPT ![r][n] = "done"]
        /\ UNCHANGED <<req, pc, closed, got, served>>
    BY <1>10, SendReplyCases
  <2>2. \A q \in Id, m \in Node : worker[q][m] = "done" => worker'[q][m] = "done"
    BY <2>1, SMT DEF WorkerInv
  <2>3. CASE UNCHANGED chan BY <2>1, <2>2, <2>3, AnswersStay
  <2>4. CASE /\ Answer(r, n) # None /\ (r \in closed \/ Len(chan[r]) < ChanCap)
             /\ chan' = [chan EXCEPT ![r] = Append(chan[r], Answer(r, n))]
    <3> DEFINE e == [from |-> n]
    <3>1. Served(r, n) BY <2>1 DEF ServedInv
    <3>2. Answer(r, n) = e /\ [id |-> r, by |-> n, answer |-> e] \in served
      BY <2>4, <3>1, AnswerIsServed
    <3>3. e \in Reply /\ e.from = n BY SMT DEF Reply
    <3>4. Len(chan[r]) < ChanCap BY <2>1, <2>4, SMT DEF WorkerInv
    <3>5. \A q \in Id, f \in Reply : Sent(q, f) => Sent(q, f)'
      BY <2>1, <2>2, SMT DEF Sent, Broadcast, Reply
    <3>6. Sent(r, e)'
      BY <2>1, <3>2, <3>3, SMT DEF Sent, Broadcast, WorkerInv
    <3>7. \A f \in Reply : Sent(r, f) => f.from # n BY <2>1, SMT DEF Sent
    <3>8. chan[r] \in Seq(Reply) /\ chan' = [chan EXCEPT ![r] = Append(chan[r], e)]
      BY <2>4, <3>2 DEF AnswerInv
    <3> HIDE DEF e
    <3>9. /\ Append(chan[r], e) \in Seq(Reply) /\ Len(chan[r]) \in Nat
          /\ Len(Append(chan[r], e)) = Len(chan[r]) + 1
          /\ \A i \in 1..(Len(chan[r]) + 1) :
               Append(chan[r], e)[i] = IF i <= Len(chan[r]) THEN chan[r][i] ELSE e
      BY <3>3, <3>8, AppendProperties, LenProperties, SMT
    <3>10. \A q \in Id \ {r} : chan'[q] = chan[q] BY <3>8, SMT DEF AnswerInv
    <3>11. chan'[r] = Append(chan[r], e) /\ chan' \in [Id -> Seq(Reply)]
      BY <3>8, <3>9, SMT DEF AnswerInv
    <3>12. \A q \in Id : Returned(q)' <=> Returned(q)
      BY <2>1 DEF Returned, Broadcast
    <3>13. Answered(r) /\ ~Returned(r)
      BY <2>1, SMT DEF AnswerInv, Returned, WorkerInv
    <3>14. \A i \in 1..Len(chan'[r]) : Sent(r, chan[r][i])'
      <4> SUFFICES ASSUME NEW i \in 1..(Len(chan[r]) + 1) PROVE Sent(r, chan[r][i])'
        BY <3>9, <3>11
      <4>1. CASE i <= Len(chan[r])
        <5>1. i \in 1..Len(chan[r]) /\ chan'[r][i] = chan[r][i]
          BY <3>9, <3>11, <4>1, SMT
        <5>2. Sent(r, chan[r][i]) /\ chan[r][i] \in Reply
          BY <3>13, <5>1, AnswerTypes DEF Answered
        <5>3. QED BY <3>5, <5>1, <5>2 DEF Sent
      <4>2. CASE ~(i <= Len(chan[r])) BY <3>6, <3>9, <3>11, <4>2 DEF Sent
      <4>3. QED BY <4>1, <4>2
    <3>15. \A i \in 1..Len(got[r]) : Sent(r, got[r][i])'
      <4> SUFFICES ASSUME NEW i \in 1..Len(got[r]) PROVE Sent(r, got[r][i])'
        OBVIOUS
      <4>1. Sent(r, got[r][i]) /\ got[r][i] \in Reply
        BY <3>13, AnswerTypes DEF Answered
      <4>2. QED BY <2>1, <3>5, <4>1 DEF Sent
    <3>16. /\ \A i \in 1..Len(chan[r]) : chan[r][i].from # n
           /\ \A i \in 1..Len(got[r]) : got[r][i].from # n
      BY <3>7, <3>13, AnswerTypes DEF Answered
    <3>17. /\ \A i \in 1..Len(chan'[r]), j \in 1..Len(chan'[r]) :
                chan'[r][i].from = chan'[r][j].from => i = j
           /\ \A i \in 1..Len(got[r]), j \in 1..Len(chan'[r]) :
                got[r][i].from # chan'[r][j].from
      <4>1. ASSUME NEW i \in 1..Len(chan'[r])
            PROVE  \/ i \in 1..Len(chan[r]) /\ chan'[r][i] = chan[r][i]
                   \/ i = Len(chan[r]) + 1 /\ chan'[r][i] = e
        BY <3>9, <3>11, SMT
      <4>2. ASSUME NEW i \in 1..Len(chan'[r]), NEW j \in 1..Len(chan'[r]),
                   chan'[r][i].from = chan'[r][j].from
            PROVE  i = j
        BY <3>3, <3>13, <3>16, <4>1, <4>2 DEF Answered
      <4>3. ASSUME NEW i \in 1..Len(got[r]), NEW j \in 1..Len(chan'[r])
            PROVE  got[r][i].from # chan'[r][j].from
        BY <3>3, <3>13, <3>16, <4>1 DEF Answered
      <4>4. QED BY <4>2, <4>3
    <3>18. Len(chan'[r]) <= ChanCap BY <3>4, <3>9, <3>11, TransportBounds, SMT
    <3>19. Answered(r)' BY <2>1, <3>14, <3>15, <3>17, <3>18 DEF Answered
    <3>20. \A q \in Id \ {r} : Answered(q)'
      BY <2>1, <3>5, <3>10, <3>12, AnsweredKept
    <3>21. QED BY <2>1, <3>11, <3>19, <3>20 DEF AnswerInv
  <2>5. QED BY <1>10, <2>3, <2>4, SendReplyCases
\* Reading moves the first answer of the channel.
<1>11. ASSUME NEW r \in Id, ReadBroadcast(r) PROVE AnswerInv'
  <2>1. /\ chan[r] # <<>> /\ chan' = [chan EXCEPT ![r] = Tail(chan[r])]
        /\ got' = [got EXCEPT ![r] = Append(got[r], Head(chan[r]))]
        /\ UNCHANGED <<req, pc, worker, served>>
    BY <1>11 DEF ReadBroadcast
  <2>2. chan[r] \in Seq(Reply) /\ got[r] \in Seq(Reply) BY DEF AnswerInv
  <2>3. /\ Head(chan[r]) \in Reply /\ Head(chan[r]) = chan[r][1]
        /\ Tail(chan[r]) \in Seq(Reply) /\ Len(chan[r]) \in Nat /\ Len(chan[r]) > 0
        /\ Len(Tail(chan[r])) = Len(chan[r]) - 1
        /\ \A i \in 1..(Len(chan[r]) - 1) : Tail(chan[r])[i] = chan[r][i + 1]
    BY <2>1, <2>2, HeadTailProperties, LenProperties, EmptySeq, SMT
  <2>4. /\ Append(got[r], Head(chan[r])) \in Seq(Reply) /\ Len(got[r]) \in Nat
        /\ Len(Append(got[r], Head(chan[r]))) = Len(got[r]) + 1
        /\ \A i \in 1..(Len(got[r]) + 1) : Append(got[r], Head(chan[r]))[i] =
             IF i <= Len(got[r]) THEN got[r][i] ELSE Head(chan[r])
    BY <2>2, <2>3, AppendProperties, LenProperties, SMT
  <2>5. \A q \in Id, e \in Reply : Sent(q, e)' <=> Sent(q, e)
    BY <2>1 DEF Sent, Broadcast
  <2>6. \A q \in Id : Returned(q)' <=> Returned(q) BY <2>1 DEF Returned, Broadcast
  <2>7. \A q \in Id \ {r} : chan'[q] = chan[q] /\ got'[q] = got[q]
    BY <2>1, SMT DEF AnswerInv
  <2>8. /\ chan'[r] = Tail(chan[r]) /\ chan' \in [Id -> Seq(Reply)]
        /\ got'[r] = Append(got[r], Head(chan[r])) /\ got' \in [Id -> Seq(Reply)]
    BY <2>1, <2>3, <2>4, SMT DEF AnswerInv
  <2>9. Answered(r) BY DEF AnswerInv
  <2>10. \A i \in 1..Len(chan'[r]) : Sent(r, chan[r][i])'
    <3> SUFFICES ASSUME NEW i \in 1..(Len(chan[r]) - 1) PROVE Sent(r, chan[r][i])'
      BY <2>3, <2>8
    <3>1. i + 1 \in 1..Len(chan[r]) /\ chan'[r][i] = chan[r][i + 1]
      BY <2>3, <2>8, SMT
    <3>2. Sent(r, chan[r][i + 1]) /\ chan[r][i + 1] \in Reply
      BY <2>9, <3>1, AnswerTypes DEF Answered
    <3>3. QED BY <2>5, <3>1, <3>2 DEF Sent
  <2>11. \A i \in 1..Len(got'[r]) : Sent(r, got[r][i])' \/ Returned(r)'
    <3> SUFFICES ASSUME NEW i \in 1..(Len(got[r]) + 1), ~Returned(r)
                 PROVE  Sent(r, got[r][i])'
      BY <2>4, <2>6, <2>8
    <3>1. CASE i <= Len(got[r])
      <4>1. i \in 1..Len(got[r]) /\ got'[r][i] = got[r][i] BY <2>4, <2>8, <3>1, SMT
      <4>2. Sent(r, got[r][i]) /\ got[r][i] \in Reply
        BY <2>9, <4>1, AnswerTypes DEF Answered
      <4>3. QED BY <2>5, <4>1, <4>2 DEF Sent
    <3>2. CASE ~(i <= Len(got[r]))
      <4>1. got'[r][i] = chan[r][1] BY <2>3, <2>4, <2>8, <3>2
      <4>2. Sent(r, chan[r][1]) /\ chan[r][1] \in Reply
        BY <2>3, <2>9, SMT DEF Answered
      <4>3. QED BY <2>5, <4>1, <4>2 DEF Sent
    <3>3. QED BY <3>1, <3>2
  <2>12. \A i \in 1..Len(chan'[r]), j \in 1..Len(chan'[r]) :
           chan'[r][i].from = chan'[r][j].from => i = j
    BY <2>3, <2>8, <2>9, SMT DEF Answered
  <2>13. \A i \in 1..Len(got'[r]), j \in 1..Len(chan'[r]) :
           got'[r][i].from # chan'[r][j].from
    <3> SUFFICES ASSUME NEW i \in 1..(Len(got[r]) + 1), NEW j \in 1..(Len(chan[r]) - 1)
                 PROVE  got'[r][i].from # chan'[r][j].from
      <4>1. Len(got'[r]) = Len(got[r]) + 1 /\ Len(chan'[r]) = Len(chan[r]) - 1
        BY <2>3, <2>4, <2>8
      <4>2. QED BY <4>1
    <3>1. j + 1 \in 1..Len(chan[r]) /\ 1 \in 1..Len(chan[r]) /\ j + 1 # 1
          /\ chan'[r][j] = chan[r][j + 1]
      BY <2>3, <2>8, SMT
    <3>2. CASE i <= Len(got[r])
      <4>1. i \in 1..Len(got[r]) /\ got'[r][i] = got[r][i] BY <2>4, <2>8, <3>2, SMT
      <4>2. QED BY <2>9, <3>1, <4>1 DEF Answered
    <3>3. CASE ~(i <= Len(got[r]))
      <4>1. got'[r][i] = chan[r][1] BY <2>3, <2>4, <2>8, <3>3
      <4>2. QED BY <2>9, <3>1, <4>1 DEF Answered
    <3>4. QED BY <3>2, <3>3
  <2>14. Len(chan'[r]) <= ChanCap
    BY <2>3, <2>8, <2>9, TransportBounds, SMT DEF Answered
  <2>15. Answered(r)' BY <2>10, <2>11, <2>12, <2>13, <2>14 DEF Answered
  <2>16. \A q \in Id \ {r} : Answered(q)' BY <2>5, <2>6, <2>7, AnsweredKept
  <2>17. QED BY <2>8, <2>15, <2>16 DEF AnswerInv
<1>12. QED
  BY <1>1, <1>2, <1>3, <1>4, <1>5, <1>6, <1>7, <1>8, <1>9, <1>10, <1>11
  DEF Next, NodeStep, CallStep, WorkerStep

-----------------------------------------------------------------------------
(* The theorems.                                                           *)

\* The invariant holds in every reachable state.
THEOREM TransportInvariant == Spec => []Inv
<1>1. Inv /\ [Next]_vars => Inv'
  BY HarnessKept, LockKept, BarrierKept, WorkerKept, ServedKept, AnswerKept DEF Inv
<1>2. QED BY InitInv, <1>1, PTL DEF Spec

\* Every mutex of the transport is held by the one call that is under way on its
\* client, for any number of nodes and calls and whatever the harness does.
THEOREM TransportTypes == Spec => []TypeOK
<1>1. Inv => TypeOK
  <2> SUFFICES ASSUME Inv PROVE TypeOK
    OBVIOUS
  <2>1. hpc \in {"NewRaft", "RegisterNode", "writing", "idle", "Disconnect",
                 "Reconnect", "Shutdown", "Stop", "done"}
    BY DEF Inv, HarnessInv, Setup, Closing
  <2>2. /\ hnode \in Node /\ nodes \subseteq Node /\ disconnected \subseteq nodes
        /\ hung \subseteq disconnected /\ leaked \subseteq nodes
    <3>1. HarnessInv BY DEF Inv
    <3>2. nodes \subseteq Node BY <3>1, NAssumption, SMT DEF HarnessInv, Node
    <3>3. QED BY <3>1, <3>2 DEF HarnessInv
  <2>3. /\ mu \in [Node -> Id \cup {None}] /\ readers \subseteq Id
        /\ pc \in [Id -> {"unused", "called", "locked", "checked", "calling",
                          "handled", "returned", "failed"}]
    BY SMT DEF Inv, LockInv, Holding
  <2>4. worker \in [Id -> [Node -> {"none", "look", "run", "send", "done"}]]
    BY DEF Inv, WorkerInv
  <2>5. \A r \in Id :
          /\ (pc[r] = "unused") = (req[r] = None)
          /\ (pc[r] \in {"locked", "checked", "calling", "handled"})
               = (req[r] # None /\ mu[req[r].from] = r)
          /\ (r \in readers) = (pc[r] \in {"checked", "calling", "handled"})
    BY SMT DEF Inv, LockInv, Holding
  <2>6. \A r \in Id : Len(chan[r]) <= ChanCap BY DEF Inv, AnswerInv, Answered
  <2>7. QED BY <2>1, <2>2, <2>3, <2>4, <2>5, <2>6 DEF TypeOK
<1>2. QED BY <1>1, TransportInvariant, PTL

\* Once FakeRPCClient.Disconnect has returned no call of the client is with its
\* target, however the harness, the calls and the handlers interleave.
THEOREM DisconnectIsBarrier == Spec => []DisconnectIsABarrier
<1>1. Inv => DisconnectIsABarrier BY DEF Inv
<1>2. QED BY <1>1, TransportInvariant, PTL

\* Nothing panics but CheckCaller, SendReply and Deliver, and then all is over.
LEMMA PanicSteps ==
  ASSUME Next
  PROVE  /\ panicked = "no"
         /\ \/ UNCHANGED panicked
            \/ \E r \in Id : CheckCaller(r) \/ \E n \in Node : SendReply(r, n)
            \/ \E n \in Node : Deliver(n)
<1>1. CASE HarnessStep \/ Ask
  BY <1>1 DEF HarnessStep, NewRaft, LockTransporter, RegisterNode, Disconnect,
     Reconnect, StopAndClose, Ask, Up
<1>2. ASSUME NEW n \in Node, NodeStep(n)
      PROVE  panicked = "no" /\ (UNCHANGED panicked \/ Deliver(n))
  BY <1>2 DEF NodeStep, Leak, Commit, Deliver, Begin, Up
<1>3. ASSUME NEW r \in Id, CallStep(r) \/ CloseChan(r) \/ ReadBroadcast(r)
      PROVE  panicked = "no" /\ (UNCHANGED panicked \/ CheckCaller(r))
  BY <1>3 DEF CallStep, LockClient, CheckCaller, CheckTarget, CallHandler,
     ReturnCall, LookAt, ReturnBroadcast, CloseChan, ReadBroadcast, Up
<1>4. ASSUME NEW r \in Id, NEW n \in Node, WorkerStep(r, n)
      PROVE  panicked = "no" /\ (UNCHANGED panicked \/ SendReply(r, n))
  BY <1>4 DEF WorkerStep, RunWorker, SendReply, Up
<1>5. QED BY <1>1, <1>2, <1>3, <1>4 DEF Next

\* SendReply finds its channel open: CloseChan waits for all workers.
LEMMA PanicKept ==
  Inv /\ PanicNeedsSetupOrShutdown /\ [Next]_vars => PanicNeedsSetupOrShutdown'
<1> SUFFICES ASSUME Inv, PanicNeedsSetupOrShutdown, [Next]_vars
             PROVE  PanicNeedsSetupOrShutdown'
  OBVIOUS
<1> USE DEF PanicNeedsSetupOrShutdown
<1>1. CASE UNCHANGED vars BY <1>1 DEF vars, harnessVars
<1>2. CASE panicked = "no" /\ UNCHANGED panicked BY <1>2
<1>3. ASSUME NEW r \in Id, CheckCaller(r) PROVE PanicNeedsSetupOrShutdown'
  <2>1. pc[r] = "locked" /\ panicked = "no" /\ UNCHANGED nodes
    BY <1>3 DEF CheckCaller, Up, harnessVars
  <2>2. req[r] \in Question BY <2>1, SMT DEF Inv, LockInv
  <2>3. req[r].from \in Node BY <2>2 DEF Question
  <2>4. \/ req[r].from \notin nodes /\ panicked' = "nil flag"
        \/ UNCHANGED panicked
    BY <1>3 DEF CheckCaller
  <2>5. QED BY <2>1, <2>3, <2>4
<1>4. ASSUME NEW r \in Id, NEW n \in Node, SendReply(r, n)
      PROVE  PanicNeedsSetupOrShutdown'
  <2>1. worker[r][n] = "send" /\ panicked = "no" BY <1>4 DEF SendReply, Up
  <2>2. r \notin closed BY <2>1 DEF Inv, WorkerInv
  <2>3. UNCHANGED panicked BY <1>4, <2>2 DEF SendReply
  <2>4. QED BY <2>1, <2>3
<1>5. ASSUME NEW n \in Node, Deliver(n) PROVE PanicNeedsSetupOrShutdown'
  <2>1. /\ panicked = "no" /\ unsent[n] > 0
        /\ \/ /\ n \in hung /\ panicked' = "send on closed commit channel"
              /\ UNCHANGED <<unsent, hung>>
           \/ UNCHANGED panicked
    BY <1>5 DEF Deliver, Up, harnessVars
  <2>2. QED BY <2>1
<1>6. QED BY <1>1, <1>2, <1>3, <1>4, <1>5, PanicSteps

\* BroadcastTrp, Shutdown: for any number of nodes and calls no goroutine of a
\* broadcast sends on its closed channel; what panics is a broadcast during
\* NewHarness or a commit channel closed under its sender.
THEOREM PanicsHaveACause == Spec => []PanicNeedsSetupOrShutdown
<1>1. Init => PanicNeedsSetupOrShutdown BY DEF Init, PanicNeedsSetupOrShutdown
<1>2. QED BY <1>1, PanicKept, TransportInvariant, PTL DEF Spec

\* A target that was not done before the step handles the request.
LEMMA HandleRefines ==
  ASSUME Inv, NEW r \in Id, NEW n \in Node, Handle(r, n), ~Done(r, n),
         req[r] # None, n # req[r].from, req[r].to \in {n, Everyone}, UNCHANGED <<req, got>>
  PROVE  Calls!Next
<1>1. PICK a \in {None, [from |-> n]} :
        served' = served \cup {[id |-> r, by |-> n, answer |-> a]}
  BY DEF Handle
<1> DEFINE h == [id |-> r, by |-> n, answer |-> a]
<1>2. h \in served' /\ h.id = r /\ h.by = n /\ (h.answer # None => h.answer.from = n)
  BY <1>1, SMT
<1>3. \A s \in served : ~(s.id = r /\ s.by = n)
  BY ServedOnce DEF Inv, Served
<1>4. Calls!Handle(r, n) BY <1>1, <1>2, <1>3 DEF Calls!Handle
<1>5. QED BY <1>4 DEF Calls!Next

\* Every step of the transport is a step of RpcCalls or changes nothing of it.
LEMMA StepRefines ==
  ASSUME Inv, [Next]_vars
  PROVE  [Calls!Next]_(Calls!vars)
<1>1. ASSUME NEW c \in Node, NEW r \in Id, Begin(c, r) PROVE Calls!Next
  <2>1. req[r] = None BY <1>1 DEF Inv, LockInv, Begin
  <2>2. Calls!Ask(r) BY <1>1, <2>1 DEF Begin, Calls!Ask
  <2>3. QED BY <2>2 DEF Calls!Next
<1>2. ASSUME NEW r \in Id, CallHandler(r) PROVE Calls!Next
  <2>1. ~Broadcast(r) /\ req[r] \in Question /\ req[r] # None /\ pc[r] = "calling"
        /\ req[r].to # req[r].from
    BY <1>2, NoneAssumption, SMT DEF Inv, LockInv, WorkerInv, CallHandler
  <2>2. req[r].to \in Node BY <2>1, SMT DEF Question, Broadcast
  <2>3. ~Done(r, req[r].to) BY <2>1 DEF Done
  <2>4. QED BY <1>2, <2>1, <2>2, <2>3, HandleRefines DEF CallHandler
<1>3. ASSUME NEW r \in Id, NEW n \in Node, RunWorker(r, n) PROVE Calls!Next
  <2>1. Broadcast(r) /\ req[r] # None /\ n # req[r].from /\ worker[r][n] = "run"
    BY <1>3, SMT DEF Inv, WorkerInv, RunWorker
  <2>2. ~Done(r, n) BY <2>1 DEF Done
  <2>3. QED BY <1>3, <2>1, <2>2, HandleRefines DEF RunWorker, Broadcast
<1>4. ASSUME NEW r \in Id, ReturnCall(r) PROVE Calls!Next \/ UNCHANGED Calls!vars
  <2>1. ~Broadcast(r) /\ req[r] \in Question /\ req[r] # None /\ pc[r] = "handled"
    BY <1>4, NoneAssumption, SMT DEF Inv, LockInv, WorkerInv, ReturnCall
  <2>2. req[r].to \in Node BY <2>1, SMT DEF Question, Broadcast
  <2>3. Served(r, req[r].to) BY <2>1 DEF Inv, ServedInv
  <2> DEFINE a == Answer(r, req[r].to)
             h == [id |-> r, by |-> req[r].to, answer |-> a]
  <2>4. h \in served BY <2>2, <2>3, AnswerIsServed DEF Inv
  <2>5. CASE a = None BY <1>4, <2>5 DEF ReturnCall, Calls!vars
  <2>6. CASE a # None
    <3>1. got[r] = <<>>
      <4>1. \A i \in 1..Len(got[r]) : FALSE
        BY <2>1 DEF Inv, AnswerInv, Answered, Returned, Sent
      <4>2. got[r] \in Seq(Reply) BY DEF Inv, AnswerInv
      <4>3. QED BY <4>1, <4>2, LenProperties, EmptySeq, SMT
    <3>2. got' = [got EXCEPT ![r] = Append(got[r], h.answer)]
      <4>1. got' = [got EXCEPT ![r] = <<a>>] BY <1>4, <2>6 DEF ReturnCall
      <4>2. Append(<<>>, a) = <<a>> BY SMT
      <4>3. QED BY <3>1, <4>1, <4>2
    <3>3. \A i \in DOMAIN got[r] : got[r][i].from # h.by BY <3>1, SMT
    <3>4. Calls!Read(r)
      BY <1>4, <2>1, <2>4, <2>6, <3>1, <3>2, <3>3 DEF ReturnCall, Calls!Read
    <3>5. QED BY <3>4 DEF Calls!Next
  <2>7. QED BY <2>5, <2>6
<1>5. ASSUME NEW r \in Id, ReadBroadcast(r) PROVE Calls!Next
  <2>1. /\ chan[r] # <<>> /\ got' = [got EXCEPT ![r] = Append(got[r], Head(chan[r]))]
        /\ UNCHANGED <<req, served>>
    BY <1>5 DEF ReadBroadcast
  <2>2. /\ chan[r] \in Seq(Reply) /\ got[r] \in Seq(Reply) /\ Answered(r)
    BY DEF Inv, AnswerInv
  <2>3. 1 \in 1..Len(chan[r]) /\ Head(chan[r]) = chan[r][1] /\ chan[r][1] \in Reply
        /\ DOMAIN got[r] = 1..Len(got[r])
    BY <2>1, <2>2, HeadTailProperties, LenProperties, EmptySeq, SMT
  <2> DEFINE e == chan[r][1]
             h == [id |-> r, by |-> e.from, answer |-> e]
  <2>4. Sent(r, e) BY <2>2, <2>3 DEF Answered
  <2>5. h \in served /\ req[r] # None /\ Broadcast(r) BY <2>4 DEF Sent
  <2>6. e # None BY <2>3, NoneAssumption
  <2>7. \A i \in DOMAIN got[r] : got[r][i].from # h.by
    BY <2>2, <2>3 DEF Answered
  <2>8. Calls!Read(r)
    BY <2>1, <2>3, <2>5, <2>6, <2>7 DEF Calls!Read, Broadcast
  <2>9. QED BY <2>8 DEF Calls!Next
<1>6. ASSUME NEW r \in Id, NEW n \in Node,
             LockClient(r) \/ CheckCaller(r) \/ CheckTarget(r) \/ LookAt(r, n)
               \/ ReturnBroadcast(r) \/ SendReply(r, n) \/ CloseChan(r)
      PROVE  UNCHANGED Calls!vars
  BY <1>6 DEF LockClient, CheckCaller, CheckTarget, LookAt, ReturnBroadcast, SendReply,
     CloseChan, Calls!vars
<1>7. CASE HarnessStep \/ Ask \/ \E n \in Node : Leak(n) \/ Commit(n) \/ Deliver(n)
  BY <1>7, HarnessLeavesCalls DEF callVars, Calls!vars
<1>8. CASE UNCHANGED vars BY <1>8 DEF vars, callVars, Calls!vars
<1>9. Node # {} BY NAssumption, SMT DEF Node
<1>10. QED
  BY <1>1, <1>2, <1>3, <1>4, <1>5, <1>6, <1>7, <1>8, <1>9
  DEF Next, NodeStep, CallStep, WorkerStep

\* CallTrp and BroadcastTrp keep the promise of RpcCalls for any number of nodes,
\* calls, disconnections and leaked mutexes.
THEOREM TransportImplementsCalls == Spec => ImplementsRpcCalls
<1>1. Init => Calls!Init BY DEF Init, Calls!Init
<1>2. Inv /\ [Next]_vars => [Calls!Next]_(Calls!vars) BY StepRefines
<1>3. QED
  BY <1>1, <1>2, TransportInvariant, PTL DEF Spec, ImplementsRpcCalls, Calls!Spec
=============================================================================
