--------------------------- MODULE FakeTransport ---------------------------
(***************************************************************************)
(* The in-memory transport of internal/raft/testmock_rpc.go and the        *)
(* goroutine of the test harness in testmock_harness.go that creates,      *)
(* disconnects and shuts down its nodes.  It stands in for the MQTT client *)
(* behind the same interface, RPCClient of raft_interface.go.              *)
(*                                                                         *)
(* A client holds its own mutex for the whole of an operation, and the     *)
(* transporter its RWMutex for reading, also while the handler of the      *)
(* target of a call runs.  RegisterNode is the only writer, and a writer   *)
(* that waits keeps new readers out.  What a handler does is left to       *)
(* module Raft: here it answers or fails, and it never returns on a node   *)
(* whose mutex has been leaked.                                            *)
(***************************************************************************)
EXTENDS Naturals, Sequences, FiniteSets

CONSTANTS
  N,          \* number of nodes, in the order of nodeIds
  Id,         \* identities of the calls
  Everyone,   \* the target of a broadcast
  None,       \* no call, no answer
  ChanCap,    \* capacity of the channel of a broadcast (10 in the code)
  MaxCommits, \* bound: entries a node sends to its commit channel
  MaxLeaks    \* bound: nodes whose mutex is leaked

ASSUME NAssumption == N \in Nat \ {0}
ASSUME TransportBounds == ChanCap \in Nat /\ MaxCommits \in Nat /\ MaxLeaks \in Nat

Node == 1..N
Question == [from : Node, to : Node \cup {Everyone}]
Reply == [from : Node]

ASSUME TargetAssumption == Everyone \notin Node
ASSUME NoneAssumption == None \notin Id \cup Question \cup Reply

VARIABLES
  hpc, hnode,   \* what the goroutine of the harness does next, for which node
  nodes,        \* nodes registered with the transporter
  disconnected, \* nodes whose flag is set
  mu,           \* mu[c]: the call that holds the mutex of client c, or None
  readers,      \* calls that hold the transporter's mutex
  req,          \* req[r]: who calls whom
  pc,           \* where call r is
  worker,       \* worker[r][n]: what broadcast r does about node n
  chan, closed, \* the channel of a broadcast
  leaked,       \* nodes whose mutex is never released
  unsent,       \* entries the commitChanSender of a node still has to send
  commits,      \* entries collectCommits has appended, by node
  hung,         \* nodes whose commit channel is closed
  panicked,
  got, served   \* history: responses read, handler runs

callVars == <<mu, readers, req, pc, worker, chan, closed, got, served>>
harnessVars == <<hpc, hnode, nodes, disconnected, hung>>
vars == <<callVars, harnessVars, leaked, unsent, commits, panicked>>

Up == panicked = "no"
Broadcast(r) == req[r].to = Everyone
Set(r, phase) == pc' = [pc EXCEPT ![r] = phase]

Init ==
  /\ hpc = "NewRaft" /\ hnode = 1
  /\ nodes = {} /\ disconnected = {}
  /\ mu = [c \in Node |-> None] /\ readers = {}
  /\ req = [r \in Id |-> None] /\ pc = [r \in Id |-> "unused"]
  /\ worker = [r \in Id |-> [n \in Node |-> "none"]]
  /\ chan = [r \in Id |-> <<>>] /\ closed = {}
  /\ leaked = {} /\ hung = {}
  /\ unsent = [n \in Node |-> 0] /\ commits = [n \in Node |-> 0]
  /\ panicked = "no"
  /\ got = [r \in Id |-> <<>>] /\ served = {}

-----------------------------------------------------------------------------
(* FakeRPCClient and FakeRPCTransporter.                                   *)

\* RegisterNode waits for the readers, and new readers wait for it.
Registering == hpc = "writing"
RLock(r) == ~Registering /\ readers' = readers \cup {r}

Made ==
  {n \in Node : CASE hpc = "NewRaft" -> n < hnode
                  [] hpc \in {"RegisterNode", "writing"} -> n <= hnode
                  [] OTHER -> TRUE}

\* A node that NewRaft has started calls its client.
Begin(c, r) ==
  /\ Up /\ pc[r] = "unused" /\ c \in Made
  /\ \E to \in (Node \ {c}) \cup {Everyone} :
       req' = [req EXCEPT ![r] = [from |-> c, to |-> to]]
  /\ Set(r, "called")
  /\ UNCHANGED <<mu, readers, worker, chan, closed, got, served, harnessVars,
                 leaked, unsent, commits, panicked>>

\* c.mu.Lock.
LockClient(r) ==
  LET c == req[r].from IN
  /\ Up /\ pc[r] = "called" /\ mu[c] = None
  /\ mu' = [mu EXCEPT ![c] = r] /\ Set(r, "locked")
  /\ UNCHANGED <<readers, req, worker, chan, closed, got, served, harnessVars,
                 leaked, unsent, commits, panicked>>

\* Mutant of Return: an operation that fails keeps the client locked.
ReturnLocked(r, phase) ==
  /\ mu' = IF phase = "failed" THEN mu ELSE [mu EXCEPT ![req[r].from] = None]
  /\ readers' = readers \ {r} /\ Set(r, phase)

\* The deferred unlocks.
Return(r, phase) ==
  /\ mu' = [mu EXCEPT ![req[r].from] = None]
  /\ readers' = readers \ {r} /\ Set(r, phase)

\* f.mu.RLock and the flag of the caller; a caller that is not registered yet
\* has no flag to load.  A broadcast then looks at every node in turn.
CheckCaller(r) ==
  LET c == req[r].from IN
  /\ Up /\ pc[r] = "locked" /\ ~Registering
  /\ IF c \notin nodes
     THEN panicked' = "nil flag" /\ UNCHANGED <<mu, readers, pc, worker>>
     ELSE /\ UNCHANGED panicked
          /\ IF c \in disconnected THEN Return(r, "failed") /\ UNCHANGED worker
             ELSE /\ RLock(r) /\ Set(r, "checked") /\ UNCHANGED mu
                  /\ worker' = IF ~Broadcast(r) THEN worker
                               ELSE [worker EXCEPT ![r] = [n \in Node |->
                                       IF n \in nodes THEN "look" ELSE "none"]]
  /\ UNCHANGED <<req, chan, closed, got, served, harnessVars, leaked, unsent, commits>>

\* The flag of the target of CallRPC.
CheckTarget(r) ==
  LET n == req[r].to IN
  /\ Up /\ pc[r] = "checked" /\ ~Broadcast(r)
  /\ IF n \notin nodes \/ n \in disconnected THEN Return(r, "failed")
     ELSE Set(r, "calling") /\ UNCHANGED <<mu, readers>>
  /\ UNCHANGED <<req, worker, chan, closed, got, served, harnessVars, leaked,
                 unsent, commits, panicked>>

\* The handler of node n answers with a reply, or with nil and an error.
Handle(r, n) ==
  /\ n \notin leaked
  /\ \E a \in {None, [from |-> n]} :
       served' = served \cup {[id |-> r, by |-> n, answer |-> a]}

Answer(r, n) == (CHOOSE s \in served : s.id = r /\ s.by = n).answer

CallHandler(r) ==
  /\ Up /\ pc[r] = "calling" /\ Handle(r, req[r].to) /\ Set(r, "handled")
  /\ UNCHANGED <<mu, readers, req, worker, chan, closed, got, harnessVars,
                 leaked, unsent, commits, panicked>>

ReturnCall(r) ==
  /\ Up /\ pc[r] = "handled" /\ Return(r, "returned")
  /\ got' = LET a == Answer(r, req[r].to) IN
            IF a = None THEN got ELSE [got EXCEPT ![r] = <<a>>]
  /\ UNCHANGED <<req, worker, chan, closed, served, harnessVars, leaked,
                 unsent, commits, panicked>>

\* Mutant of LookAt: the sender is not left out.
LookAtAll(r, n) ==
  /\ Up /\ worker[r][n] = "look"
  /\ worker' = [worker EXCEPT ![r][n] = IF n \in disconnected THEN "none" ELSE "run"]
  /\ UNCHANGED <<mu, readers, req, pc, chan, closed, got, served, harnessVars,
                 leaked, unsent, commits, panicked>>

\* BroadcastTrp starts a goroutine for each other node that is connected when
\* its turn comes.
LookAt(r, n) ==
  /\ Up /\ worker[r][n] = "look"
  /\ worker' = [worker EXCEPT ![r][n] =
                  IF n = req[r].from \/ n \in disconnected THEN "none" ELSE "run"]
  /\ UNCHANGED <<mu, readers, req, pc, chan, closed, got, served, harnessVars,
                 leaked, unsent, commits, panicked>>

ReturnBroadcast(r) ==
  /\ Up /\ pc[r] = "checked" /\ Broadcast(r) /\ \A n \in Node : worker[r][n] # "look"
  /\ Return(r, "returned")
  /\ UNCHANGED <<req, worker, chan, closed, got, served, harnessVars, leaked,
                 unsent, commits, panicked>>

RunWorker(r, n) ==
  /\ Up /\ worker[r][n] = "run" /\ Handle(r, n)
  /\ worker' = [worker EXCEPT ![r][n] = "send"]
  /\ UNCHANGED <<mu, readers, req, pc, chan, closed, got, harnessVars, leaked,
                 unsent, commits, panicked>>

\* Mutant of SendReply: the channel has no buffer and nobody receives.
SendReplyUnbuffered(r, n) ==
  /\ Up /\ worker[r][n] = "send" /\ Answer(r, n) = None
  /\ worker' = [worker EXCEPT ![r][n] = "done"]
  /\ UNCHANGED <<mu, readers, req, pc, chan, closed, got, served, harnessVars,
                 leaked, unsent, commits, panicked>>

SendReply(r, n) ==
  LET a == Answer(r, n) IN
  /\ Up /\ worker[r][n] = "send"
  /\ a = None \/ r \in closed \/ Len(chan[r]) < ChanCap
  /\ chan' = IF a = None THEN chan ELSE [chan EXCEPT ![r] = Append(@, a)]
  /\ panicked' = IF a # None /\ r \in closed
                 THEN "send on closed response channel" ELSE panicked
  /\ worker' = [worker EXCEPT ![r][n] = "done"]
  /\ UNCHANGED <<mu, readers, req, pc, closed, got, served, harnessVars, leaked,
                 unsent, commits>>

\* Mutant of CloseChan: the channel is closed without waiting.
CloseChanEarly(r) ==
  /\ Up /\ pc[r] = "returned" /\ Broadcast(r) /\ r \notin closed
  /\ closed' = closed \cup {r}
  /\ UNCHANGED <<mu, readers, req, pc, worker, chan, got, served, harnessVars,
                 leaked, unsent, commits, panicked>>

\* wg.Wait and close(ch).
CloseChan(r) ==
  /\ Up /\ pc[r] = "returned" /\ Broadcast(r) /\ r \notin closed
  /\ \A n \in Node : worker[r][n] \in {"none", "done"}
  /\ closed' = closed \cup {r}
  /\ UNCHANGED <<mu, readers, req, pc, worker, chan, got, served, harnessVars,
                 leaked, unsent, commits, panicked>>

\* startElection reads from the channel, and may stop reading at any time.
ReadBroadcast(r) ==
  /\ Up /\ pc[r] = "returned" /\ chan[r] # <<>>
  /\ got' = [got EXCEPT ![r] = Append(@, Head(chan[r]))]
  /\ chan' = [chan EXCEPT ![r] = Tail(@)]
  /\ UNCHANGED <<mu, readers, req, pc, worker, closed, served, harnessVars,
                 leaked, unsent, commits, panicked>>

-----------------------------------------------------------------------------
(* The goroutine of the harness.                                           *)

Harness(step, n) == hpc' = step /\ hnode' = n

\* NewHarness creates and registers the nodes one after the other.
NewRaft ==
  /\ Up /\ hpc = "NewRaft" /\ Harness("RegisterNode", hnode)
  /\ UNCHANGED <<callVars, nodes, disconnected, hung, leaked, unsent, commits, panicked>>

LockTransporter ==
  /\ Up /\ hpc = "RegisterNode" /\ Harness("writing", hnode)
  /\ UNCHANGED <<callVars, nodes, disconnected, hung, leaked, unsent, commits, panicked>>

RegisterNode ==
  /\ Up /\ Registering /\ readers = {}
  /\ nodes' = nodes \cup {hnode} /\ disconnected' = disconnected \ {hnode}
  /\ IF hnode < N THEN Harness("NewRaft", hnode + 1) ELSE Harness("idle", N)
  /\ UNCHANGED <<callVars, hung, leaked, unsent, commits, panicked>>

\* The test asks for DisconnectNode or ReconnectNode of a node, or for Shutdown.
Ask ==
  /\ Up /\ hpc = "idle"
  /\ \/ \E n \in Node : Harness("Disconnect", n) \/ Harness("Reconnect", n)
     \/ Harness("Shutdown", 1)
  /\ UNCHANGED <<callVars, nodes, disconnected, hung, leaked, unsent, commits, panicked>>

\* Mutant of Disconnect: the mutex of the client is not taken.
DisconnectUnlocked ==
  /\ Up /\ hpc \in {"Disconnect", "Shutdown"}
  /\ disconnected' = disconnected \cup {hnode}
  /\ Harness(IF hpc = "Disconnect" THEN "idle" ELSE "Stop", hnode)
  /\ UNCHANGED <<callVars, nodes, hung, leaked, unsent, commits, panicked>>

\* FakeRPCClient.Disconnect and Reconnect wait for the client's own calls.
Disconnect ==
  /\ Up /\ hpc \in {"Disconnect", "Shutdown"} /\ mu[hnode] = None
  /\ disconnected' = disconnected \cup {hnode}
  /\ Harness(IF hpc = "Disconnect" THEN "idle" ELSE "Stop", hnode)
  /\ UNCHANGED <<callVars, nodes, hung, leaked, unsent, commits, panicked>>

Reconnect ==
  /\ Up /\ hpc = "Reconnect" /\ mu[hnode] = None
  /\ disconnected' = disconnected \ {hnode} /\ Harness("idle", hnode)
  /\ UNCHANGED <<callVars, nodes, hung, leaked, unsent, commits, panicked>>

\* Stop waits for the mutex of the node; then its commit channel is closed, and
\* the next node is shut down.
StopAndClose ==
  /\ Up /\ hpc = "Stop" /\ hnode \notin leaked
  /\ hung' = hung \cup {hnode}
  /\ IF hnode < N THEN Harness("Shutdown", hnode + 1) ELSE Harness("done", N)
  /\ UNCHANGED <<callVars, nodes, disconnected, leaked, unsent, commits, panicked>>

-----------------------------------------------------------------------------
(* The nodes, as far as the harness depends on them.                       *)

\* startElection returns with the mutex of a node that was stopped: after this
\* no handler of the node returns.
Leak(n) ==
  /\ Up /\ n \in nodes \ leaked /\ Cardinality(leaked) < MaxLeaks
  /\ hpc \notin {"NewRaft", "RegisterNode", "writing"}
  /\ leaked' = leaked \cup {n}
  /\ UNCHANGED <<callVars, harnessVars, unsent, commits, panicked>>

Commit(n) ==
  /\ Up /\ n \in nodes \ hung /\ unsent[n] + commits[n] < MaxCommits
  /\ unsent' = [unsent EXCEPT ![n] = @ + 1]
  /\ UNCHANGED <<callVars, harnessVars, leaked, commits, panicked>>

\* commitChanSender hands an entry to collectCommits, which runs once NewHarness
\* is done; on a closed channel the send panics.
Deliver(n) ==
  /\ Up /\ unsent[n] > 0 /\ nodes = Node
  /\ IF n \in hung
     THEN panicked' = "send on closed commit channel" /\ UNCHANGED <<unsent, commits>>
     ELSE /\ unsent' = [unsent EXCEPT ![n] = @ - 1]
          /\ commits' = [commits EXCEPT ![n] = @ + 1]
          /\ UNCHANGED panicked
  /\ UNCHANGED <<callVars, harnessVars, leaked>>

-----------------------------------------------------------------------------
CallStep(r) ==
  LockClient(r) \/ CheckCaller(r) \/ CheckTarget(r) \/ CallHandler(r) \/ ReturnCall(r)
    \/ (\E n \in Node : LookAt(r, n)) \/ ReturnBroadcast(r)

WorkerStep(r, n) == RunWorker(r, n) \/ SendReply(r, n)

HarnessStep ==
  NewRaft \/ LockTransporter \/ RegisterNode \/ Disconnect \/ Reconnect \/ StopAndClose

NodeStep(n) == Leak(n) \/ Commit(n) \/ Deliver(n) \/ \E r \in Id : Begin(n, r)

Next ==
  \/ HarnessStep \/ Ask
  \/ \E n \in Node : NodeStep(n)
  \/ \E r \in Id : CallStep(r) \/ CloseChan(r) \/ ReadBroadcast(r)
                     \/ \E n \in Node : WorkerStep(r, n)

\* Goroutines keep running; calls, leaks and what the test asks for are not
\* forced, and neither is the reader of a broadcast.
Fairness ==
  /\ WF_vars(HarnessStep)
  /\ \A r \in Id :
       /\ WF_vars(CallStep(r)) /\ WF_vars(CloseChan(r))
       /\ \A n \in Node : WF_vars(WorkerStep(r, n))

Spec == Init /\ [][Next]_vars /\ Fairness
=============================================================================
