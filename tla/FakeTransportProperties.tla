---------------------- MODULE FakeTransportProperties ----------------------
(***************************************************************************)
(* What the in-memory transport guarantees to the nodes and to the tests.  *)
(***************************************************************************)
EXTENDS FakeTransport

\* The shapes of the state of the clients, the transporter and the harness.
TypeOK ==
  /\ hpc \in {"NewRaft", "RegisterNode", "writing", "idle", "Disconnect",
              "Reconnect", "Shutdown", "Stop", "done"}
  /\ hnode \in Node
  /\ nodes \subseteq Node /\ disconnected \subseteq nodes /\ hung \subseteq disconnected
  /\ mu \in [Node -> Id \cup {None}] /\ readers \subseteq Id
  /\ pc \in [Id -> {"unused", "called", "locked", "checked", "calling", "handled",
                    "returned", "failed"}]
  /\ \A r \in Id :
       /\ (pc[r] = "unused") = (req[r] = None)
       /\ (pc[r] \in {"locked", "checked", "calling", "handled"})
            = (req[r] # None /\ mu[req[r].from] = r)
       /\ (r \in readers) = (pc[r] \in {"checked", "calling", "handled"})
       /\ Len(chan[r]) <= ChanCap
  /\ worker \in [Id -> [Node -> {"none", "look", "run", "send", "done"}]]
  /\ leaked \subseteq nodes

Calls ==
  INSTANCE RpcCalls WITH
    Client <- Node, asked <- req, handled <- served, read <- got

\* CallTrp and BroadcastTrp stand in for the MQTT client and keep the promise of
\* the same specification: a request is handled at most once by each of its
\* targets and never by its sender, and what is read is what they answered.
ImplementsRpcCalls == Calls!Spec

\* BroadcastTrp closes its channel when all its goroutines are done: none of
\* them sends on it afterwards.  What can panic is a node that broadcasts before
\* RegisterNode has given it a flag, and a commitChanSender that has entries left
\* when Shutdown closes its channel.
PanicNeedsSetupOrShutdown ==
  \/ panicked = "no"
  \/ panicked = "nil flag" /\ nodes # Node
  \/ panicked = "send on closed commit channel" /\ \E n \in hung : unsent[n] > 0

\* FakeRPCClient.Disconnect waits for the client's own mutex: once it has
\* returned, no call of that client is with its target, so that no handler runs
\* for it and no answer comes back, until Reconnect.
DisconnectIsABarrier ==
  \A r \in Id :
    pc[r] \in {"checked", "calling", "handled"} => req[r].from \notin disconnected

\* A call that waits, itself or behind another one of its client, for a node that
\* leaked its mutex.
Waits(q) == q # None /\ \E r \in Id : mu[q.from] = r /\ req[r].to \in leaked

\* CallRPC and BroadcastRPC return, and the mutexes they hold are released,
\* unless a call of the same client waits for a node that leaked its mutex.
EveryCallReturns ==
  \A r \in Id :
    pc[r] = "called" ~> pc[r] \in {"returned", "failed"} \/ ~Up \/ Waits(req[r])

\* NewHarness, DisconnectNode, ReconnectNode and Shutdown return, although
\* RegisterNode waits for all calls and Disconnect for those of one client,
\* unless the mutex of a node was leaked.
HarnessGoesOn == hpc \notin {"idle", "done"} ~> hpc \in {"idle", "done"} \/ ~Up \/ leaked # {}

\* The channel of every broadcast is closed in the end, also when startElection
\* has stopped reading it, because it holds an answer of every other node.
EveryBroadcastCloses ==
  \A r \in Id :
    pc[r] = "returned" /\ Broadcast(r) ~>
      r \in closed \/ ~Up \/ \E n \in leaked : worker[r][n] = "run"
=============================================================================
