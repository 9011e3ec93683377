------------------------ MODULE PicoDeviceProperties ------------------------
(***************************************************************************)
(* What nicLoop and the start of a Pico W node guarantee.                  *)
(***************************************************************************)
EXTENDS PicoDevice

\* Where packet p is.
Places(p) ==
  ({"queue"} \X {i \in Slot : queue[i] = p}) \cup ({"sent"} \X {k \in DOMAIN sent : sent[k] = p})
    \cup ({"dropped"} \X (dropped \cap {p}))

\* nicLoop keeps every packet the stack handed out in exactly one place: in one
\* slot, among those the chip accepted, once, or among those it gave up.
PacketsAreConserved == \A p \in 1..handed : Cardinality(Places(p)) = 1

\* How many later packets were sent before p.
Overtakers(p) ==
  {k \in DOMAIN sent : sent[k] > p /\ \A j \in DOMAIN sent : sent[j] = p => k < j}

\* A packet that nicLoop retries keeps its slot while others pass it: each of the
\* other slots does so at most once for each of its retries.
OvertakingIsBounded ==
  \A p \in (1..handed) \ dropped :
    Cardinality(Overtakers(p)) <= (queueSize - 1) * maxRetriesBeforeDropping

\* SetupWifi tells main that the node is connected only when the connection it
\* dialled last was established.
ReadyNeedsConnection == wifi \in {"signal", "hold"} => dials \in established

\* Every packet leaves its slot: it is sent or dropped.
PacketsLeave ==
  \A i \in Slot : \A p \in 1..MaxPackets : queue[i] = p ~> queue[i] # p \/ ~Up

\* The waiting loops of SetupWithDHCP, ResolveHardwareAddr and SetupWifi end, and
\* main, SetupWifi and SetupLED meet: a node that has joined runs or stops, as
\* long as SetupWifi does not dial in vain.
StartupEnds == main = "wait" ~> main \in {"run", "over"} \/ panicked \/ dials = MaxDials
=============================================================================
