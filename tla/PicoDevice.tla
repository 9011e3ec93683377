----------------------------- MODULE PicoDevice -----------------------------
(***************************************************************************)
(* The start of a Pico W node: main of cmd/main_pico.go, SetupWithDHCP and *)
(* SetupWifi with the address resolution they need, the goroutine of the   *)
(* LED, and nicLoop, which carries the packets they wait for.  The chip,   *)
(* the stack and the network are external: a protocol that waits for an    *)
(* answer may have a packet to send at any time, and what was sent may be  *)
(* answered or lost.                                                       *)
(*                                                                         *)
(* main requests no static address.  Time is a count of the sleeps that    *)
(* the waiting loops make.                                                 *)
(***************************************************************************)
EXTENDS NicLoop

CONSTANTS
  DhcpWaits,     \* sleeps before DHCP is given up (15 in the code)
  ArpRetries,    \* maxretries of ResolveHardwareAddr (20)
  DialRetries,   \* retries of SetupWifi (50)
  MaxDials       \* bound: how often SetupWifi dials

ASSUME WaitAssumption ==
  DhcpWaits \in Nat /\ ArpRetries \in Nat \ {0} /\ DialRetries \in Nat \ {0} /\ MaxDials \in Nat

Protocol == {"dhcp", "arp", "tcp"}

VARIABLES
  main,     \* where main is
  waits,    \* i of SetupWithDHCP
  wifi,     \* where the goroutine of SetupWifi is
  left,     \* its retries
  dials,    \* how often it has dialled
  led,      \* "off", "ready" to receive, or "blinking"
  stack,    \* a stack was created
  state,    \* state[p]: "idle", "asked", or "done" when p has its answer
  air,      \* protocols whose answer is under way
  addr,     \* the stack has an address
  panicked,
  established   \* history: the dials that led to a connection

bootVars == <<main, waits, wifi, left, dials, led, stack, addr, panicked>>
netVars == <<state, air, established>>
vars == <<nicVars, bootVars, netVars>>

Init ==
  /\ NicInit
  /\ main = "init" /\ waits = 0
  /\ wifi = "none" /\ left = 0 /\ dials = 0 /\ led = "off"
  /\ stack = FALSE /\ addr = FALSE /\ panicked = FALSE
  /\ state = [p \in Protocol |-> "idle"] /\ air = {} /\ established = {}

Up == ~panicked /\ main # "over"

AskFor(p) ==
  state' = [state EXCEPT ![p] = "asked"] /\ air' = air \ {p} /\ UNCHANGED established

-----------------------------------------------------------------------------
(* nicLoop with the stack.                                                 *)

\* RecvEth gives the stack the answer that was polled.
Poll ==
  /\ Up /\ PollOne
  /\ \/ UNCHANGED netVars
     \/ \E p \in air :
          /\ air' = air \ {p}
          /\ state' = [state EXCEPT ![p] = "done"]
          /\ established' = IF p = "tcp" THEN established \cup {dials} ELSE established
  /\ UNCHANGED bootVars

\* HandleEth has a packet only for a protocol that waits for its answer.
FillSlot ==
  /\ Up
  /\ \/ SkipRetransmission \/ NoPacket
     \/ QueuePacket /\ \E p \in Protocol : state[p] = "asked"
  /\ UNCHANGED <<bootVars, netVars>>

\* A packet that is sent may be answered.
Send ==
  /\ Up
  /\ \/ SendEth /\ \E p \in {q \in Protocol : state[q] = "asked"} \cup {""} :
                     air' = IF p = "" THEN air ELSE air \cup {p}
     \/ (SkipEmpty \/ SendFails) /\ UNCHANGED air
  /\ UNCHANGED <<bootVars, state, established>>

NicStep == Poll \/ FillSlot \/ Send

\* The peer or the library ends a connection.
ConnectionEnds ==
  /\ Up /\ state["tcp"] = "done" /\ wifi \in {"synWait", "signal", "hold"}
  /\ state' = [state EXCEPT !["tcp"] = "idle"]
  /\ UNCHANGED <<nicVars, bootVars, air, established>>

-----------------------------------------------------------------------------
(* SetupWithDHCP and main.                                                 *)

MainGoes(to) == main' = to /\ UNCHANGED <<wifi, left, dials, led, panicked>>

\* dev.Init; its failure is printed, and main goes on without a stack.
InitDevice ==
  /\ Up /\ main = "init"
  /\ MainGoes("join") \/ MainGoes("spawn")
  /\ UNCHANGED <<nicVars, netVars, waits, stack, addr>>

\* JoinWPA2 is retried for ever; then nicLoop runs and BeginRequest asks for an
\* address or fails.
Join ==
  /\ Up /\ main = "join" /\ stack' = TRUE /\ StartNic
  /\ \/ MainGoes("wait") /\ AskFor("dhcp")
     \/ MainGoes("spawn") /\ UNCHANGED netVars
  /\ UNCHANGED <<waits, addr>>

\* Mutant of AwaitDHCP: there is no limit.
AwaitDHCPForever ==
  /\ Up /\ main = "wait" /\ state["dhcp"] = "done"
  /\ addr' = TRUE /\ MainGoes("spawn")
  /\ UNCHANGED <<nicVars, netVars, waits, stack>>

\* A sleep of the loop, or what follows it.  The last sleep is not followed by
\* another look at the state.
AwaitDHCP ==
  /\ Up /\ main = "wait"
  /\ IF state["dhcp"] = "done" THEN addr' = TRUE /\ MainGoes("spawn") /\ UNCHANGED waits
     ELSE /\ waits' = waits + 1 /\ UNCHANGED addr
          /\ MainGoes(IF waits' > DhcpWaits THEN "spawn" ELSE "wait")
  /\ UNCHANGED <<nicVars, netVars, stack>>

Spawn ==
  /\ Up /\ main = "spawn"
  /\ main' = "ready" /\ wifi' = "resolve"
  /\ UNCHANGED <<nicVars, netVars, waits, left, dials, led, stack, addr, panicked>>

\* <-wifiReadyCh and readyCh <- meet.
Ready ==
  /\ Up /\ main = "ready" /\ wifi = "signal"
  /\ main' = "led" /\ wifi' = "hold"
  /\ UNCHANGED <<nicVars, netVars, waits, left, dials, led, stack, addr, panicked>>

\* SetupLED sleeps for a second, or through the blinking, before it receives.
LedReady ==
  /\ Up /\ main \in {"ready", "led", "run"} /\ led # "ready" /\ led' = "ready"
  /\ UNCHANGED <<nicVars, netVars, main, waits, wifi, left, dials, stack, addr, panicked>>

Blink ==
  /\ Up /\ main = "led" /\ led = "ready" /\ led' = "blinking" /\ main' = "app"
  /\ UNCHANGED <<nicVars, netVars, waits, wifi, left, dials, stack, addr, panicked>>

\* app.Run blocks for ever, or returns after an error.
Run ==
  /\ Up /\ main = "app" /\ (MainGoes("run") \/ MainGoes("leave"))
  /\ UNCHANGED <<nicVars, netVars, waits, stack, addr>>

\* The deferred function: SetupWifi takes the signal; then the channels are
\* closed and the program ends.
Leave ==
  /\ Up /\ main = "leave" /\ wifi = "hold"
  /\ main' = "over" /\ wifi' = "closing"
  /\ UNCHANGED <<nicVars, netVars, waits, left, dials, led, stack, addr, panicked>>

-----------------------------------------------------------------------------
(* SetupWifi.                                                              *)

WifiGoes(to, n) == wifi' = to /\ left' = n /\ UNCHANGED <<main, waits, led, stack, addr>>
Panic == panicked' = TRUE /\ UNCHANGED <<main, waits, wifi, left, dials, led, stack, addr>>

\* The address of the broker is parsed and resolved; every failure panics, as
\* does a stack that was never created.
Resolve ==
  /\ Up /\ wifi = "resolve"
  /\ \/ stack /\ AskFor("arp") /\ WifiGoes("arpWait", ArpRetries) /\ UNCHANGED <<dials, panicked>>
     \/ Panic /\ UNCHANGED netVars
  /\ UNCHANGED nicVars

\* The loop of ResolveHardwareAddr times out when the last retry is used up.
AwaitARP ==
  /\ Up /\ wifi = "arpWait"
  /\ IF state["arp"] = "done" THEN WifiGoes("dial", 0) /\ UNCHANGED <<dials, panicked>>
     ELSE IF left = 1 THEN Panic
     ELSE WifiGoes("arpWait", left - 1) /\ UNCHANGED <<dials, panicked>>
  /\ UNCHANGED <<nicVars, netVars>>

OpenDialTCP ==
  /\ Up /\ wifi = "dial" /\ dials < MaxDials
  /\ \/ /\ AskFor("tcp") /\ WifiGoes("synWait", DialRetries)
        /\ dials' = dials + 1 /\ UNCHANGED panicked
     \/ Panic /\ UNCHANGED netVars
  /\ UNCHANGED nicVars

\* Mutant of AwaitEstablished: the result of the wait is not looked at.
AwaitAndSignal ==
  /\ Up /\ wifi = "synWait"
  /\ IF state["tcp"] # "done" /\ left > 0 THEN WifiGoes("synWait", left - 1)
     ELSE WifiGoes("signal", left)
  /\ UNCHANGED <<nicVars, netVars, dials, panicked>>

\* A connection established during the last sleep counts as a failure, too, and
\* is closed.
AwaitEstablished ==
  /\ Up /\ wifi = "synWait"
  /\ IF state["tcp"] # "done" /\ left > 0 THEN WifiGoes("synWait", left - 1)
     ELSE WifiGoes(IF left = 0 THEN "close" ELSE "signal", left)
  /\ UNCHANGED <<nicVars, netVars, dials, panicked>>

\* closeConn waits until the library has closed the connection.
CloseConn ==
  /\ Up /\ wifi = "close" /\ WifiGoes("dial", left)
  /\ state' = [state EXCEPT !["tcp"] = "idle"] /\ air' = air \ {"tcp"}
  /\ UNCHANGED <<nicVars, dials, panicked, established>>

-----------------------------------------------------------------------------
MainStep == InitDevice \/ Join \/ AwaitDHCP \/ Spawn \/ Ready \/ Blink \/ Run \/ Leave
WifiStep == Resolve \/ AwaitARP \/ OpenDialTCP \/ AwaitEstablished \/ CloseConn

Next == NicStep \/ ConnectionEnds \/ MainStep \/ WifiStep \/ LedReady

\* The goroutines keep running, and the network is joined at some time.
Fairness ==
  WF_vars(NicStep) /\ WF_vars(MainStep) /\ WF_vars(WifiStep) /\ WF_vars(LedReady)

Spec == Init /\ [][Next]_vars /\ Fairness
=============================================================================
