------------------------------ MODULE NicLoop ------------------------------
(***************************************************************************)
(* nicLoop of internal/pico/wifi_common.go: the goroutine that moves       *)
(* packets between the wireless chip and the network stack of a Pico W.    *)
(* Each round polls for one packet, fills the free slots of its queue with *)
(* packets of the stack, and tries to send every packet that is queued; a  *)
(* packet that cannot be sent keeps its slot, and is dropped after too     *)
(* many tries.  Packets are numbered in the order the stack hands them     *)
(* out.                                                                    *)
(***************************************************************************)
EXTENDS Integers, Sequences, FiniteSets

CONSTANTS
  queueSize,                  \* 3 in the code
  maxRetriesBeforeDropping,   \* 3 in the code
  MaxPackets                  \* bound: how many packets the stack hands out

ASSUME QueueAssumption == queueSize \in Nat \ {0} /\ maxRetriesBeforeDropping \in Nat
ASSUME PacketBound == MaxPackets \in Nat

Slot == 1..queueSize

VARIABLES
  npc, slot,   \* where the loop is: "off", "poll", "fill" or "send", at which slot
  queue,       \* queue[i]: the packet in slot i, 0 when lenBuf[i] is zero
  retries,     \* retries[i]: how often sending it has failed
  handed,      \* how many packets the stack has handed out
  sent,        \* history: the packets the chip has accepted, in order
  dropped      \* history: the packets that were given up

nicVars == <<npc, slot, queue, retries, handed, sent, dropped>>

NicInit ==
  /\ npc = "off" /\ slot = 1
  /\ queue = [i \in Slot |-> 0] /\ retries = [i \in Slot |-> 0]
  /\ handed = 0 /\ sent = <<>> /\ dropped = {}

StartNic == npc = "off" /\ npc' = "poll" /\ UNCHANGED <<slot, queue, retries, handed, sent, dropped>>

\* dev.PollOne, whether it got a packet, none or an error.
PollOne ==
  /\ npc = "poll" /\ npc' = "fill" /\ slot' = 1
  /\ UNCHANGED <<queue, retries, handed, sent, dropped>>

\* After slot i of the filling loop, or after its break: with nothing queued the
\* loop starts over.
Filled(q, more) ==
  IF more /\ slot < queueSize THEN npc' = "fill" /\ slot' = slot + 1
  ELSE /\ slot' = 1
       /\ npc' = IF \A i \in Slot : q[i] = 0 THEN "poll" ELSE "send"

SkipRetransmission ==
  /\ npc = "fill" /\ retries[slot] # 0 /\ Filled(queue, TRUE)
  /\ UNCHANGED <<queue, retries, handed, sent, dropped>>

\* Mutant of QueuePacket: a slot is filled although its packet waits for
\* another try.
QueuePacketAnyway ==
  /\ npc = "fill" /\ handed < MaxPackets
  /\ handed' = handed + 1
  /\ queue' = [queue EXCEPT ![slot] = handed'] /\ Filled(queue', TRUE)
  /\ UNCHANGED <<retries, sent, dropped>>

\* Stack.HandleEth puts a packet in the slot.
QueuePacket ==
  /\ npc = "fill" /\ retries[slot] = 0 /\ handed < MaxPackets
  /\ handed' = handed + 1
  /\ queue' = [queue EXCEPT ![slot] = handed'] /\ Filled(queue', TRUE)
  /\ UNCHANGED <<retries, sent, dropped>>

\* Stack.HandleEth has no packet, which ends the loop, or fails.
NoPacket ==
  /\ npc = "fill" /\ retries[slot] = 0
  /\ queue' = [queue EXCEPT ![slot] = 0]
  /\ \E failed \in BOOLEAN : Filled(queue', failed)
  /\ UNCHANGED <<retries, handed, sent, dropped>>

\* The sending loop.
NextSlot ==
  IF slot < queueSize THEN npc' = "send" /\ slot' = slot + 1 ELSE npc' = "poll" /\ slot' = 1

SkipEmpty ==
  /\ npc = "send" /\ queue[slot] = 0 /\ NextSlot
  /\ UNCHANGED <<queue, retries, handed, sent, dropped>>

markSent ==
  queue' = [queue EXCEPT ![slot] = 0] /\ retries' = [retries EXCEPT ![slot] = 0]

SendEth ==
  /\ npc = "send" /\ queue[slot] # 0 /\ NextSlot
  /\ sent' = Append(sent, queue[slot])
  /\ markSent
  /\ UNCHANGED <<handed, dropped>>

\* Mutants of SendFails: a try too many; the packet is never dropped.
SendFailsLate ==
  /\ npc = "send" /\ queue[slot] # 0 /\ NextSlot
  /\ IF retries[slot] > maxRetriesBeforeDropping
     THEN markSent /\ dropped' = dropped \cup {queue[slot]}
     ELSE retries' = [retries EXCEPT ![slot] = @ + 1] /\ UNCHANGED <<queue, dropped>>
  /\ UNCHANGED <<handed, sent>>

SendFailsForever ==
  /\ npc = "send" /\ queue[slot] # 0 /\ NextSlot
  /\ retries' = [retries EXCEPT ![slot] = 1]
  /\ UNCHANGED <<queue, handed, sent, dropped>>

SendFails ==
  /\ npc = "send" /\ queue[slot] # 0 /\ NextSlot
  /\ IF retries[slot] + 1 > maxRetriesBeforeDropping
     THEN markSent /\ dropped' = dropped \cup {queue[slot]}
     ELSE retries' = [retries EXCEPT ![slot] = @ + 1] /\ UNCHANGED <<queue, dropped>>
  /\ UNCHANGED <<handed, sent>>

NicNext ==
  \/ StartNic \/ PollOne \/ SkipRetransmission \/ QueuePacket \/ NoPacket
  \/ SkipEmpty \/ SendEth \/ SendFails

NicSpec == NicInit /\ [][NicNext]_nicVars
=============================================================================
