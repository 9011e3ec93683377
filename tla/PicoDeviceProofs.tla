-------------------------- MODULE PicoDeviceProofs --------------------------
(***************************************************************************)
(* nicLoop loses and duplicates no packet and lets few packets pass one    *)
(* that it retries, for queues of any size and any number of retries, and  *)
(* main learns of a connection only when there was one, for any length of  *)
(* the waiting loops.  The first rests on what the slots look like at each *)
(* place of the loop: a slot the filling loop may overwrite is empty.  The *)
(* second counts, for each packet that waits, the slots that were tried    *)
(* since its own last try.                                                 *)
(***************************************************************************)
EXTENDS PicoDeviceProperties, FiniteSetTheorems, TLAPS

\* Zenon proves the steps without arithmetic; the others cite SMT.
USE Zenon

NicTypes ==
  /\ npc \in {"off", "poll", "fill", "send"} /\ slot \in Slot
  /\ handed \in Nat
  /\ queue \in [Slot -> 0..handed] /\ retries \in [Slot -> Nat]
  /\ sent \in Seq(1..handed) /\ dropped \subseteq 1..handed

\* A packet that was tried is still there, and the slots the filling loop has
\* not reached, or the sending loop has passed, hold nothing else.
Settled(i) == retries[i] = 0 => queue[i] = 0

SlotsInv ==
  /\ \A i \in Slot : retries[i] # 0 => queue[i] # 0
  /\ npc \in {"off", "poll"} => \A i \in Slot : Settled(i)
  /\ npc = "fill" => \A i \in Slot : i >= slot => Settled(i)
  /\ npc = "send" => \A i \in Slot : i < slot => Settled(i)

\* A packet is in one place, and in some place.
PlaceInv ==
  /\ \A i \in Slot, j \in Slot : queue[i] = queue[j] /\ queue[i] # 0 => i = j
  /\ \A k \in 1..Len(sent), l \in 1..Len(sent) : sent[k] = sent[l] => k = l
  /\ \A i \in Slot, k \in 1..Len(sent) : queue[i] # sent[k]
  /\ \A i \in Slot : queue[i] \notin dropped
  /\ \A k \in 1..Len(sent) : sent[k] \notin dropped
  /\ \A p \in 1..handed : \/ \E i \in Slot : queue[i] = p
                          \/ \E k \in 1..Len(sent) : sent[k] = p
                          \/ p \in dropped

NicInv == NicTypes /\ SlotsInv /\ PlaceInv

-----------------------------------------------------------------------------
LEMMA NicInitInv == NicInit => NicInv
<1> SUFFICES ASSUME NicInit PROVE NicInv
  OBVIOUS
<1> USE QueueAssumption DEF NicInit
<1>1. NicTypes BY SMT DEF NicTypes, Slot
<1>2. SlotsInv BY SMT DEF SlotsInv, Settled
<1>3. PlaceInv BY SMT DEF PlaceInv
<1>4. QED BY <1>1, <1>2, <1>3 DEF NicInv

\* Where the filling loop goes.
LEMMA FilledGoes ==
  ASSUME NicTypes, NEW q, NEW more, Filled(q, more)
  PROVE  \/ npc' = "fill" /\ slot' = slot + 1 /\ slot' \in Slot
         \/ npc' = "send" /\ slot' = 1 /\ slot' \in Slot
         \/ npc' = "poll" /\ slot' = 1 /\ slot' \in Slot /\ \A i \in Slot : q[i] = 0
<1>1. CASE more /\ slot < queueSize
  <2>1. npc' = "fill" /\ slot' = slot + 1 BY <1>1 DEF Filled
  <2>2. slot + 1 \in Slot BY <1>1, QueueAssumption, SMT DEF NicTypes, Slot
  <2>3. QED BY <2>1, <2>2
<1>2. CASE ~(more /\ slot < queueSize)
  <2>1. slot' = 1 /\ npc' = IF \A i \in Slot : q[i] = 0 THEN "poll" ELSE "send"
    BY <1>2 DEF Filled
  <2>2. 1 \in Slot BY QueueAssumption, SMT DEF Slot
  <2>3. QED BY <2>1, <2>2
<1>3. QED BY <1>1, <1>2

\* Where the sending loop goes.
LEMMA NextGoes ==
  ASSUME NicTypes, NextSlot
  PROVE  \/ npc' = "send" /\ slot' = slot + 1 /\ slot' \in Slot
         \/ npc' = "poll" /\ slot' = 1 /\ slot' \in Slot /\ slot = queueSize
BY QueueAssumption, SMT DEF NicTypes, NextSlot, Slot

\* After the filling loop has dealt with its slot.
LEMMA FillKeepsSlots ==
  ASSUME NicTypes, SlotsInv, npc = "fill", NEW more, Filled(queue', more),
         UNCHANGED retries, NicTypes',
         \A i \in Slot \ {slot} : queue'[i] = queue[i],
         retries[slot] # 0 => queue'[slot] # 0
  PROVE  SlotsInv'
<1>1. \A i \in Slot : retries'[i] # 0 => queue'[i] # 0
  BY DEF SlotsInv
<1>2. \A i \in Slot : i > slot => Settled(i)'
  <2> SUFFICES ASSUME NEW i \in Slot, i > slot PROVE Settled(i)'
    OBVIOUS
  <2>1. i # slot /\ i >= slot BY SMT DEF NicTypes, Slot
  <2>2. QED BY <2>1 DEF SlotsInv, Settled
<1>3. CASE npc' = "fill" /\ slot' = slot + 1
  BY <1>1, <1>2, <1>3, SMT DEF SlotsInv, NicTypes, Slot
<1>4. CASE npc' = "send" /\ slot' = 1
  BY <1>1, <1>4, SMT DEF SlotsInv, NicTypes, Slot
<1>5. CASE npc' = "poll" /\ \A i \in Slot : queue'[i] = 0
  BY <1>1, <1>5 DEF SlotsInv, Settled
<1>6. QED BY <1>3, <1>4, <1>5, FilledGoes

\* After the sending loop has dealt with its slot.
LEMMA SendKeepsSlots ==
  ASSUME NicTypes, SlotsInv, npc = "send", NextSlot, NicTypes',
         \A i \in Slot \ {slot} : queue'[i] = queue[i] /\ retries'[i] = retries[i],
         queue'[slot] = 0 <=> retries'[slot] = 0
  PROVE  SlotsInv'
<1>1. \A i \in Slot : retries'[i] # 0 => queue'[i] # 0
  BY DEF SlotsInv
<1>2. \A i \in Slot : i <= slot => Settled(i)'
  <2> SUFFICES ASSUME NEW i \in Slot, i <= slot PROVE Settled(i)'
    OBVIOUS
  <2>1. i = slot \/ i < slot BY SMT DEF NicTypes, Slot
  <2>2. QED BY <2>1 DEF SlotsInv, Settled
<1>3. CASE npc' = "send" /\ slot' = slot + 1
  BY <1>1, <1>2, <1>3, SMT DEF SlotsInv, NicTypes, Slot
<1>4. CASE npc' = "poll" /\ slot = queueSize
  <2>1. \A i \in Slot : Settled(i)' BY <1>2, <1>4, SMT DEF NicTypes, Slot
  <2>2. QED BY <1>1, <1>4, <2>1 DEF SlotsInv
<1>5. QED BY <1>3, <1>4, NextGoes

-----------------------------------------------------------------------------
(* One lemma for each step that moves a packet.                            *)

LEMMA QueuePacketKept == ASSUME NicInv, QueuePacket PROVE NicInv'
<1>0. NicTypes /\ SlotsInv /\ PlaceInv BY DEF NicInv
<1>1. /\ npc = "fill" /\ retries[slot] = 0 /\ handed' = handed + 1
      /\ queue' = [queue EXCEPT ![slot] = handed'] /\ Filled(queue', TRUE)
      /\ UNCHANGED <<retries, sent, dropped>>
  BY DEF QueuePacket
<1>2. slot \in Slot /\ slot >= slot BY <1>0, SMT DEF NicTypes, Slot
<1>3. queue[slot] = 0 BY <1>0, <1>1, <1>2 DEF SlotsInv, Settled
<1>4. queue'[slot] = handed + 1 /\ \A i \in Slot \ {slot} : queue'[i] = queue[i]
  BY <1>0, <1>1, SMT DEF NicTypes
<1>5. NicTypes'
  <2>1. npc' \in {"off", "poll", "fill", "send"} /\ slot' \in Slot
    BY <1>0, <1>1, FilledGoes
  <2>2. handed' \in Nat /\ queue' \in [Slot -> 0..handed'] /\ retries' \in [Slot -> Nat]
    BY <1>0, <1>1, SMT DEF NicTypes
  <2>3. sent' \in Seq(1..handed') /\ dropped' \subseteq 1..handed'
    BY <1>0, <1>1, SMT DEF NicTypes
  <2>4. QED BY <2>1, <2>2, <2>3 DEF NicTypes
<1>6. SlotsInv' BY <1>0, <1>1, <1>4, <1>5, FillKeepsSlots
<1>7. PlaceInv'
  <2>1. /\ \A i \in Slot : queue[i] \in 0..handed
        /\ \A k \in 1..Len(sent) : sent[k] \in 1..handed
        /\ dropped \subseteq 1..handed /\ handed \in Nat
    BY <1>0, SMT DEF NicTypes
  <2>2. \A i \in Slot, j \in Slot : queue'[i] = queue'[j] /\ queue'[i] # 0 => i = j
    BY <1>0, <1>4, <2>1, SMT DEF PlaceInv
  <2>3. \A i \in Slot, k \in 1..Len(sent) : queue'[i] # sent[k]
    BY <1>0, <1>4, <2>1, SMT DEF PlaceInv
  <2>4. \A i \in Slot : queue'[i] \notin dropped BY <1>0, <1>4, <2>1, SMT DEF PlaceInv
  <2>5. ASSUME NEW p \in 1..handed'
        PROVE  \/ \E i \in Slot : queue'[i] = p
               \/ \E k \in 1..Len(sent) : sent[k] = p
               \/ p \in dropped
    <3>1. CASE p = handed + 1 BY <1>2, <1>4, <3>1
    <3>2. CASE p # handed + 1
      <4>1. p \in 1..handed /\ p # 0 BY <1>1, <2>1, <3>2, SMT
      <4>2. ASSUME NEW i \in Slot, queue[i] = p PROVE queue'[i] = p
        BY <1>3, <1>4, <4>1, <4>2
      <4>3. QED BY <1>0, <4>1, <4>2 DEF PlaceInv
    <3>3. QED BY <3>1, <3>2
  <2>6. /\ \A k \in 1..Len(sent), l \in 1..Len(sent) : sent[k] = sent[l] => k = l
        /\ \A k \in 1..Len(sent) : sent[k] \notin dropped
        /\ sent' = sent /\ dropped' = dropped
    BY <1>0, <1>1 DEF PlaceInv
  <2>7. QED BY <2>2, <2>3, <2>4, <2>5, <2>6 DEF PlaceInv
<1>8. QED BY <1>5, <1>6, <1>7 DEF NicInv

\* HandleEth had nothing for a slot that was empty.
LEMMA NoPacketKept == ASSUME NicInv, NoPacket \/ SkipRetransmission PROVE NicInv'
<1>0. NicTypes /\ SlotsInv /\ PlaceInv BY DEF NicInv
<1>1. UNCHANGED <<queue, retries, handed, sent, dropped>> /\ npc = "fill"
  <2>1. CASE SkipRetransmission BY <2>1 DEF SkipRetransmission
  <2>2. CASE NoPacket
    <3>1. slot \in Slot /\ slot >= slot BY <1>0, SMT DEF NicTypes, Slot
    <3>2. queue[slot] = 0 BY <1>0, <2>2, <3>1 DEF NoPacket, SlotsInv, Settled
    <3>3. [queue EXCEPT ![slot] = 0] = queue BY <1>0, <3>2, SMT DEF NicTypes
    <3>4. QED BY <2>2, <3>3 DEF NoPacket
  <2>3. QED BY <2>1, <2>2
<1>2. PICK more : Filled(queue', more)
  BY <1>1 DEF NoPacket, SkipRetransmission
<1>3. NicTypes'
  <2>1. npc' \in {"off", "poll", "fill", "send"} /\ slot' \in Slot
    BY <1>0, <1>2, FilledGoes
  <2>2. QED BY <1>0, <1>1, <2>1 DEF NicTypes
<1>4. retries[slot] # 0 => queue'[slot] # 0
  BY <1>0, <1>1 DEF SlotsInv, NicTypes
<1>5. SlotsInv' BY <1>0, <1>1, <1>2, <1>3, <1>4, FillKeepsSlots
<1>6. PlaceInv' BY <1>0, <1>1 DEF PlaceInv
<1>7. QED BY <1>3, <1>5, <1>6 DEF NicInv

LEMMA SendEthKept == ASSUME NicInv, SendEth PROVE NicInv'
<1>0. NicTypes /\ SlotsInv /\ PlaceInv BY DEF NicInv
<1>1. /\ npc = "send" /\ queue[slot] # 0 /\ NextSlot
      /\ sent' = Append(sent, queue[slot]) /\ UNCHANGED <<handed, dropped>>
      /\ queue' = [queue EXCEPT ![slot] = 0] /\ retries' = [retries EXCEPT ![slot] = 0]
  BY DEF SendEth, markSent
<1>2. /\ slot \in Slot /\ queue'[slot] = 0 /\ retries'[slot] = 0
      /\ \A i \in Slot \ {slot} : queue'[i] = queue[i] /\ retries'[i] = retries[i]
  BY <1>0, <1>1, SMT DEF NicTypes
<1> DEFINE p == queue[slot]
<1>3. p \in 1..handed /\ p # 0 /\ sent \in Seq(1..handed) BY <1>0, <1>1, SMT DEF NicTypes
<1>4. /\ Len(sent) \in Nat /\ sent' \in Seq(1..handed) /\ Len(sent') = Len(sent) + 1
      /\ \A k \in 1..Len(sent) : sent'[k] = sent[k]
      /\ sent'[Len(sent) + 1] = p
  BY <1>1, <1>3, SMT
<1>5. NicTypes'
  <2>1. npc' \in {"off", "poll", "fill", "send"} /\ slot' \in Slot
    BY <1>0, <1>1, NextGoes
  <2>2. queue' \in [Slot -> 0..handed'] /\ retries' \in [Slot -> Nat]
    BY <1>0, <1>1, SMT DEF NicTypes
  <2>3. QED BY <1>0, <1>1, <1>4, <2>1, <2>2 DEF NicTypes
<1>6. SlotsInv' BY <1>0, <1>1, <1>2, <1>5, SendKeepsSlots
<1>7. PlaceInv'
  <2> HIDE DEF p
  <2>1. ASSUME NEW k \in 1..Len(sent')
        PROVE  \/ k \in 1..Len(sent) /\ sent'[k] = sent[k]
               \/ k = Len(sent) + 1 /\ sent'[k] = p
    <3>1. k \in 1..Len(sent) \/ k = Len(sent) + 1 BY <1>4, SMT
    <3>2. QED BY <1>4, <3>1
  <2>2. /\ \A i \in Slot, k \in 1..Len(sent) : queue[i] # sent[k]
        /\ \A i \in Slot \ {slot} : queue[i] # p
        /\ \A k \in 1..Len(sent) : sent[k] # p /\ sent[k] # 0
        /\ p \notin dropped
    <3>1. \A k \in 1..Len(sent) : sent[k] # 0 BY <1>0, SMT DEF NicTypes
    <3>2. QED BY <1>0, <1>2, <1>3, <3>1 DEF PlaceInv, p
  <2>3. 0 \notin dropped BY <1>0, SMT DEF NicTypes
  <2>4. \A i \in Slot, j \in Slot : queue'[i] = queue'[j] /\ queue'[i] # 0 => i = j
    BY <1>0, <1>2, SMT DEF PlaceInv
  <2>5. \A k \in 1..Len(sent'), l \in 1..Len(sent') : sent'[k] = sent'[l] => k = l
    BY <1>0, <2>1, <2>2 DEF PlaceInv
  <2>6. \A i \in Slot, k \in 1..Len(sent') : queue'[i] # sent'[k]
    BY <1>2, <1>3, <2>1, <2>2
  <2>7. \A i \in Slot : queue'[i] \notin dropped'
    BY <1>0, <1>1, <1>2, <2>3, SMT DEF PlaceInv
  <2>8. \A k \in 1..Len(sent') : sent'[k] \notin dropped'
    BY <1>0, <1>1, <2>1, <2>2 DEF PlaceInv
  <2>9. ASSUME NEW x \in 1..handed'
        PROVE  \/ \E i \in Slot : queue'[i] = x
               \/ \E k \in 1..Len(sent') : sent'[k] = x
               \/ x \in dropped'
    <3>1. Len(sent) + 1 \in 1..Len(sent') /\ \A k \in 1..Len(sent) : k \in 1..Len(sent')
      BY <1>4, SMT
    <3>2. CASE x = p BY <1>4, <3>1, <3>2
    <3>3. CASE x # p
      <4>1. ASSUME NEW i \in Slot, queue[i] = x PROVE queue'[i] = x
        BY <1>2, <3>3, <4>1 DEF p
      <4>2. ASSUME NEW k \in 1..Len(sent), sent[k] = x
            PROVE  \E l \in 1..Len(sent') : sent'[l] = x
        BY <1>4, <3>1, <4>2
      <4>3. x \in 1..handed /\ dropped' = dropped BY <1>1
      <4>4. QED BY <1>0, <4>1, <4>2, <4>3 DEF PlaceInv
    <3>4. QED BY <3>2, <3>3
  <2>10. QED BY <2>4, <2>5, <2>6, <2>7, <2>8, <2>9 DEF PlaceInv
<1>8. QED BY <1>5, <1>6, <1>7 DEF NicInv

LEMMA SendFailsKept == ASSUME NicInv, SendFails PROVE NicInv'
<1>0. NicTypes /\ SlotsInv /\ PlaceInv BY DEF NicInv
<1>1. npc = "send" /\ queue[slot] # 0 /\ NextSlot /\ UNCHANGED <<handed, sent>>
  BY DEF SendFails
<1>2. npc' \in {"off", "poll", "fill", "send"} /\ slot' \in Slot
  BY <1>0, <1>1, NextGoes
<1> DEFINE p == queue[slot]
<1>3. slot \in Slot /\ p \in 1..handed BY <1>0, <1>1, SMT DEF NicTypes
\* The packet waits for another try.
<1>4. CASE retries' = [retries EXCEPT ![slot] = @ + 1] /\ UNCHANGED <<queue, dropped>>
  <2>1. /\ retries' \in [Slot -> Nat] /\ retries'[slot] # 0
        /\ \A i \in Slot \ {slot} : retries'[i] = retries[i]
    BY <1>0, <1>4, SMT DEF NicTypes
  <2>2. NicTypes' BY <1>0, <1>1, <1>2, <1>4, <2>1 DEF NicTypes
  <2>3. SlotsInv' BY <1>0, <1>1, <1>4, <2>1, <2>2, SendKeepsSlots
  <2>4. PlaceInv' BY <1>0, <1>1, <1>4 DEF PlaceInv
  <2>5. QED BY <2>2, <2>3, <2>4 DEF NicInv
\* The packet is dropped.
<1>5. CASE markSent /\ dropped' = dropped \cup {queue[slot]}
  <2>1. /\ queue' \in [Slot -> 0..handed] /\ retries' \in [Slot -> Nat]
        /\ queue'[slot] = 0 /\ retries'[slot] = 0
        /\ \A i \in Slot \ {slot} : queue'[i] = queue[i] /\ retries'[i] = retries[i]
    BY <1>0, <1>5, SMT DEF NicTypes, markSent
  <2>2. NicTypes' BY <1>0, <1>1, <1>2, <1>3, <1>5, <2>1 DEF NicTypes
  <2>3. SlotsInv' BY <1>0, <1>1, <2>1, <2>2, SendKeepsSlots
  <2>4. PlaceInv'
    <3> HIDE DEF p
    <3>1. 0 \notin dropped' /\ p # 0 BY <1>0, <1>3, <1>5, SMT DEF NicTypes, p
    <3>2. \A k \in 1..Len(sent) : sent[k] # 0 BY <1>0, SMT DEF NicTypes
    <3>3. \A i \in Slot, j \in Slot : queue'[i] = queue'[j] /\ queue'[i] # 0 => i = j
      BY <1>0, <2>1, SMT DEF PlaceInv
    <3>4. \A i \in Slot, k \in 1..Len(sent) : queue'[i] # sent[k]
      BY <1>0, <2>1, <3>2, SMT DEF PlaceInv
    <3>5. \A i \in Slot : queue'[i] \notin dropped'
      <4> SUFFICES ASSUME NEW i \in Slot PROVE queue'[i] \notin dropped'
        OBVIOUS
      <4>1. CASE i = slot BY <2>1, <3>1, <4>1
      <4>2. CASE i # slot
        <5>1. queue'[i] = queue[i] /\ queue[i] # p /\ queue[i] \notin dropped
          BY <1>0, <1>1, <1>3, <2>1, <4>2 DEF PlaceInv, p
        <5>2. QED BY <1>5, <5>1 DEF p
      <4>3. QED BY <4>1, <4>2
    <3>6. \A k \in 1..Len(sent) : sent[k] \notin dropped'
      BY <1>0, <1>3, <1>5 DEF PlaceInv
    <3>7. ASSUME NEW x \in 1..handed
          PROVE  \/ \E i \in Slot : queue'[i] = x
                 \/ \E k \in 1..Len(sent) : sent[k] = x
                 \/ x \in dropped'
      <4>1. CASE x = p BY <1>5, <4>1 DEF p
      <4>2. CASE x # p
        <5>1. ASSUME NEW i \in Slot, queue[i] = x PROVE queue'[i] = x
          BY <2>1, <4>2, <5>1 DEF p
        <5>2. QED BY <1>0, <1>5, <5>1 DEF PlaceInv
      <4>3. QED BY <4>1, <4>2
    <3>8. /\ \A k \in 1..Len(sent), l \in 1..Len(sent) : sent[k] = sent[l] => k = l
          /\ sent' = sent /\ handed' = handed
      BY <1>0, <1>1 DEF PlaceInv
    <3>9. QED BY <3>3, <3>4, <3>5, <3>6, <3>7, <3>8 DEF PlaceInv
  <2>5. QED BY <2>2, <2>3, <2>4 DEF NicInv
<1>6. QED BY <1>4, <1>5 DEF SendFails

\* The other steps move no packet.
LEMMA IdleKept == ASSUME NicInv, StartNic \/ PollOne \/ SkipEmpty PROVE NicInv'
<1>0. NicTypes /\ SlotsInv /\ PlaceInv BY DEF NicInv
<1>1. UNCHANGED <<queue, retries, handed, sent, dropped>>
  BY DEF StartNic, PollOne, SkipEmpty
<1>2. PlaceInv' BY <1>0, <1>1 DEF PlaceInv
<1>3. CASE StartNic
  BY <1>0, <1>1, <1>2, <1>3 DEF StartNic, NicInv, NicTypes, SlotsInv, Settled
<1>4. CASE PollOne
  <2>1. npc = "poll" /\ npc' = "fill" /\ slot' = 1 BY <1>4 DEF PollOne
  <2>2. 1 \in Slot BY QueueAssumption, SMT DEF Slot
  <2>3. NicTypes' BY <1>0, <1>1, <2>1, <2>2 DEF NicTypes
  <2>4. SlotsInv' BY <1>0, <1>1, <2>1 DEF SlotsInv, Settled
  <2>5. QED BY <1>2, <2>3, <2>4 DEF NicInv
<1>5. CASE SkipEmpty
  <2>1. npc = "send" /\ NextSlot /\ queue[slot] = 0 BY <1>5 DEF SkipEmpty
  <2>2. slot \in Slot /\ npc' \in {"off", "poll", "fill", "send"} /\ slot' \in Slot
    BY <1>0, <2>1, NextGoes DEF NicTypes
  <2>3. NicTypes' BY <1>0, <1>1, <2>2 DEF NicTypes
  <2>4. retries[slot] = 0 BY <1>0, <2>1, <2>2 DEF SlotsInv
  <2>5. SlotsInv' BY <1>0, <1>1, <2>1, <2>3, <2>4, SendKeepsSlots
  <2>6. QED BY <1>2, <2>3, <2>5 DEF NicInv
<1>6. QED BY <1>3, <1>4, <1>5

LEMMA NicKept == ASSUME NicInv, [NicNext]_nicVars PROVE NicInv'
<1>1. CASE UNCHANGED nicVars
  BY <1>1 DEF nicVars, NicInv, NicTypes, SlotsInv, Settled, PlaceInv
<1>2. QED
  BY <1>1, QueuePacketKept, NoPacketKept, SendEthKept, SendFailsKept, IdleKept DEF NicNext

\* A step of the device is a step of nicLoop or leaves it alone.
LEMMA DeviceRunsNic == ASSUME [Next]_vars PROVE [NicNext]_nicVars
<1>1. CASE NicStep BY <1>1 DEF NicStep, Poll, FillSlot, Send, NicNext
<1>2. CASE ConnectionEnds BY <1>2 DEF ConnectionEnds
<1>3. CASE MainStep
  BY <1>3 DEF MainStep, InitDevice, Join, AwaitDHCP, Spawn, Ready, Blink, Run, Leave, NicNext
<1>4. CASE WifiStep
  BY <1>4 DEF WifiStep, Resolve, AwaitARP, OpenDialTCP, AwaitEstablished, CloseConn
<1>5. CASE LedReady BY <1>5 DEF LedReady
<1>6. CASE UNCHANGED vars BY <1>6 DEF vars
<1>7. QED BY <1>1, <1>2, <1>3, <1>4, <1>5, <1>6 DEF Next

-----------------------------------------------------------------------------
(* The theorems.                                                           *)

\* nicLoop keeps every packet in exactly one place, for a queue of any size, any
\* limit on the retries and any number of packets.
THEOREM PacketsConserved == Spec => []PacketsAreConserved
<1>1. Spec => []NicInv
  <2>1. Init => NicInv BY NicInitInv DEF Init
  <2>2. NicInv /\ [Next]_vars => NicInv' BY NicKept, DeviceRunsNic
  <2>3. QED BY <2>1, <2>2, PTL DEF Spec
<1>2. NicInv => PacketsAreConserved
  <2> SUFFICES ASSUME NicInv, NEW p \in 1..handed PROVE Cardinality(Places(p)) = 1
    BY DEF PacketsAreConserved
  <2>0. /\ PlaceInv /\ p # 0
        /\ DOMAIN sent = 1..Len(sent)
    BY SMT DEF NicInv, NicTypes
  <2> DEFINE Q == {i \in Slot : queue[i] = p}
             S == {k \in DOMAIN sent : sent[k] = p}
             D == dropped \cap {p}
  <2>1. Places(p) = ({"queue"} \X Q) \cup ({"sent"} \X S) \cup ({"dropped"} \X D)
    BY DEF Places
  <2>2. \/ S = {} /\ D = {} /\ \E i : Q = {i}
        \/ Q = {} /\ D = {} /\ \E k : S = {k}
        \/ Q = {} /\ S = {} /\ \E d : D = {d}
    <3>1. CASE \E i \in Slot : queue[i] = p
      <4>1. PICK i \in Slot : queue[i] = p BY <3>1
      <4>2. Q = {i} BY <2>0, <4>1, SMT DEF PlaceInv
      <4>3. S = {} /\ D = {} BY <2>0, <4>1, SMT DEF PlaceInv
      <4>4. QED BY <4>2, <4>3
    <3>2. CASE \E k \in 1..Len(sent) : sent[k] = p
      <4>1. PICK k \in 1..Len(sent) : sent[k] = p BY <3>2
      <4>2. S = {k} BY <2>0, <4>1 DEF PlaceInv
      <4>3. Q = {} /\ D = {} BY <2>0, <4>1, SMT DEF PlaceInv
      <4>4. QED BY <4>2, <4>3
    <3>3. CASE p \in dropped
      <4>1. D = {p} BY <3>3
      <4>2. Q = {} /\ S = {} BY <2>0, <3>3, SMT DEF PlaceInv
      <4>3. QED BY <4>1, <4>2
    <3>4. QED BY <2>0, <3>1, <3>2, <3>3 DEF PlaceInv
  <2>3. \E x : Places(p) = {x}
    <3> HIDE DEF Q, S, D
    <3>1. ASSUME NEW i, Q = {i}, S = {}, D = {} PROVE Places(p) = {<<"queue", i>>}
      BY <2>1, <3>1, SMT
    <3>2. ASSUME NEW k, Q = {}, S = {k}, D = {} PROVE Places(p) = {<<"sent", k>>}
      BY <2>1, <3>2, SMT
    <3>3. ASSUME NEW d, Q = {}, S = {}, D = {d} PROVE Places(p) = {<<"dropped", d>>}
      BY <2>1, <3>3, SMT
    <3>4. QED BY <2>2, <3>1, <3>2, <3>3
  <2>4. QED BY <2>3, FS_Singleton
<1>3. QED BY <1>1, <1>2, PTL

\* The connection that was dialled last has been established when it is up, and
\* when main is told of it; left counts down to zero.
WifiInv ==
  /\ left \in Nat
  /\ wifi = "arpWait" => left # 0
  /\ DOMAIN state = Protocol
  /\ state["tcp"] = "done" => dials \in established
  /\ ReadyNeedsConnection

LEMMA StateUpdate ==
  ASSUME DOMAIN state = Protocol, NEW p, NEW v, state' = [state EXCEPT ![p] = v]
  PROVE  DOMAIN state' = Protocol /\ state'["tcp"] = IF p = "tcp" THEN v ELSE state["tcp"]
BY DEF Protocol

\* SetupWifi tells main that the node is connected only when the connection it
\* dialled last was established, however many sleeps the loops make and however
\* often connections end.
THEOREM ReadyIsConnected == Spec => []ReadyNeedsConnection
<1>1. Init => WifiInv
  BY SMT DEF Init, WifiInv, ReadyNeedsConnection, Protocol
<1>2. ASSUME WifiInv, [Next]_vars PROVE WifiInv'
  <2> USE <1>2
  <2>1. CASE NicStep
    <3>1. UNCHANGED bootVars BY <2>1 DEF NicStep, Poll, FillSlot, Send
    <3>2. CASE UNCHANGED <<state, established>>
      BY <3>1, <3>2, SMT DEF WifiInv, ReadyNeedsConnection, bootVars
    <3>3. CASE \E p \in air :
                 /\ state' = [state EXCEPT ![p] = "done"]
                 /\ established' = IF p = "tcp" THEN established \cup {dials} ELSE established
      <4>1. PICK p \in air :
              /\ state' = [state EXCEPT ![p] = "done"]
              /\ established' = IF p = "tcp" THEN established \cup {dials} ELSE established
        BY <3>3
      <4>2. DOMAIN state' = Protocol
            /\ state'["tcp"] = IF p = "tcp" THEN "done" ELSE state["tcp"]
        BY <4>1, StateUpdate DEF WifiInv
      <4>3. QED BY <3>1, <4>1, <4>2, SMT DEF WifiInv, ReadyNeedsConnection, bootVars
    <3>4. QED BY <2>1, <3>2, <3>3 DEF NicStep, Poll, FillSlot, Send, netVars
  <2>2. CASE ConnectionEnds
    <3>1. DOMAIN state' = Protocol /\ state'["tcp"] = "idle"
      BY <2>2, StateUpdate DEF ConnectionEnds, WifiInv
    <3>2. QED
      BY <2>2, <3>1, SMT DEF ConnectionEnds, WifiInv, ReadyNeedsConnection, bootVars
  <2>3. CASE MainStep \/ LedReady
    <3>1. UNCHANGED <<left, dials, established>>
      BY <2>3 DEF MainStep, LedReady, InitDevice, Join, AwaitDHCP, Spawn, Ready, Blink, Run,
         Leave, MainGoes, AskFor, netVars
    <3>2. UNCHANGED state \/ state' = [state EXCEPT !["dhcp"] = "asked"]
      BY <2>3 DEF MainStep, LedReady, InitDevice, Join, AwaitDHCP, Spawn, Ready, Blink, Run,
         Leave, MainGoes, AskFor, netVars
    <3>3. wifi' = wifi \/ wifi' = "resolve" \/ wifi' = "closing"
          \/ (wifi = "signal" /\ wifi' = "hold")
      BY <2>3 DEF MainStep, LedReady, InitDevice, Join, AwaitDHCP, Spawn, Ready, Blink, Run,
         Leave, MainGoes, AskFor, netVars
    <3>4. QED BY <3>1, <3>2, <3>3, SMT DEF WifiInv, ReadyNeedsConnection, Protocol
  <2>4. CASE Resolve
    BY <2>4, WaitAssumption, SMT
    DEF Resolve, AskFor, WifiGoes, Panic, WifiInv, ReadyNeedsConnection, netVars, Protocol
  <2>5. CASE AwaitARP
    BY <2>5, SMT DEF AwaitARP, WifiGoes, Panic, WifiInv, ReadyNeedsConnection, netVars
  <2>6. CASE OpenDialTCP
    BY <2>6, WaitAssumption, SMT
    DEF OpenDialTCP, AskFor, WifiGoes, Panic, WifiInv, ReadyNeedsConnection, netVars, Protocol
  <2>7. CASE AwaitEstablished
    BY <2>7, SMT DEF AwaitEstablished, WifiGoes, WifiInv, ReadyNeedsConnection, netVars
  <2>8. CASE CloseConn
    <3>1. DOMAIN state' = Protocol /\ state'["tcp"] = "idle"
      BY <2>8, StateUpdate DEF CloseConn, WifiInv
    <3>2. QED BY <2>8, <3>1, SMT DEF CloseConn, WifiGoes, WifiInv, ReadyNeedsConnection
  <2>9. CASE UNCHANGED vars
    BY <2>9, SMT DEF vars, bootVars, netVars, WifiInv, ReadyNeedsConnection
  <2>10. QED
    BY <2>1, <2>2, <2>3, <2>4, <2>5, <2>6, <2>7, <2>8, <2>9 DEF Next, WifiStep
<1>3. WifiInv => ReadyNeedsConnection BY DEF WifiInv
<1>4. QED BY <1>1, <1>2, <1>3, PTL DEF Spec

-----------------------------------------------------------------------------
(* Overtaking.  Of the packets that pass the one in slot j, each other slot *)
(* sends one between two tries of slot j; before its first try none does.  *)

\* The packets sent that are later than p.
Later(p) == {k \in 1..Len(sent) : sent[k] > p}

\* How many slots were tried since slot j was.
Passed(j) ==
  IF npc # "send" THEN queueSize - j
  ELSE IF j < slot THEN slot - 1 - j ELSE queueSize - j + slot - 1

\* How many packets the other slots send between r + 1 tries of a slot.
Rounds(r) == r * (queueSize - 1)

Allowed(j) == IF retries[j] = 0 THEN 0 ELSE Rounds(retries[j] - 1) + Passed(j)

OvertakeInv ==
  /\ \A i \in Slot : retries[i] <= maxRetriesBeforeDropping
  /\ \A i \in Slot, j \in Slot :
       i < j /\ retries[j] = 0 /\ queue[j] # 0 => queue[i] < queue[j]
  /\ \A j \in Slot : queue[j] # 0 => Cardinality(Later(queue[j])) <= Allowed(j)
  /\ \A k \in 1..Len(sent) :
       Cardinality(Overtakers(sent[k])) <= Rounds(maxRetriesBeforeDropping)

LEMMA RoundsFacts ==
  /\ Rounds(0) = 0
  /\ \A r \in Nat : /\ Rounds(r) \in Nat
                    /\ Rounds(r + 1) = Rounds(r) + (queueSize - 1)
                    /\ \A s \in Nat : r <= s => Rounds(r) <= Rounds(s)
<1> DEFINE q == queueSize - 1
<1>1. q \in Nat BY QueueAssumption, SMT
<1>2. \A r : Rounds(r) = r * q BY DEF Rounds
<1> HIDE DEF q
<1>3. ASSUME NEW r \in Nat
      PROVE  /\ r * q \in Nat /\ (r + 1) * q = r * q + q
             /\ \A s \in Nat : r <= s => r * q <= s * q
  BY <1>1, <1>3, SMT
<1>4. 0 * q = 0 BY <1>1, SMT
<1>5. QED BY <1>2, <1>3, <1>4 DEF q

LEMMA PassedStays ==
  ASSUME NicTypes, npc # "send", npc' # "send" \/ slot' = 1, NEW j \in Slot
  PROVE  Passed(j)' = Passed(j)
BY QueueAssumption, SMT DEF NicTypes, Slot, Passed

LEMMA PassedMoves ==
  ASSUME NicTypes, npc = "send", NextSlot, NEW j \in Slot
  PROVE  /\ Passed(j) \in Nat
         /\ j # slot => Passed(j)' = Passed(j) + 1
         /\ j = slot => Passed(j) = queueSize - 1 /\ Passed(j)' = 0
<1>1. queueSize \in Nat \ {0} /\ slot \in 1..queueSize /\ j \in 1..queueSize
  BY QueueAssumption DEF NicTypes, Slot
<1>2. CASE slot < queueSize
  <2>1. npc' = "send" /\ slot' = slot + 1 BY <1>2 DEF NextSlot
  <2>2. QED BY <1>1, <1>2, <2>1, SMT DEF Passed
<1>3. CASE ~(slot < queueSize)
  <2>1. npc' # "send" /\ slot' = 1 /\ slot = queueSize
    <3>1. npc' = "poll" /\ slot' = 1 BY <1>3 DEF NextSlot
    <3>2. slot = queueSize BY <1>1, <1>3, SMT
    <3>3. QED BY <3>1, <3>2
  <2>2. QED BY <1>1, <2>1, SMT DEF Passed
<1>4. QED BY <1>2, <1>3

LEMMA LaterFinite ==
  ASSUME NicTypes, NEW p
  PROVE  IsFiniteSet(Later(p)) /\ Cardinality(Later(p)) \in Nat
<1>1. Len(sent) \in Nat BY SMT DEF NicTypes
<1>2. IsFiniteSet(1..Len(sent)) BY <1>1, FS_Interval, SMT
<1>3. Later(p) \subseteq 1..Len(sent) BY DEF Later
<1>4. IsFiniteSet(Later(p)) BY <1>2, <1>3, FS_Subset
<1>5. QED BY <1>4, FS_CardinalityType

LEMMA PassedType ==
  ASSUME NicTypes, NEW j \in Slot
  PROVE  Passed(j) \in Nat /\ Passed(j) <= queueSize - 1
<1>1. queueSize \in Nat \ {0} /\ slot \in 1..queueSize /\ j \in 1..queueSize
  BY QueueAssumption DEF NicTypes, Slot
<1>2. QED BY <1>1, SMT DEF Passed

\* No more pass a packet than its tries allow.
LEMMA AllowedBound ==
  ASSUME NicTypes, NEW j \in Slot, retries[j] <= maxRetriesBeforeDropping
  PROVE  Allowed(j) \in Nat /\ Allowed(j) <= Rounds(maxRetriesBeforeDropping)
<1>1. PICK r \in Nat : r = retries[j] BY DEF NicTypes
<1>2. PICK n \in Nat : n = Passed(j) /\ n <= queueSize - 1 BY PassedType
<1>3. PICK m \in Nat : m = maxRetriesBeforeDropping /\ r <= m BY <1>1, QueueAssumption
<1>4. CASE r = 0
  <2>1. Allowed(j) = 0 BY <1>1, <1>4 DEF Allowed
  <2>2. Rounds(m) \in Nat BY RoundsFacts
  <2>3. QED BY <1>3, <2>1, <2>2, SMT
<1>5. CASE r # 0
  <2>1. PICK q \in Nat : r = q + 1 BY <1>5, SMT
  <2>2. Allowed(j) = Rounds(q) + n
    <3>1. r - 1 = q BY <2>1, SMT
    <3>2. QED BY <1>1, <1>2, <1>5, <3>1 DEF Allowed
  <2>3. /\ Rounds(q) \in Nat /\ Rounds(r) = Rounds(q) + (queueSize - 1)
        /\ Rounds(r) <= Rounds(m) /\ Rounds(m) \in Nat /\ Rounds(r) \in Nat
    BY <1>3, <2>1, RoundsFacts
  <2>4. QED BY <1>2, <1>3, <2>2, <2>3, QueueAssumption, SMT
<1>6. QED BY <1>4, <1>5

\* One more pass allows one more packet.
LEMMA AllowedMoves ==
  ASSUME NicTypes, NEW j \in Slot, retries'[j] = retries[j], NEW d \in Nat,
         Passed(j)' = Passed(j) + d
  PROVE  IF retries[j] = 0 THEN Allowed(j)' = 0 ELSE Allowed(j)' = Allowed(j) + d
<1>1. CASE retries[j] = 0 BY <1>1 DEF Allowed
<1>2. CASE retries[j] # 0
  <2>1. PICK n \in Nat : n = Passed(j) BY PassedType
  <2>2. PICK q : q = Rounds(retries[j] - 1) OBVIOUS
  <2>3. q \in Nat
    <3>1. retries[j] - 1 \in Nat BY <1>2, SMT DEF NicTypes
    <3>2. QED BY <2>2, <3>1, RoundsFacts
  <2>4. Allowed(j) = q + n BY <1>2, <2>1, <2>2 DEF Allowed
  <2>5. Allowed(j)' = q + (n + d)
    <3>1. Rounds(retries[j] - 1)' = q BY <2>2 DEF Rounds
    <3>2. Passed(j)' = n + d BY <2>1
    <3>3. QED BY <1>2, <3>1, <3>2 DEF Allowed
  <2>6. QED BY <1>2, <2>1, <2>3, <2>4, <2>5, SMT
<1>3. QED BY <1>1, <1>2

\* A step that moves no packet and tries none.
LEMMA QuietOvertakes ==
  ASSUME NicTypes, OvertakeInv, UNCHANGED <<queue, retries, sent>>,
         NEW d \in Nat, \A j \in Slot : queue[j] # 0 => Passed(j)' = Passed(j) + d
  PROVE  OvertakeInv'
<1>1. \A p : Later(p)' = Later(p) /\ Overtakers(p)' = Overtakers(p)
  BY DEF Later, Overtakers
<1>2. ASSUME NEW j \in Slot, queue[j] # 0
      PROVE  Cardinality(Later(queue[j])) <= Allowed(j)'
  <2>1. Cardinality(Later(queue[j])) <= Allowed(j) /\ Allowed(j) \in Nat
    BY <1>2, AllowedBound DEF OvertakeInv
  <2>2. IF retries[j] = 0 THEN Allowed(j)' = 0 ELSE Allowed(j)' = Allowed(j) + d
    BY <1>2, AllowedMoves
  <2>3. Cardinality(Later(queue[j])) \in Nat BY LaterFinite
  <2>4. retries[j] = 0 => Allowed(j) = 0 BY DEF Allowed
  <2>5. QED BY <2>1, <2>2, <2>3, <2>4, SMT
<1>3. QED BY <1>1, <1>2 DEF OvertakeInv, Rounds

\* A packet the stack has just handed out is later than all others.
LEMMA QueueOvertakes == ASSUME NicInv, OvertakeInv, QueuePacket PROVE OvertakeInv'
<1>0. NicTypes /\ SlotsInv BY DEF NicInv
<1>1. /\ npc = "fill" /\ retries[slot] = 0 /\ queue' = [queue EXCEPT ![slot] = handed + 1]
      /\ Filled(queue', TRUE) /\ UNCHANGED <<retries, sent>>
  BY DEF QueuePacket
<1>2. queue'[slot] = handed + 1 /\ \A i \in Slot \ {slot} : queue'[i] = queue[i]
  BY <1>0, <1>1, SMT DEF NicTypes
<1>3. ASSUME NEW j \in Slot PROVE Allowed(j)' = Allowed(j)
  <2>1. npc # "send" /\ (npc' # "send" \/ slot' = 1) BY <1>0, <1>1, FilledGoes
  <2>2. Passed(j)' = Passed(j) BY <1>0, <2>1, PassedStays
  <2>3. QED BY <1>1, <2>2 DEF Allowed, Rounds
<1>4. \A p : Later(p)' = Later(p) /\ Overtakers(p)' = Overtakers(p)
  BY <1>1 DEF Later, Overtakers
<1>5. Cardinality(Later(handed + 1)) = 0
  <2>1. \A k \in 1..Len(sent) : ~(sent[k] > handed + 1) BY <1>0, SMT DEF NicTypes
  <2>2. Later(handed + 1) = {} BY <2>1 DEF Later
  <2>3. QED BY <2>2, FS_EmptySet
<1>6. \A i \in Slot, j \in Slot :
        i < j /\ retries'[j] = 0 /\ queue'[j] # 0 => queue'[i] < queue'[j]
  <2> SUFFICES ASSUME NEW i \in Slot, NEW j \in Slot, i < j, retries[j] = 0, queue'[j] # 0
               PROVE  queue'[i] < queue'[j]
    BY <1>1
  <2>1. CASE j = slot
    <3>1. i # j BY SMT DEF Slot
    <3>2. queue'[i] = queue[i] /\ queue'[j] = handed + 1 BY <1>2, <2>1, <3>1
    <3>3. QED BY <1>0, <3>2, SMT DEF NicTypes
  <2>2. CASE j # slot /\ i # slot BY <1>2, <2>2 DEF OvertakeInv
  <2>3. CASE j # slot /\ i = slot
    <3>1. j >= slot BY <2>3, SMT DEF Slot
    <3>2. queue[j] = 0 BY <1>0, <1>1, <3>1 DEF SlotsInv, Settled
    <3>3. QED BY <1>2, <2>3, <3>2
  <2>4. QED BY <2>1, <2>2, <2>3
<1>7. \A j \in Slot : queue'[j] # 0 => Cardinality(Later(queue'[j])) <= Allowed(j)
  <2> SUFFICES ASSUME NEW j \in Slot, queue'[j] # 0
               PROVE  Cardinality(Later(queue'[j])) <= Allowed(j)
    OBVIOUS
  <2>1. CASE j = slot
    <3>1. Allowed(j) \in Nat BY <1>0, AllowedBound DEF OvertakeInv
    <3>2. Cardinality(Later(queue'[j])) = 0 BY <1>2, <1>5, <2>1
    <3>3. QED BY <3>1, <3>2, SMT
  <2>2. CASE j # slot BY <1>2, <2>2 DEF OvertakeInv
  <2>3. QED BY <2>1, <2>2
<1>8. QED BY <1>1, <1>3, <1>4, <1>6, <1>7 DEF OvertakeInv, Rounds

\* A set of at most one more element.
LEMMA OneMore ==
  ASSUME NEW X, IsFiniteSet(X), NEW x, NEW Y, Y \subseteq X \cup {x}
  PROVE  /\ IsFiniteSet(Y) /\ Cardinality(X) \in Nat /\ Cardinality(Y) \in Nat
         /\ Cardinality(Y) <= Cardinality(X) + 1
<1>1. /\ IsFiniteSet(X \cup {x})
      /\ Cardinality(X \cup {x}) = IF x \in X THEN Cardinality(X) ELSE Cardinality(X) + 1
  BY FS_AddElement
<1>2. IsFiniteSet(Y) /\ Cardinality(Y) <= Cardinality(X \cup {x}) BY <1>1, FS_Subset
<1>3. Cardinality(X) \in Nat /\ Cardinality(Y) \in Nat BY <1>2, FS_CardinalityType
<1>4. QED BY <1>1, <1>2, <1>3, SMT

\* A try that failed: of its own round, all other slots have passed the packet.
LEMMA FailOvertakes == ASSUME NicInv, OvertakeInv, SendFails PROVE OvertakeInv'
<1>0. NicTypes /\ SlotsInv BY DEF NicInv
<1>1. npc = "send" /\ queue[slot] # 0 /\ NextSlot /\ UNCHANGED <<handed, sent>>
  BY DEF SendFails
<1>2. \A p : Later(p)' = Later(p) /\ Overtakers(p)' = Overtakers(p)
  BY <1>1 DEF Later, Overtakers
<1>a. PICK s \in Slot : s = slot BY <1>0 DEF NicTypes
<1>3. ASSUME NEW j \in Slot \ {s}, retries'[j] = retries[j], queue[j] # 0
      PROVE  Cardinality(Later(queue[j])) <= Allowed(j)'
  <2>1. Cardinality(Later(queue[j])) <= Allowed(j) /\ Allowed(j) \in Nat
    BY <1>0, <1>3, AllowedBound DEF OvertakeInv
  <2>2. Passed(j)' = Passed(j) + 1 BY <1>0, <1>1, <1>a, PassedMoves
  <2>3. IF retries[j] = 0 THEN Allowed(j)' = 0 ELSE Allowed(j)' = Allowed(j) + 1
    BY <1>0, <1>3, <2>2, AllowedMoves
  <2>4. Cardinality(Later(queue[j])) \in Nat BY <1>0, LaterFinite
  <2>5. retries[j] = 0 => Allowed(j) = 0 BY DEF Allowed
  <2>6. QED BY <2>1, <2>3, <2>4, <2>5, SMT
<1>4. CASE /\ ~(retries[slot] + 1 > maxRetriesBeforeDropping)
           /\ retries' = [retries EXCEPT ![slot] = @ + 1] /\ UNCHANGED <<queue, dropped>>
  <2>1. /\ slot \in Slot /\ retries'[slot] = retries[slot] + 1 /\ retries[slot] \in Nat
        /\ \A i \in Slot \ {slot} : retries'[i] = retries[i]
    BY <1>0, <1>4, SMT DEF NicTypes
  <2>2. \A i \in Slot : retries'[i] <= maxRetriesBeforeDropping
    <3>1. retries'[slot] <= maxRetriesBeforeDropping
      BY <1>4, <2>1, QueueAssumption, SMT
    <3>2. QED BY <2>1, <3>1 DEF OvertakeInv
  <2>3. \A i \in Slot, j \in Slot :
          i < j /\ retries'[j] = 0 /\ queue'[j] # 0 => queue'[i] < queue'[j]
    <3>1. retries'[slot] # 0 BY <2>1, SMT
    <3>2. QED BY <1>4, <2>1, <3>1 DEF OvertakeInv
  <2>4. Cardinality(Later(queue[s])) <= Allowed(s)'
    <3>1. PICK r \in Nat : r = retries[s] BY <1>a, <2>1
    <3>2. Passed(s) = queueSize - 1 /\ Passed(s)' = 0 BY <1>0, <1>1, <1>a, PassedMoves
    <3>3. Cardinality(Later(queue[s])) <= Allowed(s) BY <1>1, <1>a DEF OvertakeInv
    <3>4. Allowed(s)' = Rounds(r) + 0
      <4>1. retries'[s] = r + 1 /\ r + 1 # 0 /\ (r + 1) - 1 = r BY <1>a, <2>1, <3>1, SMT
      <4>2. Rounds(retries[s] - 1)' = Rounds(r) BY <4>1 DEF Rounds
      <4>3. QED BY <3>2, <4>1, <4>2 DEF Allowed
    <3>5. Allowed(s) = Rounds(r)
      <4>1. CASE r = 0 BY <3>1, <4>1, RoundsFacts DEF Allowed
      <4>2. CASE r # 0
        <5>1. r - 1 \in Nat /\ (r - 1) + 1 = r BY <4>2, SMT
        <5>2. Rounds(r) = Rounds(r - 1) + (queueSize - 1) BY <5>1, RoundsFacts
        <5>3. QED BY <3>1, <3>2, <4>2, <5>2 DEF Allowed
      <4>3. QED BY <4>1, <4>2
    <3>6. Rounds(r) \in Nat /\ Allowed(s)' = Allowed(s)
      <4>1. Rounds(r) \in Nat BY RoundsFacts
      <4>2. QED BY <3>4, <3>5, <4>1, SMT
    <3>7. QED BY <3>3, <3>6
  <2>5. \A j \in Slot : queue[j] # 0 => Cardinality(Later(queue[j])) <= Allowed(j)'
    BY <1>3, <1>a, <2>1, <2>4
  <2>6. QED BY <1>1, <1>2, <1>4, <2>2, <2>3, <2>5 DEF OvertakeInv, Rounds
<1>5. CASE markSent
  <2>1. /\ queue'[s] = 0 /\ retries'[s] = 0
        /\ \A i \in Slot \ {s} : queue'[i] = queue[i] /\ retries'[i] = retries[i]
    BY <1>0, <1>5, <1>a, SMT DEF NicTypes, markSent
  <2>2. \A i \in Slot : retries'[i] <= maxRetriesBeforeDropping
    BY <2>1, QueueAssumption, SMT DEF OvertakeInv
  <2>3. \A i \in Slot, j \in Slot :
          i < j /\ retries'[j] = 0 /\ queue'[j] # 0 => queue'[i] < queue'[j]
    <3> SUFFICES ASSUME NEW i \in Slot, NEW j \in Slot, i < j, retries'[j] = 0,
                        queue'[j] # 0
                 PROVE  queue'[i] < queue'[j]
      OBVIOUS
    <3>1. j # s /\ queue'[j] = queue[j] /\ retries[j] = 0 BY <2>1
    <3>2. CASE i = s BY <1>0, <2>1, <3>1, <3>2, SMT DEF NicTypes
    <3>3. CASE i # s BY <2>1, <3>1, <3>3 DEF OvertakeInv
    <3>4. QED BY <3>2, <3>3
  <2>4. \A j \in Slot : queue'[j] # 0 => Cardinality(Later(queue'[j])) <= Allowed(j)'
    BY <1>3, <2>1
  <2>5. QED BY <1>1, <1>2, <2>2, <2>3, <2>4 DEF OvertakeInv, Rounds
<1>6. QED BY <1>4, <1>5 DEF SendFails

\* A packet that is sent passes those that were tried before; it is earlier than
\* those that were not.
LEMMA SendOvertakes == ASSUME NicInv, OvertakeInv, SendEth PROVE OvertakeInv'
<1>0. NicTypes /\ SlotsInv /\ PlaceInv BY DEF NicInv
<1>1. /\ npc = "send" /\ queue[slot] # 0 /\ NextSlot
      /\ sent' = Append(sent, queue[slot]) /\ markSent
  BY DEF SendEth
<1>a. PICK s \in Slot : s = slot BY <1>0 DEF NicTypes
<1>b. PICK p \in 1..handed : p = queue[s] /\ p # 0
  BY <1>0, <1>1, <1>a, SMT DEF NicTypes
<1>c. PICK n \in Nat : n = Len(sent) BY <1>0, SMT DEF NicTypes
<1>2. /\ queue'[s] = 0 /\ retries'[s] = 0
      /\ \A i \in Slot \ {s} : queue'[i] = queue[i] /\ retries'[i] = retries[i]
  BY <1>0, <1>1, <1>a, SMT DEF NicTypes, markSent
<1>3. /\ Len(sent') = n + 1 /\ sent'[n + 1] = p
      /\ \A k \in 1..n : sent'[k] = sent[k]
  BY <1>0, <1>1, <1>a, <1>b, <1>c, SMT DEF NicTypes
<1>4. \A k \in 1..(n + 1) : k \in 1..n \/ k = n + 1 BY SMT
<1>5. ASSUME NEW q
      PROVE  /\ ~(p > q) => Later(q)' = Later(q)
             /\ Later(q)' \subseteq Later(q) \cup {n + 1}
  <2>1. \A k \in 1..n : k \in 1..(n + 1) BY SMT
  <2>2. /\ Later(q)' = {k \in 1..(n + 1) : sent'[k] > q}
        /\ Later(q) = {k \in 1..n : sent[k] > q}
    BY <1>3, <1>c DEF Later
  <2>3. QED BY <1>3, <1>4, <2>1, <2>2
<1>6. ASSUME NEW j \in Slot \ {s}, queue[j] # 0, NEW q, q = queue[j]
      PROVE  Cardinality(Later(q)') <= Allowed(j)'
  <2>0. q = queue[j] BY <1>6
  <2>1. Cardinality(Later(q)) <= Allowed(j) /\ Allowed(j) \in Nat
    BY <1>0, <1>6, <2>0, AllowedBound DEF OvertakeInv
  <2>2. Passed(j)' = Passed(j) + 1 BY <1>0, <1>1, <1>a, PassedMoves
  <2>3. IF retries[j] = 0 THEN Allowed(j)' = 0 ELSE Allowed(j)' = Allowed(j) + 1
    BY <1>0, <1>2, <2>2, AllowedMoves
  <2>4. IsFiniteSet(Later(q)) /\ Cardinality(Later(q)) \in Nat BY <1>0, LaterFinite
  <2>5. CASE retries[j] = 0
    <3>1. s < j
      <4>1. j < s \/ s < j BY SMT DEF Slot
      <4>2. ~(j < s) BY <1>0, <1>1, <1>6, <1>a, <2>5 DEF SlotsInv, Settled
      <4>3. QED BY <4>1, <4>2
    <3>2. p < q BY <1>6, <1>b, <2>0, <2>5, <3>1 DEF OvertakeInv
    <3>3. ~(p > q)
      <4>1. q \in Nat BY <1>0, <2>0, SMT DEF NicTypes
      <4>2. QED BY <3>2, <4>1, SMT
    <3>4. Later(q)' = Later(q) BY <1>5, <3>3
    <3>5. Allowed(j) = 0 BY <2>5 DEF Allowed
    <3>6. QED BY <2>1, <2>3, <2>5, <3>4, <3>5
  <2>6. CASE retries[j] # 0
    <3>1. /\ Cardinality(Later(q)') \in Nat
          /\ Cardinality(Later(q)') <= Cardinality(Later(q)) + 1
      <4>1. PICK X, Y : X = Later(q) /\ Y = Later(q)' OBVIOUS
      <4>2. IsFiniteSet(X) /\ Y \subseteq X \cup {n + 1} BY <1>5, <2>4, <4>1
      <4>3. Cardinality(Y) \in Nat /\ Cardinality(Y) <= Cardinality(X) + 1
        BY <4>2, OneMore
      <4>4. QED BY <4>1, <4>3
    <3>2. Allowed(j)' = Allowed(j) + 1 BY <2>3, <2>6
    <3>3. QED BY <2>1, <2>4, <3>1, <3>2, SMT
  <2>7. QED BY <2>5, <2>6
<1>7. ASSUME NEW k \in 1..(n + 1), NEW q, q = sent'[k]
      PROVE  Cardinality(Overtakers(q)') <= Rounds(maxRetriesBeforeDropping)
  <2>1. q = sent'[k] BY <1>7
  <2>2. DOMAIN sent = 1..n /\ DOMAIN sent' = 1..(n + 1)
    <3>1. NicTypes' BY SendEthKept DEF NicInv
    <3>2. QED BY <1>0, <1>3, <1>c, <3>1, SMT DEF NicTypes
  <2>3. Overtakers(q)' = {l \in 1..(n + 1) : /\ sent'[l] > q
                                            /\ \A m \in 1..(n + 1) : sent'[m] = q => l < m}
    BY <2>2 DEF Overtakers
  <2>4. CASE k \in 1..n
    <3>1. q = sent[k] BY <1>3, <2>1, <2>4
    <3>2. Overtakers(q) = {l \in 1..n : /\ sent[l] > q
                                       /\ \A m \in 1..n : sent[m] = q => l < m}
      BY <2>2 DEF Overtakers
    <3>3. Overtakers(q)' \subseteq Overtakers(q)
      <4>1. ASSUME NEW l \in Overtakers(q)' PROVE l \in Overtakers(q)
        <5>1. /\ l \in 1..(n + 1) /\ sent'[l] > q
              /\ \A m \in 1..(n + 1) : sent'[m] = q => l < m
          BY <2>3
        <5>2. l < k BY <2>1, <5>1
        <5>3. l \in 1..n BY <2>4, <5>1, <5>2, SMT
        <5>4. \A m \in 1..n : m \in 1..(n + 1) BY SMT
        <5>5. QED BY <1>3, <3>2, <5>1, <5>3, <5>4
      <4>2. QED BY <4>1
    <3>4. Cardinality(Overtakers(q)) <= Rounds(maxRetriesBeforeDropping)
      BY <1>c, <2>4, <3>1 DEF OvertakeInv
    <3>5. QED
      <4>1. IsFiniteSet(Overtakers(q))
        <5>1. IsFiniteSet(1..n) BY FS_Interval, SMT
        <5>2. Overtakers(q) \subseteq 1..n BY <3>2
        <5>3. QED BY <5>1, <5>2, FS_Subset
      <4>2. /\ Cardinality(Overtakers(q)') <= Cardinality(Overtakers(q))
            /\ IsFiniteSet(Overtakers(q)')
        <5>1. PICK X, Y : X = Overtakers(q) /\ Y = Overtakers(q)' OBVIOUS
        <5>2. IsFiniteSet(Y) /\ Cardinality(Y) <= Cardinality(X)
          BY <3>3, <4>1, <5>1, FS_Subset
        <5>3. QED BY <5>1, <5>2
      <4>3. /\ Cardinality(Overtakers(q)') \in Nat /\ Cardinality(Overtakers(q)) \in Nat
            /\ Rounds(maxRetriesBeforeDropping) \in Nat
        BY <4>1, <4>2, FS_CardinalityType, RoundsFacts, QueueAssumption
      <4>4. Cardinality(Overtakers(q)') <= Rounds(maxRetriesBeforeDropping)
        BY <3>4, <4>2, <4>3, SMT
      <4>5. QED BY <4>4
  <2>5. CASE k = n + 1
    <3>1. q = p BY <1>3, <2>1, <2>5
    <3>2. Overtakers(p)' \subseteq Later(p)
      <4>1. ASSUME NEW l \in Overtakers(p)' PROVE l \in Later(p)
        <5>1. /\ l \in 1..(n + 1) /\ sent'[l] > p
              /\ \A m \in 1..(n + 1) : sent'[m] = p => l < m
          BY <2>3, <3>1
        <5>2. l < n + 1 BY <1>3, <2>5, <5>1
        <5>3. l \in 1..n BY <5>1, <5>2, SMT
        <5>4. QED BY <1>3, <1>c, <5>1, <5>3 DEF Later
      <4>2. QED BY <4>1
    <3>3. /\ Cardinality(Later(p)) <= Allowed(s) /\ Allowed(s) \in Nat
          /\ Allowed(s) <= Rounds(maxRetriesBeforeDropping)
      BY <1>0, <1>b, AllowedBound DEF OvertakeInv
    <3>4. IsFiniteSet(Later(p)) /\ Cardinality(Later(p)) \in Nat BY <1>0, LaterFinite
    <3>5. /\ Cardinality(Overtakers(p)') <= Cardinality(Later(p))
          /\ Cardinality(Overtakers(p)') \in Nat
      <4>1. PICK X, Y : X = Later(p) /\ Y = Overtakers(p)' OBVIOUS
      <4>2. IsFiniteSet(Y) /\ Cardinality(Y) <= Cardinality(X)
        BY <3>2, <3>4, <4>1, FS_Subset
      <4>3. QED BY <4>1, <4>2, FS_CardinalityType
    <3>6. Rounds(maxRetriesBeforeDropping) \in Nat BY RoundsFacts, QueueAssumption
    <3>7. Cardinality(Overtakers(p)') <= Rounds(maxRetriesBeforeDropping)
      BY <3>3, <3>4, <3>5, <3>6, SMT
    <3>8. QED BY <3>1, <3>7
  <2>6. QED BY <1>4, <2>4, <2>5
<1>8. \A i \in Slot : retries'[i] <= maxRetriesBeforeDropping
  BY <1>2, QueueAssumption, SMT DEF OvertakeInv
<1>9. \A i \in Slot, j \in Slot :
        i < j /\ retries'[j] = 0 /\ queue'[j] # 0 => queue'[i] < queue'[j]
  <2> SUFFICES ASSUME NEW i \in Slot, NEW j \in Slot, i < j, retries'[j] = 0,
                      queue'[j] # 0
               PROVE  queue'[i] < queue'[j]
    OBVIOUS
  <2>1. j # s /\ queue'[j] = queue[j] /\ retries[j] = 0 BY <1>2
  <2>2. CASE i = s BY <1>0, <1>2, <2>1, <2>2, SMT DEF NicTypes
  <2>3. CASE i # s BY <1>2, <2>1, <2>3 DEF OvertakeInv
  <2>4. QED BY <2>2, <2>3
<1>10. \A j \in Slot : queue'[j] # 0 => Cardinality(Later(queue[j]))' <= Allowed(j)'
  <2> SUFFICES ASSUME NEW j \in Slot, queue'[j] # 0
               PROVE  Cardinality(Later(queue[j]))' <= Allowed(j)'
    OBVIOUS
  <2>1. j # s /\ queue'[j] = queue[j] BY <1>2
  <2>2. PICK q : q = queue[j] OBVIOUS
  <2>3. Cardinality(Later(q)') <= Allowed(j)' BY <1>6, <2>1, <2>2
  <2>4. QED BY <2>1, <2>2, <2>3 DEF Later
<1>11. \A k \in 1..(n + 1) :
         Cardinality(Overtakers(sent[k]))' <= Rounds(maxRetriesBeforeDropping)
  <2> SUFFICES ASSUME NEW k \in 1..(n + 1)
               PROVE  Cardinality(Overtakers(sent[k]))'
                        <= Rounds(maxRetriesBeforeDropping)
    OBVIOUS
  <2>1. PICK q : q = sent'[k] OBVIOUS
  <2>2. Cardinality(Overtakers(q)') <= Rounds(maxRetriesBeforeDropping) BY <1>7, <2>1
  <2>3. QED BY <2>1, <2>2 DEF Overtakers
<1>12. QED BY <1>3, <1>8, <1>9, <1>10, <1>11 DEF OvertakeInv, Rounds

LEMMA OvertakeKept == ASSUME NicInv, OvertakeInv, [NicNext]_nicVars PROVE OvertakeInv'
<1>0. NicTypes /\ SlotsInv BY DEF NicInv
<1>1. ASSUME UNCHANGED <<queue, retries, sent>>, npc # "send",
             npc' # "send" \/ slot' = 1
      PROVE  OvertakeInv'
  <2>1. \A j \in Slot : Passed(j)' = Passed(j) + 0
    <3>1. \A j \in Slot : Passed(j)' = Passed(j) BY <1>0, <1>1, PassedStays
    <3>2. \A j \in Slot : Passed(j) \in Nat BY <1>0, PassedType
    <3>3. \A x \in Nat : x + 0 = x BY SMT
    <3>4. QED BY <3>1, <3>2, <3>3
  <2>2. 0 \in Nat BY SMT
  <2>3. QED BY <1>0, <1>1, <2>1, <2>2, QuietOvertakes
<1>2. CASE StartNic \/ PollOne BY <1>1, <1>2 DEF StartNic, PollOne
<1>3. CASE SkipRetransmission \/ NoPacket
  <2>1. UNCHANGED <<queue, retries, sent>> /\ npc = "fill"
    <3>1. CASE SkipRetransmission BY <3>1 DEF SkipRetransmission
    <3>2. CASE NoPacket
      <4>1. slot \in Slot /\ slot >= slot BY <1>0, SMT DEF NicTypes, Slot
      <4>2. queue[slot] = 0 BY <1>0, <3>2, <4>1 DEF NoPacket, SlotsInv, Settled
      <4>3. [queue EXCEPT ![slot] = 0] = queue BY <1>0, <4>2, SMT DEF NicTypes
      <4>4. QED BY <3>2, <4>3 DEF NoPacket
    <3>3. QED BY <1>3, <3>1, <3>2
  <2>2. PICK more : Filled(queue', more) BY <1>3, <2>1 DEF NoPacket, SkipRetransmission
  <2>3. npc' # "send" \/ slot' = 1 BY <1>0, <2>2, FilledGoes
  <2>4. QED BY <1>1, <2>1, <2>3
<1>4. CASE QueuePacket BY <1>4, QueueOvertakes
<1>5. CASE SkipEmpty
  <2>1. /\ npc = "send" /\ queue[slot] = 0 /\ NextSlot
        /\ UNCHANGED <<queue, retries, sent>>
    BY <1>5 DEF SkipEmpty
  <2>2. \A j \in Slot : queue[j] # 0 => Passed(j)' = Passed(j) + 1
    BY <1>0, <2>1, PassedMoves
  <2>3. 1 \in Nat BY SMT
  <2>4. QED BY <1>0, <2>1, <2>2, <2>3, QuietOvertakes
<1>6. CASE SendEth BY <1>6, SendOvertakes
<1>7. CASE SendFails BY <1>7, FailOvertakes
<1>8. CASE UNCHANGED nicVars
  <2>1. UNCHANGED <<queue, retries, sent, npc, slot>> BY <1>8 DEF nicVars
  <2>2. QED BY <2>1 DEF OvertakeInv, Allowed, Passed, Rounds, Later, Overtakers
<1>9. QED BY <1>2, <1>3, <1>4, <1>5, <1>6, <1>7, <1>8 DEF NicNext

\* nicLoop: a packet that waits for another try is passed at most once by each
\* other slot for each of its retries, whatever the chip refuses, for queues of any
\* size and any number of retries.
THEOREM FewPacketsOvertake == Spec => []OvertakingIsBounded
<1>1. Init => NicInv /\ OvertakeInv
  <2> SUFFICES ASSUME Init PROVE NicInv /\ OvertakeInv
    OBVIOUS
  <2>1. NicInit BY DEF Init
  <2>2. NicInv BY <2>1, NicInitInv
  <2>3. \A i \in Slot : queue[i] = 0 /\ retries[i] = 0 BY <2>1 DEF NicInit
  <2>4. 1..Len(sent) = {} BY <2>1, SMT DEF NicInit
  <2>5. 0 <= maxRetriesBeforeDropping BY QueueAssumption, SMT
  <2>6. QED BY <2>2, <2>3, <2>4, <2>5 DEF OvertakeInv
<1>2. NicInv /\ OvertakeInv /\ [Next]_vars => (NicInv /\ OvertakeInv)'
  BY DeviceRunsNic, NicKept, OvertakeKept
<1>3. NicInv /\ OvertakeInv => OvertakingIsBounded
  <2> SUFFICES ASSUME NicInv, OvertakeInv, NEW p \in 1..handed, p \notin dropped
               PROVE  Cardinality(Overtakers(p))
                        <= (queueSize - 1) * maxRetriesBeforeDropping
    BY DEF OvertakingIsBounded
  <2>0. NicTypes /\ PlaceInv BY DEF NicInv
  <2>1. (queueSize - 1) * maxRetriesBeforeDropping = Rounds(maxRetriesBeforeDropping)
    BY QueueAssumption, SMT DEF Rounds
  <2>2. CASE \E k \in 1..Len(sent) : sent[k] = p BY <2>1, <2>2 DEF OvertakeInv
  <2>3. CASE ~\E k \in 1..Len(sent) : sent[k] = p
    <3>1. PICK j \in Slot : queue[j] = p BY <2>0, <2>3 DEF PlaceInv
    <3>2. p # 0 BY <2>0, SMT DEF NicTypes
    <3>3. DOMAIN sent = 1..Len(sent) BY <2>0, SMT DEF NicTypes
    <3>4. Overtakers(p) = Later(p) BY <2>3, <3>3 DEF Overtakers, Later
    <3>5. /\ Cardinality(Later(p)) <= Allowed(j) /\ Allowed(j) \in Nat
          /\ Allowed(j) <= Rounds(maxRetriesBeforeDropping)
      BY <2>0, <3>1, <3>2, AllowedBound DEF OvertakeInv
    <3>6. Cardinality(Later(p)) \in Nat BY <2>0, LaterFinite
    <3>7. Rounds(maxRetriesBeforeDropping) \in Nat BY RoundsFacts, QueueAssumption
    <3>8. Cardinality(Later(p)) <= Rounds(maxRetriesBeforeDropping)
      BY <3>5, <3>6, <3>7, SMT
    <3>9. QED BY <2>1, <3>4, <3>8
  <2>4. QED BY <2>2, <2>3
<1>4. QED BY <1>1, <1>2, <1>3, PTL DEF Spec
=============================================================================
