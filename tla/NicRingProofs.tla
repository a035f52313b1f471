---------------------------- MODULE NicRingProofs ---------------------------
(***************************************************************************)
(* Proofs about NicRing, for every number of descriptors and packets: its  *)
(* type invariant, that a set flag is a packet not yet taken, that card    *)
(* and driver never race for a descriptor, and that the ring implements    *)
(* SpscQueue but for the fairness.                                         *)
(*                                                                         *)
(* The argument.  Only the card sets a flag and only the driver clears it, *)
(* so what either may still read of a flag besides the newest store is a   *)
(* store of the other value (Fresh): a card that reads a clear flag, or a  *)
(* driver that reads a set one, has read the newest store, and with it the *)
(* clock of the other's last access (ClocksInv).  A set newest store means *)
(* a packet between the two threads' counts (FlagsAgree), and within a lap *)
(* descriptors are apart, so neither thread touches the other's.           *)
(***************************************************************************)
EXTENDS NicRing, NumberLemmas

IsSet(d) == ready[d][Newest(d)].value

\* A card that has a descriptor is less than a lap ahead of the driver, and is
\* ahead of a driver that has one.
WindowInv ==
  /\ nic # "idle" => Sent < Cleared + RingSize
  /\ cpu # "idle" => Cleared < Sent

\* Of the stores a thread may still read, only the newest has the value it
\* waits for.
Fresh ==
  \A d \in Descriptors :
    \A s \in 1..(Newest(d) - 1) :
      /\ nicSeen[d] <= s => ready[d][s].value
      /\ cpuSeen[d] <= s => ~ready[d][s].value

\* A set flag has released the write of its data, a clear one the read.
ClocksInv ==
  \A d \in Descriptors :
    /\ data[d] <= written /\ lastRead[d] <= read
    /\ IsSet(d) => data[d] <= ready[d][Newest(d)].clock
    /\ ~IsSet(d) => lastRead[d] <= ready[d][Newest(d)].clock

\* Every packet written and not cleared lies in its descriptor.
DataInv == \A n \in Cleared..(written - 1) : data[n % RingSize] = n + 1

ReceivedInv ==
  /\ Len(received) = Cleared
  /\ cpu = "copied" => outData = read

Inv ==
  /\ TypeOK /\ WindowInv /\ FlagsAgree /\ Fresh /\ ClocksInv
  /\ NoDataRace /\ DataInv /\ ReceivedInv

(***************************************************************************)
(* Descriptors and counts.                                                 *)
(***************************************************************************)

LEMMA SizeType == RingSize \in Nat /\ RingSize > 0
  BY RingAssumption

LEMMA DescriptorType == \A n \in Nat : n % RingSize \in Descriptors
  BY SizeType, DivMod DEF Descriptors

\* Two packets less than a lap apart have descriptors of their own.
LEMMA Apart ==
  \A a, b \in Nat : a < b /\ b < a + RingSize => a % RingSize # b % RingSize
<1> SUFFICES ASSUME NEW a \in Nat, NEW b \in Nat, a < b, b < a + RingSize,
                    a % RingSize = b % RingSize
             PROVE  FALSE
  OBVIOUS
<1>1. a + RingSize <= b
  BY SizeType, ModApart
<1> QED BY <1>1, SizeType

LEMMA Counts ==
  TypeOK => /\ Sent \in Nat /\ Cleared \in Nat
            /\ Slot = Sent % RingSize /\ Slot \in Descriptors
<1> SUFFICES ASSUME TypeOK
             PROVE  /\ Sent \in Nat /\ Cleared \in Nat /\ Slot = Sent % RingSize
  BY DescriptorType
<1> QED BY DEF TypeOK, Sent, Cleared, Slot

\* The counts as the invariant relates them.
LEMMA Window ==
  Inv => /\ Cleared \in Nat /\ Sent \in Nat
         /\ Cleared <= Sent /\ Sent <= Cleared + RingSize
         /\ head = Cleared % RingSize
<1> SUFFICES ASSUME Inv
             PROVE  Cleared <= Sent /\ Sent <= Cleared + RingSize
  BY Counts DEF Inv, FlagsAgree
<1>1. Sent - Cleared \in 0..RingSize
  BY DEF Inv, FlagsAgree
<1> QED BY <1>1, Counts, SizeType DEF Inv

\* A flag's newest store is one of its stores.
LEMMA NewestStore ==
  ASSUME TypeOK, NEW d \in Descriptors
  PROVE  /\ Newest(d) \in Nat /\ Newest(d) > 0
         /\ ready[d] \in Seq([value : BOOLEAN, clock : Nat])
         /\ \A s \in 1..Newest(d) : /\ ready[d][s].value \in BOOLEAN
                                    /\ ready[d][s].clock \in Nat
<1>1. ready[d] \in Seq([value : BOOLEAN, clock : Nat])
  BY DEF TypeOK
<1>2. Newest(d) \in Nat /\ nicSeen[d] \in Nat /\ nicSeen[d] \in 1..Newest(d)
  BY <1>1 DEF TypeOK, Newest
<1>3. \A s \in 1..Newest(d) : ready[d][s] \in [value : BOOLEAN, clock : Nat]
  <2> DEFINE S == [value : BOOLEAN, clock : Nat]  q == ready[d]
  <2>1. q \in Seq(S) => \A s \in 1..Len(q) : q[s] \in S
    <3> HIDE DEF S, q
    <3> QED OBVIOUS
  <2> QED BY <1>1, <2>1 DEF Newest
<1> QED BY <1>1, <1>2, <1>3

\* The card's descriptor is clear, also before the card has looked, unless the
\* ring is full.
LEMMA SlotClear ==
  Inv => (IsSet(Slot) <=> Sent = Cleared + RingSize)
<1> SUFFICES ASSUME Inv
             PROVE  (\E n \in Cleared..(Sent - 1) : n % RingSize = Slot)
                      <=> Sent = Cleared + RingSize
  BY Counts DEF Inv, FlagsAgree, IsSet
<1>1. ASSUME NEW n \in Cleared..(Sent - 1), n % RingSize = Slot
      PROVE  Sent = Cleared + RingSize
  <2>1. n \in Nat /\ n < Sent /\ Cleared <= n
    BY Window
  <2>2. n % RingSize = Sent % RingSize
    BY <1>1, Counts DEF Inv
  <2>3. ~(Sent < n + RingSize)
    BY <2>1, <2>2, Apart, Window
  <2> QED BY <2>1, <2>3, Window, SizeType
<1>2. ASSUME Sent = Cleared + RingSize
      PROVE  \E n \in Cleared..(Sent - 1) : n % RingSize = Slot
  <2>1. Cleared \in Cleared..(Sent - 1)
    BY <1>2, Window, SizeType
  <2>2. Cleared % RingSize = Slot
    BY <1>2, Window, SizeType, ModLap, Counts DEF Inv
  <2> QED BY <2>1, <2>2
<1> QED BY <1>1, <1>2

\* The driver's descriptor is set unless the ring is empty.
LEMMA HeadSet ==
  Inv => (IsSet(head) <=> Cleared < Sent)
<1> SUFFICES ASSUME Inv
             PROVE  (\E n \in Cleared..(Sent - 1) : n % RingSize = head)
                      <=> Cleared < Sent
  BY DEF Inv, FlagsAgree, IsSet, TypeOK
<1>1. ASSUME Cleared < Sent
      PROVE  \E n \in Cleared..(Sent - 1) : n % RingSize = head
  <2>1. Cleared \in Cleared..(Sent - 1)
    BY <1>1, Window
  <2> QED BY <2>1, Window
<1>2. ASSUME NEW n \in Cleared..(Sent - 1)
      PROVE  Cleared < Sent
  BY Window
<1> QED BY <1>1, <1>2

\* No descriptor is the card's and the driver's at once.
LEMMA OneOwner ==
  Inv /\ nic # "idle" /\ cpu # "idle" => Slot # head
<1> SUFFICES ASSUME Inv, nic # "idle", cpu # "idle"
             PROVE  Slot # head
  OBVIOUS
<1>1. Cleared < Sent /\ Sent < Cleared + RingSize
  BY DEF Inv, WindowInv
<1> QED BY <1>1, Window, Counts, Apart DEF Inv

\* What a store to flag d changes: the flag's newest store, and nothing else.
LEMMA Stored ==
  ASSUME TypeOK, NEW d \in Descriptors, NEW v \in BOOLEAN, NEW c \in Nat,
         Store(d, v, c)
  PROVE  /\ ready' \in [Descriptors -> Seq([value : BOOLEAN, clock : Nat])]
         /\ Newest(d)' = Newest(d) + 1
         /\ ready'[d][Newest(d) + 1] = [value |-> v, clock |-> c]
         /\ \A s \in 1..Newest(d) : ready'[d][s] = ready[d][s]
         /\ \A e \in Descriptors : e # d => ready'[e] = ready[e]
<1> DEFINE S == [value : BOOLEAN, clock : Nat]
           q == ready[d]
           e == [value |-> v, clock |-> c]
<1>1. q \in Seq(S) /\ e \in S
  BY DEF TypeOK
<1>2. ready' = [ready EXCEPT ![d] = Append(q, e)]
  BY DEF Store
<1>3. /\ Append(q, e) \in Seq(S) /\ Len(Append(q, e)) = Len(q) + 1
      /\ Append(q, e)[Len(q) + 1] = e
      /\ \A s \in 1..Len(q) : Append(q, e)[s] = q[s]
  <2> HIDE DEF S, q, e
  <2> QED BY <1>1
<1>4. ready \in [Descriptors -> Seq(S)]
  BY DEF TypeOK
<1>5. /\ ready' \in [Descriptors -> Seq(S)] /\ ready'[d] = Append(q, e)
      /\ \A f \in Descriptors : f # d => ready'[f] = ready[f]
  <2> HIDE DEF S, q, e
  <2> QED BY <1>2, <1>3, <1>4
<1> QED BY <1>3, <1>5 DEF Newest

(***************************************************************************)
(* The invariant is inductive: one lemma per action.                       *)
(***************************************************************************)

LEMMA InitInv == Init => Inv
<1> SUFFICES ASSUME Init
             PROVE  Inv
  OBVIOUS
<1> USE DEF Init
<1>1. \A d \in Descriptors :
        /\ ready[d] = <<[value |-> FALSE, clock |-> 0]>> /\ Newest(d) = 1
        /\ ready[d][1].value = FALSE /\ ready[d][1].clock = 0
  BY DEF Newest
<1>2. TypeOK
  <2>1. 0 \in Descriptors
    BY SizeType DEF Descriptors
  <2>2. <<[value |-> FALSE, clock |-> 0]>> \in Seq([value : BOOLEAN, clock : Nat])
    OBVIOUS
  <2> QED BY <1>1, <2>1, <2>2 DEF TypeOK, Damaged
<1>3. Sent = 0 /\ Cleared = 0
  BY DEF Sent, Cleared
<1>4. FlagsAgree
  <2>1. 0 % RingSize = 0
    BY SizeType
  <2> QED BY <1>1, <1>3, <2>1, SizeType DEF FlagsAgree
<1>5. WindowInv /\ NoDataRace /\ DataInv /\ ReceivedInv
  BY <1>3 DEF WindowInv, NoDataRace, DataInv, ReceivedInv
<1>6. Fresh /\ ClocksInv
  BY <1>1 DEF Fresh, ClocksInv, IsSet
<1> QED BY <1>2, <1>4, <1>5, <1>6 DEF Inv

\* A card that reads a clear flag has read its newest store.
LEMMA NicLoadStep ==
  ASSUME Inv, NEW s \in Nat, NicLoad(s)
  PROVE  Inv'
<1> USE DEF NicLoad, cpuVars
<1>1. /\ s \in 1..Newest(Slot) /\ s >= nicSeen[Slot] /\ Slot \in Descriptors
      /\ ready[Slot][s].value \in BOOLEAN /\ ready[Slot][s].clock \in Nat
      /\ Newest(Slot) \in Nat /\ nicSeen[Slot] \in Nat
  <2>1. Slot \in Descriptors
    BY Counts DEF Inv, TypeOK
  <2>2. /\ nicSeen[Slot] \in Nat /\ nicSeen[Slot] >= 1
        /\ s >= nicSeen[Slot] /\ s <= Newest(Slot)
    BY <2>1 DEF Inv, TypeOK, Newest
  <2>3. Newest(Slot) \in Nat /\ s \in 1..Newest(Slot)
    BY <2>1, <2>2, NewestStore DEF Inv
  <2> QED BY <2>1, <2>2, <2>3, NewestStore DEF Inv
<1>2. /\ nic' = "idle" \/ (nic' = "accepted" /\ ~ready[Slot][s].value)
      /\ Slot' = Slot /\ Sent' = Sent /\ Cleared' = Cleared
  BY DEF Refused, Slot, Sent, Cleared
<1>3. ASSUME nic' = "accepted"
      PROVE  s = Newest(Slot) /\ ~IsSet(Slot)
  <2>1. ~ready[Slot][s].value
    BY <1>2, <1>3
  <2>2. s = Newest(Slot)
    <3>1. ~(s < Newest(Slot))
      BY <1>1, <2>1 DEF Inv, Fresh
    <3> QED BY <1>1, <3>1
  <2> QED BY <2>1, <2>2 DEF IsSet
<1>4. /\ readsKnown' \in Nat
      /\ readsKnown' >= ready[Slot][s].clock
  <2>1. readsKnown \in Nat /\ readsKnown' = Later(ready[Slot][s].clock, readsKnown)
    BY DEF Inv, TypeOK
  <2> QED BY <1>1, <2>1 DEF Later
<1>5. TypeOK'
  BY <1>1, <1>2, <1>4 DEF Inv, TypeOK, Newest
<1>6. WindowInv'
  <2>1. nic' = "accepted" => Sent < Cleared + RingSize
    BY <1>3, SlotClear, Window, SizeType
  <2> QED BY <1>2, <2>1 DEF Inv, WindowInv
<1>7. FlagsAgree' /\ DataInv' /\ ReceivedInv'
  BY <1>2 DEF Inv, FlagsAgree, DataInv, ReceivedInv, Newest
<1>8. Fresh'
  <2>1. ASSUME NEW d \in Descriptors, NEW t \in Nat, nicSeen'[d] <= t
        PROVE  nicSeen[d] <= t
    BY <1>1, <2>1 DEF Inv, TypeOK
  <2> QED BY <2>1, NewestStore DEF Inv, Fresh, Newest
<1>9. ClocksInv'
  BY DEF Inv, ClocksInv, IsSet, Newest
<1>10. NoDataRace'
  <2>1. nic' = "accepted" => lastRead[Slot] <= readsKnown'
    <3> SUFFICES ASSUME nic' = "accepted"
                 PROVE  lastRead[Slot] <= readsKnown'
      OBVIOUS
    <3>1. lastRead[Slot] <= ready[Slot][s].clock
      BY <1>1, <1>3 DEF Inv, ClocksInv
    <3>2. lastRead[Slot] \in Nat
      BY <1>1 DEF Inv, TypeOK
    <3> HIDE DEF NicLoad
    <3> QED BY <1>1, <1>4, <3>1, <3>2
  <2> QED BY <1>2, <2>1 DEF Inv, NoDataRace
<1> QED BY <1>5, <1>6, <1>7, <1>8, <1>9, <1>10 DEF Inv

\* A driver that reads a set flag has read its newest store.
LEMMA CpuLoadStep ==
  ASSUME Inv, NEW s \in Nat, CpuLoad(s)
  PROVE  Inv'
<1> USE DEF CpuLoad, nicVars
<1>1. /\ s \in 1..Newest(head) /\ s >= cpuSeen[head] /\ head \in Descriptors
      /\ ready[head][s].value \in BOOLEAN /\ ready[head][s].clock \in Nat
      /\ Newest(head) \in Nat /\ cpuSeen[head] \in Nat
  <2>1. head \in Descriptors
    BY Counts DEF Inv, TypeOK
  <2>2. /\ cpuSeen[head] \in Nat /\ cpuSeen[head] >= 1
        /\ s >= cpuSeen[head] /\ s <= Newest(head)
    BY <2>1 DEF Inv, TypeOK, Newest
  <2>3. Newest(head) \in Nat /\ s \in 1..Newest(head)
    BY <2>1, <2>2, NewestStore DEF Inv
  <2> QED BY <2>1, <2>2, <2>3, NewestStore DEF Inv
<1>2. /\ cpu' = "idle" \/ (cpu' = "received" /\ ready[head][s].value)
      /\ Slot' = Slot /\ Sent' = Sent /\ Cleared' = Cleared
  BY DEF Slot, Sent, Cleared
<1>3. ASSUME cpu' = "received"
      PROVE  s = Newest(head) /\ IsSet(head)
  <2>1. ready[head][s].value
    BY <1>2, <1>3
  <2>2. s = Newest(head)
    <3>1. ~(s < Newest(head))
      BY <1>1, <2>1 DEF Inv, Fresh
    <3> QED BY <1>1, <3>1
  <2> QED BY <2>1, <2>2 DEF IsSet
<1>4. /\ writesKnown' \in Nat
      /\ writesKnown' >= ready[head][s].clock
  <2>1. writesKnown \in Nat /\ writesKnown' = Later(ready[head][s].clock, writesKnown)
    BY DEF Inv, TypeOK
  <2> QED BY <1>1, <2>1 DEF Later
<1>5. TypeOK'
  BY <1>1, <1>2, <1>4 DEF Inv, TypeOK, Newest
<1>6. WindowInv'
  <2>1. cpu' = "received" => Cleared < Sent
    BY <1>3, HeadSet
  <2> QED BY <1>2, <2>1 DEF Inv, WindowInv
<1>7. FlagsAgree' /\ DataInv' /\ ReceivedInv'
  BY <1>2 DEF Inv, FlagsAgree, DataInv, ReceivedInv, Newest
<1>8. Fresh'
  <2>1. ASSUME NEW d \in Descriptors, NEW t \in Nat, cpuSeen'[d] <= t
        PROVE  cpuSeen[d] <= t
    BY <1>1, <2>1 DEF Inv, TypeOK
  <2> QED BY <2>1, NewestStore DEF Inv, Fresh, Newest
<1>9. ClocksInv'
  BY DEF Inv, ClocksInv, IsSet, Newest
<1>10. NoDataRace'
  <2>1. cpu' = "received" => data[head] <= writesKnown'
    <3> SUFFICES ASSUME cpu' = "received"
                 PROVE  data[head] <= writesKnown'
      OBVIOUS
    <3>1. data[head] <= ready[head][s].clock
      BY <1>1, <1>3 DEF Inv, ClocksInv
    <3>2. data[head] \in Nat
      BY <1>1 DEF Inv, TypeOK
    <3> HIDE DEF CpuLoad
    <3> QED BY <1>1, <1>4, <3>1, <3>2
  <2> QED BY <1>2, <2>1 DEF Inv, NoDataRace
<1> QED BY <1>5, <1>6, <1>7, <1>8, <1>9, <1>10 DEF Inv

\* The write leaves every set flag's data, and what the driver has taken, alone.
LEMMA NicWriteStep == Inv /\ NicWrite => Inv'
<1> SUFFICES ASSUME Inv, NicWrite
             PROVE  Inv'
  OBVIOUS
<1> USE DEF NicWrite, cpuVars
<1>1. /\ Sent = written /\ written' = Sent + 1 /\ Sent' = Sent
      /\ Cleared' = Cleared /\ Slot' = Slot /\ Slot \in Descriptors
      /\ Sent < Cleared + RingSize
  BY Counts DEF Inv, TypeOK, WindowInv, Sent, Cleared, Slot
<1>2. /\ data' \in [Descriptors -> Nat] /\ data'[Slot] = Sent + 1
      /\ \A d \in Descriptors : d # Slot => data'[d] = data[d]
  BY <1>1, Counts DEF Inv, TypeOK
<1>3. ~IsSet(Slot)
  BY <1>1, SlotClear, Window, SizeType
<1>4. TypeOK'
  <2>1. written' \in Nat /\ written' > 0
    BY <1>1, Counts DEF Inv
  <2>2. \A d \in Descriptors : Newest(d)' = Newest(d)
    BY DEF Newest
  <2> QED BY <1>2, <2>1, <2>2 DEF Inv, TypeOK
<1>5. WindowInv' /\ FlagsAgree' /\ Fresh' /\ ReceivedInv'
  BY <1>1 DEF Inv, WindowInv, FlagsAgree, Fresh, ReceivedInv, Newest
<1>6. ASSUME NEW d \in Descriptors
      PROVE  /\ data'[d] <= written' /\ lastRead'[d] <= read'
             /\ IsSet(d)' => data'[d] <= ready'[d][Newest(d)'].clock
             /\ ~IsSet(d)' => lastRead'[d] <= ready'[d][Newest(d)'].clock
  <2>1. IsSet(d)' = IsSet(d) /\ Newest(d)' = Newest(d) /\ ready' = ready
    BY DEF IsSet, Newest
  <2>2. data[d] \in Nat /\ data[d] <= written
    BY DEF Inv, TypeOK, ClocksInv
  <2>3. data'[d] <= written'
    BY <1>1, <1>2, <2>2, Counts DEF Inv
  <2>4. IsSet(d) => data'[d] = data[d]
    BY <1>2, <1>3
  <2> QED BY <2>1, <2>3, <2>4 DEF Inv, ClocksInv
<1>7. ClocksInv'
  BY <1>6 DEF ClocksInv
<1>8. NoDataRace'
  <2>1. cpu = "received" => Slot # head
    BY OneOwner
  <2>2. cpu = "received" => data'[head] = data[head]
    BY <1>2, <2>1 DEF Inv, TypeOK
  <2> QED BY <2>2 DEF Inv, NoDataRace
<1>9. ASSUME NEW n \in Cleared..(written' - 1)
      PROVE  data'[n % RingSize] = n + 1
  <2>1. n \in Nat /\ n <= Sent
    BY <1>1, Window
  <2>2. CASE n = Sent
    BY <1>1, <1>2, <2>2, Counts DEF Inv
  <2>3. CASE n < Sent
    <3>1. n % RingSize # Slot
      BY <1>1, <2>1, <2>3, Window, Apart, Counts, SizeType DEF Inv
    <3>2. data[n % RingSize] = n + 1
      BY <1>1, <2>1, <2>3, Window DEF Inv, DataInv
    <3> QED BY <1>2, <2>1, <3>1, <3>2, DescriptorType
  <2> QED BY <2>1, <2>2, <2>3, Window
<1>10. DataInv'
  BY <1>1, <1>9 DEF DataInv
<1> QED BY <1>4, <1>5, <1>7, <1>8, <1>10 DEF Inv

\* The descriptor's flag was clear, so the driver's stale loads still are.
LEMMA NicReadyStep == Inv /\ NicReady => Inv'
<1> SUFFICES ASSUME Inv, NicReady
             PROVE  Inv'
  OBVIOUS
<1> USE DEF NicReady, cpuVars
<1>0. PICK d \in Descriptors : d = Slot
  BY Counts DEF Inv
<1>1. /\ written = Sent + 1 /\ Sent' = Sent + 1 /\ written' = written
      /\ Cleared' = Cleared /\ d = Sent % RingSize /\ d \in Descriptors
      /\ Sent < Cleared + RingSize
  BY <1>0, Counts DEF Inv, TypeOK, WindowInv, Sent, Cleared
<1>2. ~IsSet(d)
  BY <1>0, <1>1, SlotClear, Window, SizeType
<1>3. Store(d, TRUE, written)
  BY <1>0 DEF SetClock
<1>4. /\ ready' \in [Descriptors -> Seq([value : BOOLEAN, clock : Nat])]
      /\ Newest(d)' = Newest(d) + 1
      /\ ready'[d][Newest(d) + 1] = [value |-> TRUE, clock |-> written]
      /\ \A s \in 1..Newest(d) : ready'[d][s] = ready[d][s]
      /\ \A e \in Descriptors : e # d => ready'[e] = ready[e]
  BY <1>1, <1>3, Stored DEF Inv, TypeOK
<1>5. /\ nicSeen' \in [Descriptors -> Nat] /\ nicSeen'[d] = Newest(d) + 1
      /\ \A e \in Descriptors : e # d => nicSeen'[e] = nicSeen[e]
  <2>1. Newest(d) + 1 \in Nat
    BY NewestStore DEF Inv
  <2>2. nicSeen \in [Descriptors -> Nat]
    BY DEF Inv, TypeOK
  <2>3. nicSeen' = [nicSeen EXCEPT ![d] = Newest(d) + 1]
    BY <1>0
  <2> QED BY <2>1, <2>2, <2>3
<1>6. \A e \in Descriptors : e # d => Newest(e)' = Newest(e)
  BY <1>4 DEF Newest
<1>7. TypeOK'
  <2>1. \A e \in Descriptors :
          nicSeen'[e] \in 1..Newest(e)' /\ cpuSeen'[e] \in 1..Newest(e)'
    <3> SUFFICES ASSUME NEW e \in Descriptors
                 PROVE  nicSeen'[e] \in 1..Newest(e)' /\ cpuSeen'[e] \in 1..Newest(e)'
      OBVIOUS
    <3>1. /\ Newest(e) \in Nat /\ Newest(e) > 0 /\ nicSeen[e] \in 1..Newest(e)
          /\ cpuSeen[e] \in 1..Newest(e) /\ cpuSeen'[e] = cpuSeen[e]
      BY NewestStore DEF Inv, TypeOK
    <3>2. CASE e = d
      BY <1>4, <1>5, <3>1, <3>2
    <3>3. CASE e # d
      BY <1>5, <1>6, <3>1, <3>3
    <3> QED BY <3>2, <3>3
  <2> QED BY <1>1, <1>4, <1>5, <2>1 DEF Inv, TypeOK
<1>8. IsSet(d)' /\ \A e \in Descriptors : e # d => (IsSet(e)' <=> IsSet(e))
  BY <1>4, <1>6 DEF IsSet
<1>9. FlagsAgree'
  <2>1. Sent' - Cleared' \in 0..RingSize /\ head' = Cleared' % RingSize
    BY <1>1, Window, SizeType DEF Inv, FlagsAgree
  <2>2. ASSUME NEW e \in Descriptors
        PROVE  IsSet(e)' <=> \E n \in Cleared..Sent : n % RingSize = e
    <3>1. CASE e = d
      BY <1>1, <1>8, <3>1, Window
    <3>2. CASE e # d
      <4>1. IsSet(e) <=> \E n \in Cleared..(Sent - 1) : n % RingSize = e
        BY DEF Inv, FlagsAgree, IsSet
      <4>2. \A n \in Cleared..Sent : n # Sent => n \in Cleared..(Sent - 1)
        BY Window
      <4>3. \A n \in Cleared..(Sent - 1) : n \in Cleared..Sent
        BY Window
      <4> QED BY <1>1, <1>8, <3>2, <4>1, <4>2, <4>3
    <3> QED BY <3>1, <3>2
  <2>3. Sent' - 1 = Sent
    BY <1>1, Window
  <2> QED BY <1>1, <2>1, <2>2, <2>3 DEF FlagsAgree, IsSet
<1>10. WindowInv'
  BY <1>1, Window DEF Inv, WindowInv
<1>11. ASSUME NEW e \in Descriptors, NEW s \in 1..(Newest(e)' - 1)
       PROVE  /\ nicSeen'[e] <= s => ready'[e][s].value
              /\ cpuSeen'[e] <= s => ~ready'[e][s].value
  <2>1. CASE e # d
    BY <1>4, <1>5, <1>6, <2>1 DEF Inv, Fresh
  <2>2. CASE e = d
    <3>1. s \in 1..Newest(d) /\ ready'[d][s] = ready[d][s] /\ Newest(d) \in Nat
      BY <1>1, <1>4, <2>2, NewestStore DEF Inv
    <3>2. ~(nicSeen'[d] <= s)
      BY <1>5, <3>1
    <3>3. CASE s = Newest(d)
      BY <1>2, <2>2, <3>1, <3>2, <3>3 DEF IsSet
    <3>4. CASE s # Newest(d)
      <4>1. s \in 1..(Newest(d) - 1)
        BY <3>1, <3>4
      <4> QED BY <1>1, <2>2, <3>1, <3>2, <4>1 DEF Inv, Fresh
    <3> QED BY <3>3, <3>4
  <2> QED BY <2>1, <2>2
<1>12. Fresh'
  BY <1>11 DEF Fresh
<1>13. ClocksInv'
  <2>1. \A e \in Descriptors : /\ data[e] <= written /\ lastRead[e] <= read
    BY DEF Inv, ClocksInv
  <2>2. ready'[d][Newest(d)'].clock = written
    BY <1>4
  <2> QED BY <1>1, <1>4, <1>6, <1>8, <2>1, <2>2 DEF Inv, ClocksInv
<1>14. NoDataRace' /\ DataInv' /\ ReceivedInv'
  BY <1>1 DEF Inv, NoDataRace, DataInv, ReceivedInv
<1> QED BY <1>7, <1>9, <1>10, <1>12, <1>13, <1>14 DEF Inv

\* The driver reads the packet next in order, undamaged, as no race is open.
LEMMA CpuReadStep == Inv /\ CpuRead => Inv'
<1> SUFFICES ASSUME Inv, CpuRead
             PROVE  Inv'
  OBVIOUS
<1> USE DEF CpuRead, nicVars
<1>1. /\ Cleared = read /\ read' = Cleared + 1 /\ Cleared' = Cleared
      /\ Sent' = Sent /\ Slot' = Slot /\ head \in Descriptors
      /\ Cleared < Sent /\ Sent <= written
  BY Counts DEF Inv, TypeOK, WindowInv, Sent, Cleared, Slot
<1>2. data[head] = Cleared + 1 /\ data[head] <= writesKnown
  <2>1. Cleared \in Cleared..(written - 1)
    BY <1>1, Window DEF Inv, TypeOK
  <2> QED BY <2>1, Window DEF Inv, DataInv, NoDataRace
<1>3. outData' = Cleared + 1
  BY <1>2, Counts DEF Inv, TypeOK
<1>4. /\ lastRead' \in [Descriptors -> Nat] /\ lastRead'[head] = Cleared + 1
      /\ \A d \in Descriptors : d # head => lastRead'[d] = lastRead[d]
  BY <1>1, Counts DEF Inv, TypeOK
<1>5. IsSet(head)
  BY <1>1, HeadSet
<1>6. TypeOK'
  <2>1. read' \in Nat /\ read' > 0 /\ outData' \in Nat
    BY <1>1, <1>3, Counts DEF Inv
  <2>2. \A d \in Descriptors : Newest(d)' = Newest(d)
    BY DEF Newest
  <2> QED BY <1>4, <2>1, <2>2 DEF Inv, TypeOK
<1>7. WindowInv' /\ FlagsAgree' /\ Fresh' /\ DataInv' /\ ReceivedInv'
  BY <1>1, <1>3
  DEF Inv, WindowInv, FlagsAgree, Fresh, DataInv, ReceivedInv, Newest
<1>8. ASSUME NEW d \in Descriptors
      PROVE  /\ data'[d] <= written' /\ lastRead'[d] <= read'
             /\ IsSet(d)' => data'[d] <= ready'[d][Newest(d)'].clock
             /\ ~IsSet(d)' => lastRead'[d] <= ready'[d][Newest(d)'].clock
  <2>1. IsSet(d)' = IsSet(d) /\ Newest(d)' = Newest(d) /\ ready' = ready
    BY DEF IsSet, Newest
  <2>2. lastRead[d] \in Nat /\ lastRead[d] <= read
    BY DEF Inv, TypeOK, ClocksInv
  <2>3. lastRead'[d] <= read'
    BY <1>1, <1>4, <2>2, Counts DEF Inv
  <2>4. ~IsSet(d) => lastRead'[d] = lastRead[d]
    BY <1>4, <1>5
  <2> QED BY <2>1, <2>3, <2>4 DEF Inv, ClocksInv
<1>9. ClocksInv'
  BY <1>8 DEF ClocksInv
<1>10. NoDataRace'
  <2>1. nic = "accepted" => Slot # head
    BY OneOwner
  <2>2. nic = "accepted" => lastRead'[Slot] = lastRead[Slot]
    BY <1>4, <2>1, Counts DEF Inv
  <2> QED BY <1>1, <2>2 DEF Inv, NoDataRace
<1> QED BY <1>6, <1>7, <1>9, <1>10 DEF Inv

\* The descriptor's flag was set, so the card's stale loads still are.
LEMMA CpuClearStep == Inv /\ CpuClear => Inv'
<1> SUFFICES ASSUME Inv, CpuClear
             PROVE  Inv'
  OBVIOUS
<1> USE DEF CpuClear, nicVars
<1>0. PICK d \in Descriptors : d = head
  BY DEF Inv, TypeOK
<1>1. /\ read = Cleared + 1 /\ Cleared' = Cleared + 1 /\ read' = read
      /\ Sent' = Sent /\ Slot' = Slot /\ d = Cleared % RingSize
      /\ Cleared < Sent
  BY <1>0, Counts, Window DEF Inv, TypeOK, WindowInv, Sent, Cleared, Slot
<1>2. IsSet(d)
  BY <1>0, <1>1, HeadSet
<1>3. Store(d, FALSE, read)
  BY <1>0 DEF ClearClock
<1>4. /\ ready' \in [Descriptors -> Seq([value : BOOLEAN, clock : Nat])]
      /\ Newest(d)' = Newest(d) + 1
      /\ ready'[d][Newest(d) + 1] = [value |-> FALSE, clock |-> read]
      /\ \A s \in 1..Newest(d) : ready'[d][s] = ready[d][s]
      /\ \A e \in Descriptors : e # d => ready'[e] = ready[e]
  BY <1>1, <1>3, Stored DEF Inv, TypeOK
<1>5. /\ cpuSeen' \in [Descriptors -> Nat] /\ cpuSeen'[d] = Newest(d) + 1
      /\ \A e \in Descriptors : e # d => cpuSeen'[e] = cpuSeen[e]
  <2>1. Newest(d) + 1 \in Nat /\ cpuSeen \in [Descriptors -> Nat]
    <3>1. Newest(d) \in Nat
      BY NewestStore DEF Inv
    <3> QED BY <3>1 DEF Inv, TypeOK
  <2>2. cpuSeen' = [cpuSeen EXCEPT ![d] = Newest(d) + 1]
    BY <1>0
  <2> QED BY <2>1, <2>2
<1>6. \A e \in Descriptors : e # d => Newest(e)' = Newest(e)
  BY <1>4 DEF Newest
<1>7. head' = Cleared' % RingSize
  BY <1>0, <1>1, Window, SizeType, ModSuccessor
<1>8. TypeOK'
  <2>1. ASSUME NEW e \in Descriptors
        PROVE  nicSeen'[e] \in 1..Newest(e)' /\ cpuSeen'[e] \in 1..Newest(e)'
    <3>1. /\ Newest(e) \in Nat /\ Newest(e) > 0 /\ cpuSeen[e] \in 1..Newest(e)
          /\ nicSeen[e] \in 1..Newest(e) /\ nicSeen'[e] = nicSeen[e]
      BY NewestStore DEF Inv, TypeOK
    <3>2. CASE e = d
      BY <1>4, <1>5, <3>1, <3>2
    <3>3. CASE e # d
      BY <1>5, <1>6, <3>1, <3>3
    <3> QED BY <3>2, <3>3
  <2>2. head' \in Descriptors
    BY <1>1, <1>7, Window, DescriptorType
  <2>3. received' \in Seq(Nat)
    BY DEF Inv, TypeOK
  <2> QED BY <1>1, <1>4, <1>5, <2>1, <2>2, <2>3 DEF Inv, TypeOK
<1>9. ~IsSet(d)' /\ \A e \in Descriptors : e # d => (IsSet(e)' <=> IsSet(e))
  BY <1>4, <1>6 DEF IsSet
<1>10. FlagsAgree'
  <2>1. Sent' - Cleared' \in 0..RingSize
    BY <1>1, Window, SizeType
  <2>2. ASSUME NEW e \in Descriptors
        PROVE  IsSet(e)' <=> \E n \in (Cleared + 1)..(Sent - 1) : n % RingSize = e
    <3>1. CASE e = d
      <4>1. ASSUME NEW n \in (Cleared + 1)..(Sent - 1)
            PROVE  n % RingSize # d
        <5>1. n \in Nat /\ Cleared < n /\ n < Cleared + RingSize
          BY Window, SizeType
        <5> QED BY <1>1, <5>1, Window, Apart
      <4> QED BY <1>9, <3>1, <4>1
    <3>2. CASE e # d
      <4>1. IsSet(e) <=> \E n \in Cleared..(Sent - 1) : n % RingSize = e
        BY DEF Inv, FlagsAgree, IsSet
      <4>2. \A n \in Cleared..(Sent - 1) :
              n # Cleared => n \in (Cleared + 1)..(Sent - 1)
        BY Window
      <4>3. \A n \in (Cleared + 1)..(Sent - 1) : n \in Cleared..(Sent - 1)
        BY Window
      <4> QED BY <1>1, <1>9, <3>2, <4>1, <4>2, <4>3
    <3> QED BY <3>1, <3>2
  <2> QED BY <1>1, <1>7, <2>1, <2>2 DEF FlagsAgree, IsSet
<1>11. WindowInv'
  BY <1>1, Window, SizeType DEF Inv, WindowInv
<1>12. ASSUME NEW e \in Descriptors, NEW s \in 1..(Newest(e)' - 1)
       PROVE  /\ nicSeen'[e] <= s => ready'[e][s].value
              /\ cpuSeen'[e] <= s => ~ready'[e][s].value
  <2>1. CASE e # d
    BY <1>4, <1>5, <1>6, <2>1 DEF Inv, Fresh
  <2>2. CASE e = d
    <3>1. s \in 1..Newest(d) /\ ready'[d][s] = ready[d][s] /\ Newest(d) \in Nat
      BY <1>1, <1>4, <2>2, NewestStore DEF Inv
    <3>2. ~(cpuSeen'[d] <= s)
      BY <1>5, <3>1
    <3>3. CASE s = Newest(d)
      BY <1>2, <2>2, <3>1, <3>2, <3>3 DEF IsSet
    <3>4. CASE s # Newest(d)
      <4>1. s \in 1..(Newest(d) - 1)
        BY <3>1, <3>4
      <4> QED BY <1>1, <2>2, <3>1, <3>2, <4>1 DEF Inv, Fresh
    <3> QED BY <3>3, <3>4
  <2> QED BY <2>1, <2>2
<1>13. Fresh'
  BY <1>12 DEF Fresh
<1>14. ClocksInv'
  <2>1. \A e \in Descriptors : /\ data[e] <= written /\ lastRead[e] <= read
    BY DEF Inv, ClocksInv
  <2>2. ready'[d][Newest(d)'].clock = read
    BY <1>4
  <2> QED BY <1>1, <1>4, <1>6, <1>9, <2>1, <2>2 DEF Inv, ClocksInv
<1>15. NoDataRace'
  BY <1>1 DEF Inv, NoDataRace
<1>16. DataInv'
  <2>1. Cleared \in Nat /\ written \in Nat
    BY Window DEF Inv, TypeOK
  <2>2. \A n \in (Cleared + 1)..(written - 1) : n \in Cleared..(written - 1)
    BY <2>1
  <2> QED BY <1>1, <2>2 DEF Inv, DataInv
<1>17. ReceivedInv'
  <2>1. Len(received') = Len(received) + 1
    BY DEF Inv, TypeOK
  <2> QED BY <1>1, <2>1 DEF Inv, ReceivedInv
<1> QED BY <1>8, <1>10, <1>11, <1>13, <1>14, <1>15, <1>16, <1>17 DEF Inv

LEMMA NextInv == Inv /\ [Next]_vars => Inv'
<1> SUFFICES ASSUME Inv, [Next]_vars
             PROVE  Inv'
  OBVIOUS
<1>1. ASSUME NEW s \in Stores, NicLoad(s)
      PROVE  Inv'
  BY <1>1, NicLoadStep, TotalAssumption DEF Stores
<1>2. ASSUME NEW s \in Stores, CpuLoad(s)
      PROVE  Inv'
  BY <1>2, CpuLoadStep, TotalAssumption DEF Stores
<1>3. CASE NicWrite
  BY <1>3, NicWriteStep
<1>4. CASE NicReady
  BY <1>4, NicReadyStep
<1>5. CASE CpuRead
  BY <1>5, CpuReadStep
<1>6. CASE CpuClear
  BY <1>6, CpuClearStep
<1>7. CASE UNCHANGED vars
  BY <1>7
  DEF Inv, TypeOK, WindowInv, FlagsAgree, Fresh, ClocksInv, NoDataRace, DataInv,
      ReceivedInv, IsSet, Newest, Sent, Cleared, Slot, vars, nicVars, cpuVars
<1> QED BY <1>1, <1>2, <1>3, <1>4, <1>5, <1>6, <1>7 DEF Next, Finished

(***************************************************************************)
(* The theorems.                                                           *)
(***************************************************************************)

LEMMA Invariant == Spec => []Inv
<1>1. Init => Inv
  BY InitInv
<1>2. Inv /\ [Next]_vars => Inv'
  BY NextInv
<1> QED BY <1>1, <1>2, PTL DEF Spec

\* Every variable of the ring and of its two threads keeps its type.
THEOREM TypeCorrect == Spec => []TypeOK
<1>1. Inv => TypeOK
  BY DEF Inv
<1> QED BY <1>1, Invariant, PTL

\* KernelBypass.hpp's two handoffs through the flag are enough: card and driver
\* never access a descriptor's data without one of them in between.
THEOREM RaceFree == Spec => []NoDataRace
<1>1. Inv => NoDataRace
  BY DEF Inv
<1> QED BY <1>1, Invariant, PTL

\* A flag is set exactly while its descriptor holds a packet the driver has not
\* given back, and the packets lie in order from the driver's head on.
THEOREM FlagsAlwaysAgree == Spec => []FlagsAgree
<1>1. Inv => FlagsAgree
  BY DEF Inv
<1> QED BY <1>1, Invariant, PTL

(***************************************************************************)
(* The ring implements the bounded queue, but for its fairness.            *)
(***************************************************************************)

\* Neither thread takes up a packet past the last one.
Bounded ==
  /\ written <= Total
  /\ nic = "accepted" => written < Total

LEMMA BoundedInvariant == Spec => [](Inv /\ Bounded)
<1>1. Init => Bounded
  BY TotalAssumption DEF Init, Bounded
<1>2. ASSUME Inv, Bounded, [Next]_vars
      PROVE  Bounded'
  <2>1. written \in Nat /\ Total \in Nat
    BY <1>2, TotalAssumption DEF Inv, TypeOK
  <2>2. ASSUME NEW s \in Stores, NicLoad(s)
        PROVE  Bounded'
    BY <1>2, <2>1, <2>2 DEF Bounded, NicLoad
  <2>3. CASE NicWrite
    BY <1>2, <2>1, <2>3 DEF Bounded, NicWrite
  <2>4. CASE NicReady
    BY <1>2, <2>4 DEF Bounded, NicReady
  <2>5. CASE UNCHANGED nicVars
    BY <1>2, <2>5 DEF Bounded, nicVars
  <2> QED
    BY <1>2, <2>2, <2>3, <2>4, <2>5
    DEF Next, Finished, CpuLoad, CpuRead, CpuClear, vars
<1> QED BY <1>1, <1>2, Invariant, PTL DEF Spec

\* The queue holds packets Cleared + 1 to Sent.
InFlightNumbered == InFlight = Numbered(Cleared, Sent)

LEMMA InFlightIsNumbered == Inv => InFlightNumbered
<1> SUFFICES ASSUME Inv, NEW k \in 1..(Sent - Cleared)
             PROVE  data[(Cleared + k - 1) % RingSize] = Cleared + k
  BY DEF InFlightNumbered, InFlight, Numbered
<1>1. Sent <= written /\ written \in Nat
  BY DEF Inv, TypeOK, Sent
<1>2. Cleared + k - 1 \in Cleared..(written - 1)
  BY <1>1, Window
<1>3. data[(Cleared + k - 1) % RingSize] = (Cleared + k - 1) + 1
  BY <1>2 DEF Inv, DataInv
<1> QED BY <1>3, Window

\* KernelBypass.hpp is a queue of at most RingSize packets: the store that sets
\* a flag appends one to a queue that has room, the store that clears one hands
\* over the oldest, and nothing else either thread does changes the queue.
THEOREM ImplementsQueueSafely ==
  Spec => Queue!Init /\ [][Queue!Next]_(Queue!queueVars)
<1>1. Init => Queue!Init
  <2> SUFFICES ASSUME Init
               PROVE  InFlight = <<>> /\ received = <<>>
    BY DEF Queue!Init
  <2>1. Sent = 0 /\ Cleared = 0
    BY DEF Init, Sent, Cleared
  <2> QED BY <2>1 DEF Init, InFlight
<1>2. ASSUME Inv, Bounded, InFlightNumbered, InFlightNumbered', [Next]_vars
      PROVE  [Queue!Next]_(Queue!queueVars)
  <2>1. CASE NicReady
    <3>1. /\ written = Sent + 1 /\ Sent' = Sent + 1 /\ Cleared' = Cleared
          /\ received' = received
      BY <2>1, <1>2, Counts DEF NicReady, cpuVars, Inv, TypeOK, Sent, Cleared
    <3>2. Sent < Total /\ Sent - Cleared < RingSize
      BY <2>1, <1>2, <3>1, Window, SizeType, TotalAssumption
      DEF NicReady, Bounded, Inv, WindowInv
    <3>3. /\ Len(InFlight) = Sent - Cleared
          /\ InFlight' = Append(InFlight, Sent + 1)
      BY <1>2, <3>1, Window, NumberedQueue DEF InFlightNumbered
    <3>4. Len(received) + Len(InFlight) + 1 = Sent + 1
      BY <1>2, <3>3, Window DEF Inv, ReceivedInv
    <3>5. Queue!Send
      BY <1>2, <3>1, <3>2, <3>3, <3>4, Window, TotalAssumption DEF Queue!Send
    <3> QED BY <3>5 DEF Queue!Next
  <2>2. CASE CpuClear
    <3>1. /\ read = Cleared + 1 /\ Sent' = Sent /\ Cleared' = Cleared + 1
          /\ received' = Append(received, outData)
      BY <2>2, <1>2, Counts DEF CpuClear, nicVars, Inv, TypeOK, Sent, Cleared
    <3>2. Cleared < Sent /\ outData = Cleared + 1
      BY <2>2, <1>2, <3>1 DEF CpuClear, Inv, WindowInv, ReceivedInv
    <3>3. InFlight # <<>> /\ Head(InFlight) = Cleared + 1 /\ InFlight' = Tail(InFlight)
      BY <1>2, <3>1, <3>2, Window, NumberedQueue DEF InFlightNumbered
    <3>4. Queue!Receive
      BY <3>1, <3>2, <3>3 DEF Queue!Receive
    <3> QED BY <3>4 DEF Queue!Next
  <2>3. CASE ~NicReady /\ ~CpuClear
    <3>1. Sent' = Sent /\ Cleared' = Cleared /\ received' = received
      BY <2>3, <1>2
      DEF Inv, TypeOK, Next, Finished, NicLoad, NicWrite, CpuLoad, CpuRead, vars,
          nicVars, cpuVars, Sent, Cleared
    <3> QED BY <3>1, <1>2 DEF Queue!queueVars, InFlightNumbered
  <2> QED BY <2>1, <2>2, <2>3
<1>3. Inv => InFlightNumbered
  BY InFlightIsNumbered
<1> QED BY <1>1, <1>2, <1>3, BoundedInvariant, PTL DEF Spec
=============================================================================
