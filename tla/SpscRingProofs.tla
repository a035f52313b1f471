--------------------------- MODULE SpscRingProofs ---------------------------
(***************************************************************************)
(* Proofs about SpscRing, for every ring size, index width and number of   *)
(* messages: its type invariant, that the ring has no data race, gives no  *)
(* slot to both threads and hands the messages over in order, and that it  *)
(* implements SpscQueue but for the fairness.                              *)
(*                                                                         *)
(* The argument.  Number the stores of head and tail from 0: store n of    *)
(* head is made when n messages are published, and its release publishes   *)
(* exactly n slot writes (StoresInv).  So a thread that has read store n   *)
(* of the other's index knows n accesses (ViewInv), and the numbers seen   *)
(* are ordered:                                                            *)
(*   tail seen <= consumed <= head seen <= published <= tail seen + Size.  *)
(* Slot numbers that agree are at least Size apart (SlotsApart), so inside *)
(* that window every message has a slot of its own (BufferInv, ReadInv).   *)
(***************************************************************************)
EXTENDS SpscRing, NumberLemmas

(***************************************************************************)
(* The indices of store number a and store number b of head and tail.      *)
(***************************************************************************)

LEMMA Constants == Size \in Nat /\ Size > 0 /\ Modulus \in Nat /\ Modulus > Size
  BY SizeAssumption, ModulusAssumption

\* How often the ring is gone round before an index wraps.
Laps == Modulus \div Size

LEMMA WholeLaps == Laps \in Int /\ Modulus = Laps * Size
<1>1. Laps \in Int /\ Modulus = Laps * Size + (Modulus % Size)
  BY Constants, DivMod DEF Laps
<1> QED BY <1>1, Constants, ModulusAssumption

LEMMA WrapType == \A a \in Nat : Wrap(a) \in 0..(Modulus - 1)
  BY Constants, DivMod DEF Wrap

LEMMA WrapSuccessor == \A a \in Nat : Wrap(Wrap(a) + 1) = Wrap(a + 1)
<1> SUFFICES ASSUME NEW a \in Nat
             PROVE  ((a % Modulus) + 1) % Modulus = (a + 1) % Modulus
  BY DEF Wrap
<1>1. Modulus \in Nat /\ Modulus > 0
  BY Constants
<1> QED BY <1>1, ModSuccessor

LEMMA SlotType == \A a \in Nat : SlotOf(a) \in Slots
  BY Constants DEF SlotOf, Slots

\* The wrap-around keeps the slot, because Size divides Modulus.
LEMMA SlotOfWrap == \A a \in Nat : SlotOf(Wrap(a)) = SlotOf(a)
<1> SUFFICES ASSUME NEW a \in Nat
             PROVE  (a % Modulus) % Size = a % Size
  BY DEF SlotOf, Wrap
<1> DEFINE p == a \div Modulus    r == a % Modulus
           q == r \div Size       s == r % Size
<1>1. p \in Int /\ r \in 0..(Modulus - 1) /\ a = p * Modulus + r
  BY Constants, DivMod
<1>2. q \in Int /\ s \in 0..(Size - 1) /\ r = q * Size + s
  <2>1. r \in Int
    BY <1>1, Constants
  <2> HIDE DEF r
  <2> QED BY <2>1, Constants, DivMod
<1> HIDE DEF p, q
<1>3. p * Laps + q \in Int
  BY <1>1, <1>2, WholeLaps
<1>4. p * Modulus = (p * Laps) * Size
  BY <1>1, Constants, WholeLaps
<1>5. (p * Laps + q) * Size = (p * Laps) * Size + q * Size
  BY <1>1, <1>2, Constants, WholeLaps
<1>6. a = (p * Laps + q) * Size + s
  <2> HIDE DEF r, s
  <2> QED BY <1>1, <1>2, <1>4, <1>5, Constants
<1>7. a % Size = s
  <2> HIDE DEF r, s
  <2> DEFINE k == p * Laps + q
  <2>1. k \in Int /\ a = k * Size + s
    BY <1>3, <1>6
  <2> HIDE DEF k
  <2>2. (k * Size + s) % Size = s
    BY <2>1, <1>2, Constants, ModUnique
  <2> QED BY <2>1, <2>2
<1> QED BY <1>7

\* The wrapped difference of two store numbers is their distance.
LEMMA Distance ==
  \A a, b \in Nat : b <= a /\ a - b <= Size
                    => (Wrap(a) - Wrap(b)) % Modulus = a - b
<1> SUFFICES ASSUME NEW a \in Nat, NEW b \in Nat, b <= a, a - b <= Size
             PROVE  ((a % Modulus) - (b % Modulus)) % Modulus = a - b
  BY DEF Wrap
<1> DEFINE p == a \div Modulus  r == a % Modulus
           q == b \div Modulus  s == b % Modulus
<1>1. /\ p \in Int /\ r \in 0..(Modulus - 1) /\ a = p * Modulus + r
      /\ q \in Int /\ s \in 0..(Modulus - 1) /\ b = q * Modulus + s
  BY Constants, DivMod
<1> HIDE DEF p, q, r, s
<1>2. q - p \in Int /\ (q - p) * Modulus = q * Modulus - p * Modulus
  BY <1>1, Constants
<1>3. r - s = (q - p) * Modulus + (a - b)
  BY <1>1, <1>2, Constants
<1> DEFINE k == q - p  d == a - b
<1>4. k \in Int /\ d \in Nat /\ d < Modulus /\ r - s = k * Modulus + d
  BY <1>2, <1>3, Constants
<1> HIDE DEF k, d
<1>5. (k * Modulus + d) % Modulus = d
  BY <1>4, Constants, ModUnique
<1>6. (r - s) % Modulus = d
  BY <1>4, <1>5
<1> QED BY <1>6 DEF r, s, d

\* Distinct store numbers of one slot are at least Size apart.
LEMMA SlotsApart ==
  \A a, b \in Nat : SlotOf(a) = SlotOf(b) /\ a < b => a + Size <= b
  BY Constants, ModApart DEF SlotOf

(***************************************************************************)
(* What the invariant says of the values the two threads compute with.     *)
(***************************************************************************)

Inv == TypeOK /\ IndicesAgree

NumberedStore(n) == [value |-> Wrap(n), clock |-> n]

LEMMA Counts == TypeOK => Published \in Nat /\ Consumed \in Nat
<1>1. TypeOK => Published \in Nat
  BY DEF TypeOK, StoresOf, Published, Newest
<1>2. TypeOK => Consumed \in Nat
  BY DEF TypeOK, StoresOf, Consumed, Newest
<1> QED BY <1>1, <1>2

\* The newest stores, and the slots the threads are at.
LEMMA NewestValues ==
  TypeOK /\ StoresInv =>
    /\ Value(head) = Wrap(Published) /\ SlotOf(Value(head)) = SlotOf(Published)
    /\ Value(tail) = Wrap(Consumed) /\ SlotOf(Value(tail)) = SlotOf(Consumed)
<1> SUFFICES ASSUME TypeOK, StoresInv
             PROVE  Value(head) = Wrap(Published) /\ Value(tail) = Wrap(Consumed)
  BY Counts, SlotOfWrap
<1>1. head[Published + 1] = NumberedStore(Published)
  BY Counts DEF StoresInv, NumberedStore
<1>2. tail[Consumed + 1] = NumberedStore(Consumed)
  BY Counts DEF StoresInv, NumberedStore
<1>3. Newest(head) = Published + 1 /\ Newest(tail) = Consumed + 1
  BY DEF TypeOK, StoresOf, Published, Consumed, Newest
<1> QED BY <1>1, <1>2, <1>3 DEF Value, NumberedStore

\* claim()'s test is exact for the tail the producer knows.
LEMMA FullTest ==
  ASSUME TypeOK, StoresInv, NEW t \in Nat,
         t <= Published, Published <= t + Size
  PROVE  LooksFull(Value(head), Wrap(t)) <=> Published = t + Size
<1>1. (Wrap(Published) - Wrap(t)) % Modulus = Published - t
  <2>1. Published - t <= Size
    BY Counts, Constants
  <2> QED BY <2>1, Counts, Distance
<1> QED BY <1>1, NewestValues, Counts, Constants DEF LooksFull

\* peek()'s test is exact for the head the consumer knows.
LEMMA EmptyTest ==
  ASSUME TypeOK, StoresInv, NEW h \in Nat,
         Consumed <= h, h <= Consumed + Size
  PROVE  LooksEmpty(Wrap(h), Value(tail)) <=> Consumed = h
<1>1. (Wrap(h) - Wrap(Consumed)) % Modulus = h - Consumed
  <2>1. h - Consumed <= Size
    BY Counts, Constants
  <2> QED BY <2>1, Counts, Distance
<1>2. Wrap(h) = Wrap(Consumed) => Consumed = h
  <2> SUFFICES ASSUME Wrap(h) = Wrap(Consumed)
               PROVE  Consumed = h
    OBVIOUS
  <2>1. Wrap(h) \in Int /\ Wrap(h) - Wrap(Consumed) = 0
    BY WrapType, Constants
  <2>2. 0 % Modulus = 0
    BY Constants
  <2> QED BY <1>1, <2>1, <2>2, Counts
<1> QED BY <1>2, NewestValues DEF LooksEmpty

\* A release store of the numbered history is the next numbered store.
LEMMA NextStore ==
  ASSUME NEW stores \in StoresOf(Nat), stores # <<>>,
         \A n \in 0..(Newest(stores) - 1) : stores[n + 1] = NumberedStore(n)
  PROVE  LET next == Store(stores, Newest(stores))
         IN /\ next \in StoresOf(Nat) /\ next # <<>>
            /\ Newest(next) = Newest(stores) + 1
            /\ \A n \in 0..Newest(stores) : next[n + 1] = NumberedStore(n)
<1> DEFINE last == Newest(stores)
           next == Store(stores, last)
<1>1. last \in Nat /\ last > 0
  BY DEF StoresOf, Newest
<1>2. Value(stores) = Wrap(last - 1)
  <2>1. stores[(last - 1) + 1] = NumberedStore(last - 1)
    BY <1>1
  <2> QED BY <1>1, <2>1 DEF Value, NumberedStore
<1>3. Wrap(Value(stores) + 1) = Wrap(last)
  BY <1>1, <1>2, WrapSuccessor
<1>4. next = Append(stores, NumberedStore(last))
  BY <1>3 DEF Store, NumberedStore
<1>5. NumberedStore(last) \in [value : 0..(Modulus - 1), clock : Nat]
  BY <1>1, WrapType DEF NumberedStore
<1> HIDE DEF next
<1>6. /\ next \in StoresOf(Nat) /\ Len(next) = last + 1
      /\ next[last + 1] = NumberedStore(last)
      /\ \A k \in 1..last : next[k] = stores[k]
  BY <1>1, <1>4, <1>5 DEF StoresOf, Newest
<1>7. ASSUME NEW n \in 0..last
      PROVE  next[n + 1] = NumberedStore(n)
  <2>1. CASE n = last
    BY <2>1, <1>6
  <2>2. CASE n # last
    <3>1. n \in 0..(last - 1) /\ n + 1 \in 1..last
      BY <1>1, <2>2
    <3> QED BY <3>1, <1>6
  <2> QED BY <2>1, <2>2
<1>8. next # <<>>
  BY <1>1, <1>6
<1> QED BY <1>6, <1>7, <1>8 DEF next, Newest

(***************************************************************************)
(* The invariant is inductive: one lemma per action that changes indices   *)
(* or slots, and the invariant's parts under each.                         *)
(***************************************************************************)

LEMMA InitInv == Init => Inv
<1> SUFFICES ASSUME Init
             PROVE  Inv
  OBVIOUS
<1> USE Constants DEF Init
<1>1. Wrap(0) = 0
  <2>1. 0 % Modulus = 0
    OBVIOUS
  <2> QED BY <2>1 DEF Wrap
<1>2. TypeOK
  BY DEF TypeOK, StoresOf, Newest, Slots, Damaged
<1>3. Published = 0 /\ Consumed = 0
  BY DEF Published, Consumed, Newest
<1>4. StoresInv /\ AccessesInv /\ ViewInv
  BY <1>1, <1>3 DEF StoresInv, AccessesInv, ViewInv
<1>5. BufferInv /\ ReadInv /\ ReceivedInv
  BY <1>3 DEF BufferInv, ReadInv, ReceivedInv, ReceivedInOrder, Slots
<1> QED BY <1>2, <1>4, <1>5 DEF Inv, IndicesAgree

LEMMA ClaimCachedStep == Inv /\ ClaimCached => Inv'
<1> SUFFICES ASSUME Inv, ClaimCached
             PROVE  Inv'
  OBVIOUS
<1> USE DEF Inv, IndicesAgree, ClaimCached, consumerVars
<1>1. TypeOK'
  BY DEF TypeOK, Newest
<1>2. Published' = Published /\ Consumed' = Consumed
  BY DEF Published, Consumed, Newest
<1>3. StoresInv' /\ AccessesInv'
  BY <1>2 DEF StoresInv, AccessesInv
<1>4. Published < readsKnown + Size
  <2>1. readsKnown \in Nat /\ readsKnown <= Published
    BY Counts DEF TypeOK, ViewInv
  <2>2. ~(Published = readsKnown + Size)
    BY <2>1, FullTest DEF ViewInv
  <2> QED BY <2>1, <2>2, Counts, Constants DEF ViewInv
<1>5. ViewInv'
  BY <1>2, <1>4 DEF ViewInv
<1>6. BufferInv' /\ ReadInv' /\ ReceivedInv'
  BY <1>2 DEF BufferInv, ReadInv, ReceivedInv, ReceivedInOrder
<1> QED BY <1>1, <1>3, <1>5, <1>6

LEMMA PeekCachedStep == Inv /\ PeekCached => Inv'
<1> SUFFICES ASSUME Inv, PeekCached
             PROVE  Inv'
  OBVIOUS
<1> USE DEF Inv, IndicesAgree, PeekCached, producerVars
<1>1. TypeOK'
  BY DEF TypeOK, Newest
<1>2. Published' = Published /\ Consumed' = Consumed
  BY DEF Published, Consumed, Newest
<1>3. StoresInv' /\ AccessesInv'
  BY <1>2 DEF StoresInv, AccessesInv
<1>4. Consumed < writesKnown
  <2>1. writesKnown \in Nat /\ writesKnown <= Consumed + Size
    BY Counts, Constants DEF TypeOK, ViewInv
  <2>2. ~(Consumed = writesKnown)
    BY <2>1, EmptyTest DEF ViewInv
  <2> QED BY <2>1, <2>2, Counts DEF ViewInv
<1>5. ViewInv'
  BY <1>2, <1>4 DEF ViewInv
<1>6. BufferInv' /\ ReadInv' /\ ReceivedInv'
  BY <1>2 DEF BufferInv, ReadInv, ReceivedInv, ReceivedInOrder
<1> QED BY <1>1, <1>3, <1>5, <1>6

\* Reading store s of tail, the producer learns s - 1 reads and that index.
LEMMA ClaimReloadStep ==
  ASSUME Inv, NEW s \in Nat, ClaimReload(s)
  PROVE  Inv'
<1> USE DEF Inv, IndicesAgree, ClaimReload, consumerVars
<1>1. Published' = Published /\ Consumed' = Consumed
  BY DEF Published, Consumed, Newest
<1>2. s >= tailSeen /\ s - 1 \in 0..Consumed /\ s \in 1..Newest(tail)
  BY DEF TypeOK, Consumed, Newest
<1>3. tail[s] = NumberedStore(s - 1)
  <2>1. tail[(s - 1) + 1] = NumberedStore(s - 1)
    BY <1>2 DEF StoresInv, NumberedStore
  <2> QED BY <1>2, <2>1
<1>4. cachedTail' = Wrap(s - 1) /\ tailSeen' = s
  BY <1>3 DEF NumberedStore
<1>5. readsKnown' = s - 1 /\ readsKnown <= s - 1
  BY <1>2, <1>3 DEF NumberedStore, Acquire, ViewInv, TypeOK
<1>6. LooksFull(Value(head), cachedTail') <=> Published = (s - 1) + Size
  <2>1. readsKnown \in Nat /\ writesKnown \in Nat
    BY DEF TypeOK
  <2>2. /\ s - 1 \in Nat /\ s - 1 <= Published
        /\ Published <= (s - 1) + Size
    BY <1>2, <1>5, <2>1, Counts, Constants DEF ViewInv
  <2> QED BY <1>4, <2>2, FullTest
<1>7. /\ producer' \in {"idle", "claimed"}
      /\ producer' # "idle" => Published < (s - 1) + Size
  <2>1. Published <= (s - 1) + Size
    BY <1>2, <1>5, Counts, Constants DEF ViewInv, TypeOK
  <2> QED BY <1>2, <1>6, <2>1, Counts, Constants
<1>8. TypeOK'
  <2>1. s - 1 \in Nat /\ Wrap(s - 1) \in 0..(Modulus - 1)
    BY <1>2, Counts, WrapType
  <2> QED BY <1>2, <1>4, <1>5, <1>7, <2>1 DEF TypeOK, Newest
<1>9. StoresInv' /\ AccessesInv'
  BY <1>1, <1>7 DEF StoresInv, AccessesInv
<1>10. ViewInv'
  BY <1>1, <1>2, <1>4, <1>5, <1>7, Counts, Constants DEF ViewInv, TypeOK
<1>11. BufferInv' /\ ReadInv' /\ ReceivedInv'
  BY <1>1 DEF BufferInv, ReadInv, ReceivedInv, ReceivedInOrder
<1> QED BY <1>8, <1>9, <1>10, <1>11

\* Reading store s of head, the consumer learns s - 1 writes and that index.
LEMMA PeekReloadStep ==
  ASSUME Inv, NEW s \in Nat, PeekReload(s)
  PROVE  Inv'
<1> USE DEF Inv, IndicesAgree, PeekReload, producerVars
<1>1. Published' = Published /\ Consumed' = Consumed
  BY DEF Published, Consumed, Newest
<1>2. s >= headSeen /\ s - 1 \in 0..Published /\ s \in 1..Newest(head)
  BY DEF TypeOK, Published, Newest
<1>3. head[s] = NumberedStore(s - 1)
  <2>1. head[(s - 1) + 1] = NumberedStore(s - 1)
    BY <1>2 DEF StoresInv, NumberedStore
  <2> QED BY <1>2, <2>1
<1>4. cachedHead' = Wrap(s - 1) /\ headSeen' = s
  BY <1>3 DEF NumberedStore
<1>5. writesKnown' = s - 1 /\ writesKnown <= s - 1
  BY <1>2, <1>3 DEF NumberedStore, Acquire, ViewInv, TypeOK
<1>6. LooksEmpty(cachedHead', Value(tail)) <=> Consumed = s - 1
  <2>1. Consumed <= writesKnown /\ Published <= Consumed + Size
    BY Counts, Constants DEF ViewInv, TypeOK
  <2>2. s - 1 \in Nat /\ Consumed <= s - 1 /\ s - 1 <= Consumed + Size
    <3>1. writesKnown \in Nat
      BY DEF TypeOK
    <3> HIDE DEF Inv, IndicesAgree, PeekReload
    <3> QED BY <1>2, <1>5, <2>1, <3>1, Counts, Constants DEF Inv
  <2> QED BY <1>4, <2>2, EmptyTest
<1>7. /\ consumer' \in {"idle", "peeked"}
      /\ consumer' # "idle" => Consumed < s - 1
  <2>1. Consumed <= s - 1
    BY <1>2, <1>5, Counts DEF ViewInv, TypeOK
  <2> QED BY <1>2, <1>6, <2>1, Counts
<1>8. TypeOK'
  <2>1. s - 1 \in Nat /\ Wrap(s - 1) \in 0..(Modulus - 1)
    BY <1>2, Counts, WrapType
  <2> QED BY <1>2, <1>4, <1>5, <1>7, <2>1 DEF TypeOK, Newest
<1>9. StoresInv' /\ AccessesInv'
  BY <1>1, <1>7 DEF StoresInv, AccessesInv
<1>10. ViewInv'
  BY <1>1, <1>2, <1>4, <1>5, <1>7, Counts, Constants DEF ViewInv, TypeOK
<1>11. BufferInv' /\ ReadInv' /\ ReceivedInv'
  BY <1>1, <1>7 DEF BufferInv, ReadInv, ReceivedInv, ReceivedInOrder
<1> QED BY <1>8, <1>9, <1>10, <1>11

\* The window between the numbers the threads have seen, as plain arithmetic.
LEMMA Window ==
  Inv =>
    /\ readsKnown \in Nat /\ writesKnown \in Nat /\ writes \in Nat /\ reads \in Nat
    /\ readsKnown <= Consumed /\ Consumed <= writesKnown
    /\ writesKnown <= Published /\ Published <= readsKnown + Size
    /\ Published <= writes
  BY Counts DEF Inv, IndicesAgree, TypeOK, ViewInv, AccessesInv

\* The slot the producer claimed holds no message that is still to be taken.
LEMMA WriteSlotStep == Inv /\ WriteSlot => Inv'
<1> SUFFICES ASSUME Inv, WriteSlot
             PROVE  Inv'
  OBVIOUS
<1> USE DEF Inv, IndicesAgree, WriteSlot, consumerVars
<1>1. Published' = Published /\ Consumed' = Consumed
  BY DEF Published, Consumed, Newest
<1>2. /\ SlotOf(Value(head)) = SlotOf(Published)
      /\ SlotOf(Published) \in Slots
  BY NewestValues, Counts, SlotType
<1>3. writes = Published /\ writes' = Published + 1
  BY Counts DEF AccessesInv
<1>4. /\ buffer' \in [Slots -> Nat]
      /\ buffer'[SlotOf(Published)] = Published + 1
      /\ \A i \in Slots : i # SlotOf(Published) => buffer'[i] = buffer[i]
  BY <1>2, <1>3, Counts DEF TypeOK
<1>5. TypeOK'
  BY <1>3, <1>4, Counts DEF TypeOK, Newest
<1>6. StoresInv' /\ AccessesInv' /\ ViewInv'
  BY <1>1, <1>3, Counts DEF StoresInv, AccessesInv, ViewInv
<1>7. ASSUME NEW n \in Consumed..(writes' - 1)
      PROVE  buffer'[SlotOf(n)] = n + 1
  <2>1. n \in Nat /\ n <= Published
    BY <1>3, Counts
  <2>2. CASE n = Published
    BY <2>2, <1>4
  <2>3. CASE n < Published
    <3>1. SlotOf(n) # SlotOf(Published)
      <4>1. Published < readsKnown + Size
        BY DEF ViewInv
      <4>2. ~(n + Size <= Published)
        BY <2>1, <4>1, Window, Counts, Constants
      <4> QED BY <2>1, <2>3, <4>2, Counts, SlotsApart
    <3>2. buffer[SlotOf(n)] = n + 1
      BY <1>3, <2>1, <2>3, Counts DEF BufferInv
    <3> QED BY <1>4, <2>1, <3>1, <3>2, SlotType
  <2> QED BY <2>1, <2>2, <2>3, Counts
<1>8. BufferInv'
  BY <1>1, <1>7 DEF BufferInv
<1>9. ReadInv' /\ ReceivedInv'
  BY <1>1 DEF ReadInv, ReceivedInv, ReceivedInOrder
<1> QED BY <1>5, <1>6, <1>8, <1>9

LEMMA PublishStep == Inv /\ Publish => Inv'
<1> SUFFICES ASSUME Inv, Publish
             PROVE  Inv'
  OBVIOUS
<1> USE DEF Inv, IndicesAgree, Publish, consumerVars
<1>1. writes = Published + 1 /\ writes = Newest(head)
  BY Counts DEF AccessesInv, Published, Newest, TypeOK, StoresOf
<1>2. head' = Store(head, Newest(head))
  BY <1>1 DEF PublishClock
<1>3. /\ head' \in StoresOf(Nat) /\ head' # <<>>
      /\ Newest(head') = Newest(head) + 1
      /\ \A n \in 0..Newest(head) : head'[n + 1] = NumberedStore(n)
  <2>1. \A n \in 0..(Newest(head) - 1) : head[n + 1] = NumberedStore(n)
    BY DEF StoresInv, Published, NumberedStore
  <2>2. head \in StoresOf(Nat) /\ head # <<>>
    BY DEF TypeOK
  <2> QED BY <1>2, <2>1, <2>2, NextStore
<1>4. Published' = Published + 1 /\ Published' = Newest(head) /\ Consumed' = Consumed
  BY <1>1, <1>3, Counts DEF Published, Consumed, Newest
<1>5. TypeOK'
  <2>1. headSeen \in 1..Newest(head)'
    BY <1>1, <1>3, Counts DEF TypeOK, Newest
  <2> QED BY <1>3, <2>1 DEF TypeOK, Newest
<1>6. StoresInv'
  BY <1>3, <1>4 DEF StoresInv, NumberedStore
<1>7. AccessesInv'
  BY <1>1, <1>4 DEF AccessesInv
<1>8. ViewInv'
  BY <1>4, Window, Counts, Constants DEF ViewInv
<1>9. BufferInv' /\ ReadInv' /\ ReceivedInv'
  BY <1>4 DEF BufferInv, ReadInv, ReceivedInv, ReceivedInOrder
<1> QED BY <1>5, <1>6, <1>7, <1>8, <1>9

\* The slot the consumer peeked holds the next message, and the consumer has
\* learnt of its write.
LEMMA PeekedSlot ==
  Inv /\ consumer = "peeked" =>
    /\ buffer[SlotOf(Value(tail))] = Consumed + 1
    /\ Consumed + 1 <= writesKnown
<1> SUFFICES ASSUME Inv, consumer = "peeked"
             PROVE  /\ buffer[SlotOf(Consumed)] = Consumed + 1
                    /\ Consumed + 1 <= writesKnown
  BY NewestValues DEF Inv, IndicesAgree
<1>1. Consumed < writesKnown
  BY DEF Inv, IndicesAgree, ViewInv
<1>2. Consumed \in Consumed..(writes - 1)
  BY <1>1, Window, Counts DEF Inv
<1>3. buffer[SlotOf(Consumed)] = Consumed + 1
  BY <1>2 DEF Inv, IndicesAgree, BufferInv
<1> QED BY <1>1, <1>3, Window, Counts DEF Inv

LEMMA CopySlotStep == Inv /\ CopySlot => Inv'
<1> SUFFICES ASSUME Inv, CopySlot
             PROVE  Inv'
  OBVIOUS
<1> USE DEF Inv, IndicesAgree, CopySlot, producerVars
<1>1. Published' = Published /\ Consumed' = Consumed
  BY DEF Published, Consumed, Newest
<1>2. SlotOf(Value(tail)) = SlotOf(Consumed) /\ SlotOf(Consumed) \in Slots
  BY NewestValues, Counts, SlotType
<1>3. reads = Consumed /\ reads' = Consumed + 1
  BY Counts DEF AccessesInv
<1>4. copy' = Consumed + 1
  <2>1. /\ buffer[SlotOf(Value(tail))] = Consumed + 1
        /\ Consumed + 1 <= writesKnown
    BY PeekedSlot
  <2>2. ~(Consumed + 1 > writesKnown)
    BY <2>1, Window, Counts
  <2> QED BY <2>1, <2>2 DEF Readable
<1>5. /\ lastRead' \in [Slots -> Nat]
      /\ lastRead'[SlotOf(Consumed)] = Consumed + 1
      /\ \A i \in Slots : i # SlotOf(Consumed) => lastRead'[i] = lastRead[i]
  BY <1>2, <1>3, Counts DEF TypeOK
<1>6. TypeOK'
  BY <1>3, <1>4, <1>5, Counts DEF TypeOK, Newest
<1>7. StoresInv' /\ AccessesInv' /\ ViewInv'
  BY <1>1, <1>3, Counts DEF StoresInv, AccessesInv, ViewInv
<1>8. BufferInv'
  BY <1>1 DEF BufferInv
<1>9. ASSUME NEW i \in Slots
      PROVE  /\ lastRead'[i] <= reads'
             /\ lastRead'[i] > 0 => SlotOf(lastRead'[i] - 1) = i
  <2>1. CASE i = SlotOf(Consumed)
    BY <1>3, <1>5, <2>1, Counts
  <2>2. CASE i # SlotOf(Consumed)
    <3>1. lastRead[i] \in Nat /\ lastRead[i] <= reads
      BY DEF TypeOK, ReadInv
    <3> QED BY <1>3, <1>5, <2>2, <3>1, Counts DEF ReadInv
  <2> QED BY <2>1, <2>2
<1>10. ReadInv'
  BY <1>9 DEF ReadInv
<1>11. ReceivedInv'
  BY <1>1, <1>4 DEF ReceivedInv, ReceivedInOrder
<1> QED BY <1>6, <1>7, <1>8, <1>10, <1>11

LEMMA ConsumeStep == Inv /\ Consume => Inv'
<1> SUFFICES ASSUME Inv, Consume
             PROVE  Inv'
  OBVIOUS
<1> USE DEF Inv, IndicesAgree, Consume, producerVars
<1>1. reads = Consumed + 1 /\ reads = Newest(tail)
  BY Counts DEF AccessesInv, Consumed, Newest, TypeOK, StoresOf
<1>2. tail' = Store(tail, Newest(tail))
  BY <1>1 DEF ConsumeClock
<1>3. /\ tail' \in StoresOf(Nat) /\ tail' # <<>>
      /\ Newest(tail') = Newest(tail) + 1
      /\ \A n \in 0..Newest(tail) : tail'[n + 1] = NumberedStore(n)
  <2>1. \A n \in 0..(Newest(tail) - 1) : tail[n + 1] = NumberedStore(n)
    BY DEF StoresInv, Consumed, NumberedStore
  <2>2. tail \in StoresOf(Nat) /\ tail # <<>>
    BY DEF TypeOK
  <2> QED BY <1>2, <2>1, <2>2, NextStore
<1>4. Consumed' = Consumed + 1 /\ Consumed' = Newest(tail) /\ Published' = Published
  BY <1>1, <1>3, Counts DEF Published, Consumed, Newest
<1>5. /\ received \in Seq(Nat) /\ Len(received) = Consumed
      /\ copy = Consumed + 1 /\ copy \in Nat
      /\ \A i \in 1..Len(received) : received[i] = i
  BY DEF TypeOK, ReceivedInv, ReceivedInOrder
<1>6. /\ received' \in Seq(Nat) /\ Len(received') = Consumed + 1
      /\ \A i \in 1..(Consumed + 1) : received'[i] = i
  BY <1>5, Counts
<1>7. TypeOK'
  <2>1. tailSeen \in 1..Newest(tail)'
    BY <1>1, <1>3, Counts DEF TypeOK, Newest
  <2> QED BY <1>3, <1>6, <2>1 DEF TypeOK, Newest
<1>8. StoresInv'
  BY <1>3, <1>4 DEF StoresInv, NumberedStore
<1>9. AccessesInv'
  BY <1>1, <1>4 DEF AccessesInv
<1>10. ViewInv'
  BY <1>4, Window, Counts, Constants DEF ViewInv
<1>11. BufferInv'
  BY <1>4, Window, Counts DEF BufferInv
<1>12. ReadInv'
  BY DEF ReadInv
<1>13. ReceivedInv'
  BY <1>4, <1>6 DEF ReceivedInv, ReceivedInOrder
<1> QED BY <1>7, <1>8, <1>9, <1>10, <1>11, <1>12, <1>13

LEMMA NextInv == Inv /\ [Next]_vars => Inv'
<1> SUFFICES ASSUME Inv, [Next]_vars
             PROVE  Inv'
  OBVIOUS
<1>1. CASE ClaimCached
  BY <1>1, ClaimCachedStep
<1>2. ASSUME NEW s \in 1..Newest(tail), ClaimReload(s)
      PROVE  Inv'
  <2>1. s \in Nat
    BY Counts DEF Inv, Consumed, TypeOK, StoresOf, Newest
  <2> QED BY <1>2, <2>1, ClaimReloadStep
<1>3. CASE WriteSlot
  BY <1>3, WriteSlotStep
<1>4. CASE Publish
  BY <1>4, PublishStep
<1>5. CASE PeekCached
  BY <1>5, PeekCachedStep
<1>6. ASSUME NEW s \in 1..Newest(head), PeekReload(s)
      PROVE  Inv'
  <2>1. s \in Nat
    BY Counts DEF Inv, Published, TypeOK, StoresOf, Newest
  <2> QED BY <1>6, <2>1, PeekReloadStep
<1>7. CASE CopySlot
  BY <1>7, CopySlotStep
<1>8. CASE Consume
  BY <1>8, ConsumeStep
<1>9. CASE UNCHANGED vars
  BY <1>9 DEF Inv, IndicesAgree, TypeOK, StoresInv, AccessesInv, ViewInv,
              BufferInv, ReadInv, ReceivedInv, ReceivedInOrder, Published,
              Consumed, Newest, vars, producerVars, consumerVars
<1> QED
  BY <1>1, <1>2, <1>3, <1>4, <1>5, <1>6, <1>7, <1>8, <1>9 DEF Next, Finished

(***************************************************************************)
(* The theorems.                                                           *)
(***************************************************************************)

LEMMA Invariant == Spec => []Inv
<1>1. Init => Inv
  BY InitInv
<1>2. Inv /\ [Next]_vars => Inv'
  BY NextInv
<1> QED BY <1>1, <1>2, PTL DEF Spec

\* Every variable of the ring and of its two threads keeps its type.
THEOREM TypeCorrect == Spec => []TypeOK
<1>1. Inv => TypeOK
  BY DEF Inv
<1> QED BY <1>1, Invariant, PTL

\* The index values, the clocks learnt through them and the slots' contents
\* agree: the reason why two release/acquire pairs are enough.
THEOREM IndicesAlwaysAgree == Spec => []IndicesAgree
<1>1. Inv => IndicesAgree
  BY DEF Inv
<1> QED BY <1>1, Invariant, PTL

\* RingBuffer.hpp: no slot is accessed by both threads without one of its two
\* edges between the accesses, whatever index values claim() and peek() reused.
THEOREM RaceFree == Spec => []NoDataRace
<1>1. ASSUME Inv
      PROVE  NoDataRace
  <2>1. ASSUME producer = "claimed"
        PROVE  lastRead[SlotOf(Value(head))] <= readsKnown
    <3> DEFINE slot == SlotOf(Published)  r == lastRead[slot]
    <3>1. SlotOf(Value(head)) = slot /\ slot \in Slots
      BY <1>1, NewestValues, Counts, SlotType DEF Inv, IndicesAgree
    <3>2. r \in Nat /\ r <= reads /\ (r > 0 => SlotOf(r - 1) = slot)
      BY <1>1, <3>1 DEF Inv, IndicesAgree, TypeOK, ReadInv
    <3>3. Published < readsKnown + Size
      BY <1>1, <2>1 DEF Inv, IndicesAgree, ViewInv
    <3>4. reads <= Published
      BY <1>1, Window, Counts DEF Inv, IndicesAgree, AccessesInv, ViewInv
    <3> HIDE DEF r, slot
    <3>5. CASE r = 0
      BY <1>1, <3>1, <3>5, Window DEF r
    <3>6. CASE r > 0
      <4>1. r - 1 \in Nat /\ r - 1 < Published /\ SlotOf(r - 1) = slot
        BY <1>1, <3>2, <3>4, <3>6, Window, Counts DEF Inv
      <4>2. (r - 1) + Size <= Published
        BY <1>1, <4>1, Counts, SlotsApart DEF Inv, slot
      <4>3. r <= readsKnown
        BY <1>1, <3>2, <3>3, <4>2, Window, Counts, Constants DEF Inv
      <4> QED BY <3>1, <4>3 DEF r
    <3> QED BY <3>2, <3>5, <3>6
  <2>2. consumer = "peeked" => buffer[SlotOf(Value(tail))] <= writesKnown
    BY <1>1, PeekedSlot
  <2> QED BY <2>1, <2>2 DEF NoDataRace
<1> QED BY <1>1, Invariant, PTL

\* RingBuffer.hpp: a slot is the producer's from claim() to publish() and the
\* consumer's from peek() to consume(), and never both's.
THEOREM SlotsNotShared == Spec => []OneOwnerPerSlot
<1>1. ASSUME Inv, producer # "idle", consumer # "idle"
      PROVE  SlotOf(Value(head)) # SlotOf(Value(tail))
  <2>1. /\ SlotOf(Value(head)) = SlotOf(Published)
        /\ SlotOf(Value(tail)) = SlotOf(Consumed)
    BY <1>1, NewestValues DEF Inv, IndicesAgree
  <2>2. Consumed < writesKnown /\ Published < readsKnown + Size
    BY <1>1 DEF Inv, IndicesAgree, ViewInv
  <2>3. Consumed < Published /\ ~(Consumed + Size <= Published)
    BY <1>1, <2>2, Window, Counts, Constants DEF Inv
  <2> QED BY <1>1, <2>1, <2>3, Counts, SlotsApart DEF Inv
<1>2. Inv => OneOwnerPerSlot
  BY <1>1 DEF OneOwnerPerSlot
<1> QED BY <1>2, Invariant, PTL

\* SpscStress.hpp's check: the consumer takes every message once, in order and
\* undamaged, for any ring size and however often the indices wrap.
THEOREM InOrder == Spec => []ReceivedInOrder
<1>1. Inv => ReceivedInOrder
  BY DEF Inv, IndicesAgree, ReceivedInv
<1> QED BY <1>1, Invariant, PTL

(***************************************************************************)
(* The ring implements the bounded queue, but for its fairness.            *)
(***************************************************************************)

\* Neither thread takes up a message past the last one.
Bounded ==
  /\ writes <= Total /\ reads <= Total
  /\ producer = "claimed" => writes < Total
  /\ consumer = "peeked" => reads < Total

LEMMA BoundedInvariant == Spec => [](Inv /\ Bounded)
<1>1. Init => Bounded
  BY TotalAssumption DEF Init, Bounded
<1>2. ASSUME Inv, Bounded, [Next]_vars
      PROVE  Bounded'
  <2>1. writes \in Nat /\ reads \in Nat /\ Total \in Nat
    BY <1>2, TotalAssumption DEF Inv, TypeOK
  <2> QED
    BY <1>2, <2>1
    DEF Bounded, Next, Finished, ClaimCached, ClaimReload, WriteSlot, Publish,
        PeekCached, PeekReload, CopySlot, Consume, vars, producerVars,
        consumerVars
<1> QED BY <1>1, <1>2, Invariant, PTL DEF Spec

\* The queue holds messages Consumed + 1 to Published.
InFlightNumbered == InFlight = Numbered(Consumed, Published)

LEMMA InFlightIsNumbered == Inv => InFlightNumbered
<1> SUFFICES ASSUME Inv, NEW k \in 1..(Published - Consumed)
             PROVE  buffer[SlotOf(Wrap(Consumed + k - 1))] = Consumed + k
  BY DEF InFlightNumbered, InFlight, Numbered
<1>1. /\ Consumed + k - 1 \in Nat
      /\ Consumed + k - 1 \in Consumed..(writes - 1)
  BY Window, Counts DEF Inv
<1>2. buffer[SlotOf(Consumed + k - 1)] = Consumed + k
  BY <1>1, Counts DEF Inv, IndicesAgree, BufferInv
<1> QED BY <1>1, <1>2, SlotOfWrap

\* RingBuffer.hpp is a queue of at most Size messages: publish() appends one to
\* a queue that has room, consume() takes the oldest, and nothing else that
\* either thread does changes the queue.
THEOREM ImplementsQueueSafely ==
  Spec => Queue!Init /\ [][Queue!Next]_(Queue!queueVars)
<1>1. Init => Queue!Init
  <2> SUFFICES ASSUME Init
               PROVE  InFlight = <<>> /\ received = <<>>
    BY DEF Queue!Init
  <2>1. Published = 0 /\ Consumed = 0
    BY DEF Init, Published, Consumed, Newest
  <2> QED BY <2>1 DEF Init, InFlight
<1>2. ASSUME Inv, Bounded, InFlightNumbered, InFlightNumbered', [Next]_vars
      PROVE  [Queue!Next]_(Queue!queueVars)
  <2>1. CASE Publish
    <3>1. Published' = Published + 1 /\ Consumed' = Consumed /\ received' = received
      BY <2>1, <1>2 DEF Publish, consumerVars, Published, Consumed, Newest, Store, Inv, TypeOK, StoresOf
    <3>2. Published < Total
      BY <2>1, <1>2, Counts, TotalAssumption DEF Publish, Bounded, Inv, IndicesAgree, AccessesInv
    <3>3. Consumed <= Published /\ Published - Consumed < Size
      BY <2>1, <1>2, Window, Counts, Constants DEF Publish, Inv, IndicesAgree, ViewInv
    <3>4. Len(received) = Consumed
      BY <1>2 DEF Inv, IndicesAgree, ReceivedInv
    <3>5. /\ Len(InFlight) = Published - Consumed
          /\ InFlight' = Append(InFlight, Published + 1)
      BY <1>2, <3>1, <3>3, Counts, NumberedQueue DEF Inv, InFlightNumbered
    <3>6. Len(received) + Len(InFlight) + 1 = Published + 1
      BY <1>2, <3>4, <3>5, Counts DEF Inv
    <3>7. Queue!Send
      BY <1>2, <3>1, <3>2, <3>3, <3>5, <3>6, Counts, TotalAssumption DEF Queue!Send, Inv
    <3> QED BY <3>7 DEF Queue!Next
  <2>2. CASE Consume
    <3>1. /\ Published' = Published /\ Consumed' = Consumed + 1
          /\ received' = Append(received, copy)
      BY <2>2, <1>2 DEF Consume, producerVars, Published, Consumed, Newest, Store, Inv, TypeOK, StoresOf
    <3>2. Consumed < Published /\ copy = Consumed + 1
      BY <2>2, <1>2, Window, Counts DEF Consume, Inv, IndicesAgree, ViewInv, ReceivedInv
    <3>3. InFlight # <<>> /\ Head(InFlight) = Consumed + 1 /\ InFlight' = Tail(InFlight)
      <4>1. Consumed \in Nat /\ Published \in Nat /\ Consumed <= Published
        BY <1>2, <3>2, Counts DEF Inv
      <4> QED BY <1>2, <3>1, <3>2, <4>1, NumberedQueue DEF InFlightNumbered
    <3>4. Queue!Receive
      BY <3>1, <3>2, <3>3 DEF Queue!Receive
    <3> QED BY <3>4 DEF Queue!Next
  <2>3. CASE ~Publish /\ ~Consume
    <3>1. Published' = Published /\ Consumed' = Consumed /\ received' = received
      BY <2>3, <1>2
      DEF Next, Finished, ClaimCached, ClaimReload, WriteSlot, PeekCached,
          PeekReload, CopySlot, vars, producerVars, consumerVars, Published,
          Consumed, Newest
    <3> QED BY <3>1, <1>2 DEF Queue!queueVars, InFlightNumbered
  <2> QED BY <2>1, <2>2, <2>3
<1>3. Inv => InFlightNumbered
  BY InFlightIsNumbered
<1> QED BY <1>1, <1>2, <1>3, BoundedInvariant, PTL DEF Spec
=============================================================================
