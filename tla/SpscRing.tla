------------------------------ MODULE SpscRing ------------------------------
(***************************************************************************)
(* RingBuffer<T, Size> (include/RingBuffer.hpp): the lock-free queue of    *)
(* one producer thread and one consumer thread, driven by the loops of     *)
(* tests/SpscStress.hpp, under the C++ memory model.                       *)
(*                                                                         *)
(* An atomic index is the sequence of all stores made to it, in their      *)
(* modification order.  Its one writer always reads the newest; the other  *)
(* thread may read any store not older than the one it read last.  Every   *)
(* store carries the clock its release publishes: how many slot accesses   *)
(* its thread had made.  An acquire load of a store learns that clock.  A  *)
(* slot access is ordered after an access of the other thread exactly when *)
(* that access's number is at most the clock learnt.                       *)
(*                                                                         *)
(* Message n is the one the producer's nth write puts in a slot.           *)
(***************************************************************************)
EXTENDS Integers, Sequences

CONSTANTS
  Size,     \* slots of the ring (a power of two in the code: & is % then)
  Modulus,  \* 2^64 in the code: the indices are size_t and wrap
  Total     \* messages the producer sends: bounds the model

ASSUME SizeAssumption == Size \in Nat \ {0}
ASSUME ModulusAssumption ==
  Modulus \in Nat /\ Modulus > Size /\ Modulus % Size = 0
ASSUME TotalAssumption == Total \in Nat

VARIABLES
  head,        \* stores to head, oldest first; written by the producer
  cachedTail,  \* the producer's private copy of tail
  tailSeen,    \* number of the store to tail the producer read last
  producer,    \* where the producer thread is in its loop
  writes,      \* slot writes made by the producer
  readsKnown,  \* slot reads that happened before the producer's next step
  tail,        \* stores to tail, oldest first; written by the consumer
  cachedHead,  \* the consumer's private copy of head
  headSeen,    \* number of the store to head the consumer read last
  consumer,    \* where the consumer thread is in its loop
  reads,       \* slot reads made by the consumer
  writesKnown, \* slot writes that happened before the consumer's next step
  copy,        \* the message the consumer copied out of its slot
  received,    \* every message the consumer has taken, in order
  buffer,      \* number of the write each slot holds; 0 before the first
  lastRead     \* number of the last read of each slot; 0 before the first

producerVars == <<head, cachedTail, tailSeen, producer, writes, readsKnown>>
consumerVars ==
  <<tail, cachedHead, headSeen, consumer, reads, writesKnown, copy, received>>
vars == <<producerVars, consumerVars, buffer, lastRead>>

Slots == 0..(Size - 1)
Damaged == 0  \* a stale or torn message: what a racing read may return

-----------------------------------------------------------------------------
(* Index arithmetic on size_t.                                             *)

Wrap(n) == n % Modulus

SlotOf(index) == index % Size

\* Mutant: claim() tests > Size.
LooksFullLate(h, t) == (h - t) % Modulus > Size
LooksFull(h, t) == (h - t) % Modulus >= Size

\* Mutants: peek() compares slots, so that a full ring looks empty; peek() hands
\* out a slot when tail has caught up with head.
LooksEmptyBySlot(h, t) == SlotOf(h) = SlotOf(t)
LooksEmptyLate(h, t) == t > h
LooksEmpty(h, t) == t = h

(* Atomic indices.                                                         *)

Newest(stores) == Len(stores)
Value(stores) == stores[Newest(stores)].value

Store(stores, clock) ==
  Append(stores, [value |-> Wrap(Value(stores) + 1), clock |-> clock])

\* Mutants: publish() and consume() store relaxed, so they release nothing.
PublishRelaxed == 0
PublishClock == writes
ConsumeRelaxed == 0
ConsumeClock == reads

Acquire(known, store) == IF store.clock > known THEN store.clock ELSE known

-----------------------------------------------------------------------------
Init ==
  /\ head = <<[value |-> 0, clock |-> 0]>>
  /\ tail = <<[value |-> 0, clock |-> 0]>>
  /\ cachedTail = 0 /\ tailSeen = 1 /\ readsKnown = 0
  /\ cachedHead = 0 /\ headSeen = 1 /\ writesKnown = 0
  /\ producer = "idle" /\ writes = 0
  /\ consumer = "idle" /\ reads = 0 /\ copy = Damaged
  /\ received = <<>>
  /\ buffer = [i \in Slots |-> 0]
  /\ lastRead = [i \in Slots |-> 0]

-----------------------------------------------------------------------------
(* The producer: claim(), write the slot, publish().                       *)

\* claim() with room by the cached tail: the shared tail is not read.
ClaimCached ==
  /\ producer = "idle" /\ writes < Total
  /\ ~LooksFull(Value(head), cachedTail)
  /\ producer' = "claimed"
  /\ UNCHANGED <<head, cachedTail, tailSeen, writes, readsKnown>>
  /\ UNCHANGED <<consumerVars, buffer, lastRead>>

\* claim() that looks full: it reads store s of tail, and returns nullptr (the
\* loop calls it again) when the ring is full by that one too.
ClaimReload(s) ==
  /\ producer = "idle" /\ writes < Total
  /\ LooksFull(Value(head), cachedTail)
  /\ s \in tailSeen..Newest(tail)
  /\ tailSeen' = s
  /\ cachedTail' = tail[s].value
  /\ readsKnown' = Acquire(readsKnown, tail[s])
  /\ producer' =
       IF LooksFull(Value(head), cachedTail') THEN "idle" ELSE "claimed"
  /\ UNCHANGED <<head, writes, consumerVars, buffer, lastRead>>

WriteSlot ==
  /\ producer = "claimed"
  /\ producer' = "written"
  /\ writes' = writes + 1
  /\ buffer' = [buffer EXCEPT ![SlotOf(Value(head))] = writes']
  /\ UNCHANGED <<head, cachedTail, tailSeen, readsKnown>>
  /\ UNCHANGED <<consumerVars, lastRead>>

Publish ==
  /\ producer = "written"
  /\ producer' = "idle"
  /\ head' = Store(head, PublishClock)
  /\ UNCHANGED <<cachedTail, tailSeen, writes, readsKnown>>
  /\ UNCHANGED <<consumerVars, buffer, lastRead>>

-----------------------------------------------------------------------------
(* The consumer: peek(), copy the message out, consume().                  *)

\* peek() with a message by the cached head: the shared head is not read.
PeekCached ==
  /\ consumer = "idle" /\ reads < Total
  /\ ~LooksEmpty(cachedHead, Value(tail))
  /\ consumer' = "peeked"
  /\ UNCHANGED <<tail, cachedHead, headSeen, reads, writesKnown, copy>>
  /\ UNCHANGED <<received, producerVars, buffer, lastRead>>

\* peek() that looks empty: it reads store s of head, and returns nullptr when
\* the ring is empty by that one too.
PeekReload(s) ==
  /\ consumer = "idle" /\ reads < Total
  /\ LooksEmpty(cachedHead, Value(tail))
  /\ s \in headSeen..Newest(head)
  /\ headSeen' = s
  /\ cachedHead' = head[s].value
  /\ writesKnown' = Acquire(writesKnown, head[s])
  /\ consumer' =
       IF LooksEmpty(cachedHead', Value(tail)) THEN "idle" ELSE "peeked"
  /\ UNCHANGED <<tail, reads, copy, received, producerVars, buffer, lastRead>>

\* What a read of slot i may return: its content if the write of it happened
\* before the read, and otherwise also anything else.
Readable(i) ==
  {buffer[i]} \cup (IF buffer[i] > writesKnown THEN {Damaged} ELSE {})

CopySlot ==
  LET slot == SlotOf(Value(tail))
  IN /\ consumer = "peeked"
     /\ consumer' = "copied"
     /\ reads' = reads + 1
     /\ copy' \in Readable(slot)
     /\ lastRead' = [lastRead EXCEPT ![slot] = reads']
     /\ UNCHANGED <<tail, cachedHead, headSeen, writesKnown, received>>
     /\ UNCHANGED <<producerVars, buffer>>

Consume ==
  /\ consumer = "copied"
  /\ consumer' = "idle"
  /\ tail' = Store(tail, ConsumeClock)
  /\ received' = Append(received, copy)
  /\ UNCHANGED <<cachedHead, headSeen, reads, writesKnown, copy>>
  /\ UNCHANGED <<producerVars, buffer, lastRead>>

-----------------------------------------------------------------------------
\* Both loops have run to their end.
Finished ==
  /\ producer = "idle" /\ writes = Total
  /\ consumer = "idle" /\ reads = Total
  /\ UNCHANGED vars

Next ==
  \/ ClaimCached \/ (\E s \in 1..Newest(tail) : ClaimReload(s))
  \/ WriteSlot \/ Publish
  \/ PeekCached \/ (\E s \in 1..Newest(head) : PeekReload(s))
  \/ CopySlot \/ Consume
  \/ Finished

\* Both threads keep running, and a store becomes visible to the other thread
\* in the end: of the reloads only one that reads the newest store is fair.
Fairness ==
  /\ WF_vars(ClaimCached) /\ WF_vars(ClaimReload(Newest(tail)))
  /\ WF_vars(WriteSlot) /\ WF_vars(Publish)
  /\ WF_vars(PeekCached) /\ WF_vars(PeekReload(Newest(head)))
  /\ WF_vars(CopySlot) /\ WF_vars(Consume)

Spec == Init /\ [][Next]_vars
FairSpec == Spec /\ Fairness
-----------------------------------------------------------------------------
(* Properties.                                                             *)

Published == Newest(head) - 1
Consumed == Newest(tail) - 1

StoresOf(clocks) == Seq([value : 0..(Modulus - 1), clock : clocks])

\* Every variable keeps the values its C++ type and its thread's loop allow.
TypeOK ==
  /\ head \in StoresOf(Nat) /\ head # <<>>
  /\ tail \in StoresOf(Nat) /\ tail # <<>>
  /\ cachedTail \in 0..(Modulus - 1) /\ cachedHead \in 0..(Modulus - 1)
  /\ tailSeen \in 1..Newest(tail) /\ headSeen \in 1..Newest(head)
  /\ producer \in {"idle", "claimed", "written"}
  /\ consumer \in {"idle", "peeked", "copied"}
  /\ writes \in Nat /\ reads \in Nat
  /\ writesKnown \in Nat /\ readsKnown \in Nat
  /\ copy \in Nat /\ received \in Seq(Nat)
  /\ buffer \in [Slots -> Nat] /\ lastRead \in [Slots -> Nat]

\* RingBuffer.hpp's two edges: whenever a thread is about to touch a slot, the
\* other thread's last conflicting access of that slot happened before.
NoDataRace ==
  /\ producer = "claimed" => lastRead[SlotOf(Value(head))] <= readsKnown
  /\ consumer = "peeked" => buffer[SlotOf(Value(tail))] <= writesKnown

\* "A slot belongs to the producer from claim() to publish(), then to the
\* consumer from peek() to consume()": never to both, whatever index values
\* the two private copies were left with.
OneOwnerPerSlot ==
  producer # "idle" /\ consumer # "idle"
    => SlotOf(Value(head)) # SlotOf(Value(tail))

\* What SpscStress.hpp counts as badSequence, badPayload and badChecksum stays
\* zero: the consumer takes messages 1, 2, 3, ... and each is undamaged.
ReceivedInOrder == \A i \in 1..Len(received) : received[i] = i

\* The parts of the inductive invariant that SpscRingProofs rests on.  Store
\* number n of an index is made when n messages are past it, and its release
\* publishes the n slot accesses made by then.
StoresInv ==
  /\ \A n \in 0..Published : head[n + 1] = [value |-> Wrap(n), clock |-> n]
  /\ \A n \in 0..Consumed : tail[n + 1] = [value |-> Wrap(n), clock |-> n]

AccessesInv ==
  /\ writes = Published + (IF producer = "written" THEN 1 ELSE 0)
  /\ reads = Consumed + (IF consumer = "copied" THEN 1 ELSE 0)

\* A thread knows exactly the accesses before the store it read last, and its
\* view of the ring is never roomier, or fuller, than the ring.
ViewInv ==
  /\ tailSeen = readsKnown + 1 /\ cachedTail = Wrap(readsKnown)
  /\ headSeen = writesKnown + 1 /\ cachedHead = Wrap(writesKnown)
  /\ readsKnown <= Consumed /\ Consumed <= writesKnown
  /\ writesKnown <= Published /\ Published <= readsKnown + Size
  /\ producer # "idle" => Published < readsKnown + Size
  /\ consumer # "idle" => Consumed < writesKnown

\* Every message written and not consumed is in its slot.
BufferInv == \A n \in Consumed..(writes - 1) : buffer[SlotOf(n)] = n + 1

ReadInv ==
  \A i \in Slots : /\ lastRead[i] <= reads
                   /\ lastRead[i] > 0 => SlotOf(lastRead[i] - 1) = i

ReceivedInv ==
  /\ Len(received) = Consumed /\ ReceivedInOrder
  /\ consumer = "copied" => copy = Consumed + 1

\* The index values, the clocks learnt through them and the slots' contents
\* agree in every state: what makes the two edges of RingBuffer.hpp enough.
IndicesAgree ==
  /\ StoresInv /\ AccessesInv /\ ViewInv
  /\ BufferInv /\ ReadInv /\ ReceivedInv

\* The messages in the ring: those published and not consumed.
InFlight ==
  [k \in 1..(Published - Consumed) |-> buffer[SlotOf(Wrap(Consumed + k - 1))]]

Queue == INSTANCE SpscQueue WITH Capacity <- Size, inFlight <- InFlight

\* The ring is a bounded queue: no published slot is overwritten, none is
\* skipped or handed over twice, and at most Size messages wait in it.
ImplementsQueue == Queue!Spec

\* No thread is left waiting: a producer refused by a full ring and a consumer
\* refused by an empty one find their way, and all messages arrive.
AllReceived == <>(Len(received) = Total)
=============================================================================
