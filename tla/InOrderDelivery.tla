--------------------------- MODULE InOrderDelivery --------------------------
(***************************************************************************)
(* What mold::Sequencer (include/MoldUdp64.hpp) promises the consumer of a *)
(* feed: "each message exactly once, in order", with only the messages of  *)
(* a gap that was given up missing.  A packet is just the set of numbers   *)
(* it carries: how packets are held, sorted and drained is Sequencer's.    *)
(***************************************************************************)
EXTENDS SequenceNumbers, Sequences

VARIABLES
  next,       \* the number delivery has come to
  waiting,    \* numbers beyond next whose messages are in hand
  delivered,  \* the numbers delivered, in order
  lost        \* the numbers given up

deliveryVars == <<next, waiting, delivered, lost>>

Numbers == FirstSequence..MaxNumber

Init == next = FirstSequence /\ waiting = {} /\ delivered = <<>> /\ lost = {}

Run(from, to) == [i \in 1..(to - from) |-> from + i - 1]

Gap(from, target) == from..(target - 1)

\* What is in hand from number `from` on, once messages first..last are in.
InHand(from, first, last) == {m \in waiting \cup first..last : m >= from}

\* Delivery goes on from number `from` to the first one, `to`, not in hand.
Deliver(from, to, hand) ==
  /\ from..(to - 1) \subseteq hand /\ to \notin hand
  /\ next' = to
  /\ delivered' = delivered \o Run(from, to)
  /\ waiting' = {m \in hand : m >= to}

\* Messages first..last come in (none when last < first).
Arrive(first, last) ==
  /\ \E to \in next..MaxNumber : Deliver(next, to, InHand(next, first, last))
  /\ UNCHANGED lost

\* The messages before `target`, none of which is waiting, are given up; then
\* messages first..last come in, too late if they are before `target`.
GiveUp(target, first, last) ==
  /\ target > next /\ \A m \in waiting : m >= target
  /\ lost' = lost \cup Gap(next, target)
  /\ \E to \in target..MaxNumber :
       Deliver(target, to, InHand(target, first, last))

Next ==
  \E first, last \in Numbers :
    \/ Arrive(first, last)
    \/ \E target \in Numbers : GiveUp(target, first, last)

Spec == Init /\ [][Next]_deliveryVars
-----------------------------------------------------------------------------
(* Properties.                                                             *)

TypeOK ==
  /\ next \in Numbers /\ waiting \subseteq Numbers
  /\ delivered \in Seq(Numbers) /\ lost \subseteq Numbers

\* "Each message exactly once, in order": the numbers delivered only grow.
InOrder ==
  \A i, j \in 1..Len(delivered) : i < j => delivered[i] < delivered[j]

\* Every number that delivery is past was either delivered or given up, never
\* both, and no other number was.
PastIsAccounted ==
  \A n \in Numbers :
    LET wasDelivered == \E i \in 1..Len(delivered) : delivered[i] = n
    IN /\ n < next => (wasDelivered <=> n \notin lost)
       /\ n >= next => ~wasDelivered /\ n \notin lost

\* Nothing that could be delivered waits.
WaitingBeyondGap == \A m \in waiting : m > next
=============================================================================
