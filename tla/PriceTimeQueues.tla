--------------------------- MODULE PriceTimeQueues --------------------------
(***************************************************************************)
(* What the order books built from an ITCH feed promise: for every         *)
(* instrument, side and price, the live orders in time priority.  An order *)
(* that is partly executed or cancelled keeps its place; a replacement is  *)
(* a new order and goes to the back.                                       *)
(***************************************************************************)
EXTENDS Integers, Sequences, SequencesExt

CONSTANTS Locates, Refs, Prices, MaxShares

QueueSides == {"Bid", "Ask"}

VARIABLE queue  \* queue[l][s][p]: the orders of instrument l, side s, price p

Init == queue = [l \in Locates |-> [s \in QueueSides |-> [p \in Prices |-> <<>>]]]

-----------------------------------------------------------------------------
(* The steps, as relations of the queues q before and r after a message.   *)

\* Order `ref` is the nth in line at l, s, p.
At(q, ref, l, s, p, n) == n \in DOMAIN q[l][s][p] /\ q[l][s][p][n].ref = ref

Live(q, ref) ==
  \E l \in Locates, s \in QueueSides, p \in Prices :
    \E n \in DOMAIN q[l][s][p] : At(q, ref, l, s, p, n)

Order(ref, shares) == [ref |-> ref, shares |-> shares]

Enter(q, r, ref, l, s, p) ==
  /\ ~Live(q, ref)
  /\ \E shares \in 0..MaxShares :
       r = [q EXCEPT ![l][s][p] = Append(@, Order(ref, shares))]

\* Part of an order is executed or cancelled: it keeps its place.
Shrink(q, r, l, s, p, n) ==
  \E shares \in 0..(q[l][s][p][n].shares - 1) :
    r = [q EXCEPT ![l][s][p][n].shares = @ - shares]

Without(q, l, s, p, n) == [q EXCEPT ![l][s][p] = RemoveAt(@, n)]

\* All of it is, or it is deleted, or its replacement is refused.
Leave(q, r, l, s, p, n) == r = Without(q, l, s, p, n)

Replace(q, r, l, s, p, n) ==
  \E new \in Refs, price \in Prices, shares \in 0..MaxShares :
    /\ ~Live(Without(q, l, s, p, n), new)
    /\ r = [Without(q, l, s, p, n) EXCEPT ![l][s][price] =
              Append(@, Order(new, shares))]

Step(q, r) ==
  \E l \in Locates, s \in QueueSides :
    /\ q[l][s] # r[l][s]
    /\ \E p \in Prices :
         \/ \E ref \in Refs : Enter(q, r, ref, l, s, p)
         \/ \E n \in DOMAIN q[l][s][p] :
              Shrink(q, r, l, s, p, n) \/ Leave(q, r, l, s, p, n)
                \/ Replace(q, r, l, s, p, n)

\* The queues are looked at once: as a mapping they are costly to evaluate.
Next == \E q \in {queue}, r \in {queue'} : Step(q, r)

Spec == Init /\ [][Next]_queue
=============================================================================
