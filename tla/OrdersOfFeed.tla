---------------------------- MODULE OrdersOfFeed ----------------------------
(***************************************************************************)
(* What a feed of ITCH messages means, without books, index or pool: the   *)
(* orders it leaves, by reference, and whether its messages fit together.  *)
(* The programs that read feeds (ItchReplay, MoldReceiver) are held to it. *)
(***************************************************************************)
EXTENDS Integers, Sequences, SequencesExt

\* No order yet, no message for an order that was not there or had fewer
\* shares, no reference given twice.
Start == [orders |-> <<>>, unmatched |-> FALSE, reused |-> FALSE]

Removed(live, ref) == [live EXCEPT !.orders = Restrict(@, DOMAIN @ \ {ref})]

With(orders, ref, order) ==
  [r \in DOMAIN orders \cup {ref} |-> IF r = ref THEN order ELSE orders[r]]

Entered(live, m, ref, side) ==
  LET order == [side |-> side, price |-> m.price, shares |-> m.shares]
  IN IF ref \in DOMAIN live.orders THEN [live EXCEPT !.reused = TRUE]
     ELSE [live EXCEPT !.orders = With(@, ref, order)]

Lowered(live, ref, shares) ==
  CASE live.orders[ref].shares > shares -> [live EXCEPT !.orders[ref].shares = @ - shares]
    [] live.orders[ref].shares = shares -> Removed(live, ref)
    [] OTHER -> [Removed(live, ref) EXCEPT !.unmatched = TRUE]

Follow(live, m) ==
  LET Missing(ref) == ref \notin DOMAIN live.orders
      unmatched == [live EXCEPT !.unmatched = TRUE]
  IN CASE m.type \in {"A", "F"} -> Entered(live, m, m.ref, m.side)
       [] m.type = "D" -> IF Missing(m.ref) THEN unmatched ELSE Removed(live, m.ref)
       [] m.type \in {"E", "C", "X"} ->
            IF Missing(m.ref) THEN unmatched ELSE Lowered(live, m.ref, m.shares)
       [] m.type = "U" ->
            IF Missing(m.oldRef) THEN unmatched
            ELSE Entered(Removed(live, m.oldRef), m, m.newRef, live.orders[m.oldRef].side)
       [] OTHER -> live

Leaves(feed) == FoldLeft(Follow, Start, feed)
=============================================================================
