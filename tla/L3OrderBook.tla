----------------------------- MODULE L3OrderBook ----------------------------
(***************************************************************************)
(* L3OrderBook (include/L3OrderBook.hpp): one side of one instrument's     *)
(* book, as operators on its price levels and on the memory of the orders. *)
(* The levels are sorted, the best one last; a level knows the first and   *)
(* the last of its orders, and the orders link to one another.  A pointer  *)
(* to an order is the slot of the pool it lives in, or Null.               *)
(***************************************************************************)
EXTENDS Integers, Sequences, SequencesExt

CONSTANT Null

Sides == {"Bid", "Ask"}

-----------------------------------------------------------------------------
(* Finding a level.                                                        *)

Worse(side, p, q) == IF side = "Bid" THEN p < q ELSE p > q

\* Mutant: bids and asks ascend alike.
LowerBoundAscending(levels, side, price) ==
  CHOOSE at \in 1..(Len(levels) + 1) :
    /\ \A i \in 1..(at - 1) : levels[i].price < price
    /\ at <= Len(levels) => levels[at].price >= price
\* Where the level at `price` is, or would be inserted.
LowerBound(levels, side, price) ==
  CHOOSE at \in 1..(Len(levels) + 1) :
    /\ \A i \in 1..(at - 1) : Worse(side, levels[i].price, price)
    /\ at <= Len(levels) => ~Worse(side, levels[at].price, price)

EmptyLevel(price) ==
  [price |-> price, orderCount |-> 0, shares |-> 0, head |-> Null, tail |-> Null]

\* add() makes a level for a price that has none.
Opened(levels, at, price) ==
  IF at <= Len(levels) /\ levels[at].price = price THEN levels
  ELSE InsertAt(levels, at, EmptyLevel(price))

-----------------------------------------------------------------------------
(* add(), reduce(), remove(): the levels and the orders they leave.        *)

\* Order `o` goes to the back of the queue at its price.
Enqueue(levels, orders, o) ==
  LET order == orders[o]
      at == LowerBound(levels, order.side, order.price)
      opened == Opened(levels, at, order.price)
      last == opened[at].tail
  IN [levels |->
        [opened EXCEPT ![at].head = IF last = Null THEN o ELSE @,
                       ![at].tail = o,
                       ![at].orderCount = @ + 1,
                       ![at].shares = @ + order.shares],
      orders |->
        [s \in DOMAIN orders |->
           CASE s = o    -> [order EXCEPT !.prev = last, !.next = Null]
             [] s = last -> [orders[s] EXCEPT !.next = o]
             [] OTHER    -> orders[s]]]

Reduce(levels, orders, o, shares) ==
  LET at == LowerBound(levels, orders[o].side, orders[o].price)
  IN [levels |-> [levels EXCEPT ![at].shares = @ - shares],
      orders |-> [orders EXCEPT ![o].shares = @ - shares]]

\* The back of the queue moves when the last order leaves.
NewTail(level, order) == IF order.next = Null THEN order.prev ELSE level.tail

DropIfEmpty(levels, at) ==
  IF levels[at].orderCount = 0 THEN RemoveAt(levels, at) ELSE levels

\* Order `o` is unlinked, and its level dropped if that was its last order.
Unlink(levels, orders, o) ==
  LET order == orders[o]
      at == LowerBound(levels, order.side, order.price)
      unlinked ==
        [levels EXCEPT ![at].head = IF order.prev = Null THEN order.next ELSE @,
                       ![at].tail = NewTail(levels[at], order),
                       ![at].orderCount = @ - 1,
                       ![at].shares = @ - order.shares]
  IN [levels |-> DropIfEmpty(unlinked, at),
      orders |->
        [s \in DOMAIN orders |->
           CASE s = o          -> [order EXCEPT !.prev = Null, !.next = Null]
             [] s = order.prev -> [orders[s] EXCEPT !.next = order.next]
             [] s = order.next -> [orders[s] EXCEPT !.prev = order.prev]
             [] OTHER          -> orders[s]]]

-----------------------------------------------------------------------------
(* Queries on both sides of a book.                                        *)

NoQuote == [price |-> 0, shares |-> 0]

BestOf(levels) ==
  IF levels = <<>> THEN NoQuote
  ELSE [price |-> Last(levels).price, shares |-> Last(levels).shares]

Crossed(book) ==
  /\ book["Bid"] # <<>> /\ book["Ask"] # <<>>
  /\ Last(book["Bid"]).price >= Last(book["Ask"]).price

\* The orders queued at a level, from the first in line.
QueueAt(level, orders) ==
  LET After(o) == IF o = Null THEN Null ELSE orders[o].next
      inLine[n \in 1..level.orderCount] ==
        IF n = 1 THEN level.head ELSE After(inLine[n - 1])
  IN [n \in 1..level.orderCount |-> inLine[n]]
=============================================================================
