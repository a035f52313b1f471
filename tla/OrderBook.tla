------------------------------ MODULE OrderBook -----------------------------
(***************************************************************************)
(* OrderBook (include/OrderBook.hpp): the repository's first order book,   *)
(* which matches orders itself, as operators on its two sorted sides.      *)
(* Prices are counted in ticks: the doubles of the code are only compared. *)
(***************************************************************************)
EXTENDS Integers, Sequences, SequencesExt

EmptyBook == [bids |-> <<>>, asks |-> <<>>]

\* A side with `order` inserted by lower_bound: behind those with a better price
\* and in front of its equals.
Inserted(side, order, better) == InsertAt(side, Len(better) + 1, order)

AddOrder(book, order, isBuy) ==
  IF isBuy
  THEN [book EXCEPT
          !.bids = Inserted(@, order, SelectSeq(@, LAMBDA o : o.price > order.price))]
  ELSE [book EXCEPT
          !.asks = Inserted(@, order, SelectSeq(@, LAMBDA o : o.price < order.price))]

-----------------------------------------------------------------------------
(* match(): the two best orders trade while their prices cross.            *)

BestsCross(book) ==
  /\ book.bids # <<>> /\ book.asks # <<>>
  /\ Head(book.bids).price >= Head(book.asks).price

\* Mutant: the first order of a side leaves whatever is left of it.
FilledAlways(side, quantity) == Tail(side)
\* What is left of a side when `quantity` of its first order has traded.
Filled(side, quantity) ==
  IF side[1].quantity = quantity THEN Tail(side)
  ELSE [side EXCEPT ![1].quantity = @ - quantity]

\* One turn of the loop on the book and the trades so far.
TradeBests(s) ==
  LET bid == Head(s.book.bids)
      ask == Head(s.book.asks)
      quantity == IF bid.quantity < ask.quantity THEN bid.quantity ELSE ask.quantity
      trade == [price |-> ask.price, quantity |-> quantity,
                buy |-> bid.id, sell |-> ask.id]
  IN [book |-> [bids |-> Filled(s.book.bids, quantity),
                asks |-> Filled(s.book.asks, quantity)],
      trades |-> Append(s.trades, trade)]

\* Every trade takes an order out, so there are fewer turns than orders.
Match(book) ==
  LET turns == [i \in 1..Len(book.bids) + Len(book.asks) |-> i]
  IN FoldLeft(LAMBDA s, i : IF BestsCross(s.book) THEN TradeBests(s) ELSE s,
              [book |-> book, trades |-> <<>>], turns)
=============================================================================
