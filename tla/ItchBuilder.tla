----------------------------- MODULE ItchBuilder ----------------------------
(***************************************************************************)
(* BasicItchBookBuilder (include/ItchBook.hpp), as operators on its state: *)
(* it applies the messages of an ITCH feed to the books of all instruments *)
(* and tells its listener when the best bid or ask of one changes.         *)
(*                                                                         *)
(* Orders are found through an OrderIndex, here the map it implements      *)
(* (OrderIndex.tla), and live in an ObjectPool, which hands out some free  *)
(* slot (ObjectPool.tla): which one makes no difference here.  Left out:   *)
(* the counters of messages, of depths and of the peak, the times, and the *)
(* list of the first 100 crossings, which are only printed.                *)
(***************************************************************************)
EXTENDS L3OrderBook, FiniteSets

CONSTANTS
  Locates,  \* instruments
  kEmpty,   \* the reference OrderIndex cannot hold: 2^64 - 1
  Slots     \* slots of the pool

ASSUME NullAssumption == Null \notin Slots

Blank == [ref |-> kEmpty, price |-> 0, shares |-> 0, locate |-> Null,
          side |-> "Bid", prev |-> Null, next |-> Null]

\* The TopOfBook of an instrument.
TopOf(book) == [bid |-> BestOf(book["Bid"]), ask |-> BestOf(book["Ask"])]

NoneCounted ==
  [unknownRefs |-> 0, duplicateRefs |-> 0, overExecutions |-> 0,
   crossedDuringMarket |-> 0, crossedWhileTrading |-> 0]

NewBuilder ==
  [books |-> [l \in Locates |-> [s \in Sides |-> <<>>]],
   orders |-> [s \in Slots |-> Blank],
   acquired |-> {},                       \* slots handed out
   index |-> <<>>,                        \* the slot of each live reference
   liveOrders |-> 0,
   marketOpen |-> FALSE,
   tradingState |-> [l \in Locates |-> "T"],
   lastPrice |-> [l \in Locates |-> 0],
   symbols |-> [l \in Locates |-> <<>>],
   crossedByLocate |-> [l \in Locates |-> 0],
   told |-> [l \in Locates |-> [bid |-> NoQuote, ask |-> NoQuote]],
   stats |-> NoneCounted]

-----------------------------------------------------------------------------
(* The private methods.                                                    *)

IsLive(b, ref) == ref \in DOMAIN b.index

\* Mutant: the book is looked at before the order is in it.
CountsBefore(before, after, l) == before.marketOpen /\ Crossed(before.books[l])
Counts(before, after, l) == before.marketOpen /\ Crossed(after.books[l])

\* The end of addOrder(): a book left crossed is counted.
CountCrossing(before, after, l) ==
  IF ~Counts(before, after, l) THEN after
  ELSE [after EXCEPT
          !.crossedByLocate[l] = @ + 1,
          !.stats.crossedDuringMarket = @ + 1,
          !.stats.crossedWhileTrading =
            @ + (IF before.tradingState[l] = "T" THEN 1 ELSE 0)]

\* Mutant: tryInsert() overwrites the entry of a live reference.
RefusedNever(b, ref) == ref = kEmpty
Refused(b, ref) == ref = kEmpty \/ IsLive(b, ref)

FreeSlots(b) == Slots \ b.acquired

WithEntry(index, ref, slot) ==
  [r \in DOMAIN index \cup {ref} |-> IF r = ref THEN slot ELSE index[r]]

AddOrder(b, l, side, ref, shares, price) ==
  LET slot == CHOOSE s \in FreeSlots(b) : TRUE
      new == [Blank EXCEPT !.ref = ref, !.price = price, !.shares = shares,
                           !.locate = l, !.side = side]
      placed == Enqueue(b.books[l][side], [b.orders EXCEPT ![slot] = new], slot)
      added == [b EXCEPT !.books[l][side] = placed.levels,
                         !.orders = placed.orders,
                         !.acquired = @ \cup {slot},
                         !.index = WithEntry(@, ref, slot),
                         !.liveOrders = @ + 1]
  IN IF Refused(b, ref) THEN [b EXCEPT !.stats.duplicateRefs = @ + 1]
     ELSE CountCrossing(b, added, l)

\* Mutant: the order's slot is not given back.
ReleaseNever(slots, o) == slots
Release(slots, o) == slots \ {o}

RemoveOrder(b, o) ==
  LET order == b.orders[o]
      left == Unlink(b.books[order.locate][order.side], b.orders, o)
  IN [b EXCEPT !.books[order.locate][order.side] = left.levels,
               !.orders = [left.orders EXCEPT ![o] = Blank],
               !.acquired = Release(@, o),
               !.index = Restrict(@, DOMAIN @ \ {order.ref}),
               !.liveOrders = @ - 1]

\* take(): execution or partial cancel.
Take(b, o, shares) ==
  LET order == b.orders[o]
      over == IF shares > order.shares THEN 1 ELSE 0
      left == Reduce(b.books[order.locate][order.side], b.orders, o, shares)
  IN IF shares >= order.shares
     THEN RemoveOrder([b EXCEPT !.stats.overExecutions = @ + over], o)
     ELSE [b EXCEPT !.books[order.locate][order.side] = left.levels,
                    !.orders = left.orders]

\* Mutant: a change of size alone is not told.
ChangedPrice(before, after) ==
  before.bid.price # after.bid.price \/ before.ask.price # after.ask.price
Changed(before, after) == before # after

\* changeBook(): after a change to l's book the listener hears of its top, if
\* that is another than before.
ChangeBook(before, after, l) ==
  LET top == TopOf(after.books[l])
  IN IF Changed(TopOf(before.books[l]), top)
     THEN [after EXCEPT !.told[l] = top] ELSE after

-----------------------------------------------------------------------------
(* The handlers.                                                           *)

OnAdd(b, l, m) ==
  ChangeBook(b, AddOrder(b, l, IF m.side = "B" THEN "Bid" ELSE "Ask",
                         m.ref, m.shares, m.price), l)

\* lookup() of a reference that is not live.
Unknown(b) == [b EXCEPT !.stats.unknownRefs = @ + 1]

LocateOf(b, ref) == b.orders[b.index[ref]].locate

\* Shares leave a live order.
Shrink(b, m) ==
  ChangeBook(b, Take(b, b.index[m.ref], m.shares), LocateOf(b, m.ref))

OnExecuted(b, m) ==
  IF ~IsLive(b, m.ref) THEN Unknown(b)
  ELSE Shrink([b EXCEPT !.lastPrice[LocateOf(b, m.ref)] =
                 b.orders[b.index[m.ref]].price], m)

OnExecutedWithPrice(b, m) ==
  IF ~IsLive(b, m.ref) THEN Unknown(b)
  ELSE Shrink([b EXCEPT !.lastPrice[LocateOf(b, m.ref)] =
                 IF m.printable = "Y" THEN m.price ELSE @], m)

OnCancel(b, m) == IF ~IsLive(b, m.ref) THEN Unknown(b) ELSE Shrink(b, m)

OnDelete(b, m) ==
  IF ~IsLive(b, m.ref) THEN Unknown(b)
  ELSE ChangeBook(b, RemoveOrder(b, b.index[m.ref]), LocateOf(b, m.ref))

OnReplace(b, m) ==
  IF ~IsLive(b, m.oldRef) THEN Unknown(b)
  ELSE LET old == b.orders[b.index[m.oldRef]]
           removed == RemoveOrder(b, b.index[m.oldRef])
       IN ChangeBook(b, AddOrder(removed, old.locate, old.side, m.newRef,
                                 m.shares, m.price), old.locate)

OnTrade(b, l, m) == [b EXCEPT !.lastPrice[l] = m.price]

\* The name without the spaces that fill it up; a space is byte 32.
Symbol(stock) == SubSeq(stock, 1, SelectLastInSeq(stock, LAMBDA c : c # 32))

OnStockDirectory(b, l, m) == [b EXCEPT !.symbols[l] = Symbol(m.stock)]

OnSystemEvent(b, m) ==
  [b EXCEPT !.marketOpen = CASE m.code = "Q" -> TRUE
                             [] m.code = "M" -> FALSE
                             [] OTHER        -> @]

OnTradingAction(b, l, m) == [b EXCEPT !.tradingState[l] = m.state]

\* The handler dispatch() calls, and the builder after it.
Handle(b, m) ==
  CASE m.type \in {"A", "F"} -> OnAdd(b, m.locate, m)
    [] m.type = "E" -> OnExecuted(b, m)
    [] m.type = "C" -> OnExecutedWithPrice(b, m)
    [] m.type = "X" -> OnCancel(b, m)
    [] m.type = "D" -> OnDelete(b, m)
    [] m.type = "U" -> OnReplace(b, m)
    [] m.type = "P" -> OnTrade(b, m.locate, m)
    [] m.type = "R" -> OnStockDirectory(b, m.locate, m)
    [] m.type = "S" -> OnSystemEvent(b, m)
    [] m.type = "H" -> OnTradingAction(b, m.locate, m)
    [] OTHER -> b

\* What the books hold: the live orders, by reference, with the sides of a feed.
OrdersIn(b) ==
  [ref \in DOMAIN b.index |->
     LET o == b.orders[b.index[ref]]
     IN [side |-> IF o.side = "Bid" THEN "B" ELSE "S", price |-> o.price,
         shares |-> o.shares]]
=============================================================================
