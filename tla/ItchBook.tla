------------------------------ MODULE ItchBook ------------------------------
(***************************************************************************)
(* The builder of ItchBuilder under any sequence of messages, sensible or  *)
(* not.  No handler reads a counter: of the crossings the state holds what *)
(* the last message counted, and the errors, on which programs decide how  *)
(* to exit (ItchReplay, MoldReceiver), are not held here.  Without the     *)
(* last prices, an execution is what a partial cancel is.                  *)
(***************************************************************************)
EXTENDS ItchBuilder

CONSTANTS
  Refs,      \* order reference numbers in the feed
  Prices,
  Sizes,     \* sizes of orders
  MaxShares  \* the largest

ASSUME EmptyAssumption == kEmpty \notin Refs
ASSUME PricesAssumption == Prices \subseteq Nat \ {0}
ASSUME SizesAssumption == MaxShares \in Nat /\ Sizes \subseteq 0..MaxShares
ASSUME SlotsAssumption ==
  /\ IsFiniteSet(Slots) /\ IsFiniteSet(Refs)
  /\ Cardinality(Slots) > Cardinality(Refs)

VARIABLE builder

AnyRef == Refs \cup {kEmpty}

Init == builder = NewBuilder

Cleared ==
  [builder EXCEPT !.stats = NoneCounted,
                  !.crossedByLocate = [l \in Locates |-> 0]]

-----------------------------------------------------------------------------
(* The messages, by the handler they come to.                              *)

After(b) ==
  builder' = [b EXCEPT !.stats.unknownRefs = 0, !.stats.duplicateRefs = 0,
                       !.stats.overExecutions = 0]

Add(l, ref, side, shares, price) ==
  After(OnAdd(Cleared, l, [ref |-> ref, side |-> side,
                           shares |-> shares, price |-> price]))

Cancel(ref, shares) == After(OnCancel(Cleared, [ref |-> ref, shares |-> shares]))

Delete(ref) == After(OnDelete(Cleared, [ref |-> ref]))

Replace(ref, newRef, shares, price) ==
  After(OnReplace(Cleared, [oldRef |-> ref, newRef |-> newRef,
                            shares |-> shares, price |-> price]))

SystemEvent(code) == After(OnSystemEvent(Cleared, [code |-> code]))

TradingAction(l, state) == After(OnTradingAction(Cleared, l, [state |-> state]))

Next ==
  \/ \E ref \in AnyRef :
       \/ Delete(ref)
       \/ \E shares \in 0..MaxShares + 1 : Cancel(ref, shares)
       \/ \E shares \in Sizes, price \in Prices :
            \/ \E l \in Locates, side \in {"B", "S"} : Add(l, ref, side, shares, price)
            \/ \E newRef \in AnyRef : Replace(ref, newRef, shares, price)
  \/ \E code \in {"O", "Q", "M"} : SystemEvent(code)
  \/ \E l \in Locates, state \in {"T", "H"} : TradingAction(l, state)

Spec == Init /\ [][Next]_builder

-----------------------------------------------------------------------------
(* Properties.                                                             *)

books == builder.books
orders == builder.orders

\* No order is stranded and no slot leaks: the index finds every slot handed
\* out, under its own reference, and finds nothing else, whatever references
\* the feed reuses; liveOrders counts them.
IndexFindsEveryOrder ==
  /\ \A ref \in DOMAIN builder.index :
       LET slot == builder.index[ref]
       IN slot \in builder.acquired /\ orders[slot].ref = ref
  /\ \A slot \in builder.acquired :
       LET ref == orders[slot].ref
       IN IsLive(builder, ref) /\ builder.index[ref] = slot
  /\ builder.liveOrders = Cardinality(builder.acquired)

\* The shares of the first orders in line, and of all of them.
SharesUpTo(q, memory) ==
  LET sum[n \in 0..Len(q)] ==
        IF n = 0 THEN 0 ELSE sum[n - 1] + memory[q[n]].shares
  IN sum
SharesOf(q, memory) == SharesUpTo(q, memory)[Len(q)]

\* The levels of each side are sorted with the best at the back, none is empty,
\* and each one's totals and links agree with the orders queued at it.
BooksWellFormed ==
  \A l \in Locates, side \in Sides :
    LET levels == books[l][side]
    IN \A i \in DOMAIN levels :
         LET q == QueueAt(levels[i], orders)
         IN /\ i > 1 => Worse(side, levels[i - 1].price, levels[i].price)
            /\ levels[i].orderCount > 0
            /\ levels[i].shares = SharesOf(q, orders)
            /\ levels[i].tail = Last(q) /\ orders[Last(q)].next = Null
            /\ \A n \in DOMAIN q : orders[q[n]].prev = IF n = 1 THEN Null ELSE q[n - 1]
            /\ \A n \in DOMAIN q :
                 /\ orders[q[n]].locate = l /\ orders[q[n]].side = side
                 /\ orders[q[n]].price = levels[i].price

\* The listener's picture is never stale: what it heard last of an instrument
\* is that instrument's best bid and ask.
ListenerIsCurrent == \A l \in Locates : builder.told[l] = TopOf(books[l])

\* No crossed book goes unexplained, and none is counted that was not: in
\* market hours a book that an order crosses is counted as it does, as one
\* crossed while trading too if its instrument is not halted; and what is
\* counted is what an add or a replace leaves, never the moment in between.
CrossingsAreCounted ==
  [][\A l \in Locates :
       LET counted == builder'.crossedByLocate[l] > 0
       IN /\ builder.marketOpen /\ ~Crossed(books[l]) /\ Crossed(books'[l]) => counted
          /\ counted =>
               /\ builder.marketOpen /\ Crossed(books'[l])
               /\ builder'.liveOrders >= builder.liveOrders
               /\ builder'.stats.crossedDuringMarket = 1
               /\ builder.tradingState[l] = "T" <=>
                    builder'.stats.crossedWhileTrading = 1]_builder

\* The books are price-time queues of the live orders.
QueueOf(l, side, price) ==
  LET levels == books[l][side]
      at == {i \in DOMAIN levels : levels[i].price = price}
      q == IF at = {} THEN <<>> ELSE QueueAt(levels[CHOOSE i \in at : TRUE], orders)
  IN [n \in 1..Len(q) |-> [ref |-> orders[q[n]].ref, shares |-> orders[q[n]].shares]]

PriceTime == INSTANCE PriceTimeQueues WITH
  queue <- [l \in Locates |-> [side \in Sides |->
              [price \in Prices |-> QueueOf(l, side, price)]]]

ImplementsQueues == PriceTime!Spec
=============================================================================
