----------------------------- MODULE BookBench ------------------------------
(***************************************************************************)
(* orderbook_latency (bench/orderbook_latency.cpp): the same random rounds *)
(* run on the first order book and on the builder's.  The program runs     *)
(* them one after the other; here they go in step, so that the books can   *)
(* be compared round by round.  A round is a take, which removes the best  *)
(* order of one side, and a make, which puts one back at a random level.   *)
(*                                                                         *)
(* `program` says who drives the first book: the benchmark, or any caller, *)
(* whose orders have any size and price and who calls match() when it      *)
(* likes (as MarketSimulator makes orders, include/MarketSimulator.hpp).   *)
(*                                                                         *)
(* Prices are in ticks.  Left out: the times measured, the listeners, and  *)
(* the untimed repetition of the same rounds.                              *)
(***************************************************************************)
EXTENDS ItchBuilder

CONSTANTS
  Depth,       \* resting orders per side
  Warmup,      \* rounds that are not measured
  Rounds,      \* all rounds
  kQty,        \* size of every order of the benchmark
  kBestBid,
  MaxOrders,   \* a caller's orders, their prices and their sizes: bound the
  MaxPrice,    \* model
  MaxQuantity

kBestAsk == kBestBid + 2
kTick == 1               \* a price no bid is below
Highest == kBestAsk + Depth  \* 1e9: a price no ask is above

ASSUME DepthAssumption ==
  /\ Depth \in Nat \ {0} /\ kBestBid \in Nat /\ Depth <= kBestBid
  /\ Cardinality(Slots) > 2 * Depth
ASSUME RoundsAssumption == Rounds \in Nat /\ Warmup \in 0..Rounds
ASSUME QuantityAssumption == kQty \in Nat \ {0}

VARIABLES
  program,
  book,      \* the first order book
  builder,
  pc,        \* what the driver of the first book does next
  round,     \* the round under way
  finished,  \* rounds that are over
  nextId,
  old, new   \* the results: trades and takes that were measured

vars == <<program, book, builder, pc, round, finished, nextId, old, new>>

Old == INSTANCE OrderBook

kLocate == 1
ASSUME LocateAssumption == kLocate \in Locates

BidAt(level) == kBestBid - level
AskAt(level) == kBestAsk + level

Order(id, price, quantity) == [id |-> id, price |-> price, quantity |-> quantity]

\* runNew()'s add(): references count up from 1, as the ids do.
NewAdd(b, ref, side, price) ==
  OnAdd(b, kLocate, [ref |-> ref, side |-> side, shares |-> kQty, price |-> price])

\* The books before the first round: Depth orders a side, one at each level.
Levels == [i \in 1..Depth |-> i - 1]
SetUpOld ==
  FoldLeft(LAMBDA b, i :
             Old!AddOrder(
               Old!AddOrder(b, Order(2 * i + 1, BidAt(i), kQty), TRUE),
               Order(2 * i + 2, AskAt(i), kQty), FALSE),
           Old!EmptyBook, Levels)
SetUpNew ==
  FoldLeft(LAMBDA b, i :
             NewAdd(NewAdd(b, 2 * i + 1, "B", BidAt(i)), 2 * i + 2, "S", AskAt(i)),
           NewBuilder, Levels)

NoResult == [trades |-> 0, takes |-> 0]

Init ==
  /\ \/ program = "bench" /\ pc = "take" /\ book = SetUpOld
          /\ builder = SetUpNew /\ nextId = 2 * Depth + 1
     \/ program = "caller" /\ pc = "call" /\ book = Old!EmptyBook
          /\ builder = NewBuilder /\ nextId = 1
  /\ round = [buyerTakes |-> FALSE, level |-> 0] /\ finished = 0
  /\ old = NoResult /\ new = NoResult

-----------------------------------------------------------------------------
(* The benchmark.                                                          *)

NextRef == finished + 2 * Depth + 1  \* nextRef in runNew()

\* The take on the first book: an aggressive order.
AddTake ==
  /\ pc = "take" /\ finished < Rounds
  /\ \E buyerTakes \in BOOLEAN, level \in 0..(Depth - 1) :
       round' = [buyerTakes |-> buyerTakes, level |-> level]
  /\ book' = Old!AddOrder(book, Order(nextId, IF round'.buyerTakes THEN Highest ELSE kTick, kQty),
                          round'.buyerTakes)
  /\ nextId' = nextId + 1 /\ pc' = "match take"
  /\ UNCHANGED <<program, builder, finished, old, new>>

\* frontOfBest()
FrontOfBest ==
  LET levels == builder.books[kLocate][IF round.buyerTakes THEN "Ask" ELSE "Bid"]
  IN builder.orders[Last(levels).head].ref

Measured == finished >= Warmup
Plus(result, n, takes) == [trades |-> result.trades + n, takes |-> result.takes + takes]

\* It is matched, and on the other book the order first in line is executed.
MatchTake ==
  /\ pc = "match take"
  /\ LET matched == Old!Match(book)
     IN /\ book' = matched.book
        /\ old' = IF Measured THEN Plus(old, Len(matched.trades), 1) ELSE old
  /\ builder' = OnExecuted(builder, [ref |-> FrontOfBest, shares |-> kQty])
  /\ pc' = "make"
  /\ UNCHANGED <<program, round, finished, nextId, new>>

\* Mutant: the refill goes to the other side.
RefillsAsksSwapped == ~round.buyerTakes
RefillsAsks == round.buyerTakes

AddMake ==
  /\ pc = "make"
  /\ book' = Old!AddOrder(book,
               Order(nextId, IF RefillsAsks THEN AskAt(round.level) ELSE BidAt(round.level), kQty),
               ~RefillsAsks)
  /\ nextId' = nextId + 1 /\ pc' = "match make"
  /\ UNCHANGED <<program, builder, round, finished, old, new>>

MatchMake ==
  /\ pc = "match make"
  /\ LET matched == Old!Match(book)
     IN /\ book' = matched.book
        /\ old' = IF Measured THEN Plus(old, Len(matched.trades), 0) ELSE old
  /\ builder' = IF round.buyerTakes
                THEN NewAdd(builder, NextRef, "S", AskAt(round.level))
                ELSE NewAdd(builder, NextRef, "B", BidAt(round.level))
  /\ new' = IF Measured THEN Plus(new, 1, 1) ELSE new
  /\ finished' = finished + 1 /\ pc' = "take"
  /\ UNCHANGED <<program, round, nextId>>

\* The end of runNew() and the comparison in main().
NewTrades ==
  IF builder.stats.unknownRefs # 0 \/ builder.stats.overExecutions # 0 THEN 0
  ELSE new.trades
Status == IF old.trades = old.takes /\ NewTrades = new.takes THEN 0 ELSE 1

-----------------------------------------------------------------------------
(* Any other caller of the first book.                                     *)

CallAddOrder ==
  /\ pc = "call" /\ nextId <= MaxOrders
  /\ \E isBuy \in BOOLEAN, price \in 1..MaxPrice, quantity \in 1..MaxQuantity :
       book' = Old!AddOrder(book, Order(nextId, price, quantity), isBuy)
  /\ nextId' = nextId + 1
  /\ UNCHANGED <<program, builder, pc, round, finished, old, new>>

CallMatch ==
  /\ pc = "call"
  /\ book' = Old!Match(book).book
  /\ UNCHANGED <<program, builder, pc, round, finished, nextId, old, new>>

Exited == pc = "take" /\ finished = Rounds /\ UNCHANGED vars

Next ==
  \/ AddTake \/ MatchTake \/ AddMake \/ MatchMake \/ Exited
  \/ CallAddOrder \/ CallMatch

Spec == Init /\ [][Next]_vars
-----------------------------------------------------------------------------
(* Properties.                                                             *)

SumOf(orders) == FoldLeft(LAMBDA sum, o : sum + o.quantity, 0, orders)

QuantityAt(orders, price) == SumOf(SelectSeq(orders, LAMBDA o : o.price = price))

SharesAt(levels, price) ==
  FoldLeft(LAMBDA sum, v : sum + v.shares, 0, SelectSeq(levels, LAMBDA v : v.price = price))

\* The benchmark compares like with like: after every round both books hold the
\* same shares at every price, Depth orders a side, so that no side is ever
\* found empty; and each take was one trade, in both.
BooksAgree ==
  program = "bench" /\ pc = "take" =>
    /\ \A price \in 1..Highest :
         /\ QuantityAt(book.bids, price) = SharesAt(builder.books[kLocate]["Bid"], price)
         /\ QuantityAt(book.asks, price) = SharesAt(builder.books[kLocate]["Ask"], price)
    /\ Len(book.bids) = Depth /\ Len(book.asks) = Depth
    /\ Status = 0

Traded(id, result) ==
  FoldLeft(LAMBDA sum, t : sum + (IF id \in {t.buy, t.sell} THEN t.quantity ELSE 0), 0, result)

\* Nobody is overcharged and nothing is lost: whenever match() may be called, it
\* leaves no prices crossed, an order has lost just what it traded, no trade is
\* above its buyer's price or below its seller's, and an order trades only when
\* no other of its side with a better price is left.
MatchingIsFair ==
  LET matched == Old!Match(book)
      after == matched.book
      PriceOf(side, id) == side[CHOOSE i \in DOMAIN side : side[i].id = id].price
      left == after.bids \o after.asks
  IN /\ ~Old!BestsCross(after)
     /\ \A o \in Range(book.bids \o book.asks) :
          o.quantity = SumOf(SelectSeq(left, LAMBDA r : r.id = o.id))
                         + Traded(o.id, matched.trades)
     /\ \A t \in Range(matched.trades) :
          LET buy == PriceOf(book.bids, t.buy)
              sell == PriceOf(book.asks, t.sell)
          IN /\ sell <= t.price /\ t.price <= buy
             /\ \A o \in Range(after.bids) : o.price <= buy
             /\ \A o \in Range(after.asks) : o.price >= sell
=============================================================================
