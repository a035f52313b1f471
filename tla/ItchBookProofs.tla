--------------------------- MODULE ItchBookProofs ---------------------------
(***************************************************************************)
(* Proofs about ItchBook, for any number of instruments, references,       *)
(* prices and sizes: no order is stranded, no slot leaks, the listener is  *)
(* never stale, the books are well formed, they are price-time queues of   *)
(* the live orders, and crossings are counted as they happen.              *)
(*                                                                         *)
(* The first half is about index, slots and listener.  It does not depend  *)
(* on the levels or on the links of the queues: all that is needed of      *)
(* L3OrderBook is that every order keeps its reference, instrument and     *)
(* side.  The induction is over the builder after a message.  That         *)
(* addOrder() finds a free slot follows from the invariant: live orders    *)
(* have references of their own, so they are no more than the references.  *)
(*                                                                         *)
(* The second half adds the queues.  Its invariant says that there are     *)
(* sequences of slots, one for each instrument, side and price, that the   *)
(* books stand for (Stands): every slot handed out is in the sequence of   *)
(* its order's place, once; prev and next are the neighbours there; the    *)
(* levels are sorted and are those of the sequences that are not empty,    *)
(* with their ends, their lengths and the sums of their sizes.  Enqueue    *)
(* appends to one sequence, Unlink removes from one, Reduce changes none.  *)
(* From there the books are read off: a level leads to its sequence        *)
(* (QueueAtIs), so the refinement mapping is the sequences, and the best   *)
(* level of a side is the best price of a sequence (BestIs), so a book is  *)
(* crossed by orders' entering only.                                       *)
(***************************************************************************)
EXTENDS ItchBook, NumberLemmas, FunctionTheorems, FiniteSetTheorems

Fields ==
  {"books", "orders", "acquired", "index", "liveOrders", "marketOpen",
   "tradingState", "lastPrice", "symbols", "crossedByLocate", "told", "stats"}

OrderFields == {"ref", "price", "shares", "locate", "side", "prev", "next"}

AreOrders(memory) ==
  /\ DOMAIN memory = Slots
  /\ \A s \in Slots : DOMAIN memory[s] = OrderFields

Shaped(b) ==
  /\ DOMAIN b = Fields
  /\ DOMAIN b.books = Locates /\ DOMAIN b.told = Locates
  /\ AreOrders(b.orders)

\* IndexFindsEveryOrder, of any state of the builder, with what it rests on.
Tracked(b) ==
  /\ b.acquired \subseteq Slots /\ IsFiniteSet(b.acquired)
  /\ DOMAIN b.index \subseteq Refs
  /\ \A s \in b.acquired : b.orders[s].locate \in Locates
  /\ \A ref \in DOMAIN b.index :
       b.index[ref] \in b.acquired /\ b.orders[b.index[ref]].ref = ref
  /\ \A s \in b.acquired :
       b.orders[s].ref \in DOMAIN b.index /\ b.index[b.orders[s].ref] = s
  /\ b.liveOrders = Cardinality(b.acquired)

Sound(b) == Shaped(b) /\ Tracked(b)

Current(b) == \A l \in Locates : b.told[l] = TopOf(b.books[l])

IInv == Sound(builder) /\ Current(builder)

USE EmptyAssumption, SlotsAssumption

-----------------------------------------------------------------------------
(* What leaves orders, books and listener alone.                           *)

\* Two states of the builder that differ in counters and the like at most.
Alike(a, b) ==
  /\ DOMAIN a = DOMAIN b
  /\ a.books = b.books /\ a.orders = b.orders /\ a.acquired = b.acquired
  /\ a.index = b.index /\ a.liveOrders = b.liveOrders /\ a.told = b.told

\* What differs in counters alone is as sound,
LEMMA AlikeSound ==
  ASSUME NEW a, NEW b, Alike(a, b), Sound(a)
  PROVE  Sound(b)
  <1>1. Shaped(b)
    BY DEF Alike, Sound, Shaped
  <1>2. Tracked(b)
    BY DEF Alike, Sound, Tracked
  <1> QED
    BY <1>1, <1>2 DEF Sound

\* and the listener as current.
LEMMA AlikeCurrent ==
  ASSUME NEW a, NEW b, Alike(a, b), Current(a)
  PROVE  Current(b)
  BY DEF Alike, Current

\* A change to the book of `l`, or to none, that the listener has not heard of.
OnlyBook(a, b, l) ==
  /\ a.told = b.told
  /\ \A k \in Locates : k # l => a.books[k] = b.books[k]

\* Counting a crossing is only counting.
LEMMA CountCrossingCorrect ==
  ASSUME NEW before, NEW after, NEW l, DOMAIN after = Fields
  PROVE  Alike(after, CountCrossing(before, after, l))
  BY DEF CountCrossing, Alike, Fields

\* Whatever was done to one book, changeBook() brings the listener up to date.
LEMMA ChangeBookCorrect ==
  ASSUME NEW before, NEW after, NEW l \in Locates,
         Sound(before), Current(before), Sound(after), OnlyBook(before, after, l)
  PROVE  Sound(ChangeBook(before, after, l)) /\ Current(ChangeBook(before, after, l))
  <1> DEFINE top == TopOf(after.books[l])
             told == [after EXCEPT !.told[l] = top]
  <1>1. CASE TopOf(before.books[l]) # top
    <2>1. ChangeBook(before, after, l) = told
      BY <1>1 DEF ChangeBook, Changed
    <2>2. /\ DOMAIN told = Fields
          /\ told.books = after.books /\ told.orders = after.orders
          /\ told.acquired = after.acquired /\ told.index = after.index
          /\ told.liveOrders = after.liveOrders
          /\ told.told = [after.told EXCEPT ![l] = top]
      BY DEF Sound, Shaped, Fields
    <2>3. Shaped(told)
      BY <2>2 DEF Sound, Shaped
    <2>4. Tracked(told)
      BY <2>2 DEF Sound, Tracked
    <2>5. ASSUME NEW k \in Locates PROVE told.told[k] = TopOf(told.books[k])
      BY <2>2 DEF Current, OnlyBook, Sound, Shaped
    <2> QED
      BY <2>1, <2>3, <2>4, <2>5 DEF Sound, Current
  <1>2. CASE TopOf(before.books[l]) = top
    <2>1. ChangeBook(before, after, l) = after
      BY <1>2 DEF ChangeBook, Changed
    <2>2. ASSUME NEW k \in Locates PROVE after.told[k] = TopOf(after.books[k])
      BY <1>2 DEF Current, OnlyBook
    <2> QED
      BY <2>1, <2>2 DEF Current
  <1> QED
    BY <1>1, <1>2

-----------------------------------------------------------------------------
(* What the queues do to the orders: sizes and links change, no more.      *)

SameOrders(m, n) ==
  /\ AreOrders(n)
  /\ \A s \in Slots : n[s].ref = m[s].ref /\ n[s].locate = m[s].locate

\* add(), remove() and reduce(), whatever the levels.
LEMMA EnqueueKeepsOrders ==
  ASSUME NEW m, AreOrders(m), NEW levels, NEW o \in Slots
  PROVE  SameOrders(m, Enqueue(levels, m, o).orders)
  BY DEF AreOrders, OrderFields, SameOrders, Enqueue

LEMMA UnlinkKeepsOrders ==
  ASSUME NEW m, AreOrders(m), NEW levels, NEW o \in Slots
  PROVE  SameOrders(m, Unlink(levels, m, o).orders)
  BY DEF AreOrders, OrderFields, SameOrders, Unlink

LEMMA ReduceKeepsOrders ==
  ASSUME NEW m, AreOrders(m), NEW levels, NEW o \in Slots, NEW shares
  PROVE  SameOrders(m, Reduce(levels, m, o, shares).orders)
  BY DEF AreOrders, OrderFields, SameOrders, Reduce

\* One order changes altogether.
LEMMA OneOrderChanges ==
  ASSUME NEW m, AreOrders(m), NEW o \in Slots, NEW order, DOMAIN order = OrderFields
  PROVE  /\ AreOrders([m EXCEPT ![o] = order])
         /\ [m EXCEPT ![o] = order][o] = order
         /\ \A s \in Slots : s # o => [m EXCEPT ![o] = order][s] = m[s]
  BY DEF AreOrders

\* A slot that is not handed out has the fields of an order.
LEMMA BlankIsAnOrder == DOMAIN Blank = OrderFields
  BY DEF Blank, OrderFields

-----------------------------------------------------------------------------
(* addOrder(), removeOrder(), take().                                      *)

\* There is always a slot for one order more.
LEMMA SlotIsFree ==
  ASSUME NEW b, Sound(b)
  PROVE  \E s \in Slots : s \notin b.acquired
  <1> DEFINE f == [s \in b.acquired |-> b.orders[s].ref]
  <1>1. f \in Injection(b.acquired, Refs)
    <2>1. f \in [b.acquired -> Refs]
      BY DEF Sound, Tracked
    <2>2. \A s, t \in b.acquired : f[s] = f[t] => s = t
      BY DEF Sound, Tracked
    <2> QED
      BY <2>1, <2>2, Fun_IsInj
  <1>2. Cardinality(b.acquired) <= Cardinality(Refs)
    BY <1>1, FS_Injection
  <1>3. Cardinality(Refs) \in Nat /\ Cardinality(Slots) \in Nat
    BY FS_CardinalityType
  <1>4. Cardinality(b.acquired) \in Nat
    BY FS_CardinalityType DEF Sound, Tracked
  <1>5. b.acquired # Slots
    BY <1>2, <1>3, <1>4
  <1> QED
    BY <1>5 DEF Sound, Tracked

\* addOrder() enters the order in the index, or refuses it.
LEMMA AddOrderCorrect ==
  ASSUME NEW b, Sound(b), NEW l \in Locates, NEW side, NEW ref \in AnyRef,
         NEW shares, NEW price
  PROVE  /\ Sound(AddOrder(b, l, side, ref, shares, price))
         /\ OnlyBook(b, AddOrder(b, l, side, ref, shares, price), l)
  <1> DEFINE slot == CHOOSE s \in FreeSlots(b) : TRUE
             new == [Blank EXCEPT !.ref = ref, !.price = price, !.shares = shares,
                                  !.locate = l, !.side = side]
             memory == [b.orders EXCEPT ![slot] = new]
             placed == Enqueue(b.books[l][side], memory, slot)
             added == [b EXCEPT !.books[l][side] = placed.levels,
                                !.orders = placed.orders,
                                !.acquired = @ \cup {slot},
                                !.index = WithEntry(@, ref, slot),
                                !.liveOrders = @ + 1]
             refused == [b EXCEPT !.stats.duplicateRefs = @ + 1]
             result == AddOrder(b, l, side, ref, shares, price)
  <1>1. CASE Refused(b, ref)
    <2>1. result = refused
      BY <1>1 DEF AddOrder
    <2>2. Alike(b, refused)
      BY DEF Alike, Sound, Shaped, Fields
    <2> QED
      BY <2>1, <2>2, AlikeSound DEF OnlyBook, Alike
  <1>2. CASE ~Refused(b, ref)
    <2>1. result = CountCrossing(b, added, l)
      BY <1>2 DEF AddOrder
    <2>2. slot \in Slots /\ slot \notin b.acquired
      BY SlotIsFree DEF FreeSlots
    <2>3. ref \in Refs /\ ref \notin DOMAIN b.index
      BY <1>2 DEF Refused, IsLive, AnyRef
    <2>4. DOMAIN new = OrderFields /\ new.ref = ref /\ new.locate = l
      BY DEF Blank, OrderFields
    <2>5. /\ AreOrders(memory)
          /\ memory[slot] = new
          /\ \A s \in Slots : s # slot => memory[s] = b.orders[s]
      <3> HIDE DEF slot, new
      <3> QED
        BY <2>2, <2>4, OneOrderChanges DEF Sound, Shaped
    <2> HIDE DEF slot, new, memory
    <2>6. SameOrders(memory, placed.orders)
      BY <2>2, <2>5, EnqueueKeepsOrders
    <2> HIDE DEF placed
    <2>7. /\ DOMAIN added = Fields
          /\ DOMAIN added.books = Locates
          /\ \A k \in Locates : k # l => added.books[k] = b.books[k]
          /\ added.orders = placed.orders
          /\ added.acquired = b.acquired \cup {slot}
          /\ added.index = WithEntry(b.index, ref, slot)
          /\ added.liveOrders = b.liveOrders + 1
          /\ added.told = b.told
      BY DEF Sound, Shaped, Fields
    <2> HIDE DEF added
    <2>8. Shaped(added)
      BY <2>6, <2>7 DEF Shaped, Sound, SameOrders
    <2>9. Tracked(added)
      <3>1. added.acquired \subseteq Slots /\ IsFiniteSet(added.acquired)
        BY <2>2, <2>7, FS_AddElement DEF Sound, Tracked
      <3>2. DOMAIN added.index = DOMAIN b.index \cup {ref} /\ added.index[ref] = slot
        BY <2>7 DEF WithEntry
      <3>3. \A r \in DOMAIN b.index : added.index[r] = b.index[r]
        BY <2>3, <2>7 DEF WithEntry
      <3>4. added.orders[slot].ref = ref /\ added.orders[slot].locate = l
        BY <2>2, <2>4, <2>5, <2>6, <2>7 DEF SameOrders
      <3>5. \A s \in b.acquired : /\ added.orders[s].ref = b.orders[s].ref
                                  /\ added.orders[s].locate = b.orders[s].locate
        BY <2>2, <2>5, <2>6, <2>7 DEF SameOrders, Sound, Tracked
      <3>6. DOMAIN added.index \subseteq Refs
        BY <2>3, <3>2 DEF Sound, Tracked
      <3>7. \A s \in added.acquired : added.orders[s].locate \in Locates
        BY <2>7, <3>4, <3>5 DEF Sound, Tracked
      <3>8. \A r \in DOMAIN added.index :
              added.index[r] \in added.acquired /\ added.orders[added.index[r]].ref = r
        BY <2>7, <3>2, <3>3, <3>4, <3>5 DEF Sound, Tracked
      <3>9. \A s \in added.acquired : /\ added.orders[s].ref \in DOMAIN added.index
                                      /\ added.index[added.orders[s].ref] = s
        BY <2>7, <3>2, <3>3, <3>4, <3>5 DEF Sound, Tracked
      <3>10. added.liveOrders = Cardinality(added.acquired)
        <4>1. IsFiniteSet(b.acquired) /\ b.liveOrders = Cardinality(b.acquired)
          BY DEF Sound, Tracked
        <4>2. Cardinality(b.acquired \cup {slot}) = Cardinality(b.acquired) + 1
          BY <2>2, <4>1, FS_AddElement
        <4> QED
          BY <2>7, <4>1, <4>2
      <3> QED
        BY <3>1, <3>6, <3>7, <3>8, <3>9, <3>10 DEF Tracked
    <2>10. Alike(added, result)
      BY <2>1, <2>7, CountCrossingCorrect
    <2> QED
      BY <2>7, <2>8, <2>9, <2>10, AlikeSound DEF Sound, OnlyBook, Alike
  <1> QED
    BY <1>1, <1>2

\* removeOrder() takes the order out of index and slots.
LEMMA RemoveOrderCorrect ==
  ASSUME NEW b, Sound(b), NEW o \in b.acquired
  PROVE  /\ Sound(RemoveOrder(b, o))
         /\ OnlyBook(b, RemoveOrder(b, o), b.orders[o].locate)
         /\ b.orders[o].locate \in Locates
  <1> DEFINE order == b.orders[o]
             left == Unlink(b.books[order.locate][order.side], b.orders, o)
             memory == [left.orders EXCEPT ![o] = Blank]
             result == RemoveOrder(b, o)
  <1>1. /\ o \in Slots /\ order.locate \in Locates
        /\ order.ref \in DOMAIN b.index /\ b.index[order.ref] = o
    BY DEF Sound, Tracked
  <1>2. SameOrders(b.orders, left.orders)
    BY <1>1, UnlinkKeepsOrders DEF Sound, Shaped
  <1> HIDE DEF left
  <1>3. AreOrders(memory) /\ \A s \in Slots : s # o => memory[s] = left.orders[s]
    BY <1>1, <1>2, BlankIsAnOrder, OneOrderChanges DEF SameOrders
  <1>4. /\ DOMAIN result = Fields
        /\ DOMAIN result.books = Locates
        /\ \A k \in Locates : k # order.locate => result.books[k] = b.books[k]
        /\ result.orders = memory
        /\ result.acquired = b.acquired \ {o}
        /\ result.index = Restrict(b.index, DOMAIN b.index \ {order.ref})
        /\ result.liveOrders = b.liveOrders - 1
        /\ result.told = b.told
    BY DEF RemoveOrder, Release, Sound, Shaped, Fields, left
  <1> HIDE DEF result, memory
  <1>5. Shaped(result)
    BY <1>3, <1>4 DEF Shaped, Sound
  <1>6. Tracked(result)
    <2>1. result.acquired \subseteq Slots /\ IsFiniteSet(result.acquired)
      BY <1>4, FS_RemoveElement DEF Sound, Tracked
    <2>2. /\ DOMAIN result.index = DOMAIN b.index \ {order.ref}
          /\ \A r \in DOMAIN result.index : result.index[r] = b.index[r]
      BY <1>4 DEF Restrict
    <2>3. \A s \in result.acquired : /\ s \in b.acquired /\ s # o
                                     /\ result.orders[s].ref = b.orders[s].ref
                                     /\ result.orders[s].locate = b.orders[s].locate
      BY <1>2, <1>3, <1>4 DEF SameOrders, Sound, Tracked
    <2>4. DOMAIN result.index \subseteq Refs
      BY <2>2 DEF Sound, Tracked
    <2>5. \A s \in result.acquired : result.orders[s].locate \in Locates
      BY <2>3 DEF Sound, Tracked
    <2>6. ASSUME NEW r \in DOMAIN result.index
          PROVE  result.index[r] \in result.acquired /\ result.orders[result.index[r]].ref = r
      <3>1. r \in DOMAIN b.index /\ r # order.ref /\ result.index[r] = b.index[r]
        BY <2>2
      <3>2. b.index[r] \in b.acquired /\ b.orders[b.index[r]].ref = r
        BY <3>1 DEF Sound, Tracked
      <3>3. b.index[r] # o
        BY <3>1, <3>2
      <3> QED
        BY <1>4, <2>3, <3>1, <3>2, <3>3
    <2>7. \A s \in result.acquired : /\ result.orders[s].ref \in DOMAIN result.index
                                     /\ result.index[result.orders[s].ref] = s
      BY <1>1, <2>2, <2>3 DEF Sound, Tracked
    <2>8. result.liveOrders = Cardinality(result.acquired)
      <3>1. IsFiniteSet(b.acquired) /\ b.liveOrders = Cardinality(b.acquired)
        BY DEF Sound, Tracked
      <3>2. Cardinality(b.acquired \ {o}) = Cardinality(b.acquired) - 1
        BY <3>1, FS_RemoveElement
      <3> QED
        BY <1>4, <3>1, <3>2
    <2> QED
      BY <2>1, <2>4, <2>5, <2>6, <2>7, <2>8 DEF Tracked
  <1> QED
    BY <1>1, <1>4, <1>5, <1>6 DEF Sound, OnlyBook, result

\* take() does that too, or leaves index and slots alone.
LEMMA TakeCorrect ==
  ASSUME NEW b, Sound(b), NEW o \in b.acquired, NEW shares
  PROVE  /\ Sound(Take(b, o, shares))
         /\ OnlyBook(b, Take(b, o, shares), b.orders[o].locate)
         /\ b.orders[o].locate \in Locates
  <1> DEFINE order == b.orders[o]
             over == IF shares > order.shares THEN 1 ELSE 0
             counted == [b EXCEPT !.stats.overExecutions = @ + over]
             left == Reduce(b.books[order.locate][order.side], b.orders, o, shares)
             reduced == [b EXCEPT !.books[order.locate][order.side] = left.levels,
                                  !.orders = left.orders]
  <1>1. CASE shares >= order.shares
    <2>1. Take(b, o, shares) = RemoveOrder(counted, o)
      BY <1>1 DEF Take
    <2>2. Alike(b, counted)
      BY DEF Alike, Sound, Shaped, Fields
    <2> HIDE DEF counted
    <2>3. Sound(counted) /\ o \in counted.acquired /\ counted.orders[o] = b.orders[o]
      BY <2>2, AlikeSound DEF Alike
    <2>4. /\ Sound(RemoveOrder(counted, o))
          /\ OnlyBook(counted, RemoveOrder(counted, o), order.locate)
          /\ order.locate \in Locates
      BY <2>3, RemoveOrderCorrect
    <2> QED
      BY <2>1, <2>2, <2>4 DEF OnlyBook, Alike
  <1>2. CASE ~(shares >= order.shares)
    <2>1. Take(b, o, shares) = reduced
      BY <1>2 DEF Take
    <2>2. o \in Slots /\ order.locate \in Locates
      BY DEF Sound, Tracked
    <2>3. SameOrders(b.orders, left.orders)
      BY <2>2, ReduceKeepsOrders DEF Sound, Shaped
    <2> HIDE DEF left
    <2>4. /\ DOMAIN reduced = Fields
          /\ DOMAIN reduced.books = Locates
          /\ \A k \in Locates : k # order.locate => reduced.books[k] = b.books[k]
          /\ reduced.orders = left.orders
          /\ reduced.acquired = b.acquired /\ reduced.index = b.index
          /\ reduced.liveOrders = b.liveOrders /\ reduced.told = b.told
      BY DEF Sound, Shaped, Fields
    <2> HIDE DEF reduced
    <2>5. Shaped(reduced)
      BY <2>3, <2>4 DEF Sound, Shaped, SameOrders
    <2>6. Tracked(reduced)
      BY <2>3, <2>4 DEF Sound, Tracked, SameOrders
    <2> QED
      BY <2>1, <2>2, <2>4, <2>5, <2>6 DEF Sound, OnlyBook
  <1> QED
    BY <1>1, <1>2

-----------------------------------------------------------------------------
(* The messages.                                                           *)

Correct(b) == Sound(b) /\ Current(b)

LEMMA AlikeCorrect ==
  ASSUME NEW a, NEW b, Alike(a, b), Correct(a)
  PROVE  Correct(b)
  BY AlikeSound, AlikeCurrent DEF Correct

LEMMA UnknownCorrect ==
  ASSUME NEW b, Correct(b)
  PROVE  Correct(Unknown(b))
  <1>1. Alike(b, Unknown(b))
    BY DEF Alike, Unknown, Correct, Sound, Shaped, Fields
  <1> QED
    BY <1>1, AlikeCorrect

\* A live reference leads to its order, which is of some instrument.
LEMMA LookupCorrect ==
  ASSUME NEW b, Correct(b), NEW ref, IsLive(b, ref)
  PROVE  b.index[ref] \in b.acquired /\ LocateOf(b, ref) \in Locates
  BY DEF Correct, Sound, Tracked, IsLive, LocateOf

LEMMA OnAddCorrect ==
  ASSUME NEW b, Correct(b), NEW l \in Locates, NEW m, m.ref \in AnyRef
  PROVE  Correct(OnAdd(b, l, m))
  <1> DEFINE side == IF m.side = "B" THEN "Bid" ELSE "Ask"
             added == AddOrder(b, l, side, m.ref, m.shares, m.price)
  <1>1. Sound(added) /\ OnlyBook(b, added, l)
    BY AddOrderCorrect DEF Correct
  <1> HIDE DEF added
  <1>2. Sound(ChangeBook(b, added, l)) /\ Current(ChangeBook(b, added, l))
    BY <1>1, ChangeBookCorrect DEF Correct
  <1> QED
    BY <1>2 DEF Correct, OnAdd, added

LEMMA OnCancelCorrect ==
  ASSUME NEW b, Correct(b), NEW m
  PROVE  Correct(OnCancel(b, m))
  <1> DEFINE o == b.index[m.ref]
             l == LocateOf(b, m.ref)
             taken == Take(b, o, m.shares)
  <1>1. CASE ~IsLive(b, m.ref)
    BY <1>1, UnknownCorrect DEF OnCancel
  <1>2. CASE IsLive(b, m.ref)
    <2>1. o \in b.acquired /\ l \in Locates
      BY <1>2, LookupCorrect
    <2>2. Sound(taken) /\ OnlyBook(b, taken, l)
      BY <2>1, TakeCorrect DEF Correct, LocateOf
    <2> HIDE DEF taken, l
    <2>3. Sound(ChangeBook(b, taken, l)) /\ Current(ChangeBook(b, taken, l))
      BY <2>1, <2>2, ChangeBookCorrect DEF Correct
    <2> QED
      BY <1>2, <2>3 DEF Correct, OnCancel, Shrink, taken, l
  <1> QED
    BY <1>1, <1>2

LEMMA OnDeleteCorrect ==
  ASSUME NEW b, Correct(b), NEW m
  PROVE  Correct(OnDelete(b, m))
  <1> DEFINE o == b.index[m.ref]
             l == LocateOf(b, m.ref)
             removed == RemoveOrder(b, o)
  <1>1. CASE ~IsLive(b, m.ref)
    BY <1>1, UnknownCorrect DEF OnDelete
  <1>2. CASE IsLive(b, m.ref)
    <2>1. o \in b.acquired /\ l \in Locates
      BY <1>2, LookupCorrect
    <2>2. Sound(removed) /\ OnlyBook(b, removed, l)
      BY <2>1, RemoveOrderCorrect DEF Correct, LocateOf
    <2> HIDE DEF removed, l
    <2>3. Sound(ChangeBook(b, removed, l)) /\ Current(ChangeBook(b, removed, l))
      BY <2>1, <2>2, ChangeBookCorrect DEF Correct
    <2> QED
      BY <1>2, <2>3 DEF Correct, OnDelete, removed, l
  <1> QED
    BY <1>1, <1>2

\* Of the removal and the addition of a replace the listener hears once.
LEMMA OnReplaceCorrect ==
  ASSUME NEW b, Correct(b), NEW m, m.newRef \in AnyRef
  PROVE  Correct(OnReplace(b, m))
  <1> DEFINE old == b.orders[b.index[m.oldRef]]
             removed == RemoveOrder(b, b.index[m.oldRef])
             added == AddOrder(removed, old.locate, old.side, m.newRef,
                               m.shares, m.price)
  <1>1. CASE ~IsLive(b, m.oldRef)
    BY <1>1, UnknownCorrect DEF OnReplace
  <1>2. CASE IsLive(b, m.oldRef)
    <2>1. b.index[m.oldRef] \in b.acquired /\ old.locate \in Locates
      BY <1>2, LookupCorrect DEF LocateOf
    <2>2. Sound(removed) /\ OnlyBook(b, removed, old.locate)
      BY <2>1, RemoveOrderCorrect DEF Correct
    <2> HIDE DEF removed, old
    <2>3. Sound(added) /\ OnlyBook(removed, added, old.locate)
      BY <2>1, <2>2, AddOrderCorrect
    <2> HIDE DEF added
    <2>4. OnlyBook(b, added, old.locate)
      BY <2>2, <2>3 DEF OnlyBook
    <2>5. Sound(ChangeBook(b, added, old.locate)) /\ Current(ChangeBook(b, added, old.locate))
      BY <2>1, <2>3, <2>4, ChangeBookCorrect DEF Correct
    <2> QED
      BY <1>2, <2>5 DEF Correct, OnReplace, added, removed, old
  <1> QED
    BY <1>1, <1>2

LEMMA OnSystemEventCorrect ==
  ASSUME NEW b, Correct(b), NEW m
  PROVE  Correct(OnSystemEvent(b, m))
  <1>1. Alike(b, OnSystemEvent(b, m))
    BY DEF Alike, OnSystemEvent, Correct, Sound, Shaped, Fields
  <1> QED
    BY <1>1, AlikeCorrect

LEMMA OnTradingActionCorrect ==
  ASSUME NEW b, Correct(b), NEW l, NEW m
  PROVE  Correct(OnTradingAction(b, l, m))
  <1>1. Alike(b, OnTradingAction(b, l, m))
    BY DEF Alike, OnTradingAction, Correct, Sound, Shaped, Fields
  <1> QED
    BY <1>1, AlikeCorrect

-----------------------------------------------------------------------------
(* The invariant.                                                          *)

LEMMA InitCorrect == Init => IInv
  <1> SUFFICES ASSUME Init PROVE IInv
    OBVIOUS
  <1>1. Shaped(builder)
    BY BlankIsAnOrder DEF Init, NewBuilder, Shaped, AreOrders, Fields
  <1>2. Tracked(builder)
    BY FS_EmptySet DEF Init, NewBuilder, Tracked
  <1>3. Current(builder)
    BY DEF Init, NewBuilder, Current, TopOf, BestOf, Sides
  <1> QED
    BY <1>1, <1>2, <1>3 DEF IInv, Sound

LEMMA ClearedCorrect ==
  ASSUME IInv
  PROVE  Correct(Cleared)
  <1>1. Alike(builder, Cleared)
    BY DEF Alike, Cleared, IInv, Sound, Shaped, Fields
  <1> QED
    BY <1>1, AlikeCorrect DEF Correct, IInv

LEMMA AfterCorrect ==
  ASSUME NEW b, Correct(b), After(b)
  PROVE  IInv'
  <1>1. Alike(b, builder')
    BY DEF After, Alike, Correct, Sound, Shaped, Fields
  <1>2. Correct(builder')
    BY <1>1, AlikeCorrect
  <1> QED
    BY <1>2 DEF Correct, IInv

\* Every message keeps the invariant.
LEMMA NextCorrect == IInv /\ [Next]_builder => IInv'
  <1> SUFFICES ASSUME IInv, [Next]_builder PROVE IInv'
    OBVIOUS
  <1> Correct(Cleared)
    BY ClearedCorrect
  <1>1. ASSUME NEW ref \in AnyRef, Delete(ref) PROVE IInv'
    BY <1>1, OnDeleteCorrect, AfterCorrect DEF Delete
  <1>2. ASSUME NEW ref \in AnyRef, NEW shares, Cancel(ref, shares) PROVE IInv'
    BY <1>2, OnCancelCorrect, AfterCorrect DEF Cancel
  <1>3. ASSUME NEW ref \in AnyRef, NEW shares, NEW price, NEW l \in Locates, NEW side,
               Add(l, ref, side, shares, price)
        PROVE  IInv'
    BY <1>3, OnAddCorrect, AfterCorrect DEF Add
  <1>4. ASSUME NEW ref \in AnyRef, NEW shares, NEW price, NEW newRef \in AnyRef,
               Replace(ref, newRef, shares, price)
        PROVE  IInv'
    BY <1>4, OnReplaceCorrect, AfterCorrect DEF Replace
  <1>5. ASSUME NEW code, SystemEvent(code) PROVE IInv'
    BY <1>5, OnSystemEventCorrect, AfterCorrect DEF SystemEvent
  <1>6. ASSUME NEW l, NEW state, TradingAction(l, state) PROVE IInv'
    BY <1>6, OnTradingActionCorrect, AfterCorrect DEF TradingAction
  <1>7. CASE UNCHANGED builder
    BY <1>7 DEF IInv, Sound, Shaped, Tracked, AreOrders, Current
  <1> QED
    BY <1>1, <1>2, <1>3, <1>4, <1>5, <1>6, <1>7 DEF Next

LEMMA Invariance == Spec => []IInv
  <1> QED
    BY InitCorrect, NextCorrect, PTL DEF Spec

\* No order is stranded and no slot leaks (ItchBook.hpp, addOrder and
\* removeOrder), however references are reused, for any feed.
THEOREM IndexCorrect == Spec => []IndexFindsEveryOrder
  <1>1. IInv => IndexFindsEveryOrder
    BY DEF IInv, Sound, Tracked, IndexFindsEveryOrder, IsLive, orders
  <1> QED
    BY <1>1, Invariance, PTL

\* The listener has heard of every change of a best bid or ask
\* (ItchBook.hpp, changeBook), of a replace too, and knows the latest.
THEOREM ListenerCorrect == Spec => []ListenerIsCurrent
  <1>1. IInv => ListenerIsCurrent
    BY DEF IInv, Current, ListenerIsCurrent, books
  <1> QED
    BY <1>1, Invariance, PTL

USE PricesAssumption, NullAssumption

-----------------------------------------------------------------------------
(* Sequences.                                                              *)

\* A function on 1..n is a sequence.
LEMMA FunctionIsSequence ==
  ASSUME NEW T, NEW n \in Nat, NEW f \in [1..n -> T]
  PROVE  f \in Seq(T) /\ Len(f) = n
  OBVIOUS

\* InsertAt moves what is from there on one place up,
LEMMA InsertAtIs ==
  ASSUME NEW T, NEW s \in Seq(T), NEW at \in 1..(Len(s) + 1), NEW e \in T
  PROVE  LET more == InsertAt(s, at, e)
         IN /\ more \in Seq(T) /\ Len(more) = Len(s) + 1
            /\ \A i \in 1..(at - 1) : more[i] = s[i]
            /\ more[at] = e
            /\ \A i \in at..Len(s) : more[i + 1] = s[i]
  <1> DEFINE before == SubSeq(s, 1, at - 1)
             after == SubSeq(s, at, Len(s))
  <1>1. /\ before \in Seq(T) /\ Len(before) = at - 1
        /\ \A i \in 1..(at - 1) : before[i] = s[i]
    OBVIOUS
  <1>2. /\ after \in Seq(T) /\ Len(after) = Len(s) - at + 1
        /\ \A i \in at..Len(s) : after[i - at + 1] = s[i]
    OBVIOUS
  <1>3. /\ <<e>> \in Seq(T) /\ Len(<<e>>) = 1 /\ <<e>>[1] = e
    OBVIOUS
  <1> HIDE DEF before, after
  <1> DEFINE front == before \o <<e>>
  <1>4. /\ front \in Seq(T) /\ Len(front) = at
        /\ \A i \in 1..(at - 1) : front[i] = s[i]
        /\ front[at] = e
    BY <1>1, <1>3
  <1> HIDE DEF front
  <1> DEFINE more == front \o after
  <1>5. more \in Seq(T) /\ Len(more) = Len(s) + 1
    BY <1>2, <1>4
  <1>6. \A i \in 1..at : more[i] = front[i]
    BY <1>2, <1>4
  <1>7. ASSUME NEW i \in at..Len(s) PROVE more[i + 1] = s[i]
    <2> DEFINE k == i - at + 1
    <2>1. k \in 1..Len(after) /\ Len(front) + k = i + 1 /\ after[k] = s[i]
      BY <1>2, <1>4
    <2> HIDE DEF k
    <2>2. more[Len(front) + k] = after[k]
      BY ONLY <1>2, <1>4, <2>1
    <2> QED
      BY <2>1, <2>2
  <1>8. InsertAt(s, at, e) = more
    BY DEF InsertAt, front, before, after
  <1> HIDE DEF more
  <1>9. \A i \in 1..(at - 1) : more[i] = s[i]
    BY <1>4, <1>6
  <1>10. more[at] = e
    BY <1>4, <1>6
  <1> QED
    BY <1>5, <1>7, <1>8, <1>9, <1>10

\* and RemoveAt moves it one place down.
LEMMA RemoveAtIs ==
  ASSUME NEW T, NEW s \in Seq(T), NEW at \in 1..Len(s)
  PROVE  LET less == RemoveAt(s, at)
         IN /\ less \in Seq(T) /\ Len(less) = Len(s) - 1
            /\ \A i \in 1..(at - 1) : less[i] = s[i]
            /\ \A i \in at..(Len(s) - 1) : less[i] = s[i + 1]
  <1> DEFINE before == SubSeq(s, 1, at - 1)
             after == SubSeq(s, at + 1, Len(s))
  <1>1. /\ before \in Seq(T) /\ Len(before) = at - 1
        /\ \A i \in 1..(at - 1) : before[i] = s[i]
    OBVIOUS
  <1>2. /\ after \in Seq(T) /\ Len(after) = Len(s) - at
        /\ \A i \in at..(Len(s) - 1) : after[i - at + 1] = s[i + 1]
    OBVIOUS
  <1> HIDE DEF before, after
  <1> DEFINE less == before \o after
  <1>3. less \in Seq(T) /\ Len(less) = Len(s) - 1
    BY <1>1, <1>2
  <1>4. \A i \in 1..(at - 1) : less[i] = s[i]
    BY <1>1, <1>2
  <1>5. ASSUME NEW i \in at..(Len(s) - 1) PROVE less[i] = s[i + 1]
    <2> DEFINE k == i - at + 1
    <2>1. k \in 1..Len(after) /\ Len(before) + k = i /\ after[k] = s[i + 1]
      BY <1>1, <1>2
    <2> HIDE DEF k
    <2>2. less[Len(before) + k] = after[k]
      BY <1>1, <1>2, <2>1, SMTT(30)
    <2> QED
      BY <2>1, <2>2
  <1>6. RemoveAt(s, at) = less
    BY DEF RemoveAt, less, before, after
  <1> HIDE DEF less
  <1> QED
    BY <1>3, <1>4, <1>5, <1>6

-----------------------------------------------------------------------------
(* The shares of a queue.                                                  *)

AreSums(sum, q, m, n) ==
  sum = [k \in 0..n |-> IF k = 0 THEN 0 ELSE sum[k - 1] + m[q[k]].shares]

\* The sums of SharesUpTo, a recursive function, exist,
LEMMA SumsExist ==
  ASSUME NEW q, NEW m, NEW n \in Nat
  PROVE  \E sum : AreSums(sum, q, m, n)
  <1> DEFINE T == {k \in Nat : \E sum : AreSums(sum, q, m, k)}
  <1>1. 0 \in T
    <2>1. AreSums([k \in 0..0 |-> 0], q, m, 0)
      BY DEF AreSums
    <2> QED
      BY <2>1
  <1>2. ASSUME NEW k \in Nat, k \in T PROVE k + 1 \in T
    <2>1. PICK sum : AreSums(sum, q, m, k)
      BY <1>2
    <2> DEFINE more == [j \in 0..(k + 1) |->
                          IF j = k + 1 THEN sum[k] + m[q[k + 1]].shares ELSE sum[j]]
    <2>2. \A j \in 0..k : sum[j] = IF j = 0 THEN 0 ELSE sum[j - 1] + m[q[j]].shares
      BY <2>1 DEF AreSums
    <2>3. ASSUME NEW j \in 0..(k + 1)
          PROVE  more[j] = IF j = 0 THEN 0 ELSE more[j - 1] + m[q[j]].shares
      <3>1. CASE j = k + 1
        BY <3>1
      <3>2. CASE j # k + 1
        BY <2>2, <3>2
      <3> QED
        BY <3>1, <3>2
    <2>4. more = [j \in 0..(k + 1) |-> more[j]]
      OBVIOUS
    <2> HIDE DEF more
    <2>5. more = [j \in 0..(k + 1) |-> IF j = 0 THEN 0 ELSE more[j - 1] + m[q[j]].shares]
      BY <2>3, <2>4
    <2>6. AreSums(more, q, m, k + 1)
      BY <2>5 DEF AreSums
    <2> QED
      BY <2>6
  <1> HIDE DEF T
  <1>3. n \in T
    BY <1>1, <1>2, Induction
  <1> QED
    BY <1>3 DEF T

\* so that SharesUpTo is them,
LEMMA SharesUpToIs ==
  ASSUME NEW q, NEW m, Len(q) \in Nat
  PROVE  /\ SharesUpTo(q, m)[0] = 0
         /\ \A k \in 1..Len(q) :
              SharesUpTo(q, m)[k] = SharesUpTo(q, m)[k - 1] + m[q[k]].shares
  <1>1. PICK sum : AreSums(sum, q, m, Len(q))
    BY SumsExist
  <1>2. AreSums(SharesUpTo(q, m), q, m, Len(q))
    BY <1>1 DEF SharesUpTo, AreSums
  <1> DEFINE sums == SharesUpTo(q, m)
  <1> HIDE DEF sums
  <1>3. sums = [k \in 0..Len(q) |-> IF k = 0 THEN 0 ELSE sums[k - 1] + m[q[k]].shares]
    BY <1>2 DEF AreSums, sums
  <1>4. \A k \in 0..Len(q) : sums[k] = IF k = 0 THEN 0 ELSE sums[k - 1] + m[q[k]].shares
    BY <1>3
  <1>5. sums[0] = 0 /\ \A k \in 1..Len(q) : sums[k] = sums[k - 1] + m[q[k]].shares
    BY <1>4
  <1> QED
    BY <1>5 DEF sums

\* Orders in line have sizes.
Sized(q, m) == \A n \in 1..Len(q) : m[q[n]].shares \in Nat

\* and natural numbers.
LEMMA SharesUpToType ==
  ASSUME NEW q, NEW m, Len(q) \in Nat, Sized(q, m), NEW n \in 0..Len(q)
  PROVE  SharesUpTo(q, m)[n] \in Nat
  <1> DEFINE sums == SharesUpTo(q, m)
             T == {k \in Nat : k \in 0..Len(q) => sums[k] \in Nat}
  <1>1. sums[0] = 0 /\ \A k \in 1..Len(q) : sums[k] = sums[k - 1] + m[q[k]].shares
    BY SharesUpToIs
  <1> HIDE DEF sums
  <1>2. 0 \in T
    BY <1>1
  <1>3. ASSUME NEW k \in Nat, k \in T PROVE k + 1 \in T
    <2>1. CASE k + 1 \in 0..Len(q)
      <3>1. k \in 0..Len(q) /\ k + 1 \in 1..Len(q)
        BY <2>1
      <3>2. sums[k] \in Nat /\ m[q[k + 1]].shares \in Nat
        BY <1>3, <3>1 DEF Sized
      <3>3. sums[k + 1] = sums[k] + m[q[k + 1]].shares
        BY <1>1, <3>1
      <3> QED
        BY <3>2, <3>3
    <2>2. CASE k + 1 \notin 0..Len(q)
      BY <2>2
    <2> QED
      BY <2>1, <2>2
  <1> HIDE DEF T
  <1>4. n \in T
    BY <1>2, <1>3, Induction
  <1> QED
    BY <1>4 DEF T, sums

\* After places `a` and `b` of two queues the next n sizes are the same.
SameSizes(q, m, r, k, a, b, n) ==
  /\ a + n <= Len(q) /\ b + n <= Len(r)
  /\ \A i \in 1..n : k[r[b + i]].shares = m[q[a + i]].shares

\* The sums up to there differ by d.
Apart(q, m, r, k, a, b, d) == SharesUpTo(r, k)[b] = SharesUpTo(q, m)[a] + d

\* Past place `a` of one queue and place `b` of another the same sizes follow:
\* the sums stay as far apart as they are there.
LEMMA SharesApart ==
  ASSUME NEW q, NEW m, Len(q) \in Nat, Sized(q, m),
         NEW r, NEW k, Len(r) \in Nat, Sized(r, k),
         NEW a \in Nat, NEW b \in Nat, NEW d \in Int, NEW n \in Nat,
         SameSizes(q, m, r, k, a, b, n), Apart(q, m, r, k, a, b, d)
  PROVE  Apart(q, m, r, k, a + n, b + n, d)
  <1> DEFINE f == SharesUpTo(q, m)
             g == SharesUpTo(r, k)
             T == {i \in Nat : i <= n => g[b + i] = f[a + i] + d}
  <1>1. \A i \in 1..Len(q) : f[i] = f[i - 1] + m[q[i]].shares
    BY SharesUpToIs
  <1>2. \A i \in 1..Len(r) : g[i] = g[i - 1] + k[r[i]].shares
    BY SharesUpToIs
  <1>3. \A i \in 0..Len(q) : f[i] \in Nat
    BY SharesUpToType
  <1>4. \A i \in 0..Len(r) : g[i] \in Nat
    BY SharesUpToType
  <1>5. g[b] = f[a] + d
    BY DEF Apart
  <1> HIDE DEF f, g
  <1>6. 0 \in T
    BY <1>5
  <1>7. ASSUME NEW i \in Nat, i \in T PROVE i + 1 \in T
    <2> SUFFICES ASSUME i + 1 <= n PROVE g[b + (i + 1)] = f[a + (i + 1)] + d
      OBVIOUS
    <2>1. g[b + i] = f[a + i] + d
      BY <1>7
    <2> DEFINE x == a + (i + 1)
               y == b + (i + 1)
    <2>2. /\ x \in 1..Len(q) /\ y \in 1..Len(r) /\ i + 1 \in 1..n
          /\ x - 1 = a + i /\ y - 1 = b + i
          /\ x - 1 \in 0..Len(q) /\ y - 1 \in 0..Len(r)
      BY DEF SameSizes
    <2>3. k[r[y]].shares = m[q[x]].shares /\ m[q[x]].shares \in Nat
      BY <2>2 DEF Sized, SameSizes
    <2> HIDE DEF x, y
    <2>4. f[x] = f[x - 1] + m[q[x]].shares /\ g[y] = g[y - 1] + k[r[y]].shares
      BY <1>1, <1>2, <2>2
    <2>5. f[x - 1] \in Nat /\ g[y - 1] \in Nat /\ g[y - 1] = f[x - 1] + d
      BY <1>3, <1>4, <2>1, <2>2
    <2>6. g[y] = f[x] + d
      BY <2>3, <2>4, <2>5
    <2> QED
      BY <2>6 DEF x, y
  <1> HIDE DEF T
  <1>8. n \in T
    BY <1>6, <1>7, Induction
  <1> QED
    BY <1>8 DEF T, f, g, Apart

-----------------------------------------------------------------------------
(* The levels of one side of a book, and the queues they stand for.        *)

LevelRecord ==
  [price : Prices, orderCount : Nat, shares : Nat,
   head : Slots \cup {Null}, tail : Slots \cup {Null}]

Sorted(levels, side) ==
  \A i, j \in 1..Len(levels) : i < j => Worse(side, levels[i].price, levels[j].price)

FrontOf(q) == IF Len(q) = 0 THEN Null ELSE q[1]
BackOf(q) == IF Len(q) = 0 THEN Null ELSE q[Len(q)]

Totals(v, q, m) ==
  /\ v.orderCount = Len(q) /\ v.shares = SharesOf(q, m)
  /\ v.head = FrontOf(q) /\ v.tail = BackOf(q)

\* Some level may be empty: add() and remove() pass through such states.
Describes(levels, side, q, m) ==
  /\ levels \in Seq(LevelRecord) /\ Sorted(levels, side)
  /\ \A i \in 1..Len(levels) : Totals(levels[i], q[levels[i].price], m)
  /\ \A p \in Prices : Len(q[p]) > 0 => \E i \in 1..Len(levels) : levels[i].price = p

Queues == [Prices -> Seq(Slots)]

\* Worse orders the prices, strictly and totally.
LEMMA WorseIsAnOrder ==
  ASSUME NEW side \in Sides, NEW p \in Prices, NEW q \in Prices
  PROVE  /\ ~Worse(side, p, p)
         /\ Worse(side, p, q) \/ p = q \/ Worse(side, q, p)
         /\ ~(Worse(side, p, q) /\ Worse(side, q, p))
         /\ \A r \in Prices : Worse(side, p, q) /\ Worse(side, q, r) => Worse(side, p, r)
  BY DEF Worse, Sides

LEMMA LevelFields ==
  ASSUME NEW levels \in Seq(LevelRecord), NEW i \in 1..Len(levels)
  PROVE  /\ levels[i] \in LevelRecord /\ levels[i].price \in Prices
         /\ levels[i].orderCount \in Nat /\ levels[i].shares \in Nat
         /\ levels[i].head \in Slots \cup {Null} /\ levels[i].tail \in Slots \cup {Null}
  <1>1. levels[i] \in LevelRecord
    OBVIOUS
  <1> QED
    BY <1>1 DEF LevelRecord

\* lower_bound: all before it is worse, and nothing from it on.
LEMMA LowerBoundIs ==
  ASSUME NEW side \in Sides, NEW levels \in Seq(LevelRecord), Sorted(levels, side),
         NEW p \in Prices
  PROVE  LET at == LowerBound(levels, side, p)
         IN /\ at \in 1..(Len(levels) + 1)
            /\ \A i \in 1..(at - 1) : Worse(side, levels[i].price, p)
            /\ \A i \in at..Len(levels) : ~Worse(side, levels[i].price, p)
            /\ \A i \in 1..Len(levels) : levels[i].price = p => i = at
  <1> DEFINE IsBound(at) ==
               /\ \A i \in 1..(at - 1) : Worse(side, levels[i].price, p)
               /\ at <= Len(levels) => ~Worse(side, levels[at].price, p)
             Out == {i \in 1..Len(levels) : ~Worse(side, levels[i].price, p)}
  <1>1. \E at \in 1..(Len(levels) + 1) : IsBound(at)
    <2>1. CASE Out = {}
      <3>1. IsBound(Len(levels) + 1)
        BY <2>1
      <3> QED
        BY <3>1
    <2>2. CASE Out # {}
      <3>1. Out \in SUBSET Nat
        OBVIOUS
      <3> HIDE DEF Out
      <3>2. PICK at \in Out : \A i \in Out : at <= i
        BY <2>2, <3>1, Least
      <3> USE DEF Out
      <3>3. at \in 1..Len(levels) /\ ~Worse(side, levels[at].price, p)
        OBVIOUS
      <3>4. \A i \in 1..(at - 1) : i \in 1..Len(levels) /\ i \notin Out
        BY <3>2, <3>3
      <3>5. IsBound(at)
        BY <3>3, <3>4
      <3> QED
        BY <3>3, <3>5
    <2> QED
      BY <2>1, <2>2
  <1> DEFINE at == LowerBound(levels, side, p)
  <1>2. at \in 1..(Len(levels) + 1) /\ IsBound(at)
    BY <1>1 DEF LowerBound
  <1> HIDE DEF at
  <1>3. ASSUME NEW i \in at..Len(levels) PROVE ~Worse(side, levels[i].price, p)
    <2>1. i \in 1..Len(levels) /\ at \in 1..Len(levels) /\ at <= i
      BY <1>2
    <2>2. levels[i].price \in Prices /\ levels[at].price \in Prices
      BY <2>1, LevelFields
    <2>3. ~Worse(side, levels[at].price, p)
      BY <1>2, <2>1
    <2>4. at < i => Worse(side, levels[at].price, levels[i].price)
      BY <2>1 DEF Sorted
    <2>5. Worse(side, levels[at].price, levels[i].price) /\ Worse(side, levels[i].price, p)
            => Worse(side, levels[at].price, p)
      <3>1. side \in Sides /\ p \in Prices
        OBVIOUS
      <3> QED
        BY ONLY <2>2, <3>1, WorseIsAnOrder
    <2>6. CASE at < i
      BY <2>3, <2>4, <2>5, <2>6
    <2>7. CASE at = i
      BY <2>3, <2>7
    <2> QED
      BY <1>2, <2>1, <2>6, <2>7
  <1>4. ASSUME NEW i \in 1..Len(levels), levels[i].price = p PROVE i = at
    <2>1. ~Worse(side, levels[i].price, p)
      BY <1>4, WorseIsAnOrder
    <2>2. i >= at
      BY <1>2, <2>1
    <2>3. CASE at < i
      <3>1. at \in 1..Len(levels) /\ at \in at..Len(levels)
        BY <1>2, <2>3
      <3>2. Worse(side, levels[at].price, levels[i].price)
        BY <2>3, <3>1 DEF Sorted
      <3>3. ~Worse(side, levels[at].price, p)
        BY <1>3, <3>1
      <3> QED
        BY <1>4, <3>2, <3>3
    <2> QED
      BY <1>2, <2>2, <2>3
  <1> QED
    BY <1>2, <1>3, <1>4 DEF at

\* The price's level, once add() has opened it.
LEMMA OpenedIs ==
  ASSUME NEW side \in Sides, NEW q \in Queues, NEW m, NEW levels,
         Describes(levels, side, q, m), NEW p \in Prices
  PROVE  LET at == LowerBound(levels, side, p)
             opened == Opened(levels, at, p)
         IN /\ Describes(opened, side, q, m)
            /\ at \in 1..Len(opened) /\ opened[at].price = p
            /\ \A i \in 1..Len(opened) :
                 i = at \/ \E j \in 1..Len(levels) : opened[i] = levels[j]
  <1> DEFINE at == LowerBound(levels, side, p)
             opened == Opened(levels, at, p)
             empty == EmptyLevel(p)
  <1>1. levels \in Seq(LevelRecord) /\ Sorted(levels, side) /\ Len(levels) \in Nat
    BY DEF Describes
  <1>2. /\ at \in 1..(Len(levels) + 1)
        /\ \A i \in 1..(at - 1) : Worse(side, levels[i].price, p)
        /\ \A i \in at..Len(levels) : ~Worse(side, levels[i].price, p)
        /\ \A i \in 1..Len(levels) : levels[i].price = p => i = at
    BY <1>1, LowerBoundIs
  <1> HIDE DEF at
  <1>3. CASE at <= Len(levels) /\ levels[at].price = p
    <2>1. opened = levels
      BY <1>3 DEF Opened
    <2>2. at \in 1..Len(levels)
      BY <1>2, <1>3
    <2> QED
      BY <1>3, <2>1, <2>2 DEF at
  <1>4. CASE ~(at <= Len(levels) /\ levels[at].price = p)
    <2>1. opened = InsertAt(levels, at, empty)
      BY <1>4 DEF Opened
    <2>2. empty \in LevelRecord /\ empty.price = p
      BY DEF EmptyLevel, LevelRecord
    <2>3. \A i \in 1..Len(levels) : levels[i].price # p
      BY <1>2, <1>4
    <2>4. q[p] \in Seq(Slots) /\ Len(q[p]) = 0
      <3>1. Len(q[p]) > 0 => \E i \in 1..Len(levels) : levels[i].price = p
        BY DEF Describes
      <3>2. q[p] \in Seq(Slots)
        BY DEF Queues
      <3> QED
        BY <2>3, <3>1, <3>2
    <2>5. Totals(empty, q[p], m)
      <3>1. SharesOf(q[p], m) = 0
        BY <2>4, SharesUpToIs DEF SharesOf
      <3> QED
        BY <2>4, <3>1 DEF Totals, EmptyLevel, FrontOf, BackOf
    <2> HIDE DEF empty
    <2> HIDE DEF opened
    <2>6. /\ opened \in Seq(LevelRecord) /\ Len(opened) = Len(levels) + 1
          /\ \A i \in 1..(at - 1) : opened[i] = levels[i]
          /\ opened[at] = empty
          /\ \A i \in at..Len(levels) : opened[i + 1] = levels[i]
      BY <1>1, <1>2, <2>1, <2>2, InsertAtIs
    \* Each level's place among the old ones.
    <2>7. ASSUME NEW i \in 1..Len(opened)
          PROVE  \/ i < at /\ i \in 1..Len(levels) /\ opened[i] = levels[i]
                 \/ i = at /\ opened[i] = empty
                 \/ i > at /\ i - 1 \in at..Len(levels) /\ opened[i] = levels[i - 1]
      <3>1. CASE i < at
        BY <1>1, <1>2, <2>6, <3>1
      <3>2. CASE i = at
        BY <2>6, <3>2
      <3>3. CASE i > at
        <4> DEFINE j == i - 1
        <4>1. j \in at..Len(levels) /\ i = j + 1
          BY <1>1, <1>2, <2>6, <3>3
        <4> HIDE DEF j
        <4>2. opened[i] = levels[j]
          BY <2>6, <4>1
        <4> QED
          BY <3>3, <4>1, <4>2 DEF j
      <3> QED
        BY <1>2, <3>1, <3>2, <3>3
    <2>8. Sorted(opened, side)
      <3> SUFFICES ASSUME NEW i \in 1..Len(opened), NEW j \in 1..Len(opened), i < j
                   PROVE  Worse(side, opened[i].price, opened[j].price)
        BY DEF Sorted
      <3>1. /\ Len(opened) \in Nat /\ i \in Nat /\ j \in Nat /\ at \in Nat
            /\ Len(levels) \in Nat
        BY <1>1, <1>2, <2>6
      <3>2. CASE j < at
        BY <2>7, <3>2, <3>1, <1>1 DEF Sorted
      <3>3. CASE j = at
        <4>1. i \in 1..(at - 1) /\ opened[i] = levels[i] /\ opened[j] = empty
          BY <2>6, <3>1, <3>3
        <4> QED
          BY <1>2, <2>2, <4>1
      <3>4. CASE j > at
        <4>1. j - 1 \in at..Len(levels) /\ opened[j] = levels[j - 1]
          BY <2>7, <3>4, <3>1
        <4> DEFINE k == j - 1
        <4>2. k \in at..Len(levels) /\ k \in 1..Len(levels) /\ opened[j] = levels[k]
          BY <4>1, <3>1, <1>2
        <4>3. levels[k].price \in Prices /\ levels[k].price # p
          BY <1>1, <2>3, <4>2, LevelFields
        <4>4. Worse(side, p, levels[k].price)
          BY <1>2, <4>2, <4>3, WorseIsAnOrder
        <4>5. CASE i = at
          BY <2>2, <2>6, <4>2, <4>4, <4>5
        <4>6. CASE i < at
          <5>1. i \in 1..Len(levels) /\ opened[i] = levels[i] /\ i < k
            BY <2>7, <4>2, <4>6, <3>1
          <5> QED
            BY <1>1, <4>2, <5>1 DEF Sorted
        <4>7. CASE i > at
          <5>1. i - 1 \in 1..Len(levels) /\ opened[i] = levels[i - 1] /\ i - 1 < k
            BY <1>2, <2>7, <4>7, <3>1
          <5> QED
            BY <1>1, <4>2, <5>1 DEF Sorted
        <4> QED
          BY <3>1, <4>5, <4>6, <4>7
      <3> QED
        BY <3>1, <3>2, <3>3, <3>4
    <2>9. ASSUME NEW i \in 1..Len(opened)
          PROVE  i = at \/ \E j \in 1..Len(levels) : opened[i] = levels[j]
      <3>1. CASE i > at
        <4>1. i - 1 \in 1..Len(levels) /\ opened[i] = levels[i - 1]
          BY <1>1, <1>2, <2>7, <3>1
        <4> QED
          BY <4>1
      <3>2. CASE i < at
        <4>1. i \in 1..Len(levels) /\ opened[i] = levels[i]
          BY <1>2, <2>7, <3>2
        <4> QED
          BY <4>1
      <3>3. i \in Int /\ at \in Int
        BY <1>2
      <3> QED
        BY <3>1, <3>2, <3>3
    <2>10. \A i \in 1..Len(opened) : Totals(opened[i], q[opened[i].price], m)
      <3> SUFFICES ASSUME NEW i \in 1..Len(opened)
                   PROVE  Totals(opened[i], q[opened[i].price], m)
        OBVIOUS
      <3>1. CASE i = at
        BY <2>2, <2>5, <2>6, <3>1
      <3>2. CASE \E j \in 1..Len(levels) : opened[i] = levels[j]
        BY <3>2 DEF Describes
      <3> QED
        BY <2>9, <3>1, <3>2
    <2>11. ASSUME NEW r \in Prices, Len(q[r]) > 0
           PROVE  \E i \in 1..Len(opened) : opened[i].price = r
      <3>1. PICK i \in 1..Len(levels) : levels[i].price = r
        BY <2>11 DEF Describes
      <3>2. CASE i < at
        BY <1>1, <1>2, <2>6, <3>1, <3>2
      <3>3. CASE i >= at
        <4>1. i + 1 \in 1..Len(opened) /\ opened[i + 1] = levels[i]
          BY <1>1, <1>2, <2>6, <3>3
        <4> QED
          BY <3>1, <4>1
      <3> QED
        BY <1>2, <3>2, <3>3
    <2>12. Describes(opened, side, q, m)
      BY <2>6, <2>8, <2>10, <2>11 DEF Describes
    <2>13. at \in 1..Len(opened)
      BY <1>1, <1>2, <2>6
    <2> QED
      BY <2>2, <2>6, <2>9, <2>12, <2>13 DEF opened, at
  <1> QED
    BY <1>3, <1>4

\* The same sizes have the same sum, and describe the same levels.
LEMMA SharesSame ==
  ASSUME NEW q, NEW m, NEW k, Len(q) \in Nat, Sized(q, m),
         \A n \in 1..Len(q) : k[q[n]].shares = m[q[n]].shares
  PROVE  SharesOf(q, k) = SharesOf(q, m)
  <1>1. Sized(q, k)
    BY DEF Sized
  <1> DEFINE f == SharesUpTo(q, m)
             g == SharesUpTo(q, k)
             n == Len(q)
  <1>2. g[0] = 0 /\ f[0] = 0
    BY SharesUpToIs
  <1>3. f[n] \in Nat
    BY SharesUpToType
  <1>4. n \in Nat /\ SameSizes(q, m, q, k, 0, 0, n) /\ Apart(q, m, q, k, 0, 0, 0)
    BY <1>2 DEF SameSizes, Apart
  <1>5. Apart(q, m, q, k, 0 + n, 0 + n, 0)
    BY <1>1, <1>4, SharesApart
  <1>6. g[n] = f[n] + 0
    BY <1>4, <1>5 DEF Apart
  <1> HIDE DEF f, g
  <1>7. g[n] = f[n]
    BY <1>3, <1>6
  <1> QED
    BY <1>7 DEF SharesOf, f, g

LEMMA DescribesSame ==
  ASSUME NEW side, NEW q \in Queues, NEW m, NEW k, NEW levels, Describes(levels, side, q, m),
         \A p \in Prices : /\ Sized(q[p], m)
                           /\ \A n \in 1..Len(q[p]) : k[q[p][n]].shares = m[q[p][n]].shares
  PROVE  Describes(levels, side, q, k)
  <1>1. ASSUME NEW i \in 1..Len(levels) PROVE Totals(levels[i], q[levels[i].price], k)
    <2>1. levels[i].price \in Prices
      BY LevelFields DEF Describes
    <2>2. Len(q[levels[i].price]) \in Nat
      BY <2>1 DEF Queues
    <2>3. SharesOf(q[levels[i].price], k) = SharesOf(q[levels[i].price], m)
      BY <2>1, <2>2, SharesSame
    <2> QED
      BY <2>3 DEF Describes, Totals
  <1> QED
    BY <1>1 DEF Describes

\* One level and its queue change.
LEMMA LevelReplaced ==
  ASSUME NEW side \in Sides, NEW q \in Queues, NEW m, NEW levels,
         Describes(levels, side, q, m), NEW at \in 1..Len(levels),
         NEW r \in Seq(Slots), NEW k, NEW new \in LevelRecord,
         new.price = levels[at].price, Totals(new, r, k),
         \A t \in Prices : t # new.price => SharesOf(q[t], k) = SharesOf(q[t], m)
  PROVE  Describes([levels EXCEPT ![at] = new], side, [q EXCEPT ![new.price] = r], k)
  <1> DEFINE after == [levels EXCEPT ![at] = new]
             p == new.price
             queues == [q EXCEPT ![p] = r]
  <1>1. levels \in Seq(LevelRecord) /\ Sorted(levels, side) /\ p \in Prices
    BY LevelFields DEF Describes
  <1>2. /\ after \in Seq(LevelRecord) /\ Len(after) = Len(levels)
        /\ after[at] = new
        /\ \A i \in 1..Len(levels) : i # at => after[i] = levels[i]
    BY <1>1
  <1>3. queues[p] = r /\ \A t \in Prices : t # p => queues[t] = q[t]
    BY <1>1 DEF Queues
  <1> HIDE DEF after, queues, p
  <1>4. \A i \in 1..Len(levels) : after[i].price = levels[i].price
    BY <1>2
  <1>5. Sorted(after, side)
    BY <1>1, <1>2, <1>4 DEF Sorted
  <1>6. ASSUME NEW i \in 1..Len(after) PROVE Totals(after[i], queues[after[i].price], k)
    <2>1. CASE i = at
      BY <1>2, <1>3, <2>1 DEF p
    <2>2. CASE i # at
      <3>1. i \in 1..Len(levels) /\ after[i] = levels[i] /\ levels[i].price \in Prices
        BY <1>1, <1>2, <2>2, LevelFields
      <3>2. levels[i].price # p
        <4>1. \/ Worse(side, levels[i].price, levels[at].price)
              \/ Worse(side, levels[at].price, levels[i].price)
          <5>1. i < at \/ at < i
            BY <2>2, <3>1, <1>1
          <5> QED
            BY <1>1, <3>1, <5>1 DEF Sorted
        <4> QED
          BY <1>1, <3>1, <4>1, WorseIsAnOrder DEF p
      <3>3. Totals(levels[i], q[levels[i].price], m)
        BY <3>1 DEF Describes
      <3>4. SharesOf(q[levels[i].price], k) = SharesOf(q[levels[i].price], m)
        BY <3>1, <3>2 DEF p
      <3> QED
        BY <1>3, <3>1, <3>2, <3>3, <3>4 DEF Totals
    <2> QED
      BY <2>1, <2>2
  <1>7. ASSUME NEW t \in Prices, Len(queues[t]) > 0
        PROVE  \E i \in 1..Len(after) : after[i].price = t
    <2>1. CASE t = p
      BY <1>2, <2>1 DEF p
    <2>2. CASE t # p
      <3>1. PICK i \in 1..Len(levels) : levels[i].price = t
        BY <1>3, <1>7, <2>2 DEF Describes
      <3> QED
        BY <1>2, <1>4, <3>1
    <2> QED
      BY <2>1, <2>2
  <1>8. Describes(after, side, queues, k)
    BY <1>2, <1>5, <1>6, <1>7 DEF Describes
  <1> QED
    BY <1>8 DEF after, queues, p

\* A level without orders goes.
LEMMA LevelDropped ==
  ASSUME NEW side \in Sides, NEW q \in Queues, NEW m, NEW levels,
         Describes(levels, side, q, m), NEW at \in 1..Len(levels),
         Len(q[levels[at].price]) = 0
  PROVE  /\ Describes(RemoveAt(levels, at), side, q, m)
         /\ \A i \in 1..Len(RemoveAt(levels, at)) :
              \E j \in 1..Len(levels) : j # at /\ RemoveAt(levels, at)[i] = levels[j]
  <1> DEFINE after == RemoveAt(levels, at)
  <1>1. levels \in Seq(LevelRecord) /\ Sorted(levels, side) /\ Len(levels) \in Nat
    BY DEF Describes
  <1>2. /\ after \in Seq(LevelRecord) /\ Len(after) = Len(levels) - 1
        /\ \A i \in 1..(at - 1) : after[i] = levels[i]
        /\ \A i \in at..(Len(levels) - 1) : after[i] = levels[i + 1]
    BY <1>1, RemoveAtIs
  <1> HIDE DEF after
  <1>3. ASSUME NEW i \in 1..Len(after)
        PROVE  \/ i < at /\ i \in 1..Len(levels) /\ after[i] = levels[i]
               \/ i >= at /\ i + 1 \in 1..Len(levels) /\ after[i] = levels[i + 1]
    BY <1>1, <1>2
  <1>4. ASSUME NEW i \in 1..Len(after)
        PROVE  \E j \in 1..Len(levels) : j # at /\ after[i] = levels[j]
    <2>1. CASE i < at
      BY <1>1, <1>3, <2>1
    <2>2. CASE i >= at
      <3> DEFINE j == i + 1
      <3>1. j # at /\ j \in 1..Len(levels) /\ after[i] = levels[j]
        BY <1>1, <1>2, <1>3, <2>2
      <3> QED
        BY <3>1
    <2> QED
      BY <1>2, <2>1, <2>2
  <1>5. Sorted(after, side)
    <2> SUFFICES ASSUME NEW i \in 1..Len(after), NEW j \in 1..Len(after), i < j
                 PROVE  Worse(side, after[i].price, after[j].price)
      BY DEF Sorted
    <2>1. CASE j < at
      BY <1>1, <1>3, <2>1 DEF Sorted
    <2>2. CASE j >= at
      <3> DEFINE y == j + 1
      <3>1. y \in 1..Len(levels) /\ after[j] = levels[y] /\ i < y /\ i + 1 < y
        BY <1>1, <1>2, <1>3, <2>2
      <3> HIDE DEF y
      <3>2. CASE i < at
        BY <1>1, <1>3, <3>1, <3>2 DEF Sorted
      <3>3. CASE i >= at
        <4> DEFINE x == i + 1
        <4>1. x \in 1..Len(levels) /\ after[i] = levels[x] /\ x < y
          BY <1>1, <1>2, <1>3, <3>1, <3>3
        <4> HIDE DEF x
        <4> QED
          BY <1>1, <3>1, <4>1 DEF Sorted
      <3> QED
        BY <1>2, <3>2, <3>3
    <2> QED
      BY <1>2, <2>1, <2>2
  <1>6. \A i \in 1..Len(after) : Totals(after[i], q[after[i].price], m)
    BY <1>4 DEF Describes
  <1>7. ASSUME NEW t \in Prices, Len(q[t]) > 0
        PROVE  \E i \in 1..Len(after) : after[i].price = t
    <2>1. PICK i \in 1..Len(levels) : levels[i].price = t
      BY <1>7 DEF Describes
    <2>2. i # at
      <3>1. q[t] \in Seq(Slots) /\ Len(q[t]) \in Nat
        BY DEF Queues
      <3> QED
        BY <1>7, <2>1, <3>1
    <2>3. CASE i < at
      BY <1>1, <1>2, <2>1, <2>3
    <2>4. CASE i > at
      <3> DEFINE j == i - 1
      <3>1. j \in at..(Len(levels) - 1) /\ j \in 1..Len(after) /\ i = j + 1
        BY <1>1, <1>2, <2>4
      <3> HIDE DEF j
      <3>2. after[j] = levels[i]
        BY <1>2, <3>1
      <3> QED
        BY <2>1, <3>1, <3>2
    <2> QED
      BY <2>2, <2>3, <2>4
  <1>8. Describes(after, side, q, m)
    BY <1>2, <1>5, <1>6, <1>7 DEF Describes
  <1> QED
    BY <1>4, <1>8 DEF after

-----------------------------------------------------------------------------
(* The orders in line: links, and which queue they are in.                 *)

\* An order's place: which book, side and price.
Placed(order, l, side, p) ==
  order.locate = l /\ order.side = side /\ order.price = p /\ order.shares \in Nat

Line(q, m, l, side, p) ==
  /\ \A n \in 1..Len(q) :
       /\ Placed(m[q[n]], l, side, p)
       /\ m[q[n]].prev = IF n = 1 THEN Null ELSE q[n - 1]
       /\ m[q[n]].next = IF n = Len(q) THEN Null ELSE q[n + 1]
  /\ \A i, j \in 1..Len(q) : i # j => q[i] # q[j]

\* Orders that do not change stay in line.
LEMMA LineSame ==
  ASSUME NEW q \in Seq(Slots), NEW m, NEW k, NEW l, NEW side, NEW p, Line(q, m, l, side, p),
         \A n \in 1..Len(q) : k[q[n]] = m[q[n]]
  PROVE  Line(q, k, l, side, p)
  BY DEF Line

\* add() at the back of the queue.
LinkedBehind(q, m, k, o, l, side, p) ==
  /\ \A n \in 1..Len(q) : q[n] # o
  /\ Placed(k[o], l, side, p) /\ k[o].prev = BackOf(q) /\ k[o].next = Null
  /\ \A n \in 1..Len(q) :
       /\ Placed(k[q[n]], l, side, p) /\ k[q[n]].prev = m[q[n]].prev
       /\ k[q[n]].next = IF n = Len(q) THEN o ELSE m[q[n]].next

\* The line with one more order at its back.
LEMMA LineAppended ==
  ASSUME NEW q \in Seq(Slots), NEW m, NEW k, NEW l, NEW side, NEW p, Line(q, m, l, side, p),
         NEW o \in Slots, LinkedBehind(q, m, k, o, l, side, p)
  PROVE  Line(Append(q, o), k, l, side, p)
  <1> DEFINE r == Append(q, o)
  <1>1. /\ r \in Seq(Slots) /\ Len(r) = Len(q) + 1 /\ Len(q) \in Nat
        /\ r[Len(q) + 1] = o /\ \A n \in 1..Len(q) : r[n] = q[n]
    OBVIOUS
  <1> HIDE DEF r
  <1> USE DEF LinkedBehind
  <1>2. ASSUME NEW n \in 1..Len(r)
        PROVE  /\ Placed(k[r[n]], l, side, p)
               /\ k[r[n]].prev = IF n = 1 THEN Null ELSE r[n - 1]
               /\ k[r[n]].next = IF n = Len(r) THEN Null ELSE r[n + 1]
    <2>1. CASE n = Len(q) + 1
      <3>1. r[n] = o /\ n = Len(r)
        BY <1>1, <2>1
      <3>2. k[o].prev = IF n = 1 THEN Null ELSE r[n - 1]
        BY <1>1, <2>1 DEF BackOf
      <3> QED
        BY <3>1, <3>2
    <2>2. CASE n # Len(q) + 1
      <3>1. n \in 1..Len(q) /\ r[n] = q[n] /\ n # Len(r)
        BY <1>1, <2>2
      <3>2. m[q[n]].prev = IF n = 1 THEN Null ELSE q[n - 1]
        BY <3>1 DEF Line
      <3>3. n # 1 => r[n - 1] = q[n - 1]
        BY <1>1, <3>1
      <3>4. m[q[n]].next = IF n = Len(q) THEN Null ELSE q[n + 1]
        BY <3>1 DEF Line
      <3>5. r[n + 1] = IF n = Len(q) THEN o ELSE q[n + 1]
        BY <1>1, <3>1
      <3>6. k[q[n]].next = r[n + 1]
        BY <3>1, <3>4, <3>5
      <3> QED
        BY <3>1, <3>2, <3>3, <3>6
    <2> QED
      BY <2>1, <2>2
  <1>3. ASSUME NEW i \in 1..Len(r), NEW j \in 1..Len(r), i # j PROVE r[i] # r[j]
    <2>1. i = Len(q) + 1 \/ i \in 1..Len(q)
      BY <1>1
    <2>2. j = Len(q) + 1 \/ j \in 1..Len(q)
      BY <1>1
    <2>3. i \in 1..Len(q) /\ j \in 1..Len(q) => q[i] # q[j]
      BY <1>3 DEF Line
    <2> QED
      BY <1>1, <1>3, <2>1, <2>2, <2>3
  <1> QED
    BY <1>2, <1>3 DEF Line, r

\* remove() of the nth in line.
LinkedAround(q, m, k, n, l, side, p) ==
  \A i \in 1..Len(q) : i # n =>
    /\ Placed(k[q[i]], l, side, p)
    /\ k[q[i]].prev = IF i = n + 1 THEN m[q[n]].prev ELSE m[q[i]].prev
    /\ k[q[i]].next = IF i = n - 1 THEN m[q[n]].next ELSE m[q[i]].next

\* The line without its nth order.
LEMMA LineRemoved ==
  ASSUME NEW q \in Seq(Slots), NEW m, NEW k, NEW l, NEW side, NEW p, Line(q, m, l, side, p),
         NEW n \in 1..Len(q), LinkedAround(q, m, k, n, l, side, p)
  PROVE  Line(RemoveAt(q, n), k, l, side, p)
  <1> DEFINE r == RemoveAt(q, n)
  <1>1. q \in Seq(Slots) /\ n \in 1..Len(q) /\ Len(q) \in Nat
    OBVIOUS
  <1>2. /\ r \in Seq(Slots) /\ Len(r) = Len(q) - 1 /\ Len(q) \in Nat
        /\ \A i \in 1..(n - 1) : r[i] = q[i]
        /\ \A i \in n..(Len(q) - 1) : r[i] = q[i + 1]
    BY <1>1, RemoveAtIs
  <1> HIDE DEF r
  <1> USE DEF LinkedAround
  <1>3. \A i \in 1..Len(q) : /\ m[q[i]].prev = IF i = 1 THEN Null ELSE q[i - 1]
                             /\ m[q[i]].next = IF i = Len(q) THEN Null ELSE q[i + 1]
    BY DEF Line
  <1>4. ASSUME NEW i \in 1..Len(r)
        PROVE  /\ Placed(k[r[i]], l, side, p)
               /\ k[r[i]].prev = IF i = 1 THEN Null ELSE r[i - 1]
               /\ k[r[i]].next = IF i = Len(r) THEN Null ELSE r[i + 1]
    <2>1. CASE i < n
      <3>1. i \in 1..Len(q) /\ i # n /\ i # n + 1 /\ r[i] = q[i]
        BY <1>2, <2>1
      <3>2. k[q[i]].prev = IF i = 1 THEN Null ELSE q[i - 1]
        BY <1>3, <3>1
      <3>3. i # 1 => r[i - 1] = q[i - 1]
        BY <1>2, <2>1
      <3>4. CASE i = n - 1
        <4>1. k[q[i]].next = m[q[n]].next
          BY <3>1, <3>4
        <4>2. m[q[n]].next = IF n = Len(q) THEN Null ELSE q[n + 1]
          BY <1>3
        <4>3. i = Len(r) <=> n = Len(q)
          BY <1>2, <3>4
        <4>4. n # Len(q) => r[i + 1] = q[n + 1]
          BY <1>2, <3>4
        <4> QED
          BY <3>1, <3>2, <3>3, <4>1, <4>2, <4>3, <4>4
      <3>5. CASE i # n - 1
        <4>1. k[q[i]].next = m[q[i]].next /\ i # Len(q) /\ i # Len(r)
          BY <1>2, <2>1, <3>1, <3>5
        <4>2. m[q[i]].next = q[i + 1]
          BY <1>3, <3>1, <4>1
        <4>3. r[i + 1] = q[i + 1]
          BY <1>2, <2>1, <3>5
        <4> QED
          BY <3>1, <3>2, <3>3, <4>1, <4>2, <4>3
      <3> QED
        BY <3>4, <3>5
    <2>2. CASE i >= n
      <3> DEFINE j == i + 1
      <3>1. /\ j \in 1..Len(q) /\ j # n /\ j # n - 1 /\ r[i] = q[j]
            /\ j = Len(q) <=> i = Len(r)
        BY <1>2, <2>2
      <3>2. j # Len(q) => r[i + 1] = q[j + 1]
        BY <1>2, <2>2
      <3> HIDE DEF j
      <3>3. k[q[j]].next = IF j = Len(q) THEN Null ELSE q[j + 1]
        BY <1>3, <3>1
      <3>4. k[q[j]].prev = IF i = 1 THEN Null ELSE r[i - 1]
        <4>1. CASE i = n
          <5>1. j = n + 1
            BY <4>1 DEF j
          <5>2. k[q[j]].prev = m[q[n]].prev
            BY <3>1, <5>1
          <5>3. m[q[n]].prev = IF n = 1 THEN Null ELSE q[n - 1]
            BY <1>3
          <5>4. n # 1 => r[n - 1] = q[n - 1]
            BY <1>2
          <5> QED
            BY <4>1, <5>2, <5>3, <5>4
        <4>2. CASE i # n
          <5>1. j # n + 1 /\ j # 1 /\ j - 1 = i /\ i # 1
            BY <2>2, <4>2 DEF j
          <5>2. k[q[j]].prev = q[j - 1]
            BY <1>3, <3>1, <5>1
          <5>3. i - 1 \in n..(Len(q) - 1) /\ (i - 1) + 1 = i
            BY <1>2, <2>2, <4>2
          <5>4. r[i - 1] = q[(i - 1) + 1]
            BY <1>2, <5>3
          <5> QED
            BY <5>1, <5>2, <5>3, <5>4
        <4> QED
          BY <4>1, <4>2
      <3> QED
        BY <3>1, <3>2, <3>3, <3>4
    <2> QED
      BY <1>2, <2>1, <2>2
  <1>5. ASSUME NEW i \in 1..Len(r), NEW j \in 1..Len(r), i # j PROVE r[i] # r[j]
    <2> DEFINE x == IF i < n THEN i ELSE i + 1
               y == IF j < n THEN j ELSE j + 1
    <2>1. x \in 1..Len(q) /\ y \in 1..Len(q) /\ x # y /\ r[i] = q[x] /\ r[j] = q[y]
      BY <1>2, <1>5
    <2> HIDE DEF x, y
    <2> QED
      BY <2>1 DEF Line
  <1> QED
    BY <1>4, <1>5 DEF Line, r

\* What a queue's shares become when one order is appended,
LEMMA SharesAppended ==
  ASSUME NEW q \in Seq(Slots), NEW m, NEW k, NEW o \in Slots,
         Sized(q, m), k[o].shares \in Nat,
         \A n \in 1..Len(q) : k[q[n]].shares = m[q[n]].shares
  PROVE  SharesOf(Append(q, o), k) = SharesOf(q, m) + k[o].shares
  <1> DEFINE r == Append(q, o)
             f == SharesUpTo(q, m)
             g == SharesUpTo(r, k)
             n == Len(q)
  <1>1. /\ n \in Nat /\ Len(r) = n + 1 /\ r[n + 1] = o
        /\ \A i \in 1..n : r[i] = q[i]
    OBVIOUS
  <1> HIDE DEF r
  <1>2. Sized(r, k)
    <2> SUFFICES ASSUME NEW i \in 1..Len(r) PROVE k[r[i]].shares \in Nat
      BY DEF Sized
    <2>1. i \in 1..n \/ i = n + 1
      BY <1>1
    <2> QED
      BY <1>1, <2>1 DEF Sized
  <1>3. Len(r) \in Nat /\ Len(q) \in Nat
    BY <1>1
  <1>4. f[0] = 0 /\ g[0] = 0 /\ f[n] \in Nat
    BY <1>3, SharesUpToIs, SharesUpToType
  <1>5. g[n + 1] = g[n] + k[o].shares
    <2>1. n + 1 \in 1..Len(r) /\ (n + 1) - 1 = n
      BY <1>1
    <2>2. g[n + 1] = g[(n + 1) - 1] + k[r[n + 1]].shares
      BY <1>3, <2>1, SharesUpToIs
    <2> QED
      BY <1>1, <2>1, <2>2
  <1>6. n \in Nat /\ SameSizes(q, m, r, k, 0, 0, n) /\ Apart(q, m, r, k, 0, 0, 0)
    BY <1>1, <1>4 DEF SameSizes, Apart
  <1>7. Apart(q, m, r, k, 0 + n, 0 + n, 0)
    BY <1>2, <1>3, <1>6, SharesApart
  <1>8. g[n] = f[n] + 0
    BY <1>1, <1>7 DEF Apart
  <1> HIDE DEF f, g
  <1>9. g[n + 1] = f[n] + k[o].shares
    BY <1>4, <1>5, <1>8
  <1>10. SharesOf(r, k) = g[n + 1] /\ SharesOf(q, m) = f[n]
    BY <1>1 DEF SharesOf, f, g
  <1> QED
    BY <1>9, <1>10 DEF r

\* when the nth is removed,
LEMMA SharesRemoved ==
  ASSUME NEW q \in Seq(Slots), NEW m, NEW k, NEW n \in 1..Len(q), Sized(q, m),
         \A i \in 1..Len(q) : i # n => k[q[i]].shares = m[q[i]].shares
  PROVE  SharesOf(RemoveAt(q, n), k) = SharesOf(q, m) - m[q[n]].shares
  <1> DEFINE r == RemoveAt(q, n)
             f == SharesUpTo(q, m)
             g == SharesUpTo(r, k)
             d == m[q[n]].shares
             a == n - 1
             c == Len(q) - n
  <1>1. q \in Seq(Slots) /\ n \in 1..Len(q) /\ Len(q) \in Nat
    OBVIOUS
  <1>2. /\ Len(r) = Len(q) - 1
        /\ \A i \in 1..(n - 1) : r[i] = q[i]
        /\ \A i \in n..(Len(q) - 1) : r[i] = q[i + 1]
    BY <1>1, RemoveAtIs
  <1> HIDE DEF r
  <1>3. Sized(r, k)
    <2> SUFFICES ASSUME NEW i \in 1..Len(r) PROVE k[r[i]].shares \in Nat
      BY DEF Sized
    <2> DEFINE x == IF i < n THEN i ELSE i + 1
    <2>1. x \in 1..Len(q) /\ x # n /\ r[i] = q[x]
      BY <1>1, <1>2
    <2> HIDE DEF x
    <2> QED
      BY <2>1 DEF Sized
  <1>4. Len(r) \in Nat /\ a \in Nat /\ c \in Nat /\ d \in Nat /\ -d \in Int
    BY <1>1, <1>2 DEF Sized
  <1>5. f[0] = 0 /\ g[0] = 0 /\ f[a] \in Nat /\ f[Len(q)] \in Nat
    BY <1>1, <1>4, SharesUpToIs, SharesUpToType
  <1>6. f[n] = f[a] + d
    BY <1>1, SharesUpToIs
  <1>7. SameSizes(q, m, r, k, 0, 0, a) /\ Apart(q, m, r, k, 0, 0, 0)
    BY <1>1, <1>2, <1>5 DEF SameSizes, Apart
  <1>8. Apart(q, m, r, k, 0 + a, 0 + a, 0)
    BY <1>1, <1>3, <1>4, <1>7, SharesApart
  <1>9. g[a] = f[a] + 0
    BY <1>4, <1>8 DEF Apart
  <1>10. Apart(q, m, r, k, n, a, -d)
    <2>1. g[a] = f[n] + (-d)
      <3> HIDE DEF f, g, d, a
      <3> QED
        BY <1>4, <1>5, <1>6, <1>9
    <2> QED
      BY <2>1 DEF Apart
  <1>11. SameSizes(q, m, r, k, n, a, c)
    <2>1. ASSUME NEW i \in 1..c PROVE k[r[a + i]].shares = m[q[n + i]].shares
      <3>1. a + i \in n..(Len(q) - 1) /\ (a + i) + 1 = n + i /\ n + i \in 1..Len(q) /\ n + i # n
        BY <1>1
      <3>2. r[a + i] = q[(a + i) + 1]
        BY <1>2, <3>1
      <3>3. r[a + i] = q[n + i]
        BY <3>1, <3>2
      <3> QED
        BY <3>1, <3>3
    <2> QED
      BY <1>1, <1>2, <2>1 DEF SameSizes
  <1>12. Apart(q, m, r, k, n + c, a + c, -d)
    BY <1>1, <1>3, <1>4, <1>10, <1>11, SharesApart
  <1>13. n + c = Len(q) /\ a + c = Len(r)
    BY <1>1, <1>2
  <1>14. g[Len(r)] = f[Len(q)] + (-d)
    BY <1>12, <1>13 DEF Apart
  <1> HIDE DEF f, g, d
  <1>15. g[Len(r)] = f[Len(q)] - d
    BY <1>4, <1>5, <1>14
  <1> QED
    BY <1>15 DEF SharesOf, f, g, d, r

\* and when the nth is smaller.
LEMMA SharesReduced ==
  ASSUME NEW q \in Seq(Slots), NEW m, NEW k, NEW n \in 1..Len(q), Sized(q, m), Sized(q, k),
         NEW d \in Nat, k[q[n]].shares = m[q[n]].shares - d,
         \A i \in 1..Len(q) : i # n => k[q[i]].shares = m[q[i]].shares
  PROVE  SharesOf(q, k) = SharesOf(q, m) - d
  <1> DEFINE f == SharesUpTo(q, m)
             g == SharesUpTo(q, k)
             a == n - 1
             c == Len(q) - n
  <1>1. q \in Seq(Slots) /\ n \in 1..Len(q) /\ Len(q) \in Nat
    OBVIOUS
  <1>2. a \in Nat /\ c \in Nat /\ -d \in Int /\ m[q[n]].shares \in Nat
    BY <1>1 DEF Sized
  <1>3. f[0] = 0 /\ g[0] = 0 /\ f[a] \in Nat /\ f[Len(q)] \in Nat
    BY <1>1, <1>2, SharesUpToIs, SharesUpToType
  <1>4. f[n] = f[a] + m[q[n]].shares /\ g[n] = g[a] + k[q[n]].shares
    BY <1>1, SharesUpToIs
  <1>5. SameSizes(q, m, q, k, 0, 0, a) /\ Apart(q, m, q, k, 0, 0, 0)
    BY <1>1, <1>3 DEF SameSizes, Apart
  <1>6. Apart(q, m, q, k, 0 + a, 0 + a, 0)
    BY <1>1, <1>2, <1>5, SharesApart
  <1>7. g[a] = f[a] + 0
    BY <1>2, <1>6 DEF Apart
  <1>8. Apart(q, m, q, k, n, n, -d)
    <2>1. g[n] = f[n] + (-d)
      <3> HIDE DEF f, g, a
      <3> QED
        BY <1>2, <1>3, <1>4, <1>7
    <2> QED
      BY <2>1 DEF Apart
  <1>9. SameSizes(q, m, q, k, n, n, c)
    <2>1. n + c <= Len(q)
      BY <1>1
    <2>2. ASSUME NEW j \in 1..c PROVE k[q[n + j]].shares = m[q[n + j]].shares
      <3>1. n + j \in 1..Len(q) /\ n + j # n
        BY <1>1
      <3> QED
        BY ONLY <3>1, \A i \in 1..Len(q) : i # n => k[q[i]].shares = m[q[i]].shares
    <2> HIDE DEF c
    <2> QED
      BY <2>1, <2>2 DEF SameSizes
  <1>10. Apart(q, m, q, k, n + c, n + c, -d)
    BY <1>1, <1>2, <1>8, <1>9, SharesApart
  <1>11. n + c = Len(q)
    BY <1>1
  <1>12. g[Len(q)] = f[Len(q)] + (-d)
    BY <1>10, <1>11 DEF Apart
  <1> HIDE DEF f, g
  <1>13. g[Len(q)] = f[Len(q)] - d
    BY <1>2, <1>3, <1>12
  <1> QED
    BY <1>13 DEF SharesOf, f, g

-----------------------------------------------------------------------------
(* The builder's books and the queues Q they stand for.                    *)

AllQueues == [Locates -> [Sides -> Queues]]

\* Order s is in line at that price.
InLine(Q, l, side, p, s) == \E n \in 1..Len(Q[l][side][p]) : Q[l][side][p][n] = s

Lined(Q, m, acquired) ==
  /\ Q \in AllQueues
  /\ \A l \in Locates, side \in Sides, p \in Prices :
       /\ Line(Q[l][side][p], m, l, side, p)
       /\ \A n \in 1..Len(Q[l][side][p]) : Q[l][side][p][n] \in acquired
  /\ \A s \in acquired :
       \E l \in Locates, side \in Sides, p \in Prices :
         /\ Placed(m[s], l, side, p)
         /\ InLine(Q, l, side, p, s)

NoneEmpty(levels) == \A i \in 1..Len(levels) : levels[i].orderCount > 0

BooksShow(shown, Q, m) ==
  /\ DOMAIN shown = Locates /\ \A l \in Locates : DOMAIN shown[l] = Sides
  /\ \A l \in Locates, side \in Sides :
       Describes(shown[l][side], side, Q[l][side], m) /\ NoneEmpty(shown[l][side])

Stands(b, Q) == Lined(Q, b.orders, b.acquired) /\ BooksShow(b.books, Q, b.orders)

\* Q with another queue in one place.
With(Q, l, side, p, q) == [Q EXCEPT ![l][side][p] = q]

\* What With changes, and what it does not.
LEMMA WithIs ==
  ASSUME NEW Q \in AllQueues, NEW l \in Locates, NEW side \in Sides,
         NEW p \in Prices, NEW q \in Seq(Slots)
  PROVE  /\ With(Q, l, side, p, q) \in AllQueues
         /\ With(Q, l, side, p, q)[l][side][p] = q
         /\ \A l2 \in Locates, side2 \in Sides, p2 \in Prices :
              l2 # l \/ side2 # side \/ p2 # p =>
                With(Q, l, side, p, q)[l2][side2][p2] = Q[l2][side2][p2]
  <1> DEFINE one == [Q[l][side] EXCEPT ![p] = q]
             two == [Q[l] EXCEPT ![side] = one]
             W == [Q EXCEPT ![l] = two]
  <1>1. /\ one \in Queues /\ one[p] = q
        /\ \A p2 \in Prices : p2 # p => one[p2] = Q[l][side][p2]
    BY DEF Queues, AllQueues
  <1>2. With(Q, l, side, p, q) = W
    BY DEF With
  <1> HIDE DEF one
  <1>3. Q[l] \in [Sides -> Queues]
    BY DEF AllQueues
  <1>4. /\ two \in [Sides -> Queues] /\ two[side] = one
        /\ \A side2 \in Sides : side2 # side => two[side2] = Q[l][side2]
    BY <1>1, <1>3
  <1> HIDE DEF two
  <1>5. /\ W \in AllQueues /\ W[l] = two
        /\ \A l2 \in Locates : l2 # l => W[l2] = Q[l2]
    BY <1>4 DEF AllQueues
  <1> HIDE DEF W
  <1>6. /\ W[l][side] = one /\ W[l][side][p] = q
        /\ \A l2 \in Locates, side2 \in Sides :
             l2 # l \/ side2 # side => W[l2][side2] = Q[l2][side2]
    BY <1>1, <1>4, <1>5
  <1>7. ASSUME NEW l2 \in Locates, NEW side2 \in Sides, NEW p2 \in Prices,
               l2 # l \/ side2 # side \/ p2 # p
        PROVE  W[l2][side2][p2] = Q[l2][side2][p2]
    <2>1. CASE l2 # l \/ side2 # side
      BY <1>6, <2>1
    <2>2. CASE l2 = l /\ side2 = side
      BY <1>1, <1>6, <1>7, <2>2
    <2> QED
      BY <2>1, <2>2
  <1> QED
    BY <1>2, <1>5, <1>6, <1>7 DEF one

\* One side of one book with another queue at one price.
SideWith(queues, p, q) == [queues EXCEPT ![p] = q]

LEMMA WithSide ==
  ASSUME NEW Q \in AllQueues, NEW l \in Locates, NEW side \in Sides, NEW p, NEW q
  PROVE  With(Q, l, side, p, q)[l][side] = SideWith(Q[l][side], p, q)
  <1> DEFINE one == SideWith(Q[l][side], p, q)
             two == [Q[l] EXCEPT ![side] = one]
  <1>1. With(Q, l, side, p, q) = [Q EXCEPT ![l] = two]
    BY DEF With, SideWith
  <1> HIDE DEF one
  <1>2. two[side] = one
    BY DEF AllQueues
  <1> HIDE DEF two
  <1>3. With(Q, l, side, p, q)[l] = two
    BY <1>1 DEF AllQueues
  <1> QED
    BY <1>2, <1>3 DEF one

LEMMA WithElsewhere ==
  ASSUME NEW Q \in AllQueues, NEW l \in Locates, NEW side \in Sides, NEW p, NEW q,
         NEW l2 \in Locates, NEW side2 \in Sides, l2 # l \/ side2 # side
  PROVE  With(Q, l, side, p, q)[l2][side2] = Q[l2][side2]
  <1> DEFINE one == [Q[l][side] EXCEPT ![p] = q]
             two == [Q[l] EXCEPT ![side] = one]
  <1>1. With(Q, l, side, p, q) = [Q EXCEPT ![l] = two]
    BY DEF With
  <1> HIDE DEF one
  <1>2. side2 # side => two[side2] = Q[l][side2]
    BY DEF AllQueues
  <1> HIDE DEF two
  <1>3. With(Q, l, side, p, q)[l2] = IF l2 = l THEN two ELSE Q[l2]
    BY <1>1 DEF AllQueues
  <1> QED
    BY <1>2, <1>3

LEMMA QueueIs ==
  ASSUME NEW Q \in AllQueues, NEW l \in Locates, NEW side \in Sides,
         NEW p \in Prices
  PROVE  Q[l][side] \in Queues /\ Q[l][side][p] \in Seq(Slots) /\ Len(Q[l][side][p]) \in Nat
  <1>1. Q[l][side] \in Queues /\ p \in Prices
    BY DEF AllQueues
  <1> QED
    BY ONLY <1>1 DEF Queues

LEMMA LineSized ==
  ASSUME NEW q, NEW m, NEW l, NEW side, NEW p, Line(q, m, l, side, p)
  PROVE  Sized(q, m)
  BY DEF Line, Placed, Sized

\* An order is in one queue only.
LEMMA OneQueue ==
  ASSUME NEW Q, NEW m, NEW acquired, Lined(Q, m, acquired),
         NEW l \in Locates, NEW side \in Sides, NEW p \in Prices, NEW s,
         NEW l2 \in Locates, NEW side2 \in Sides, NEW p2 \in Prices,
         InLine(Q, l, side, p, s), InLine(Q, l2, side2, p2, s)
  PROVE  l = l2 /\ side = side2 /\ p = p2
  <1>1. Placed(m[s], l, side, p)
    BY SMTT(30) DEF Lined, Line, InLine
  <1>2. Placed(m[s], l2, side2, p2)
    BY SMTT(30) DEF Lined, Line, InLine
  <1> QED
    BY <1>1, <1>2 DEF Placed

-----------------------------------------------------------------------------
(* add().                                                                  *)

\* What add() does to the orders.
LEMMA EnqueueIs ==
  ASSUME NEW m, AreOrders(m), NEW levels, NEW o \in Slots,
         NEW back, back # o,
         back = Opened(levels, LowerBound(levels, m[o].side, m[o].price), m[o].price)
                  [LowerBound(levels, m[o].side, m[o].price)].tail
  PROVE  LET k == Enqueue(levels, m, o).orders
         IN /\ AreOrders(k)
            /\ k[o].locate = m[o].locate /\ k[o].side = m[o].side /\ k[o].price = m[o].price
            /\ k[o].shares = m[o].shares /\ k[o].ref = m[o].ref
            /\ k[o].prev = back /\ k[o].next = Null
            /\ \A s \in Slots : s # o /\ s # back => k[s] = m[s]
            /\ \A s \in Slots : s # o /\ s = back =>
                 /\ k[s].locate = m[s].locate /\ k[s].side = m[s].side
                 /\ k[s].price = m[s].price /\ k[s].shares = m[s].shares
                 /\ k[s].ref = m[s].ref /\ k[s].prev = m[s].prev /\ k[s].next = o
  <1> DEFINE k == Enqueue(levels, m, o).orders
  <1>1. k = [s \in DOMAIN m |->
               CASE s = o    -> [m[o] EXCEPT !.prev = back, !.next = Null]
                 [] s = back -> [m[s] EXCEPT !.next = o]
                 [] OTHER    -> m[s]]
    BY DEF Enqueue
  <1> HIDE DEF k
  <1>2. DOMAIN m = Slots /\ \A s \in Slots : DOMAIN m[s] = OrderFields
    BY DEF AreOrders
  <1>3. k[o] = [m[o] EXCEPT !.prev = back, !.next = Null]
    BY <1>1, <1>2
  <1>4. \A s \in Slots : s # o /\ s # back => k[s] = m[s]
    BY <1>1, <1>2
  <1>5. \A s \in Slots : s # o /\ s = back => k[s] = [m[s] EXCEPT !.next = o]
    BY <1>1, <1>2
  <1>6. DOMAIN k = Slots
    BY <1>1, <1>2
  <1>7. AreOrders(k)
    <2>1. ASSUME NEW s \in Slots PROVE DOMAIN k[s] = OrderFields
      BY <1>2, <1>3, <1>4, <1>5, ZenonT(30)
    <2> QED
      BY <1>6, <2>1 DEF AreOrders
  <1>8. /\ k[o].locate = m[o].locate /\ k[o].side = m[o].side /\ k[o].price = m[o].price
        /\ k[o].shares = m[o].shares /\ k[o].ref = m[o].ref
        /\ k[o].prev = back /\ k[o].next = Null
    BY <1>2, <1>3 DEF OrderFields
  <1>9. ASSUME NEW s \in Slots, s # o, s = back
        PROVE  /\ k[s].locate = m[s].locate /\ k[s].side = m[s].side
               /\ k[s].price = m[s].price /\ k[s].shares = m[s].shares
               /\ k[s].ref = m[s].ref /\ k[s].prev = m[s].prev /\ k[s].next = o
    BY <1>2, <1>5, <1>9 DEF OrderFields
  <1> QED
    BY <1>4, <1>7, <1>8, <1>9 DEF k

\* In memory k order o is behind `back`, and all the others are as in m.
Behind(m, k, acquired, back, o) ==
  /\ k[o].prev = back /\ k[o].next = Null
  /\ \A s \in acquired : s # back => k[s] = m[s]
  /\ \A s \in acquired : s = back =>
       /\ k[s].locate = m[s].locate /\ k[s].side = m[s].side
       /\ k[s].price = m[s].price /\ k[s].shares = m[s].shares
       /\ k[s].prev = m[s].prev /\ k[s].next = o

\* The order is at the back of its queue, and all others are where they were.
LEMMA AppendLined ==
  ASSUME NEW Q, NEW m, NEW acquired, Lined(Q, m, acquired), acquired \subseteq Slots,
         NEW l \in Locates, NEW side \in Sides, NEW p \in Prices,
         NEW q, q = Q[l][side][p],
         NEW o \in Slots, o \notin acquired, NEW k,
         Placed(k[o], l, side, p), Behind(m, k, acquired, BackOf(q), o)
  PROVE  Lined(With(Q, l, side, p, Append(q, o)), k, acquired \cup {o})
  <1> DEFINE longer == Append(q, o)
             W == With(Q, l, side, p, longer)
             back == BackOf(q)
  <1>1. Q \in AllQueues /\ q \in Seq(Slots) /\ Len(q) \in Nat
    BY QueueIs DEF Lined
  <1>2. /\ longer \in Seq(Slots) /\ Len(longer) = Len(q) + 1
        /\ longer[Len(q) + 1] = o /\ \A n \in 1..Len(q) : longer[n] = q[n]
    BY <1>1
  <1> HIDE DEF longer
  <1>3. Q \in AllQueues /\ longer \in Seq(Slots)
    BY <1>1, <1>2
  <1>4. /\ W \in AllQueues /\ W[l][side][p] = longer
        /\ \A l2 \in Locates, side2 \in Sides, p2 \in Prices :
             l2 # l \/ side2 # side \/ p2 # p => W[l2][side2][p2] = Q[l2][side2][p2]
    <2>1. W \in AllQueues
      BY <1>3, WithIs
    <2>2. W[l][side][p] = longer
      BY <1>3, WithIs
    <2>3. \A l2 \in Locates, side2 \in Sides, p2 \in Prices :
             l2 # l \/ side2 # side \/ p2 # p => W[l2][side2][p2] = Q[l2][side2][p2]
      <3>1. l \in Locates /\ side \in Sides /\ p \in Prices
        OBVIOUS
      <3> QED
        BY ONLY <1>3, <3>1, WithIs
    <2> QED
      BY <2>1, <2>2, <2>3
  <1>5. Line(q, m, l, side, p) /\ \A n \in 1..Len(q) : q[n] \in acquired
    BY DEF Lined
  <1> USE DEF Behind
  <1>6. \A s \in acquired : \A l2, side2, p2 :
          Placed(k[s], l2, side2, p2) <=> Placed(m[s], l2, side2, p2)
    BY DEF Placed
  <1> HIDE DEF W
  <1>7. Line(longer, k, l, side, p)
    <2>1. ASSUME NEW n \in 1..Len(q)
          PROVE  /\ q[n] # o /\ Placed(k[q[n]], l, side, p) /\ k[q[n]].prev = m[q[n]].prev
                 /\ k[q[n]].next = IF n = Len(q) THEN o ELSE m[q[n]].next
      <3>1. q[n] \in acquired /\ Placed(m[q[n]], l, side, p)
        BY <1>5 DEF Line
      <3>2. n = Len(q) <=> q[n] = back
        <4>1. back = q[Len(q)] /\ Len(q) \in 1..Len(q)
          BY <1>1 DEF BackOf
        <4> QED
          BY <1>5, <4>1 DEF Line
      <3>3. CASE q[n] = back
        BY <1>6, <3>1, <3>2, <3>3
      <3>4. CASE q[n] # back
        BY <1>6, <3>1, <3>2, <3>4
      <3> QED
        BY <3>3, <3>4
    <2>2. LinkedBehind(q, m, k, o, l, side, p)
      BY <2>1 DEF LinkedBehind
    <2>3. q \in Seq(Slots) /\ Line(q, m, l, side, p)
      BY <1>1, <1>5
    <2>4. Line(Append(q, o), k, l, side, p)
      BY <2>2, <2>3, LineAppended
    <2> QED
      BY <2>4 DEF longer
  <1>8. ASSUME NEW l2 \in Locates, NEW side2 \in Sides, NEW p2 \in Prices,
               l2 # l \/ side2 # side \/ p2 # p
        PROVE  Line(Q[l2][side2][p2], k, l2, side2, p2)
    <2> DEFINE r == Q[l2][side2][p2]
    <2>1. /\ Line(r, m, l2, side2, p2) /\ r \in Seq(Slots)
          /\ \A n \in 1..Len(r) : r[n] \in acquired
      BY <1>1, QueueIs DEF Lined
    <2>2. ASSUME NEW n \in 1..Len(r) PROVE k[r[n]] = m[r[n]]
      <3>1. r[n] \in acquired
        BY <2>1
      <3>2. r[n] # back
        <4>1. SUFFICES ASSUME r[n] = back PROVE FALSE
          OBVIOUS
        <4>2. Len(q) # 0
          BY <2>1, <4>1 DEF BackOf
        <4>3. back = q[Len(q)] /\ Len(q) \in 1..Len(q)
          BY <1>1, <4>2 DEF BackOf
        <4>4. InLine(Q, l, side, p, back) /\ InLine(Q, l2, side2, p2, back)
          BY <4>1, <4>3 DEF InLine
        <4> HIDE DEF back
        <4>5. l2 = l /\ side2 = side /\ p2 = p
          BY <4>4, OneQueue
        <4> QED
          BY <1>8, <4>5
      <3> QED
        BY <3>1, <3>2
    <2> QED
      BY <2>1, <2>2, LineSame
  <1>9. ASSUME NEW l2 \in Locates, NEW side2 \in Sides, NEW p2 \in Prices
        PROVE  /\ Line(W[l2][side2][p2], k, l2, side2, p2)
               /\ \A n \in 1..Len(W[l2][side2][p2]) : W[l2][side2][p2][n] \in acquired \cup {o}
    <2>1. CASE l2 # l \/ side2 # side \/ p2 # p
      <3>1. W[l2][side2][p2] = Q[l2][side2][p2] /\ Line(Q[l2][side2][p2], k, l2, side2, p2)
        BY <1>4, <1>8, <2>1
      <3>2. \A n \in 1..Len(Q[l2][side2][p2]) : Q[l2][side2][p2][n] \in acquired
        BY DEF Lined
      <3> QED
        BY <3>1, <3>2
    <2>2. CASE l2 = l /\ side2 = side /\ p2 = p
      <3>1. ASSUME NEW n \in 1..Len(longer) PROVE longer[n] \in acquired \cup {o}
        <4>1. n \in 1..Len(q) \/ n = Len(q) + 1
          BY <1>1, <1>2
        <4> QED
          BY <1>2, <1>5, <4>1
      <3> QED
        BY <1>4, <1>7, <2>2, <3>1
    <2> QED
      BY <2>1, <2>2
  <1>10. ASSUME NEW s \in acquired \cup {o}
        PROVE  \E l2 \in Locates, side2 \in Sides, p2 \in Prices :
                 /\ Placed(k[s], l2, side2, p2)
                 /\ InLine(W, l2, side2, p2, s)
    <2>1. CASE s = o
      <3>1. Len(q) + 1 \in 1..Len(W[l][side][p])
        BY <1>1, <1>2, <1>4
      <3> QED
        BY <1>2, <1>4, <2>1, <3>1 DEF InLine
    <2>2. CASE s \in acquired
      <3>1. PICK l2 \in Locates, side2 \in Sides, p2 \in Prices :
              /\ Placed(m[s], l2, side2, p2)
              /\ InLine(Q, l2, side2, p2, s)
        BY <2>2 DEF Lined
      <3>2. PICK n \in 1..Len(Q[l2][side2][p2]) : Q[l2][side2][p2][n] = s
        BY <3>1 DEF InLine
      <3>3. n \in 1..Len(W[l2][side2][p2]) /\ W[l2][side2][p2][n] = s
        <4>1. CASE l2 # l \/ side2 # side \/ p2 # p
          BY <1>4, <3>2, <4>1
        <4>2. CASE l2 = l /\ side2 = side /\ p2 = p
          BY <1>1, <1>2, <1>4, <3>2, <4>2
        <4> QED
          BY <4>1, <4>2
      <3> QED
        BY <1>6, <2>2, <3>1, <3>3 DEF InLine
    <2> QED
      BY <2>1, <2>2
  <1> QED
    BY <1>4, <1>9, <1>10 DEF Lined, W, longer

-----------------------------------------------------------------------------
(* The books.                                                              *)

\* Only the orders in line at l, side, p may have other sizes in k.
SameElsewhere(Q, m, k, l, side, p) ==
  \A l2 \in Locates, side2 \in Sides, p2 \in Prices :
    l2 # l \/ side2 # side \/ p2 # p =>
      \A n \in 1..Len(Q[l2][side2][p2]) :
        k[Q[l2][side2][p2][n]].shares = m[Q[l2][side2][p2][n]].shares

\* What is known of one queue.
LEMMA LinedIs ==
  ASSUME NEW Q, NEW m, NEW acquired, Lined(Q, m, acquired),
         NEW l \in Locates, NEW side \in Sides, NEW p \in Prices
  PROVE  /\ Q \in AllQueues /\ Q[l][side] \in Queues
         /\ Q[l][side][p] \in Seq(Slots) /\ Len(Q[l][side][p]) \in Nat
         /\ Line(Q[l][side][p], m, l, side, p) /\ Sized(Q[l][side][p], m)
  BY QueueIs, LineSized DEF Lined

LEMMA OtherShares ==
  ASSUME NEW Q, NEW m, NEW acquired, Lined(Q, m, acquired), NEW k,
         NEW l \in Locates, NEW side \in Sides, NEW p \in Prices,
         SameElsewhere(Q, m, k, l, side, p), NEW t \in Prices, t # p
  PROVE  SharesOf(Q[l][side][t], k) = SharesOf(Q[l][side][t], m)
  <1> DEFINE q == Q[l][side][t]
  <1>1. Len(q) \in Nat /\ Sized(q, m)
    BY LinedIs
  <1>2. \A n \in 1..Len(q) : k[q[n]].shares = m[q[n]].shares
    BY DEF SameElsewhere
  <1> HIDE DEF q
  <1>3. SharesOf(q, k) = SharesOf(q, m)
    BY <1>1, <1>2, SharesSame
  <1> QED
    BY <1>3 DEF q

\* One side of one book changes.
BookWith(shown, l, side, levels) == [shown EXCEPT ![l][side] = levels]

\* Levels that show the new queue, in place of the old.
LEMMA BooksChanged ==
  ASSUME NEW Q, NEW m, NEW acquired, Lined(Q, m, acquired), NEW shown, BooksShow(shown, Q, m),
         NEW l \in Locates, NEW side \in Sides, NEW p \in Prices, NEW q \in Seq(Slots),
         NEW k, SameElsewhere(Q, m, k, l, side, p),
         NEW levels, Describes(levels, side, [Q[l][side] EXCEPT ![p] = q], k), NoneEmpty(levels)
  PROVE  BooksShow(BookWith(shown, l, side, levels), With(Q, l, side, p, q), k)
  <1> DEFINE W == With(Q, l, side, p, q)
             new == BookWith(shown, l, side, levels)
  <1>1. /\ Q \in AllQueues /\ l \in Locates /\ side \in Sides
        /\ p \in Prices /\ q \in Seq(Slots)
    BY DEF Lined
  <1>2. W[l][side] = SideWith(Q[l][side], p, q)
    BY ONLY <1>1, WithSide
  <1>3. \A l2 \in Locates, side2 \in Sides :
          l2 # l \/ side2 # side => W[l2][side2] = Q[l2][side2]
    BY <1>1, WithElsewhere
  <1>4. /\ DOMAIN shown = Locates /\ \A l2 \in Locates : DOMAIN shown[l2] = Sides
        /\ \A l2 \in Locates, side2 \in Sides :
             Describes(shown[l2][side2], side2, Q[l2][side2], m) /\ NoneEmpty(shown[l2][side2])
    BY DEF BooksShow
  <1>5. /\ DOMAIN new = Locates /\ \A l2 \in Locates : DOMAIN new[l2] = Sides
        /\ new[l][side] = levels
        /\ \A l2 \in Locates, side2 \in Sides :
             l2 # l \/ side2 # side => new[l2][side2] = shown[l2][side2]
    BY <1>4 DEF BookWith
  <1> HIDE DEF W, new
  <1>6. Describes(new[l][side], side, W[l][side], k) /\ NoneEmpty(new[l][side])
    BY <1>2, <1>5 DEF SideWith
  <1>7. ASSUME NEW l2 \in Locates, NEW side2 \in Sides, l2 # l \/ side2 # side
        PROVE  Describes(new[l2][side2], side2, W[l2][side2], k) /\ NoneEmpty(new[l2][side2])
    <2> DEFINE queues == Q[l2][side2]
    <2>1. queues \in Queues /\ \A p2 \in Prices : Sized(queues[p2], m)
      BY <1>1, LinedIs DEF AllQueues
    <2>2. \A p2 \in Prices : \A n \in 1..Len(queues[p2]) :
            k[queues[p2][n]].shares = m[queues[p2][n]].shares
      BY <1>7 DEF SameElsewhere
    <2>3. Describes(shown[l2][side2], side2, queues, m) /\ NoneEmpty(shown[l2][side2])
      BY <1>4
    <2> HIDE DEF queues
    <2>4. Describes(shown[l2][side2], side2, queues, k)
      BY <2>1, <2>2, <2>3, DescribesSame
    <2> QED
      BY <1>3, <1>5, <1>7, <2>3, <2>4 DEF queues
  <1>8. \A l2 \in Locates, side2 \in Sides :
          Describes(new[l2][side2], side2, W[l2][side2], k) /\ NoneEmpty(new[l2][side2])
    BY <1>6, <1>7
  <1> QED
    BY <1>5, <1>8 DEF BooksShow, W, new

\* A level's fields are set.
LevelWith(levels, at, head, tail, count, shares) ==
  [levels EXCEPT ![at].head = head, ![at].tail = tail,
                 ![at].orderCount = count, ![at].shares = shares]

\* A level that changes in all but its price.
LEMMA LevelSet ==
  ASSUME NEW levels \in Seq(LevelRecord), NEW at \in 1..Len(levels),
         NEW head, NEW tail, NEW count, NEW shares
  PROVE  LevelWith(levels, at, head, tail, count, shares)
           = [levels EXCEPT ![at] =
                [price |-> levels[at].price, orderCount |-> count, shares |-> shares,
                 head |-> head, tail |-> tail]]
  <1> DEFINE old == levels[at]
             new == [price |-> old.price, orderCount |-> count, shares |-> shares,
                     head |-> head, tail |-> tail]
  <1>1. old \in LevelRecord
    OBVIOUS
  <1>2. [[[[old EXCEPT !.head = head] EXCEPT !.tail = tail] EXCEPT !.orderCount = count]
           EXCEPT !.shares = shares] = new
    <2>1. old = [price |-> old.price, orderCount |-> old.orderCount, shares |-> old.shares,
                 head |-> old.head, tail |-> old.tail]
      BY <1>1 DEF LevelRecord
    <2> DEFINE a == [old EXCEPT !.head = head]
               b == [a EXCEPT !.tail = tail]
               c == [b EXCEPT !.orderCount = count]
    <2>2. a = [price |-> old.price, orderCount |-> old.orderCount, shares |-> old.shares,
               head |-> head, tail |-> old.tail]
      BY <2>1
    <2> HIDE DEF a
    <2>3. b = [price |-> old.price, orderCount |-> old.orderCount, shares |-> old.shares,
               head |-> head, tail |-> tail]
      BY <2>2
    <2> HIDE DEF b
    <2>4. c = [price |-> old.price, orderCount |-> count, shares |-> old.shares,
               head |-> head, tail |-> tail]
      BY <2>3
    <2> HIDE DEF c
    <2>5. [c EXCEPT !.shares = shares] = new
      BY <2>4
    <2> QED
      BY <2>5 DEF a, b, c
  <1>3. [levels EXCEPT ![at].head = head, ![at].tail = tail,
                       ![at].orderCount = count, ![at].shares = shares]
          = [levels EXCEPT ![at] =
               [[[[old EXCEPT !.head = head] EXCEPT !.tail = tail] EXCEPT !.orderCount = count]
                  EXCEPT !.shares = shares]]
    <2> HIDE DEF old
    <2> QED
      BY DEF old
  <1> QED
    BY <1>2, <1>3 DEF LevelWith

\* Only orders that are nowhere in line change.
LEMMA OthersChange ==
  ASSUME NEW Q, NEW m, NEW acquired, Lined(Q, m, acquired), NEW shown, BooksShow(shown, Q, m),
         NEW k, \A s \in acquired : k[s] = m[s]
  PROVE  Lined(Q, k, acquired) /\ BooksShow(shown, Q, k)
  <1>1. ASSUME NEW l \in Locates, NEW side \in Sides, NEW p \in Prices
        PROVE  /\ Line(Q[l][side][p], k, l, side, p)
               /\ \A n \in 1..Len(Q[l][side][p]) :
                    /\ Q[l][side][p][n] \in acquired
                    /\ k[Q[l][side][p][n]] = m[Q[l][side][p][n]]
               /\ Sized(Q[l][side][p], m)
    <2> DEFINE q == Q[l][side][p]
    <2>1. q \in Seq(Slots) /\ Line(q, m, l, side, p) /\ Sized(q, m)
      BY LinedIs
    <2>2. \A n \in 1..Len(q) : q[n] \in acquired
      BY DEF Lined
    <2>3. \A n \in 1..Len(q) : k[q[n]] = m[q[n]]
      BY <2>2
    <2> HIDE DEF q
    <2>4. Line(q, k, l, side, p)
      BY <2>1, <2>3, LineSame
    <2> QED
      BY <2>1, <2>2, <2>3, <2>4 DEF q
  <1>2. \A s \in acquired :
          \E l \in Locates, side \in Sides, p \in Prices :
            Placed(k[s], l, side, p) /\ InLine(Q, l, side, p, s)
    BY DEF Lined
  <1>3. Lined(Q, k, acquired)
    BY <1>1, <1>2 DEF Lined
  <1>4. ASSUME NEW l \in Locates, NEW side \in Sides
        PROVE  Describes(shown[l][side], side, Q[l][side], k) /\ NoneEmpty(shown[l][side])
    <2> DEFINE queues == Q[l][side]
               levels == shown[l][side]
    <2>1. Describes(levels, side, queues, m) /\ NoneEmpty(levels)
      BY DEF BooksShow
    <2>2. queues \in Queues
      BY DEF Lined, AllQueues
    <2>3. \A p \in Prices : /\ Sized(queues[p], m)
                            /\ \A n \in 1..Len(queues[p]) :
                                 k[queues[p][n]].shares = m[queues[p][n]].shares
      BY <1>1
    <2> HIDE DEF queues, levels
    <2>4. Describes(levels, side, queues, k)
      BY <2>1, <2>2, <2>3, DescribesSame
    <2> QED
      BY <2>1, <2>4 DEF queues, levels
  <1> QED
    BY <1>3, <1>4 DEF BooksShow

SameContents(m, k) == \A s \in Slots : k[s].ref = m[s].ref /\ k[s].shares = m[s].shares

\* add() puts the order at the back of the queue of its price.
LEMMA EnqueueStands ==
  ASSUME NEW Q, NEW m, NEW acquired, Lined(Q, m, acquired), NEW shown, BooksShow(shown, Q, m),
         AreOrders(m), acquired \subseteq Slots,
         NEW o \in Slots, o \notin acquired,
         NEW l \in Locates, NEW side \in Sides, NEW p \in Prices, Placed(m[o], l, side, p),
         NEW q, q = Q[l][side][p], NEW placed, placed = Enqueue(shown[l][side], m, o)
  PROVE  LET W == With(Q, l, side, p, Append(q, o))
         IN /\ Lined(W, placed.orders, acquired \cup {o})
            /\ BooksShow(BookWith(shown, l, side, placed.levels), W, placed.orders)
            /\ SameContents(m, placed.orders)
  <1> DEFINE levels == shown[l][side]
             k == placed.orders
             at == LowerBound(levels, side, p)
             opened == Opened(levels, at, p)
             back == BackOf(q)
  <1>1. /\ Q \in AllQueues /\ Q[l][side] \in Queues
        /\ q \in Seq(Slots) /\ Len(q) \in Nat /\ Line(q, m, l, side, p) /\ Sized(q, m)
    BY LinedIs
  <1>2. /\ Describes(opened, side, Q[l][side], m)
        /\ at \in 1..Len(opened) /\ opened[at].price = p
        /\ \A i \in 1..Len(opened) :
             i = at \/ \E j \in 1..Len(levels) : opened[i] = levels[j]
    <2>1. Describes(levels, side, Q[l][side], m)
      BY DEF BooksShow
    <2> HIDE DEF levels
    <2>2. Q[l][side] \in Queues
      BY <1>1
    <2> QED
      BY <2>1, <2>2, OpenedIs
  <1>3. m[o].side = side /\ m[o].price = p /\ m[o].locate = l /\ m[o].shares \in Nat
    BY DEF Placed
  <1>4. Totals(opened[at], q, m)
    BY <1>2 DEF Describes
  <1>5. opened[at].tail = back /\ opened[at].head = FrontOf(q)
        /\ opened[at].orderCount = Len(q) /\ opened[at].shares = SharesOf(q, m)
    BY <1>4 DEF Totals
  <1>6. \A n \in 1..Len(q) : q[n] \in acquired
    BY DEF Lined
  <1>7. back # o
    BY <1>1, <1>6 DEF BackOf
  <1>8. back = Opened(levels, LowerBound(levels, m[o].side, m[o].price), m[o].price)
                  [LowerBound(levels, m[o].side, m[o].price)].tail
    BY <1>3, <1>5
  <1> DEFINE newLevel == [price |-> p, orderCount |-> Len(q) + 1,
                          shares |-> SharesOf(q, m) + m[o].shares,
                          head |-> IF back = Null THEN o ELSE FrontOf(q), tail |-> o]
  <1>9. placed.levels = [opened EXCEPT ![at] = newLevel]
    <2> DEFINE lv == opened[at]
               count == lv.orderCount + 1
               sh == lv.shares + m[o].shares
               hd == IF lv.tail = Null THEN o ELSE lv.head
    <2>1. opened \in Seq(LevelRecord)
      BY <1>2 DEF Describes
    <2>2. placed.levels = LevelWith(opened, at, hd, o, count, sh)
      <3> HIDE DEF levels, at, opened
      <3> SUFFICES [opened EXCEPT ![at].head = IF lv.tail = Null THEN o ELSE @,
                                  ![at].tail = o,
                                  ![at].orderCount = @ + 1,
                                  ![at].shares = @ + m[o].shares]
                   = [opened EXCEPT ![at].head = hd, ![at].tail = o,
                           ![at].orderCount = count, ![at].shares = sh]
        BY <1>3 DEF Enqueue, levels, at, opened, LevelWith
      <3> QED
        BY <1>2, <2>1
    <2>3. count = Len(q) + 1 /\ sh = SharesOf(q, m) + m[o].shares
          /\ hd = (IF back = Null THEN o ELSE FrontOf(q)) /\ lv.price = p
      BY <1>2, <1>5
    <2> HIDE DEF lv, count, sh, hd, opened, at
    <2>4. LevelWith(opened, at, hd, o, count, sh)
          = [opened EXCEPT ![at] = [price |-> opened[at].price, orderCount |-> count,
                                    shares |-> sh, head |-> hd, tail |-> o]]
      <3>1. at \in 1..Len(opened)
        BY <1>2
      <3> QED
        BY ONLY <2>1, <3>1, LevelSet
    <2> QED
      BY <2>2, <2>3, <2>4 DEF lv
  <1> HIDE DEF opened, at
  <1>10. AreOrders(k) /\ \A s \in Slots : k[s].ref = m[s].ref /\ k[s].shares = m[s].shares
    <2>1. LET kk == Enqueue(levels, m, o).orders
          IN /\ AreOrders(kk)
             /\ kk[o].shares = m[o].shares /\ kk[o].ref = m[o].ref
             /\ \A s \in Slots : s # o /\ s # back => kk[s] = m[s]
             /\ \A s \in Slots : s # o /\ s = back =>
                  kk[s].shares = m[s].shares /\ kk[s].ref = m[s].ref
      <3>1. AreOrders(m) /\ o \in Slots
        OBVIOUS
      <3> HIDE DEF levels, back
      <3> QED
        BY ONLY <1>7, <1>8, <3>1, EnqueueIs, SMTT(60)
    <2> HIDE DEF k
    <2> QED
      BY <2>1 DEF k
  <1>11. Placed(k[o], l, side, p) /\ Behind(m, k, acquired, back, o)
    <2>1. LET kk == Enqueue(levels, m, o).orders
          IN /\ kk[o].locate = m[o].locate /\ kk[o].side = m[o].side /\ kk[o].price = m[o].price
             /\ kk[o].shares = m[o].shares
             /\ kk[o].prev = back /\ kk[o].next = Null
             /\ \A s \in Slots : s # o /\ s # back => kk[s] = m[s]
             /\ \A s \in Slots : s # o /\ s = back =>
                 /\ kk[s].locate = m[s].locate /\ kk[s].side = m[s].side
                 /\ kk[s].price = m[s].price /\ kk[s].shares = m[s].shares
                 /\ kk[s].prev = m[s].prev /\ kk[s].next = o
      <3>1. AreOrders(m) /\ o \in Slots
        OBVIOUS
      <3> HIDE DEF levels, back
      <3> QED
        BY ONLY <1>7, <1>8, <3>1, EnqueueIs, SMTT(60)
    <2>2. placed = Enqueue(levels, m, o)
      OBVIOUS
    <2> HIDE DEF levels, back
    <2>3. \A s \in acquired : s \in Slots /\ s # o
      OBVIOUS
    <2> HIDE DEF k
    <2>4. Placed(k[o], l, side, p)
      BY <1>3, <2>2, <2>1 DEF Placed, k
    <2>5. Behind(m, k, acquired, back, o)
      BY <2>2, <2>1, <2>3 DEF Behind, k
    <2> QED
      BY <2>4, <2>5
  <1> HIDE DEF k, newLevel, levels
  <1> DEFINE longer == Append(q, o)
  <1>12. Lined(With(Q, l, side, p, longer), k, acquired \cup {o})
    BY <1>11, AppendLined
  <1>13. SameElsewhere(Q, m, k, l, side, p)
    BY <1>10 DEF SameElsewhere, Lined
  <1>14. longer \in Seq(Slots) /\ Len(longer) = Len(q) + 1
         /\ (Len(q) = 0 => longer[1] = o) /\ (Len(q) > 0 => longer[1] = q[1])
         /\ longer[Len(longer)] = o
    BY <1>1, SMTT(30)
  <1>15. SharesOf(longer, k) = SharesOf(q, m) + m[o].shares
    <2>1. k[o].shares = m[o].shares /\ \A n \in 1..Len(q) : k[q[n]].shares = m[q[n]].shares
      BY <1>6, <1>10
    <2>2. k[o].shares \in Nat
      BY <1>3, <2>1
    <2> HIDE DEF longer
    <2>3. SharesOf(Append(q, o), k) = SharesOf(q, m) + k[o].shares
      <3>1. q \in Seq(Slots) /\ Sized(q, m)
        BY <1>1
      <3>2. o \in Slots
        OBVIOUS
      <3> QED
        BY ONLY <2>1, <2>2, <3>1, <3>2, SharesAppended
    <2> QED
      BY <2>1, <2>3 DEF longer
  <1> HIDE DEF longer
  <1>16. SharesOf(q, m) \in Nat
    BY <1>1, SharesUpToType DEF SharesOf
  <1>17. q # <<>> => back \in Slots /\ back # Null
    BY <1>1 DEF BackOf
  <1>18. newLevel \in LevelRecord /\ newLevel.price = p /\ newLevel.orderCount > 0
    <2>1. FrontOf(q) \in Slots \cup {Null}
      BY <1>1 DEF FrontOf
    <2> QED
      BY <1>1, <1>3, <1>16, <2>1 DEF newLevel, LevelRecord
  <1>19. Totals(newLevel, longer, k)
    <2>1. newLevel.head = FrontOf(longer)
      <3>1. CASE Len(q) = 0
        BY <1>14, <3>1 DEF newLevel, FrontOf, BackOf
      <3>2. CASE Len(q) # 0
        BY <1>1, <1>14, <3>2 DEF newLevel, FrontOf, BackOf
      <3> QED
        BY <3>1, <3>2
    <2> QED
      BY <1>1, <1>14, <1>15, <2>1 DEF Totals, newLevel, BackOf
  <1>20. ASSUME NEW t \in Prices, t # p
         PROVE  SharesOf(Q[l][side][t], k) = SharesOf(Q[l][side][t], m)
    <2>1. Lined(Q, m, acquired) /\ l \in Locates /\ side \in Sides /\ p \in Prices
      OBVIOUS
    <2> QED
      BY ONLY <1>13, <1>20, <2>1, OtherShares
  <1> DEFINE queues == Q[l][side]
             after == [opened EXCEPT ![at] = newLevel]
  <1>21. Describes(after, side, [queues EXCEPT ![p] = longer], k)
    <2>1. queues \in Queues /\ Describes(opened, side, queues, m) /\ at \in 1..Len(opened)
          /\ newLevel.price = opened[at].price
      BY <1>1, <1>2, <1>18
    <2>2. \A t \in Prices :
            t # newLevel.price => SharesOf(queues[t], k) = SharesOf(queues[t], m)
      BY <1>18, <1>20
    <2>3. longer \in Seq(Slots) /\ newLevel \in LevelRecord
      BY <1>14, <1>18
    <2> HIDE DEF queues
    <2>4. Describes([opened EXCEPT ![at] = newLevel], side,
                    [queues EXCEPT ![newLevel.price] = longer], k)
      BY <1>19, <2>1, <2>2, <2>3, LevelReplaced
    <2> QED
      BY <1>18, <2>4
  <1>22. NoneEmpty(after)
    <2>1. opened \in Seq(LevelRecord)
      BY <1>2 DEF Describes
    <2>2. ASSUME NEW i \in 1..Len(after) PROVE after[i].orderCount > 0
      <3>1. i \in 1..Len(opened) /\ after[i] = IF i = at THEN newLevel ELSE opened[i]
        BY <1>2, <2>1
      <3>2. CASE i = at
        BY <1>18, <3>1, <3>2
      <3>3. CASE i # at
        <4>1. PICK j \in 1..Len(levels) : opened[i] = levels[j]
          BY <1>2, <3>1, <3>3
        <4>2. NoneEmpty(levels)
          BY DEF BooksShow, levels
        <4>3. levels[j].orderCount > 0
          BY <4>2 DEF NoneEmpty
        <4> QED
          BY <3>1, <3>3, <4>1, <4>3
      <3> QED
        BY <3>2, <3>3
    <2> HIDE DEF after
    <2> QED
      BY <2>2 DEF NoneEmpty
  <1> HIDE DEF after
  <1>23. BooksShow(BookWith(shown, l, side, after), With(Q, l, side, p, longer), k)
    BY <1>13, <1>14, <1>21, <1>22, BooksChanged
  <1> QED
    BY <1>9, <1>10, <1>12, <1>23 DEF k, after, levels, longer, SameContents

-----------------------------------------------------------------------------
(* remove().                                                               *)

\* In memory k the neighbours of order o in m link to one another.
Around(m, k, acquired, o) ==
  \A s \in acquired : s # o =>
    /\ k[s].locate = m[s].locate /\ k[s].side = m[s].side
    /\ k[s].price = m[s].price /\ k[s].shares = m[s].shares
    /\ k[s].ref = m[s].ref
    /\ k[s].prev = IF s = m[o].next THEN m[o].prev ELSE m[s].prev
    /\ k[s].next = IF s = m[o].prev THEN m[o].next ELSE m[s].next

\* What remove() does to the orders, the slot given back.
LEMMA UnlinkIs ==
  ASSUME NEW m, AreOrders(m), NEW levels, NEW o \in Slots, NEW acquired \in SUBSET Slots,
         m[o].prev # o, m[o].next # o, m[o].prev = m[o].next => m[o].prev = Null
  PROVE  LET k == [Unlink(levels, m, o).orders EXCEPT ![o] = Blank]
         IN AreOrders(k) /\ Around(m, k, acquired, o)
  <1> DEFINE u == Unlink(levels, m, o).orders
             k == [u EXCEPT ![o] = Blank]
             before == m[o].prev
             behind == m[o].next
  <1>1. u = [s \in DOMAIN m |->
               CASE s = o      -> [m[o] EXCEPT !.prev = Null, !.next = Null]
                 [] s = before -> [m[s] EXCEPT !.next = behind]
                 [] s = behind -> [m[s] EXCEPT !.prev = before]
                 [] OTHER      -> m[s]]
    BY DEF Unlink
  <1>2. DOMAIN m = Slots /\ \A s \in Slots : DOMAIN m[s] = OrderFields
    BY DEF AreOrders
  <1>3. before # o /\ behind # o /\ (before = behind => before = Null)
    OBVIOUS
  <1>4. AreOrders(u)
    <2>1. SameOrders(m, u)
      BY UnlinkKeepsOrders
    <2> QED
      BY <2>1 DEF SameOrders
  <1> HIDE DEF u
  <1>5. AreOrders(k) /\ \A s \in Slots : s # o => k[s] = u[s]
    BY <1>4, BlankIsAnOrder, OneOrderChanges
  <1> HIDE DEF k, before, behind
  <1>6. ASSUME NEW s \in acquired, s # o
        PROVE  /\ k[s].locate = m[s].locate /\ k[s].side = m[s].side
               /\ k[s].price = m[s].price /\ k[s].shares = m[s].shares
               /\ k[s].ref = m[s].ref
               /\ k[s].prev = IF s = behind THEN before ELSE m[s].prev
               /\ k[s].next = IF s = before THEN behind ELSE m[s].next
    <2>1. k[s] = u[s] /\ s \in Slots /\ s # Null /\ DOMAIN m[s] = OrderFields
      BY <1>2, <1>5, <1>6
    <2>2. CASE s = before
      <3>1. s # behind
        BY <1>3, <2>1, <2>2
      <3>2. k[s] = [m[s] EXCEPT !.next = behind]
        BY <1>1, <1>2, <1>6, <2>1, <2>2, <3>1
      <3> QED
        BY <2>1, <2>2, <3>1, <3>2 DEF OrderFields
    <2>3. CASE s = behind /\ s # before
      <3>1. k[s] = [m[s] EXCEPT !.prev = before]
        BY <1>1, <1>2, <1>6, <2>1, <2>3
      <3> QED
        BY <2>1, <2>3, <3>1 DEF OrderFields
    <2>4. CASE s # behind /\ s # before
      <3>1. k[s] = m[s]
        BY <1>1, <1>2, <1>6, <2>1, <2>4
      <3> QED
        BY <2>4, <3>1
    <2> QED
      BY <2>2, <2>3, <2>4
  <1> QED
    BY <1>5, <1>6 DEF Around, u, k, before, behind

\* An order's neighbours are those in line with it.
LEMMA NeighboursAre ==
  ASSUME NEW q \in Seq(Slots), NEW m, NEW l, NEW side, NEW p, Line(q, m, l, side, p),
         NEW n \in 1..Len(q), NEW o, o = q[n]
  PROVE  /\ m[o].prev # o /\ m[o].next # o
         /\ m[o].prev = m[o].next => m[o].prev = Null
         /\ \A i \in 1..Len(q) :
             (q[i] = m[o].prev <=> i = n - 1) /\ (q[i] = m[o].next <=> i = n + 1)
         /\ m[o].prev # Null => \E i \in 1..Len(q) : q[i] = m[o].prev
         /\ m[o].next # Null => \E i \in 1..Len(q) : q[i] = m[o].next
  <1>1. Len(q) \in Nat /\ \A i \in 1..Len(q) : q[i] \in Slots /\ q[i] # Null
    OBVIOUS
  <1>2. /\ m[o].prev = IF n = 1 THEN Null ELSE q[n - 1]
        /\ m[o].next = IF n = Len(q) THEN Null ELSE q[n + 1]
    BY DEF Line
  <1>3. \A i, j \in 1..Len(q) : i # j => q[i] # q[j]
    BY DEF Line
  <1>4. n # 1 => n - 1 \in 1..Len(q) /\ n - 1 # n /\ n - 1 # n + 1
    BY <1>1
  <1>5. n # Len(q) => n + 1 \in 1..Len(q) /\ n + 1 # n
    BY <1>1
  <1>6. ASSUME NEW i \in 1..Len(q)
        PROVE  (q[i] = m[o].prev <=> i = n - 1) /\ (q[i] = m[o].next <=> i = n + 1)
    <2>1. q[i] = m[o].prev <=> i = n - 1
      <3>1. CASE n = 1
        BY <1>1, <1>2, <3>1
      <3>2. CASE n # 1
        BY <1>2, <1>3, <1>4, <3>2
      <3> QED
        BY <3>1, <3>2
    <2>2. q[i] = m[o].next <=> i = n + 1
      <3>1. CASE n = Len(q)
        BY <1>1, <1>2, <3>1
      <3>2. CASE n # Len(q)
        BY <1>2, <1>3, <1>5, <3>2
      <3> QED
        BY <3>1, <3>2
    <2> QED
      BY <2>1, <2>2
  <1>7. m[o].prev # o /\ m[o].next # o
    BY <1>6
  <1>8. m[o].prev # Null => n # 1 /\ m[o].prev = q[n - 1]
    BY <1>2
  <1>9. m[o].next # Null => n # Len(q) /\ m[o].next = q[n + 1]
    BY <1>2
  <1>10. m[o].prev = m[o].next => m[o].prev = Null
    BY <1>3, <1>4, <1>5, <1>8, <1>9
  <1>11. m[o].prev # Null => \E i \in 1..Len(q) : q[i] = m[o].prev
    BY <1>4, <1>8
  <1>12. m[o].next # Null => \E i \in 1..Len(q) : q[i] = m[o].next
    BY <1>5, <1>9
  <1> QED
    BY <1>6, <1>7, <1>10, <1>11, <1>12

\* The queues without an order.
LEMMA RemoveLined ==
  ASSUME NEW Q, NEW m, NEW acquired, Lined(Q, m, acquired), acquired \subseteq Slots,
         NEW l \in Locates, NEW side \in Sides, NEW p \in Prices,
         NEW q, q = Q[l][side][p], NEW n \in 1..Len(q), NEW o, o = q[n],
         NEW k, Around(m, k, acquired, o)
  PROVE  Lined(With(Q, l, side, p, RemoveAt(q, n)), k, acquired \ {o})
  <1> DEFINE less == RemoveAt(q, n)
             W == With(Q, l, side, p, less)
  <1>1. Q \in AllQueues /\ q \in Seq(Slots) /\ Len(q) \in Nat /\ Line(q, m, l, side, p)
    BY LinedIs
  <1>2. /\ less \in Seq(Slots) /\ Len(less) = Len(q) - 1
        /\ \A i \in 1..(n - 1) : less[i] = q[i]
        /\ \A i \in n..(Len(q) - 1) : less[i] = q[i + 1]
    BY <1>1, RemoveAtIs, ZenonT(30)
  <1> HIDE DEF less
  <1>3. l \in Locates /\ side \in Sides /\ p \in Prices
    OBVIOUS
  <1>4. /\ W \in AllQueues /\ W[l][side][p] = less
        /\ \A l2 \in Locates, side2 \in Sides, p2 \in Prices :
             l2 # l \/ side2 # side \/ p2 # p => W[l2][side2][p2] = Q[l2][side2][p2]
    <2>1. W \in AllQueues
      BY ONLY <1>1, <1>2, <1>3, WithIs
    <2>2. W[l][side][p] = less
      BY ONLY <1>1, <1>2, <1>3, WithIs
    <2>3. \A l2 \in Locates, side2 \in Sides, p2 \in Prices :
             l2 # l \/ side2 # side \/ p2 # p => W[l2][side2][p2] = Q[l2][side2][p2]
      BY ONLY <1>1, <1>2, <1>3, WithIs
    <2> QED
      BY <2>1, <2>2, <2>3
  <1> HIDE DEF W
  <1>5. \A i \in 1..Len(q) : q[i] \in acquired
    BY DEF Lined
  <1>6. /\ \A i \in 1..Len(q) :
             (q[i] = m[o].prev <=> i = n - 1) /\ (q[i] = m[o].next <=> i = n + 1)
        /\ m[o].prev # Null => \E i \in 1..Len(q) : q[i] = m[o].prev
        /\ m[o].next # Null => \E i \in 1..Len(q) : q[i] = m[o].next
    BY <1>1, NeighboursAre, SMTT(30)
  <1>7. \A i \in 1..Len(q) : i # n => q[i] # o
    BY <1>1 DEF Line
  <1>8. Line(less, k, l, side, p)
    <2>1. ASSUME NEW i \in 1..Len(q), i # n
          PROVE  /\ Placed(k[q[i]], l, side, p)
                 /\ k[q[i]].prev = IF i = n + 1 THEN m[q[n]].prev ELSE m[q[i]].prev
                 /\ k[q[i]].next = IF i = n - 1 THEN m[q[n]].next ELSE m[q[i]].next
      <3>1. q[i] \in acquired /\ q[i] # o /\ Placed(m[q[i]], l, side, p)
        BY <1>1, <1>5, <1>7, <2>1 DEF Line
      <3> DEFINE s == q[i]
      <3>2. (s = m[o].prev <=> i = n - 1) /\ (s = m[o].next <=> i = n + 1)
        BY <1>6
      <3> HIDE DEF s
      <3>3. s \in acquired /\ s # o /\ Placed(m[s], l, side, p)
        BY <3>1 DEF s
      <3>4. /\ Placed(k[s], l, side, p)
            /\ k[s].prev = IF i = n + 1 THEN m[o].prev ELSE m[s].prev
            /\ k[s].next = IF i = n - 1 THEN m[o].next ELSE m[s].next
        BY <3>2, <3>3 DEF Around, Placed
      <3> QED
        BY <3>4 DEF s
    <2>2. LinkedAround(q, m, k, n, l, side, p)
      BY <2>1 DEF LinkedAround
    <2>3. q \in Seq(Slots) /\ Line(q, m, l, side, p)
      BY <1>1
    <2>4. Line(RemoveAt(q, n), k, l, side, p)
      BY <2>2, <2>3, LineRemoved
    <2> QED
      BY <2>4 DEF less
  <1>9. ASSUME NEW l2 \in Locates, NEW side2 \in Sides, NEW p2 \in Prices,
               l2 # l \/ side2 # side \/ p2 # p
        PROVE  /\ Line(Q[l2][side2][p2], k, l2, side2, p2)
               /\ \A i \in 1..Len(Q[l2][side2][p2]) : Q[l2][side2][p2][i] \in acquired \ {o}
    <2> DEFINE r == Q[l2][side2][p2]
    <2>1. /\ Line(r, m, l2, side2, p2) /\ r \in Seq(Slots)
          /\ \A i \in 1..Len(r) : r[i] \in acquired
      <3>1. r \in Seq(Slots) /\ Line(r, m, l2, side2, p2)
        BY LinedIs
      <3> QED
        BY <3>1 DEF Lined
    <2>2. ASSUME NEW i \in 1..Len(r), NEW j \in 1..Len(q) PROVE r[i] # q[j]
      <3>1. SUFFICES ASSUME r[i] = q[j] PROVE FALSE
        OBVIOUS
      <3>2. InLine(Q, l, side, p, q[j]) /\ InLine(Q, l2, side2, p2, q[j])
        BY <3>1 DEF InLine
      <3>3. l2 = l /\ side2 = side /\ p2 = p
        BY <3>2, OneQueue
      <3> QED
        BY <1>9, <3>3
    <2> HIDE DEF r
    <2>3. ASSUME NEW i \in 1..Len(r)
          PROVE  /\ r[i] \in acquired /\ r[i] # o
                 /\ Placed(k[r[i]], l2, side2, p2)
                 /\ k[r[i]].prev = m[r[i]].prev /\ k[r[i]].next = m[r[i]].next
      <3> DEFINE s == r[i]
      <3>1. s \in acquired /\ s # o /\ s \in Slots /\ Placed(m[s], l2, side2, p2)
        BY <2>1, <2>2 DEF Line
      <3>2. s # m[o].prev /\ s # m[o].next
        <4> DEFINE before == m[o].prev
                   after == m[o].next
        <4>1. \A j \in 1..Len(q) : q[j] # s
          BY <2>2
        <4>2. /\ before # Null => \E j \in 1..Len(q) : q[j] = before
              /\ after # Null => \E j \in 1..Len(q) : q[j] = after
          BY <1>6
        <4>3. s # Null
          BY <3>1, NullAssumption
        <4> HIDE DEF s, before, after
        <4>4. s # before /\ s # after
          BY ONLY <4>1, <4>2, <4>3
        <4> QED
          BY <4>4 DEF before, after
      <3> HIDE DEF s
      <3>3. Placed(k[s], l2, side2, p2) /\ k[s].prev = m[s].prev /\ k[s].next = m[s].next
        BY <3>1, <3>2 DEF Around, Placed
      <3> QED
        BY <3>1, <3>3 DEF s
    <2>4. Line(r, k, l2, side2, p2)
      BY <2>1, <2>3 DEF Line
    <2> QED
      BY <2>3, <2>4 DEF r
  <1>10. ASSUME NEW l2 \in Locates, NEW side2 \in Sides, NEW p2 \in Prices
        PROVE  /\ Line(W[l2][side2][p2], k, l2, side2, p2)
               /\ \A i \in 1..Len(W[l2][side2][p2]) : W[l2][side2][p2][i] \in acquired \ {o}
    <2>1. CASE l2 # l \/ side2 # side \/ p2 # p
      <3>1. W[l2][side2][p2] = Q[l2][side2][p2]
        BY <1>4, <2>1
      <3>2. /\ Line(Q[l2][side2][p2], k, l2, side2, p2)
            /\ \A i \in 1..Len(Q[l2][side2][p2]) : Q[l2][side2][p2][i] \in acquired \ {o}
        BY <1>9, <2>1
      <3> QED
        BY <3>1, <3>2
    <2>2. CASE l2 = l /\ side2 = side /\ p2 = p
      <3>1. ASSUME NEW i \in 1..Len(less) PROVE less[i] \in acquired \ {o}
        <4> DEFINE x == IF i < n THEN i ELSE i + 1
        <4>1. x \in 1..Len(q) /\ x # n /\ less[i] = q[x]
          BY <1>1, <1>2
        <4> HIDE DEF x
        <4> QED
          BY <1>5, <1>7, <4>1
      <3> QED
        BY <1>4, <1>8, <2>2, <3>1
    <2> QED
      BY <2>1, <2>2
  <1>11. ASSUME NEW s \in acquired \ {o}
        PROVE  \E l2 \in Locates, side2 \in Sides, p2 \in Prices :
                 /\ Placed(k[s], l2, side2, p2)
                 /\ InLine(W, l2, side2, p2, s)
    <2>1. PICK l2 \in Locates, side2 \in Sides, p2 \in Prices :
            Placed(m[s], l2, side2, p2) /\ InLine(Q, l2, side2, p2, s)
      BY DEF Lined
    <2>2. Placed(k[s], l2, side2, p2)
      BY <2>1 DEF Around, Placed
    <2>3. InLine(W, l2, side2, p2, s)
      <3>1. CASE l2 # l \/ side2 # side \/ p2 # p
        BY <1>4, <2>1, <3>1 DEF InLine
      <3>2. CASE l2 = l /\ side2 = side /\ p2 = p
        <4>1. PICK i \in 1..Len(q) : q[i] = s
          BY <2>1, <3>2 DEF InLine
        <4> DEFINE x == IF i < n THEN i ELSE i - 1
        <4>2. i # n
          BY <4>1
        <4>3. x \in 1..Len(less) /\ less[x] = q[i]
          <5>1. CASE i < n
            BY <1>1, <1>2, <5>1
          <5>2. CASE i > n
            <6>1. i - 1 \in n..(Len(q) - 1) /\ (i - 1) + 1 = i /\ x = i - 1
              BY <1>1, <5>2
            <6>2. less[i - 1] = q[(i - 1) + 1]
              BY <1>2, <6>1
            <6> QED
              BY <1>1, <1>2, <6>1, <6>2
          <5> QED
            BY <1>1, <4>2, <5>1, <5>2
        <4> HIDE DEF x
        <4> QED
          BY <1>4, <3>2, <4>1, <4>3 DEF InLine
      <3> QED
        BY <3>1, <3>2
    <2> QED
      BY <2>2, <2>3
  <1> QED
    BY <1>4, <1>10, <1>11 DEF Lined, W, less

SameOthers(m, k, acquired, o) ==
  \A s \in acquired : s # o => k[s].ref = m[s].ref /\ k[s].shares = m[s].shares

\* remove() unlinks the order from the queue of its price.
LEMMA UnlinkStands ==
  ASSUME NEW Q, NEW m, NEW acquired, Lined(Q, m, acquired), NEW shown, BooksShow(shown, Q, m),
         AreOrders(m), acquired \subseteq Slots,
         NEW l \in Locates, NEW side \in Sides, NEW p \in Prices,
         NEW q, q = Q[l][side][p], NEW n \in 1..Len(q), NEW o, o = q[n],
         NEW left, left = Unlink(shown[l][side], m, o),
         NEW k, k = [left.orders EXCEPT ![o] = Blank]
  PROVE  LET W == With(Q, l, side, p, RemoveAt(q, n))
         IN /\ Lined(W, k, acquired \ {o})
            /\ BooksShow(BookWith(shown, l, side, left.levels), W, k)
            /\ SameOthers(m, k, acquired, o)
  <1> DEFINE levels == shown[l][side]
             at == LowerBound(levels, side, p)
             less == RemoveAt(q, n)
  <1>1. /\ Q \in AllQueues /\ Q[l][side] \in Queues
        /\ q \in Seq(Slots) /\ Len(q) \in Nat /\ Line(q, m, l, side, p) /\ Sized(q, m)
    BY LinedIs
  <1>2. /\ less \in Seq(Slots) /\ Len(less) = Len(q) - 1
        /\ \A i \in 1..(n - 1) : less[i] = q[i]
        /\ \A i \in n..(Len(q) - 1) : less[i] = q[i + 1]
    BY <1>1, RemoveAtIs, ZenonT(30)
  <1>3. o \in Slots /\ o \in acquired /\ Placed(m[o], l, side, p)
    BY <1>1 DEF Lined, Line
  <1>4. m[o].side = side /\ m[o].price = p /\ m[o].locate = l /\ m[o].shares \in Nat
    BY <1>3 DEF Placed
  <1>5. AreOrders(k) /\ Around(m, k, acquired, o)
    <2>1. m[o].prev # o /\ m[o].next # o /\ (m[o].prev = m[o].next => m[o].prev = Null)
      <3>1. n \in 1..Len(q) /\ o = q[n]
        OBVIOUS
      <3> QED
        BY ONLY <1>1, <3>1, NeighboursAre, SMTT(30)
    <2>2. k = [Unlink(levels, m, o).orders EXCEPT ![o] = Blank] /\ acquired \in SUBSET Slots
      OBVIOUS
    <2> HIDE DEF levels
    <2>3. LET kk == [Unlink(levels, m, o).orders EXCEPT ![o] = Blank]
          IN AreOrders(kk) /\ Around(m, kk, acquired, o)
      BY <1>3, <2>1, <2>2, UnlinkIs
    <2> QED
      BY <2>2, <2>3
  <1>6. Describes(levels, side, Q[l][side], m) /\ NoneEmpty(levels)
    BY DEF BooksShow
  <1>7. at \in 1..Len(levels) /\ levels[at].price = p
    <2>2. levels \in Seq(LevelRecord) /\ Sorted(levels, side)
      BY <1>6 DEF Describes
    <2> HIDE DEF levels
    <2>1. PICK i \in 1..Len(levels) : levels[i].price = p
      <3> DEFINE queues == Q[l][side]
      <3>1. queues[p] = q /\ p \in Prices /\ n \in 1..Len(q) /\ Len(q) \in Nat
        BY <1>1
      <3> HIDE DEF queues
      <3>2. Len(queues[p]) # 0
        BY ONLY <3>1
      <3>3. Describes(levels, side, queues, m)
        BY <1>6 DEF queues
      <3> QED
        BY ONLY <3>1, <3>2, <3>3 DEF Describes
    <2>3. i = at
      BY <2>1, <2>2, LowerBoundIs
    <2> QED
      BY <2>1, <2>3
  <1>8. Totals(levels[at], q, m)
    BY <1>6, <1>7 DEF Describes
  <1>9. levels[at].tail = BackOf(q) /\ levels[at].head = FrontOf(q)
        /\ levels[at].orderCount = Len(q) /\ levels[at].shares = SharesOf(q, m)
    BY <1>8 DEF Totals
  <1> DEFINE head == IF m[o].prev = Null THEN m[o].next ELSE FrontOf(q)
             tail == IF m[o].next = Null THEN m[o].prev ELSE BackOf(q)
             newLevel == [price |-> p, orderCount |-> Len(q) - 1,
                          shares |-> SharesOf(q, m) - m[o].shares,
                          head |-> head, tail |-> tail]
             unlinked == [levels EXCEPT ![at] = newLevel]
  <1>10. left.levels = DropIfEmpty(unlinked, at)
    <2> DEFINE lv == levels[at]
               count == lv.orderCount - 1
               sh == lv.shares - m[o].shares
               hd == IF m[o].prev = Null THEN m[o].next ELSE lv.head
               tl == NewTail(lv, m[o])
    <2>1. levels \in Seq(LevelRecord)
      BY <1>6 DEF Describes
    <2>2. left.levels = DropIfEmpty(LevelWith(levels, at, hd, tl, count, sh), at)
      <3> HIDE DEF levels, at
      <3> SUFFICES [levels EXCEPT ![at].head = IF m[o].prev = Null THEN m[o].next ELSE @,
                                  ![at].tail = NewTail(levels[at], m[o]),
                                  ![at].orderCount = @ - 1,
                                  ![at].shares = @ - m[o].shares]
                   = [levels EXCEPT ![at].head = hd, ![at].tail = tl,
                           ![at].orderCount = count, ![at].shares = sh]
        BY <1>4 DEF Unlink, levels, at, LevelWith
      <3> QED
        BY <1>7, <2>1
    <2>3. count = Len(q) - 1 /\ sh = SharesOf(q, m) - m[o].shares
          /\ hd = head /\ tl = tail /\ lv.price = p
      BY <1>7, <1>9 DEF NewTail
    <2> HIDE DEF lv, count, sh, hd, tl, levels, at, head, tail
    <2>4. LevelWith(levels, at, hd, tl, count, sh)
          = [levels EXCEPT ![at] = [price |-> levels[at].price, orderCount |-> count,
                                    shares |-> sh, head |-> hd, tail |-> tl]]
      BY ONLY <1>7, <2>1, LevelSet
    <2> QED
      BY <2>2, <2>3, <2>4 DEF lv
  <1> HIDE DEF at, levels, newLevel
  <1> HIDE DEF less
  <1>11. Lined(With(Q, l, side, p, less), k, acquired \ {o})
    BY <1>5, RemoveLined DEF less
  <1>12. \A s \in acquired : s # o => k[s].ref = m[s].ref /\ k[s].shares = m[s].shares
    BY <1>5 DEF Around
  <1>13. SameElsewhere(Q, m, k, l, side, p)
    <2> SUFFICES ASSUME NEW l2 \in Locates, NEW side2 \in Sides, NEW p2 \in Prices,
                        l2 # l \/ side2 # side \/ p2 # p, NEW i \in 1..Len(Q[l2][side2][p2])
                 PROVE  k[Q[l2][side2][p2][i]].shares = m[Q[l2][side2][p2][i]].shares
      BY DEF SameElsewhere
    <2> DEFINE s == Q[l2][side2][p2][i]
    <2>1. InLine(Q, l2, side2, p2, s) /\ InLine(Q, l, side, p, o) /\ s \in acquired
      BY DEF InLine, Lined
    <2> HIDE DEF s
    <2>2. s # o
      <3>1. SUFFICES ASSUME s = o PROVE FALSE
        OBVIOUS
      <3>2. l2 = l /\ side2 = side /\ p2 = p
        BY <2>1, <3>1, OneQueue
      <3> QED
        BY <3>2
    <2> QED
      BY <1>12, <2>1, <2>2 DEF s
  <1>14. SharesOf(less, k) = SharesOf(q, m) - m[o].shares
    <2>1. ASSUME NEW i \in 1..Len(q), i # n PROVE k[q[i]].shares = m[q[i]].shares
      <3>1. q[i] \in acquired /\ q[i] # o
        BY <1>1, <2>1 DEF Lined, Line
      <3> QED
        BY <1>12, <3>1
    <2>2. q \in Seq(Slots) /\ n \in 1..Len(q) /\ Sized(q, m)
      BY <1>1
    <2>3. SharesOf(RemoveAt(q, n), k) = SharesOf(q, m) - m[q[n]].shares
      BY ONLY <2>1, <2>2, SharesRemoved
    <2> QED
      BY <2>3 DEF less
  <1>15. SharesOf(less, k) \in Nat
    <2>1. Line(less, k, l, side, p)
      <3>1. With(Q, l, side, p, less)[l][side][p] = less
        BY ONLY <1>1, <1>2, WithIs, l \in Locates, side \in Sides, p \in Prices
      <3> QED
        BY <1>11, <3>1, LinedIs
    <2>2. Sized(less, k)
      BY <2>1, LineSized
    <2>3. Len(less) \in Nat /\ Len(less) \in 0..Len(less)
      BY <1>2
    <2>4. SharesUpTo(less, k)[Len(less)] \in Nat
      BY ONLY <2>2, <2>3, SharesUpToType
    <2> QED
      BY <2>4 DEF SharesOf
  <1>16. /\ m[o].prev = IF n = 1 THEN Null ELSE q[n - 1]
         /\ m[o].next = IF n = Len(q) THEN Null ELSE q[n + 1]
    BY <1>1 DEF Line
  <1>17. head = FrontOf(less)
    <2>1. CASE n = 1 /\ Len(q) = 1
      BY <1>2, <1>16, <2>1 DEF FrontOf
    <2>2. CASE n = 1 /\ Len(q) # 1
      <3>1. 1 \in n..(Len(q) - 1) /\ n + 1 = 1 + 1 /\ n # Len(q) /\ Len(less) # 0
        <4>1. n \in 1..Len(q) /\ Len(q) \in Nat /\ Len(less) = Len(q) - 1
          BY <1>1, <1>2
        <4> DEFINE c == Len(q)
                   d == Len(less)
        <4>2. n \in 1..c /\ c \in Nat /\ d = c - 1 /\ n = 1 /\ c # 1
          BY <2>2, <4>1
        <4> HIDE DEF c, d
        <4>3. 1 \in n..(c - 1) /\ n + 1 = 1 + 1 /\ n # c /\ d # 0
          BY ONLY <4>2
        <4> QED
          BY <4>3 DEF c, d
      <3>2. less[1] = q[1 + 1]
        BY <1>2, <3>1
      <3> QED
        BY <1>16, <2>2, <3>1, <3>2 DEF FrontOf
    <2>3. CASE n # 1
      <3>1. q[n - 1] \in Slots /\ less[1] = q[1] /\ Len(less) # 0
        BY <1>1, <1>2, <2>3
      <3> QED
        BY <1>16, <2>3, <3>1 DEF FrontOf
    <2> QED
      BY <2>1, <2>2, <2>3
  <1>18. tail = BackOf(less)
    <2>1. CASE n = Len(q) /\ Len(q) = 1
      BY <1>2, <1>16, <2>1 DEF BackOf
    <2>2. CASE n = Len(q) /\ Len(q) # 1
      <3>1. Len(less) = n - 1 /\ Len(less) \in 1..(n - 1) /\ n # 1
        <4>1. n \in 1..Len(q) /\ Len(q) \in Nat /\ Len(less) = Len(q) - 1
          BY <1>1, <1>2
        <4> QED
          BY ONLY <2>2, <4>1
      <3>2. less[Len(less)] = q[n - 1]
        BY <1>2, <3>1
      <3>3. Len(less) # 0 /\ n = Len(q) /\ n # 1
        BY ONLY <2>2, <3>1
      <3>4. tail = q[n - 1]
        BY ONLY <1>16, <3>3 DEF tail
      <3> QED
        BY ONLY <3>2, <3>3, <3>4 DEF BackOf
    <2>3. CASE n # Len(q)
      <3>1. q[n + 1] \in Slots /\ Len(q) - 1 \in n..(Len(q) - 1) /\ (Len(q) - 1) + 1 = Len(q)
        BY <1>1, <2>3
      <3>2. less[Len(q) - 1] = q[Len(q)] /\ Len(less) = Len(q) - 1
        BY <1>2, <3>1
      <3>3. m[o].next # Null
        BY <1>16, <2>3, <3>1, NullAssumption
      <3>4. n \in 1..Len(q) /\ Len(q) \in Nat
        BY <1>1
      <3>5. Len(q) # 0 /\ Len(q) - 1 # 0
        <4> DEFINE c == Len(q)
        <4>1. n \in 1..c /\ c \in Nat /\ n # c
          BY ONLY <2>3, <3>4
        <4> HIDE DEF c
        <4>2. c # 0 /\ c - 1 # 0
          BY ONLY <4>1
        <4> QED
          BY ONLY <4>2 DEF c
      <3>6. tail = BackOf(q)
        BY ONLY <3>3 DEF tail
      <3> QED
        BY ONLY <3>2, <3>5, <3>6 DEF BackOf
    <2> QED
      BY <2>1, <2>2, <2>3
  <1> HIDE DEF head, tail
  <1>19. newLevel \in LevelRecord /\ newLevel.price = p /\ newLevel.orderCount = Len(q) - 1
    <2>1. FrontOf(less) \in Slots \cup {Null} /\ BackOf(less) \in Slots \cup {Null}
      <3>1. less \in Seq(Slots)
        BY <1>2
      <3>2. Len(less) # 0 => 1 \in 1..Len(less) /\ Len(less) \in 1..Len(less)
        BY <3>1
      <3>3. \A i \in 1..Len(less) : less[i] \in Slots
        BY <3>1
      <3> QED
        BY <3>2, <3>3 DEF FrontOf, BackOf
    <2>2. Len(q) - 1 \in Nat
      BY <1>1
    <2>3. SharesOf(q, m) - m[o].shares \in Nat
      BY <1>14, <1>15
    <2>4. head \in Slots \cup {Null} /\ tail \in Slots \cup {Null}
      BY <1>17, <1>18, <2>1
    <2> DEFINE count == Len(q) - 1
               shares == SharesOf(q, m) - m[o].shares
    <2>5. newLevel = [price |-> p, orderCount |-> count, shares |-> shares,
                      head |-> head, tail |-> tail]
      BY DEF newLevel
    <2>6. p \in Prices /\ count \in Nat /\ shares \in Nat
      BY <2>2, <2>3
    <2> HIDE DEF count, shares
    <2>7. newLevel \in LevelRecord /\ newLevel.price = p /\ newLevel.orderCount = count
      BY ONLY <2>4, <2>5, <2>6 DEF LevelRecord
    <2> QED
      BY <2>7 DEF count
  <1>20. Totals(newLevel, less, k)
    BY <1>2, <1>14, <1>17, <1>18 DEF Totals, newLevel
  <1>21. ASSUME NEW t \in Prices, t # p
         PROVE  SharesOf(Q[l][side][t], k) = SharesOf(Q[l][side][t], m)
    <2>1. Lined(Q, m, acquired) /\ l \in Locates /\ side \in Sides /\ p \in Prices
      OBVIOUS
    <2> QED
      BY ONLY <1>13, <1>21, <2>1, OtherShares
  <1> DEFINE queues == Q[l][side]
  <1>22. Describes(unlinked, side, [queues EXCEPT ![p] = less], k)
    <2>1. queues \in Queues /\ Describes(levels, side, queues, m) /\ at \in 1..Len(levels)
          /\ newLevel.price = levels[at].price
      BY <1>1, <1>6, <1>7, <1>19
    <2>2. \A t \in Prices :
            t # newLevel.price => SharesOf(queues[t], k) = SharesOf(queues[t], m)
      BY <1>19, <1>21
    <2>3. less \in Seq(Slots) /\ newLevel \in LevelRecord
      BY <1>2, <1>19
    <2> HIDE DEF queues
    <2>4. Describes([levels EXCEPT ![at] = newLevel], side,
                    [queues EXCEPT ![newLevel.price] = less], k)
      BY <1>20, <2>1, <2>2, <2>3, LevelReplaced
    <2> QED
      BY <1>19, <2>4
  <1>23. /\ unlinked \in Seq(LevelRecord) /\ Len(unlinked) = Len(levels) /\ unlinked[at] = newLevel
         /\ \A i \in 1..Len(levels) : i # at => unlinked[i] = levels[i]
    <2>1. levels \in Seq(LevelRecord)
      BY <1>6 DEF Describes
    <2> QED
      BY <1>7, <1>19, <2>1
  <1> HIDE DEF unlinked
  <1>24. /\ Describes(left.levels, side, [queues EXCEPT ![p] = less], k)
         /\ NoneEmpty(left.levels)
    <2> DEFINE queuesAfter == [queues EXCEPT ![p] = less]
    <2>1. queuesAfter \in Queues /\ queuesAfter[p] = less
      BY <1>1, <1>2 DEF Queues
    <2> HIDE DEF queuesAfter, queues
    <2>2. CASE Len(q) = 1
      <3>1. left.levels = RemoveAt(unlinked, at)
        BY <1>10, <1>19, <1>23, <2>2 DEF DropIfEmpty
      <3>2. Describes(unlinked, side, queuesAfter, k) /\ at \in 1..Len(unlinked)
            /\ Len(queuesAfter[unlinked[at].price]) = 0
        <4>1. Describes(unlinked, side, queuesAfter, k)
          BY <1>22 DEF queuesAfter
        <4>2. at \in 1..Len(unlinked)
          BY ONLY <1>7, <1>23
        <4>3. unlinked[at].price = p
          BY ONLY <1>19, <1>23
        <4>4. Len(less) = 0
          BY ONLY <1>2, <2>2
        <4> QED
          BY ONLY <2>1, <4>1, <4>2, <4>3, <4>4
      <3>3. /\ Describes(RemoveAt(unlinked, at), side, queuesAfter, k)
            /\ \A i \in 1..Len(RemoveAt(unlinked, at)) :
                 \E j \in 1..Len(unlinked) : j # at /\ RemoveAt(unlinked, at)[i] = unlinked[j]
        BY <2>1, <3>2, LevelDropped
      <3>4. NoneEmpty(RemoveAt(unlinked, at))
        BY <1>6, <1>23, <3>3 DEF NoneEmpty
      <3> QED
        BY <3>1, <3>3, <3>4 DEF queuesAfter
    <2>3. CASE Len(q) # 1
      <3>1. newLevel.orderCount > 0
        <4>1. n \in 1..Len(q) /\ Len(q) \in Nat
          BY <1>1
        <4> DEFINE c == Len(q)
        <4>2. c \in Nat /\ n \in 1..c /\ c # 1 /\ newLevel.orderCount = c - 1
          BY <1>19, <2>3, <4>1
        <4> HIDE DEF c
        <4> QED
          BY ONLY <4>2
      <3>2. left.levels = unlinked
        <4>1. unlinked[at].orderCount # 0
          BY <3>1, <1>23
        <4> QED
          BY <1>10, <4>1 DEF DropIfEmpty
      <3>3. NoneEmpty(unlinked)
        <4> SUFFICES ASSUME NEW i \in 1..Len(unlinked) PROVE unlinked[i].orderCount > 0
          BY DEF NoneEmpty
        <4>1. i \in 1..Len(levels) /\ levels[i].orderCount > 0
          BY <1>6, <1>23 DEF NoneEmpty
        <4> QED
          BY <1>23, <3>1, <4>1
      <3> QED
        BY <1>22, <3>2, <3>3
    <2> QED
      BY <2>2, <2>3
  <1>25. BooksShow(BookWith(shown, l, side, left.levels), With(Q, l, side, p, less), k)
    BY <1>2, <1>13, <1>24, BooksChanged
  <1> QED
    BY <1>5, <1>11, <1>12, <1>25 DEF less, SameOthers

-----------------------------------------------------------------------------
(* reduce().                                                               *)

\* In memory k order o is d shares smaller than in m, and no more differs.
Smaller(m, k, o, d) ==
  /\ k[o].shares = m[o].shares - d
  /\ \A s \in Slots : s # o => k[s].shares = m[s].shares
  /\ \A s \in Slots :
       /\ k[s].locate = m[s].locate /\ k[s].side = m[s].side /\ k[s].price = m[s].price
       /\ k[s].ref = m[s].ref /\ k[s].prev = m[s].prev /\ k[s].next = m[s].next

\* What reduce() does to the orders.
LEMMA ReduceIs ==
  ASSUME NEW m, AreOrders(m), NEW levels, NEW o \in Slots, NEW d
  PROVE  LET k == Reduce(levels, m, o, d).orders
         IN AreOrders(k) /\ Smaller(m, k, o, d)
  <1> DEFINE k == Reduce(levels, m, o, d).orders
             new == [m[o] EXCEPT !.shares = m[o].shares - d]
  <1>1. DOMAIN m = Slots /\ \A s \in Slots : DOMAIN m[s] = OrderFields
    BY DEF AreOrders
  <1>2. k = [m EXCEPT ![o] = new]
    BY <1>1 DEF Reduce
  <1>3. /\ DOMAIN new = OrderFields /\ new.shares = m[o].shares - d
        /\ new.locate = m[o].locate /\ new.side = m[o].side /\ new.price = m[o].price
        /\ new.ref = m[o].ref /\ new.prev = m[o].prev /\ new.next = m[o].next
    BY <1>1 DEF OrderFields
  <1> HIDE DEF new, k
  <1>4. AreOrders(k) /\ k[o] = new /\ \A s \in Slots : s # o => k[s] = m[s]
    <2>1. /\ AreOrders([m EXCEPT ![o] = new])
          /\ [m EXCEPT ![o] = new][o] = new
          /\ \A s \in Slots : s # o => [m EXCEPT ![o] = new][s] = m[s]
      BY <1>3, OneOrderChanges
    <2> QED
      BY <1>2, <2>1
  <1>5. Smaller(m, k, o, d)
    BY <1>3, <1>4 DEF Smaller
  <1> QED
    BY <1>4, <1>5 DEF k

\* reduce() leaves the order where it is.
LEMMA ReduceStands ==
  ASSUME NEW Q, NEW m, NEW acquired, Lined(Q, m, acquired), NEW shown, BooksShow(shown, Q, m),
         AreOrders(m), acquired \subseteq Slots,
         NEW l \in Locates, NEW side \in Sides, NEW p \in Prices,
         NEW q, q = Q[l][side][p], NEW n \in 1..Len(q), NEW o, o = q[n],
         NEW d \in Nat, d <= m[o].shares,
         NEW left, left = Reduce(shown[l][side], m, o, d)
  PROVE  /\ Lined(Q, left.orders, acquired)
         /\ BooksShow(BookWith(shown, l, side, left.levels), Q, left.orders)
         /\ Smaller(m, left.orders, o, d)
  <1> DEFINE levels == shown[l][side]
             k == left.orders
             at == LowerBound(levels, side, p)
  <1>1. /\ Q \in AllQueues /\ Q[l][side] \in Queues
        /\ q \in Seq(Slots) /\ Len(q) \in Nat /\ Line(q, m, l, side, p) /\ Sized(q, m)
    BY LinedIs
  <1>2. o \in Slots /\ o \in acquired /\ Placed(m[o], l, side, p)
    BY <1>1 DEF Lined, Line
  <1>3. m[o].side = side /\ m[o].price = p /\ m[o].locate = l /\ m[o].shares \in Nat
    BY <1>2 DEF Placed
  <1>4. Smaller(m, k, o, d)
    <2>1. left = Reduce(levels, m, o, d)
      OBVIOUS
    <2> HIDE DEF levels
    <2>2. LET kk == Reduce(levels, m, o, d).orders IN Smaller(m, kk, o, d)
      BY <1>2, ReduceIs
    <2> QED
      BY <2>1, <2>2
  <1>5. Describes(levels, side, Q[l][side], m) /\ NoneEmpty(levels)
    BY DEF BooksShow
  <1>6. at \in 1..Len(levels) /\ levels[at].price = p
    <2>1. PICK i \in 1..Len(levels) : levels[i].price = p
      <3>1. Len(q) > 0
        BY <1>1
      <3> QED
        BY <1>5, <3>1 DEF Describes
    <2>2. levels \in Seq(LevelRecord) /\ Sorted(levels, side)
      BY <1>5 DEF Describes
    <2> HIDE DEF levels
    <2>3. i = at
      BY <2>1, <2>2, LowerBoundIs
    <2> QED
      BY <2>1, <2>3
  <1>7. Totals(levels[at], q, m)
    BY <1>5, <1>6 DEF Describes
  <1>8. levels[at].tail = BackOf(q) /\ levels[at].head = FrontOf(q)
        /\ levels[at].orderCount = Len(q) /\ levels[at].shares = SharesOf(q, m)
    BY <1>7 DEF Totals
  <1> DEFINE newLevel == [levels[at] EXCEPT !.shares = levels[at].shares - d]
             reduced == [levels EXCEPT ![at] = newLevel]
  <1>9. left.levels = reduced
    <2>1. levels \in Seq(LevelRecord)
      BY <1>5 DEF Describes
    <2> HIDE DEF levels, at
    <2> SUFFICES [levels EXCEPT ![at].shares = @ - d] = [levels EXCEPT ![at] = newLevel]
      BY <1>3 DEF Reduce, levels, at
    <2> QED
      BY <1>6, <2>1
  <1>10. levels[at] \in LevelRecord
    BY <1>5, <1>6 DEF Describes
  <1> HIDE DEF levels, at, k
  \* Of the queues only sizes change.
  <1>11. ASSUME NEW s \in acquired
         PROVE  /\ \A l2, side2, p2 : Placed(m[s], l2, side2, p2) => Placed(k[s], l2, side2, p2)
                /\ k[s].prev = m[s].prev /\ k[s].next = m[s].next
    <2>1. m[s].shares \in Nat
      BY DEF Lined, Placed
    <2>2. k[s].shares \in Nat
      <3>1. CASE s = o
        <4>1. k[s].shares = m[s].shares - d /\ d <= m[s].shares /\ d \in Nat
          BY <1>4, <3>1 DEF Smaller
        <4> QED
          BY ONLY <2>1, <4>1
      <3>2. CASE s # o
        BY <1>4, <2>1, <3>2 DEF Smaller
      <3> QED
        BY <3>1, <3>2
    <2> QED
      BY <1>4, <2>2 DEF Smaller, Placed
  <1>12. ASSUME NEW l2 \in Locates, NEW side2 \in Sides, NEW p2 \in Prices
         PROVE  Line(Q[l2][side2][p2], k, l2, side2, p2)
    <2> DEFINE r == Q[l2][side2][p2]
    <2>1. Line(r, m, l2, side2, p2) /\ \A i \in 1..Len(r) : r[i] \in acquired
      BY DEF Lined
    <2> HIDE DEF r
    <2>2. Line(r, k, l2, side2, p2)
      BY <1>11, <2>1 DEF Line
    <2> QED
      BY <2>2 DEF r
  <1>13. Lined(Q, k, acquired)
    <2>1. ASSUME NEW s \in acquired
          PROVE  \E l2 \in Locates, side2 \in Sides, p2 \in Prices :
                   Placed(k[s], l2, side2, p2) /\ InLine(Q, l2, side2, p2, s)
      <3>1. PICK l2 \in Locates, side2 \in Sides, p2 \in Prices :
              Placed(m[s], l2, side2, p2) /\ InLine(Q, l2, side2, p2, s)
        BY DEF Lined
      <3> QED
        BY <1>11, <3>1
    <2> QED
      BY <1>12, <2>1 DEF Lined
  <1>14. SameElsewhere(Q, m, k, l, side, p)
    <2> SUFFICES ASSUME NEW l2 \in Locates, NEW side2 \in Sides, NEW p2 \in Prices,
                        l2 # l \/ side2 # side \/ p2 # p, NEW i \in 1..Len(Q[l2][side2][p2])
                 PROVE  k[Q[l2][side2][p2][i]].shares = m[Q[l2][side2][p2][i]].shares
      BY DEF SameElsewhere
    <2> DEFINE s == Q[l2][side2][p2][i]
    <2>1. InLine(Q, l2, side2, p2, s) /\ InLine(Q, l, side, p, o) /\ s \in acquired
      BY DEF InLine, Lined
    <2> HIDE DEF s
    <2>2. s # o
      <3>1. SUFFICES ASSUME s = o PROVE FALSE
        OBVIOUS
      <3>2. l2 = l /\ side2 = side /\ p2 = p
        BY <2>1, <3>1, OneQueue
      <3> QED
        BY <3>2
    <2> QED
      BY <1>4, <2>1, <2>2 DEF s, Smaller
  <1>15. Sized(q, k)
    BY <1>12, LineSized
  <1>16. SharesOf(q, k) = SharesOf(q, m) - d
    <2>1. ASSUME NEW i \in 1..Len(q), i # n PROVE k[q[i]].shares = m[q[i]].shares
      <3>1. q[i] \in Slots /\ q[i] # o
        BY <1>1, <2>1 DEF Line
      <3> QED
        BY <1>4, <3>1 DEF Smaller
    <2>2. q \in Seq(Slots) /\ n \in 1..Len(q) /\ d \in Nat /\ Sized(q, m)
      BY <1>1
    <2>3. k[q[n]].shares = m[q[n]].shares - d
      BY <1>4 DEF Smaller
    <2> QED
      BY ONLY <1>15, <2>1, <2>2, <2>3, SharesReduced
  <1>17. SharesOf(q, k) \in Nat
    BY <1>1, <1>15, SharesUpToType DEF SharesOf
  <1>18. /\ newLevel \in LevelRecord /\ newLevel.price = p /\ newLevel.orderCount = Len(q)
         /\ newLevel.head = levels[at].head /\ newLevel.tail = levels[at].tail
         /\ newLevel.shares = SharesOf(q, m) - d
    BY <1>6, <1>8, <1>10, <1>16, <1>17 DEF LevelRecord
  <1> HIDE DEF newLevel
  <1>19. Totals(newLevel, q, k)
    BY <1>8, <1>16, <1>18 DEF Totals
  <1>20. ASSUME NEW t \in Prices, t # p
         PROVE  SharesOf(Q[l][side][t], k) = SharesOf(Q[l][side][t], m)
    <2>1. Lined(Q, m, acquired) /\ l \in Locates /\ side \in Sides /\ p \in Prices
      OBVIOUS
    <2> QED
      BY ONLY <1>14, <1>20, <2>1, OtherShares
  <1> DEFINE queues == Q[l][side]
  <1>21. Describes(reduced, side, [queues EXCEPT ![p] = q], k)
    <2>1. queues \in Queues /\ Describes(levels, side, queues, m) /\ at \in 1..Len(levels)
          /\ newLevel.price = levels[at].price
      BY <1>1, <1>5, <1>6, <1>18
    <2>2. \A t \in Prices :
            t # newLevel.price => SharesOf(queues[t], k) = SharesOf(queues[t], m)
      BY <1>18, <1>20
    <2>3. q \in Seq(Slots) /\ newLevel \in LevelRecord
      BY <1>1, <1>18
    <2> HIDE DEF queues
    <2>4. Describes([levels EXCEPT ![at] = newLevel], side,
                    [queues EXCEPT ![newLevel.price] = q], k)
      BY <1>19, <2>1, <2>2, <2>3, LevelReplaced
    <2> QED
      BY <1>18, <2>4
  <1>22. NoneEmpty(reduced)
    <2>1. levels \in Seq(LevelRecord)
      BY <1>5 DEF Describes
    <2>2. levels[at].orderCount = newLevel.orderCount
      BY <1>8, <1>18
    <2> QED
      BY <1>5, <1>6, <2>1, <2>2 DEF NoneEmpty
  <1> HIDE DEF reduced
  <1>23. BooksShow(BookWith(shown, l, side, reduced), With(Q, l, side, p, q), k)
    BY <1>1, <1>14, <1>21, <1>22, BooksChanged
  <1>24. With(Q, l, side, p, q) = Q
    <2>1. [Q[l][side] EXCEPT ![p] = q] = Q[l][side]
      BY <1>1 DEF Queues
    <2>2. [Q[l] EXCEPT ![side] = Q[l][side]] = Q[l]
      BY <1>1 DEF AllQueues
    <2>3. [Q EXCEPT ![l] = Q[l]] = Q
      BY <1>1 DEF AllQueues
    <2> QED
      BY <2>1, <2>2, <2>3 DEF With
  <1> QED
    BY <1>4, <1>9, <1>13, <1>23, <1>24 DEF k, levels

-----------------------------------------------------------------------------
(* The queues as PriceTimeQueues has them.                                 *)

Entry(s, m) == [ref |-> m[s].ref, shares |-> m[s].shares]
Entries(q, m) == [n \in 1..Len(q) |-> Entry(q[n], m)]
View(Q, m) ==
  [l \in Locates |-> [side \in Sides |-> [p \in Prices |-> Entries(Q[l][side][p], m)]]]

\* Two sequences of the same length with the same elements are the same.
LEMMA SameElements ==
  ASSUME NEW T, NEW s \in Seq(T), NEW t \in Seq(T), Len(s) = Len(t),
         \A i \in 1..Len(s) : s[i] = t[i]
  PROVE  s = t
  OBVIOUS

\* The entries of a queue, one for each order.
LEMMA EntriesAre ==
  ASSUME NEW q, Len(q) \in Nat, NEW m
  PROVE  /\ Len(Entries(q, m)) = Len(q)
         /\ \A T : (\A n \in 1..Len(q) : Entry(q[n], m) \in T) => Entries(q, m) \in Seq(T)
         /\ \A n \in 1..Len(q) : Entries(q, m)[n] = Entry(q[n], m)
  <1> DEFINE T == {Entry(q[n], m) : n \in 1..Len(q)}
  <1>1. ASSUME NEW U, \A n \in 1..Len(q) : Entry(q[n], m) \in U
        PROVE  Entries(q, m) \in Seq(U) /\ Len(Entries(q, m)) = Len(q)
    BY <1>1 DEF Entries
  <1>2. \A n \in 1..Len(q) : Entry(q[n], m) \in T
    OBVIOUS
  <1> QED
    BY <1>1, <1>2 DEF Entries

\* The entries of some sequence and one more.
LEMMA EntriesAppended ==
  ASSUME NEW q \in Seq(Slots), NEW m, NEW k, NEW o \in Slots,
         \A n \in 1..Len(q) : Entry(q[n], k) = Entry(q[n], m)
  PROVE  Entries(Append(q, o), k) = Append(Entries(q, m), Entry(o, k))
  <1> DEFINE r == Append(q, o)
             T == {Entry(s, k) : s \in Slots}
             left == Entries(r, k)
             f == Entries(q, m)
             right == Append(f, Entry(o, k))
  <1>1. /\ r \in Seq(Slots) /\ Len(r) = Len(q) + 1 /\ Len(q) \in Nat
        /\ r[Len(q) + 1] = o /\ \A n \in 1..Len(q) : r[n] = q[n] /\ q[n] \in Slots
    OBVIOUS
  <1> HIDE DEF r
  <1>2. \A n \in 1..Len(r) : r[n] \in Slots
    BY <1>1
  <1>3. left \in Seq(T) /\ Len(left) = Len(r) /\ \A n \in 1..Len(r) : left[n] = Entry(r[n], k)
    <2>1. \A n \in 1..Len(r) : Entry(r[n], k) \in T
      BY <1>2
    <2> QED
      BY <1>1, <2>1, EntriesAre
  <1>4. f \in Seq(T) /\ Len(f) = Len(q) /\ \A n \in 1..Len(q) : f[n] = Entry(q[n], m)
    <2>1. \A n \in 1..Len(q) : Entry(q[n], m) \in T
      BY <1>1
    <2> QED
      BY <1>1, <2>1, EntriesAre
  <1>5. Entry(o, k) \in T
    OBVIOUS
  <1> HIDE DEF left, f, T
  <1>6. /\ right \in Seq(T) /\ Len(right) = Len(q) + 1
        /\ right[Len(q) + 1] = Entry(o, k) /\ \A n \in 1..Len(q) : right[n] = f[n]
    BY <1>1, <1>4, <1>5
  <1> HIDE DEF right
  <1>7. ASSUME NEW n \in 1..Len(left) PROVE left[n] = right[n]
    <2>1. CASE n = Len(q) + 1
      BY <1>1, <1>3, <1>6, <2>1
    <2>2. CASE n # Len(q) + 1
      <3>1. n \in 1..Len(q)
        BY <1>1, <1>3, <2>2
      <3> QED
        BY <1>1, <1>3, <1>4, <1>6, <3>1
    <2> QED
      BY <2>1, <2>2
  <1>8. left = right
    BY <1>1, <1>3, <1>6, <1>7, SameElements
  <1> QED
    BY <1>8 DEF left, right, r, f

LEMMA EntriesRemoved ==
  ASSUME NEW q \in Seq(Slots), NEW m, NEW k, NEW n \in 1..Len(q),
         \A i \in 1..Len(q) : i # n => Entry(q[i], k) = Entry(q[i], m)
  PROVE  Entries(RemoveAt(q, n), k) = RemoveAt(Entries(q, m), n)
  <1> DEFINE r == RemoveAt(q, n)
             T == {Entry(s, k) : s \in Slots} \cup {Entry(s, m) : s \in Slots}
             left == Entries(r, k)
             f == Entries(q, m)
             right == RemoveAt(f, n)
  <1>1. /\ q \in Seq(Slots) /\ n \in 1..Len(q) /\ Len(q) \in Nat
        /\ \A i \in 1..Len(q) : q[i] \in Slots
    OBVIOUS
  <1>2. /\ r \in Seq(Slots) /\ Len(r) = Len(q) - 1
        /\ \A i \in 1..(n - 1) : r[i] = q[i]
        /\ \A i \in n..(Len(q) - 1) : r[i] = q[i + 1]
    BY <1>1, RemoveAtIs
  <1> HIDE DEF r
  <1>3. Len(r) \in Nat /\ \A i \in 1..Len(r) : r[i] \in Slots
    BY <1>2
  <1>4. left \in Seq(T) /\ Len(left) = Len(r) /\ \A i \in 1..Len(r) : left[i] = Entry(r[i], k)
    <2>1. \A i \in 1..Len(r) : Entry(r[i], k) \in T
      BY <1>3
    <2> QED
      BY <1>3, <2>1, EntriesAre
  <1>5. f \in Seq(T) /\ Len(f) = Len(q) /\ \A i \in 1..Len(q) : f[i] = Entry(q[i], m)
    <2>1. \A i \in 1..Len(q) : Entry(q[i], m) \in T
      BY <1>1
    <2> QED
      BY <1>1, <2>1, EntriesAre
  <1> HIDE DEF left, f, T
  <1>6. /\ right \in Seq(T) /\ Len(right) = Len(f) - 1
        /\ \A i \in 1..(n - 1) : right[i] = f[i]
        /\ \A i \in n..(Len(f) - 1) : right[i] = f[i + 1]
    BY <1>1, <1>5, RemoveAtIs
  <1> HIDE DEF right
  <1>7. ASSUME NEW i \in 1..Len(left) PROVE left[i] = right[i]
    <2>1. CASE i < n
      <3>1. i \in 1..(n - 1) /\ i \in 1..Len(q) /\ i # n /\ i \in 1..Len(r)
        BY <1>1, <1>2, <1>4, <2>1
      <3> QED
        BY <1>2, <1>4, <1>5, <1>6, <3>1
    <2>2. CASE i >= n
      <3> DEFINE j == i + 1
      <3>1. i \in n..(Len(q) - 1) /\ j \in 1..Len(q) /\ j # n /\ i \in 1..Len(r)
        BY <1>1, <1>2, <1>4, <2>2
      <3>2. r[i] = q[j] /\ right[i] = f[j]
        BY <1>2, <1>5, <1>6, <3>1
      <3> HIDE DEF j
      <3> QED
        BY <1>4, <1>5, <3>1, <3>2
    <2> QED
      BY <1>1, <1>2, <1>4, <2>1, <2>2
  <1>8. left = right
    BY <1>2, <1>4, <1>5, <1>6, <1>7, SameElements
  <1> QED
    BY <1>8 DEF left, right, r, f

EntryCut(entries, n, d) == [entries EXCEPT ![n].shares = @ - d]

\* Order s has d shares less.
LessBy(m, k, s, d) == k[s].ref = m[s].ref /\ k[s].shares = m[s].shares - d

LEMMA EntriesReduced ==
  ASSUME NEW q \in Seq(Slots), NEW m, NEW k, NEW n \in 1..Len(q), NEW d,
         LessBy(m, k, q[n], d),
         \A i \in 1..Len(q) : i # n => Entry(q[i], k) = Entry(q[i], m)
  PROVE  Entries(q, k) = EntryCut(Entries(q, m), n, d)
  <1> DEFINE f == Entries(q, m)
             g == Entries(q, k)
  <1>1. /\ g = [i \in 1..Len(q) |-> Entry(q[i], k)]
        /\ f = [i \in 1..Len(q) |-> Entry(q[i], m)]
    BY DEF Entries
  <1>2. Entry(q[n], k) = [Entry(q[n], m) EXCEPT !.shares = @ - d]
    BY DEF Entry, LessBy
  <1> DEFINE new == [Entry(q[n], m) EXCEPT !.shares = @ - d]
             right == [f EXCEPT ![n].shares = @ - d]
  <1>3. right = [i \in 1..Len(q) |-> IF i = n THEN new ELSE Entry(q[i], m)]
    BY <1>1
  <1> HIDE DEF new, right, f, g
  <1>4. \A i \in 1..Len(q) : Entry(q[i], k) = IF i = n THEN new ELSE Entry(q[i], m)
    BY <1>2 DEF new
  <1>5. g = right
    BY <1>1, <1>3, <1>4
  <1> QED
    BY <1>5 DEF g, f, right, EntryCut

ViewWith(V, l, side, p, entries) == [V EXCEPT ![l][side][p] = entries]

SameViewElsewhere(Q, m, k, l, side, p) ==
  \A l2 \in Locates, side2 \in Sides, p2 \in Prices :
    l2 # l \/ side2 # side \/ p2 # p =>
      Entries(Q[l2][side2][p2], k) = Entries(Q[l2][side2][p2], m)

\* Only the queue at l, side, p, now r, may have changed.
LEMMA ViewChanged ==
  ASSUME NEW Q \in AllQueues, NEW m, NEW k, NEW l \in Locates, NEW side \in Sides,
         NEW p \in Prices, NEW r \in Seq(Slots),
         SameViewElsewhere(Q, m, k, l, side, p)
  PROVE  View(With(Q, l, side, p, r), k) = ViewWith(View(Q, m), l, side, p, Entries(r, k))
  <1> DEFINE W == With(Q, l, side, p, r)
             after == ViewWith(View(Q, m), l, side, p, Entries(r, k))
  <1>1. Q \in AllQueues /\ l \in Locates /\ side \in Sides /\ p \in Prices /\ r \in Seq(Slots)
    OBVIOUS
  <1>2. W[l][side][p] = r
    BY ONLY <1>1, WithIs
  <1>3. \A l2 \in Locates, side2 \in Sides, p2 \in Prices :
          l2 # l \/ side2 # side \/ p2 # p => W[l2][side2][p2] = Q[l2][side2][p2]
    BY ONLY <1>1, WithIs
  <1> HIDE DEF W
  <1>4. ASSUME NEW l2 \in Locates, NEW side2 \in Sides, NEW p2 \in Prices
        PROVE  Entries(W[l2][side2][p2], k) =
                 IF l2 = l /\ side2 = side /\ p2 = p THEN Entries(r, k)
                 ELSE Entries(Q[l2][side2][p2], m)
    BY <1>2, <1>3 DEF SameViewElsewhere
  <1>5. View(W, k) = [l2 \in Locates |-> [side2 \in Sides |-> [p2 \in Prices |->
                        IF l2 = l /\ side2 = side /\ p2 = p THEN Entries(r, k)
                        ELSE Entries(Q[l2][side2][p2], m)]]]
    BY <1>4 DEF View
  <1>6. after = [l2 \in Locates |-> [side2 \in Sides |-> [p2 \in Prices |->
                        IF l2 = l /\ side2 = side /\ p2 = p THEN Entries(r, k)
                        ELSE Entries(Q[l2][side2][p2], m)]]]
    BY DEF View, ViewWith
  <1> QED
    BY <1>5, <1>6 DEF W

-----------------------------------------------------------------------------
(* addOrder(), removeOrder(), take(): the queues.                          *)

\* Every queue of W that has orders had some in Q.
Thinner(Q, W) ==
  \A l \in Locates, side \in Sides, p \in Prices :
    Len(W[l][side][p]) > 0 => Len(Q[l][side][p]) > 0

\* Where a live order is.
LEMMA PlaceOf ==
  ASSUME NEW b, Sound(b), NEW Q, Stands(b, Q), NEW o \in b.acquired
  PROVE  /\ o \in Slots
         /\ b.orders[o].locate \in Locates /\ b.orders[o].side \in Sides
         /\ b.orders[o].price \in Prices /\ b.orders[o].shares \in Nat
         /\ \E n \in 1..Len(Q[b.orders[o].locate][b.orders[o].side][b.orders[o].price]) :
              Q[b.orders[o].locate][b.orders[o].side][b.orders[o].price][n] = o
  <1>1. PICK l \in Locates, side \in Sides, p \in Prices :
          Placed(b.orders[o], l, side, p) /\ InLine(Q, l, side, p, o)
    BY DEF Stands, Lined
  <1>2. /\ b.orders[o].locate = l /\ b.orders[o].side = side /\ b.orders[o].price = p
        /\ b.orders[o].shares \in Nat
    BY <1>1 DEF Placed
  <1>3. o \in Slots
    BY DEF Sound, Tracked
  <1> QED
    BY <1>1, <1>2, <1>3 DEF InLine

\* The same orders, books and slots stand for the same queues.
LEMMA AlikeStands ==
  ASSUME NEW a, NEW b, Alike(a, b), NEW Q, Stands(a, Q)
  PROVE  Stands(b, Q) /\ View(Q, b.orders) = View(Q, a.orders)
  BY DEF Alike, Stands

\* Orders in line are live.
LEMMA LinedAcquired ==
  ASSUME NEW Q, NEW m, NEW acquired, Lined(Q, m, acquired), NEW k,
         NEW l \in Locates, NEW side \in Sides, NEW p \in Prices,
         \A s \in acquired : k[s].ref = m[s].ref /\ k[s].shares = m[s].shares
  PROVE  /\ \A n \in 1..Len(Q[l][side][p]) :
              Entry(Q[l][side][p][n], k) = Entry(Q[l][side][p][n], m)
         /\ Entries(Q[l][side][p], k) = Entries(Q[l][side][p], m)
  <1> DEFINE q == Q[l][side][p]
  <1>1. \A n \in 1..Len(q) : q[n] \in acquired
    BY DEF Lined
  <1> HIDE DEF q
  <1>2. \A n \in 1..Len(q) : Entry(q[n], k) = Entry(q[n], m)
    BY <1>1 DEF Entry
  <1>3. Entries(q, k) = Entries(q, m)
    BY <1>2 DEF Entries
  <1> QED
    BY <1>2, <1>3 DEF q

\* Of the orders in line only `o`, at l, side, p, may differ.
LEMMA EntriesElsewhere ==
  ASSUME NEW Q, NEW m, NEW acquired, Lined(Q, m, acquired), NEW k, NEW o,
         NEW l \in Locates, NEW side \in Sides, NEW p \in Prices, InLine(Q, l, side, p, o),
         SameOthers(m, k, acquired, o),
         NEW l2 \in Locates, NEW side2 \in Sides, NEW p2 \in Prices,
         l2 # l \/ side2 # side \/ p2 # p
  PROVE  Entries(Q[l2][side2][p2], k) = Entries(Q[l2][side2][p2], m)
  <1> DEFINE q == Q[l2][side2][p2]
  <1>1. ASSUME NEW n \in 1..Len(q) PROVE Entry(q[n], k) = Entry(q[n], m)
    <2>1. q[n] \in acquired /\ InLine(Q, l2, side2, p2, q[n])
      BY DEF Lined, InLine
    <2>2. q[n] # o
      <3>1. SUFFICES ASSUME q[n] = o PROVE FALSE
        OBVIOUS
      <3>2. InLine(Q, l2, side2, p2, o)
        BY <2>1, <3>1
      <3>3. l2 = l /\ side2 = side /\ p2 = p
        BY <3>2, OneQueue
      <3> QED
        BY <3>3
    <2> HIDE DEF q
    <2> QED
      BY <2>1, <2>2 DEF Entry, SameOthers
  <1> HIDE DEF q
  <1>2. Entries(q, k) = Entries(q, m)
    BY <1>1 DEF Entries
  <1> QED
    BY <1>2 DEF q

\* One more order in line.
Joined(V, l, side, p, ref, shares) ==
  [V EXCEPT ![l][side][p] = Append(@, [ref |-> ref, shares |-> shares])]

\* addOrder() that does not refuse: the books stand for one more in line,
LEMMA AddOrderStands ==
  ASSUME NEW b, Sound(b), NEW Q, Stands(b, Q), NEW l \in Locates, NEW side \in Sides,
         NEW ref, NEW shares \in Nat, NEW p \in Prices, ~Refused(b, ref)
  PROVE  LET c == AddOrder(b, l, side, ref, shares, p)
         IN \E W : /\ Stands(c, W)
                   /\ View(W, c.orders) = Joined(View(Q, b.orders), l, side, p, ref, shares)
  <1> DEFINE slot == CHOOSE s \in FreeSlots(b) : TRUE
             new == [Blank EXCEPT !.ref = ref, !.price = p, !.shares = shares,
                                  !.locate = l, !.side = side]
             memory == [b.orders EXCEPT ![slot] = new]
             placed == Enqueue(b.books[l][side], memory, slot)
             shown == BookWith(b.books, l, side, placed.levels)
             added == [b EXCEPT !.books[l][side] = placed.levels,
                                !.orders = placed.orders,
                                !.acquired = @ \cup {slot},
                                !.index = WithEntry(@, ref, slot),
                                !.liveOrders = @ + 1]
             result == AddOrder(b, l, side, ref, shares, p)
             q == Q[l][side][p]
             W == With(Q, l, side, p, Append(q, slot))
             m == b.orders
             k == placed.orders
  <1>1. result = CountCrossing(b, added, l)
    BY DEF AddOrder
  <1>2. slot \in Slots /\ slot \notin b.acquired
    BY SlotIsFree DEF FreeSlots
  <1>3. /\ DOMAIN new = OrderFields /\ new.ref = ref /\ new.shares = shares
        /\ Placed(new, l, side, p)
    BY DEF Blank, OrderFields, Placed
  <1> HIDE DEF slot, new
  <1>4. AreOrders(m) /\ Lined(Q, m, b.acquired) /\ BooksShow(b.books, Q, m)
        /\ b.acquired \subseteq Slots
    BY DEF Sound, Shaped, Tracked, Stands
  <1>5. /\ AreOrders(memory)
        /\ memory[slot] = new
        /\ \A s \in Slots : s # slot => memory[s] = m[s]
    BY <1>2, <1>3, <1>4, OneOrderChanges
  <1>6. /\ DOMAIN added = Fields
        /\ added.books = shown /\ added.orders = k /\ added.acquired = b.acquired \cup {slot}
    BY DEF Sound, Shaped, Fields, BookWith
  <1> HIDE DEF memory, added
  <1>7. \A s \in b.acquired : memory[s] = m[s]
    BY <1>2, <1>4, <1>5
  <1>8. Lined(Q, memory, b.acquired) /\ BooksShow(b.books, Q, memory)
    BY <1>4, <1>7, OthersChange
  <1>9. /\ Lined(W, k, b.acquired \cup {slot}) /\ BooksShow(shown, W, k)
        /\ \A s \in Slots : k[s].ref = memory[s].ref /\ k[s].shares = memory[s].shares
    <2> DEFINE shelf == b.books
               acquired == b.acquired
    <2>1. /\ Lined(Q, memory, acquired) /\ BooksShow(shelf, Q, memory)
          /\ AreOrders(memory) /\ acquired \subseteq Slots /\ slot \in Slots /\ slot \notin acquired
          /\ Placed(memory[slot], l, side, p) /\ q = Q[l][side][p]
          /\ l \in Locates /\ side \in Sides /\ p \in Prices
      BY <1>2, <1>3, <1>4, <1>5, <1>8
    <2> HIDE DEF shelf, acquired, q
    <2>2. placed = Enqueue(shelf[l][side], memory, slot)
      BY DEF shelf
    <2> HIDE DEF placed
    <2>3. LET V == With(Q, l, side, p, Append(q, slot))
          IN /\ Lined(V, placed.orders, acquired \cup {slot})
             /\ BooksShow(BookWith(shelf, l, side, placed.levels), V, placed.orders)
             /\ SameContents(memory, placed.orders)
      BY ONLY <2>1, <2>2, EnqueueStands
    <2> QED
      BY <2>3 DEF shelf, acquired, SameContents
  <1>10. Stands(added, W)
    BY <1>6, <1>9 DEF Stands
  <1>11. Alike(added, result)
    BY <1>1, <1>6, CountCrossingCorrect
  <1>12. Stands(result, W) /\ View(W, result.orders) = View(W, k)
    BY <1>6, <1>10, <1>11, AlikeStands
  <1> HIDE DEF k
  <1>13. k[slot].ref = ref /\ k[slot].shares = shares
         /\ \A s \in b.acquired : k[s].ref = m[s].ref /\ k[s].shares = m[s].shares
    BY <1>2, <1>3, <1>4, <1>5, <1>7, <1>9
  <1> HIDE DEF m
  <1>14. ASSUME NEW l2 \in Locates, NEW side2 \in Sides, NEW p2 \in Prices
         PROVE  /\ \A n \in 1..Len(Q[l2][side2][p2]) :
                     Entry(Q[l2][side2][p2][n], k) = Entry(Q[l2][side2][p2][n], m)
                /\ Entries(Q[l2][side2][p2], k) = Entries(Q[l2][side2][p2], m)
    BY <1>4, <1>13, LinedAcquired
  <1>15. q \in Seq(Slots) /\ Q \in AllQueues
    BY <1>4, LinedIs
  <1> DEFINE r == Append(q, slot)
             entry == [ref |-> ref, shares |-> shares]
  <1>16. Entries(r, k) = Append(Entries(q, m), entry)
    <2>1. \A n \in 1..Len(q) : Entry(q[n], k) = Entry(q[n], m)
      BY <1>14
    <2>2. Entry(slot, k) = entry
      BY <1>13 DEF Entry
    <2> HIDE DEF q, entry
    <2> QED
      BY <1>2, <1>15, <2>1, <2>2, EntriesAppended
  <1>17. r \in Seq(Slots)
    BY <1>2, <1>15
  <1> HIDE DEF r
  <1>18. View(With(Q, l, side, p, r), k) = ViewWith(View(Q, m), l, side, p, Entries(r, k))
    <2>1. SameViewElsewhere(Q, m, k, l, side, p)
      BY <1>14 DEF SameViewElsewhere
    <2>2. l \in Locates /\ side \in Sides /\ p \in Prices
      OBVIOUS
    <2> QED
      BY ONLY <1>15, <1>17, <2>1, <2>2, ViewChanged
  <1>19. View(Q, m)[l][side][p] = Entries(q, m)
    BY DEF View
  <1>20. ViewWith(View(Q, m), l, side, p, Entries(r, k))
           = Joined(View(Q, m), l, side, p, ref, shares)
    <2> DEFINE V == View(Q, m)
    <2>1. DOMAIN V = Locates /\ DOMAIN V[l] = Sides /\ DOMAIN V[l][side] = Prices
      BY DEF View
    <2> HIDE DEF V, q, entry
    <2> QED
      BY <1>16, <1>19, <2>1 DEF V, ViewWith, Joined, entry
  <1> QED
    BY <1>12, <1>18, <1>20 DEF r, m

\* The nth of that queue is gone.
Gone(V, l, side, p, n) == ViewWith(V, l, side, p, RemoveAt(V[l][side][p], n))

\* removeOrder(): for one less.
LEMMA RemoveOrderStands ==
  ASSUME NEW b, Sound(b), NEW Q, Stands(b, Q), NEW o \in b.acquired,
         NEW l, l = b.orders[o].locate, NEW side, side = b.orders[o].side,
         NEW p, p = b.orders[o].price
  PROVE  LET c == RemoveOrder(b, o)
         IN \E W, n : /\ Stands(c, W) /\ Thinner(Q, W)
                      /\ n \in 1..Len(Q[l][side][p]) /\ Q[l][side][p][n] = o
                      /\ View(W, c.orders) = Gone(View(Q, b.orders), l, side, p, n)
  <1> DEFINE m == b.orders
             left == Unlink(b.books[l][side], m, o)
             k == [left.orders EXCEPT ![o] = Blank]
             c == RemoveOrder(b, o)
             q == Q[l][side][p]
  <1>1. /\ o \in Slots /\ l \in Locates /\ side \in Sides /\ p \in Prices
        /\ \E n \in 1..Len(q) : q[n] = o
    <2>1. /\ o \in Slots
          /\ b.orders[o].locate \in Locates /\ b.orders[o].side \in Sides
          /\ b.orders[o].price \in Prices /\ b.orders[o].shares \in Nat
          /\ \E n \in 1..Len(Q[b.orders[o].locate][b.orders[o].side][b.orders[o].price]) :
               Q[b.orders[o].locate][b.orders[o].side][b.orders[o].price][n] = o
      BY PlaceOf, ZenonT(30)
    <2> QED
      BY <2>1
  <1>2. PICK n \in 1..Len(q) : q[n] = o
    BY <1>1
  <1> DEFINE r == RemoveAt(q, n)
             W == With(Q, l, side, p, r)
  <1>3. AreOrders(m) /\ Lined(Q, m, b.acquired) /\ BooksShow(b.books, Q, m)
        /\ b.acquired \subseteq Slots
    BY DEF Sound, Shaped, Tracked, Stands
  <1>4. /\ c.books = BookWith(b.books, l, side, left.levels)
        /\ c.orders = k /\ c.acquired = b.acquired \ {o}
    BY DEF RemoveOrder, Release, Sound, Shaped, Fields, BookWith
  <1>5. /\ Lined(W, k, b.acquired \ {o})
        /\ BooksShow(BookWith(b.books, l, side, left.levels), W, k)
        /\ SameOthers(m, k, b.acquired, o)
    <2> DEFINE shelf == b.books
               acquired == b.acquired
    <2>1. /\ Lined(Q, m, acquired) /\ BooksShow(shelf, Q, m)
          /\ AreOrders(m) /\ acquired \subseteq Slots
          /\ l \in Locates /\ side \in Sides /\ p \in Prices /\ q = Q[l][side][p]
          /\ n \in 1..Len(q) /\ o = q[n]
          /\ left = Unlink(shelf[l][side], m, o) /\ k = [left.orders EXCEPT ![o] = Blank]
      BY <1>1, <1>2, <1>3
    <2> HIDE DEF shelf, acquired, q, left, k, m
    <2>2. /\ Lined(With(Q, l, side, p, RemoveAt(q, n)), k, acquired \ {o})
          /\ BooksShow(BookWith(shelf, l, side, left.levels),
                       With(Q, l, side, p, RemoveAt(q, n)), k)
          /\ SameOthers(m, k, acquired, o)
      BY ONLY <2>1, UnlinkStands, ZenonT(60)
    <2> QED
      BY <2>2 DEF shelf, acquired, q
  <1>6. Stands(c, W)
    BY <1>4, <1>5 DEF Stands
  <1>7. q \in Seq(Slots) /\ Len(q) \in Nat /\ Q \in AllQueues
    BY <1>1, <1>3, LinedIs
  <1>8. r \in Seq(Slots) /\ Len(r) = Len(q) - 1
    BY <1>7, RemoveAtIs
  <1>9. Thinner(Q, W)
    <2> HIDE DEF r, q
    <2>1. W[l][side][p] = r
      BY ONLY <1>1, <1>7, <1>8, WithIs
    <2>2. \A l2 \in Locates, side2 \in Sides, p2 \in Prices :
            l2 # l \/ side2 # side \/ p2 # p => W[l2][side2][p2] = Q[l2][side2][p2]
      BY ONLY <1>1, <1>7, <1>8, WithIs
    <2> HIDE DEF W
    <2>3. Len(q) > 0
      BY <1>7
    <2> QED
      BY <2>1, <2>2, <2>3 DEF Thinner, q
  <1> HIDE DEF k
  <1>10. SameViewElsewhere(Q, m, k, l, side, p)
    <2>1. InLine(Q, l, side, p, o)
      BY <1>2 DEF InLine
    <2> HIDE DEF m
    <2>2. SameOthers(m, k, b.acquired, o)
      BY <1>5
    <2> SUFFICES ASSUME NEW l2 \in Locates, NEW side2 \in Sides, NEW p2 \in Prices,
                        l2 # l \/ side2 # side \/ p2 # p
                 PROVE  Entries(Q[l2][side2][p2], k) = Entries(Q[l2][side2][p2], m)
      BY DEF SameViewElsewhere
    <2>3. /\ l2 \in Locates /\ side2 \in Sides /\ p2 \in Prices
          /\ l2 # l \/ side2 # side \/ p2 # p
      OBVIOUS
    <2> QED
      BY ONLY <1>1, <1>3, <2>1, <2>2, <2>3, EntriesElsewhere
  <1>11. View(W, k) = ViewWith(View(Q, m), l, side, p, Entries(r, k))
    <2> HIDE DEF r, q, m
    <2> QED
      BY ONLY <1>1, <1>7, <1>8, <1>10, ViewChanged
  <1>12. Entries(r, k) = RemoveAt(Entries(q, m), n)
    <2>1. ASSUME NEW i \in 1..Len(q), i # n PROVE Entry(q[i], k) = Entry(q[i], m)
      <3>1. q[i] # o
        <4>1. Line(q, m, l, side, p)
          BY <1>1, <1>3, LinedIs
        <4>2. \A x, y \in 1..Len(q) : x # y => q[x] # q[y]
          BY <4>1 DEF Line
        <4> HIDE DEF q
        <4> QED
          BY <1>2, <2>1, <4>2
      <3>2. q[i] \in b.acquired
        BY <1>1, <1>3 DEF Lined
      <3> QED
        BY <1>5, <3>1, <3>2 DEF SameOthers, Entry
    <2> HIDE DEF q, m
    <2> QED
      BY <1>7, <2>1, EntriesRemoved
  <1>13. View(Q, m)[l][side][p] = Entries(q, m)
    BY <1>1 DEF View
  <1>14. View(W, c.orders) = Gone(View(Q, m), l, side, p, n)
    BY <1>4, <1>11, <1>12, <1>13 DEF Gone
  <1> HIDE DEF W
  <1> QED
    BY <1>2, <1>6, <1>9, <1>14

\* The nth of that queue is d shares smaller.
Cut(V, l, side, p, n, d) == [V EXCEPT ![l][side][p][n].shares = @ - d]

\* Less than the order's shares.
Partial(b, o, d) == d \in Nat /\ ~(d >= b.orders[o].shares)

\* The nth of that queue is order o.
IsNth(Q, l, side, p, n, o) == n \in 1..Len(Q[l][side][p]) /\ Q[l][side][p][n] = o

\* An execution or a cancel of less than the order leaves it in its place.
LEMMA ReducedStands ==
  ASSUME NEW b, Sound(b), NEW Q, Stands(b, Q), NEW o \in b.acquired,
         NEW l, l = b.orders[o].locate, NEW side, side = b.orders[o].side,
         NEW p, p = b.orders[o].price,
         NEW d, Partial(b, o, d), NEW c, c = Take(b, o, d)
  PROVE  /\ Stands(c, Q)
         /\ \E n : /\ IsNth(Q, l, side, p, n, o)
                   /\ View(Q, c.orders) = Cut(View(Q, b.orders), l, side, p, n, d)
  <1> DEFINE m == b.orders
             left == Reduce(b.books[l][side], m, o, d)
             k == left.orders
             q == Q[l][side][p]
  <1>1. /\ o \in Slots /\ l \in Locates /\ side \in Sides /\ p \in Prices /\ m[o].shares \in Nat
        /\ \E n \in 1..Len(q) : q[n] = o
    <2>1. /\ o \in Slots
          /\ b.orders[o].locate \in Locates /\ b.orders[o].side \in Sides
          /\ b.orders[o].price \in Prices /\ b.orders[o].shares \in Nat
          /\ \E n \in 1..Len(Q[b.orders[o].locate][b.orders[o].side][b.orders[o].price]) :
               Q[b.orders[o].locate][b.orders[o].side][b.orders[o].price][n] = o
      BY PlaceOf, ZenonT(30)
    <2> QED
      BY <2>1
  <1>2. PICK n \in 1..Len(q) : q[n] = o
    BY <1>1
  <1>3. AreOrders(m) /\ Lined(Q, m, b.acquired) /\ BooksShow(b.books, Q, m)
        /\ b.acquired \subseteq Slots
    BY DEF Sound, Shaped, Tracked, Stands
  <1>4. /\ c.books = BookWith(b.books, l, side, left.levels)
        /\ c.orders = k /\ c.acquired = b.acquired
    BY DEF Partial, Take, Sound, Shaped, Fields, BookWith
  <1>5. d \in Nat /\ d <= m[o].shares
    <2> DEFINE held == m[o].shares
    <2>1. held \in Nat /\ d \in Nat /\ ~(d >= held)
      BY <1>1 DEF Partial
    <2> HIDE DEF held
    <2>2. d \in Nat /\ d <= held
      BY ONLY <2>1
    <2> QED
      BY <2>2 DEF held
  <1>6. /\ Lined(Q, k, b.acquired)
        /\ BooksShow(BookWith(b.books, l, side, left.levels), Q, k)
        /\ Smaller(m, k, o, d)
    <2> DEFINE shelf == b.books
               acquired == b.acquired
    <2>1. /\ Lined(Q, m, acquired) /\ BooksShow(shelf, Q, m)
          /\ AreOrders(m) /\ acquired \subseteq Slots
          /\ l \in Locates /\ side \in Sides /\ p \in Prices /\ q = Q[l][side][p]
          /\ n \in 1..Len(q) /\ o = q[n] /\ d \in Nat /\ d <= m[o].shares
          /\ left = Reduce(shelf[l][side], m, o, d)
      BY <1>1, <1>2, <1>3, <1>5
    <2> HIDE DEF shelf, acquired, q, left, m
    <2>2. /\ Lined(Q, left.orders, acquired)
          /\ BooksShow(BookWith(shelf, l, side, left.levels), Q, left.orders)
          /\ Smaller(m, left.orders, o, d)
      BY ONLY <2>1, ReduceStands
    <2> QED
      BY <2>2 DEF shelf, acquired
  <1>7. Stands(c, Q)
    BY <1>4, <1>6 DEF Stands
  <1>8. q \in Seq(Slots) /\ Len(q) \in Nat /\ Q \in AllQueues
    BY <1>1, <1>3, LinedIs
  <1> HIDE DEF k
  <1>9. SameViewElsewhere(Q, m, k, l, side, p)
    <2>1. InLine(Q, l, side, p, o)
      BY <1>2 DEF InLine
    <2> HIDE DEF m
    <2>2. SameOthers(m, k, b.acquired, o)
      BY <1>3, <1>6 DEF Smaller, SameOthers
    <2> SUFFICES ASSUME NEW l2 \in Locates, NEW side2 \in Sides, NEW p2 \in Prices,
                        l2 # l \/ side2 # side \/ p2 # p
                 PROVE  Entries(Q[l2][side2][p2], k) = Entries(Q[l2][side2][p2], m)
      BY DEF SameViewElsewhere
    <2>3. /\ l2 \in Locates /\ side2 \in Sides /\ p2 \in Prices
          /\ l2 # l \/ side2 # side \/ p2 # p
      OBVIOUS
    <2> QED
      BY ONLY <1>1, <1>3, <2>1, <2>2, <2>3, EntriesElsewhere
  <1>10. View(With(Q, l, side, p, q), k) = ViewWith(View(Q, m), l, side, p, Entries(q, k))
    <2> HIDE DEF q, m
    <2> QED
      BY ONLY <1>1, <1>8, <1>9, ViewChanged
  <1>11. Entries(q, k) = EntryCut(Entries(q, m), n, d)
    <2>1. ASSUME NEW i \in 1..Len(q), i # n PROVE Entry(q[i], k) = Entry(q[i], m)
      <3>1. q[i] # o
        <4>1. Line(q, m, l, side, p)
          BY <1>1, <1>3, LinedIs
        <4>2. \A x, y \in 1..Len(q) : x # y => q[x] # q[y]
          BY <4>1 DEF Line
        <4> HIDE DEF q
        <4> QED
          BY <1>2, <2>1, <4>2
      <3>2. q[i] \in Slots
        <4>1. q \in Seq(Slots) /\ i \in 1..Len(q)
          BY <1>8, <2>1
        <4> HIDE DEF q
        <4> QED
          BY ONLY <4>1
      <3> QED
        BY <1>6, <3>1, <3>2 DEF Smaller, Entry
    <2>2. LessBy(m, k, q[n], d)
      BY <1>1, <1>2, <1>6 DEF Smaller, LessBy
    <2>3. q \in Seq(Slots) /\ n \in 1..Len(q)
      BY <1>8
    <2> HIDE DEF q, m
    <2> QED
      BY ONLY <2>1, <2>2, <2>3, EntriesReduced
  <1>12. View(Q, m)[l][side][p] = Entries(q, m)
    BY <1>1 DEF View
  <1>13. View(Q, c.orders) = Cut(View(Q, m), l, side, p, n, d)
    <2> DEFINE V == View(Q, m)
               f == Entries(q, m)
    <2>1. DOMAIN V = Locates /\ DOMAIN V[l] = Sides /\ DOMAIN V[l][side] = Prices
      BY <1>1 DEF View
    <2>2. With(Q, l, side, p, q) = Q
      <3>1. [Q[l][side] EXCEPT ![p] = q] = Q[l][side]
        BY <1>1, <1>8, ZenonT(30) DEF AllQueues, Queues
      <3>2. [Q[l] EXCEPT ![side] = Q[l][side]] = Q[l]
        BY <1>1, <1>8 DEF AllQueues
      <3>3. [Q EXCEPT ![l] = Q[l]] = Q
        BY <1>1, <1>8 DEF AllQueues
      <3> QED
        BY <3>1, <3>2, <3>3 DEF With
    <2> HIDE DEF V, f
    <2>3. ViewWith(V, l, side, p, EntryCut(f, n, d)) = Cut(V, l, side, p, n, d)
      <3> HIDE DEF q
      <3>1. V[l][side][p] = f
        BY <1>12 DEF V, f
      <3> QED
        BY <2>1, <3>1 DEF ViewWith, Cut, EntryCut
    <2> QED
      BY <1>4, <1>10, <1>11, <2>2, <2>3 DEF V, f
  <1> QED
    BY <1>2, <1>7, <1>13 DEF IsNth

-----------------------------------------------------------------------------
(* What the books show is the queues.                                      *)

AreInLine(f, v, m) ==
  f = [n \in 1..v.orderCount |->
         IF n = 1 THEN v.head
         ELSE IF f[n - 1] = Null THEN Null ELSE m[f[n - 1]].next]

\* Following the links from a level's first order finds its queue.
LEMMA QueueAtIs ==
  ASSUME NEW q \in Seq(Slots), NEW m, NEW l, NEW side, NEW p, Line(q, m, l, side, p),
         NEW v, v.orderCount = Len(q), v.head = FrontOf(q)
  PROVE  QueueAt(v, m) = q
  <1> DEFINE c == Len(q)
  <1>1. c \in Nat /\ \A n \in 1..c : q[n] \in Slots /\ q[n] # Null
    OBVIOUS
  <1>2. \A n \in 1..c : m[q[n]].next = IF n = c THEN Null ELSE q[n + 1]
    BY DEF Line
  <1> DEFINE g == [n \in 1..c |-> q[n]]
  <1>3. AreInLine(g, v, m)
    <2>1. ASSUME NEW n \in 1..c
          PROVE  q[n] = IF n = 1 THEN v.head
                        ELSE IF g[n - 1] = Null THEN Null ELSE m[g[n - 1]].next
      <3>1. CASE n = 1
        BY <1>1, <3>1 DEF FrontOf
      <3>2. CASE n # 1
        <4> DEFINE k == n - 1
        <4>1. k \in 1..c /\ k # c /\ k + 1 = n /\ g[n - 1] = q[k]
          BY <1>1, <3>2
        <4> HIDE DEF k
        <4>2. q[k] # Null /\ m[q[k]].next = q[k + 1]
          BY <1>1, <1>2, <4>1
        <4> QED
          BY <3>2, <4>1, <4>2
      <3> QED
        BY <3>1, <3>2
    <2>2. g = [n \in 1..v.orderCount |->
                 IF n = 1 THEN v.head
                 ELSE IF g[n - 1] = Null THEN Null ELSE m[g[n - 1]].next]
      <3>1. v.orderCount = c
        OBVIOUS
      <3> HIDE DEF c
      <3> QED
        BY <2>1, <3>1
    <2> QED
      BY <2>2 DEF AreInLine
  <1> DEFINE f == CHOOSE f : AreInLine(f, v, m)
  <1>4. AreInLine(f, v, m)
    <2> HIDE DEF g
    <2> QED
      BY <1>3
  <1>5. QueueAt(v, m) = [n \in 1..v.orderCount |-> f[n]]
    BY DEF QueueAt, AreInLine
  <1> HIDE DEF f
  <1>6. \A n \in 1..c : f[n] = IF n = 1 THEN v.head
                               ELSE IF f[n - 1] = Null THEN Null ELSE m[f[n - 1]].next
    BY <1>4 DEF AreInLine
  <1> DEFINE T == {n \in Nat : n + 1 \in 1..c => f[n + 1] = q[n + 1]}
  <1>7. 0 \in T
    <2>1. 1 \in 1..c => f[1] = q[1]
      BY <1>1, <1>6 DEF FrontOf
    <2> QED
      BY <2>1
  <1>8. ASSUME NEW n \in Nat, n \in T PROVE n + 1 \in T
    <2> SUFFICES ASSUME (n + 1) + 1 \in 1..c PROVE f[(n + 1) + 1] = q[(n + 1) + 1]
      OBVIOUS
    <2> DEFINE k == n + 1
    <2>1. k \in 1..c /\ k + 1 \in 1..c /\ k # c /\ f[k] = q[k] /\ (k + 1) - 1 = k /\ k + 1 # 1
      BY <1>1, <1>8
    <2> HIDE DEF k
    <2>2. q[k] # Null /\ m[q[k]].next = q[k + 1]
      BY <1>1, <1>2, <2>1
    <2>3. f[k + 1] = IF f[k] = Null THEN Null ELSE m[f[k]].next
      BY <1>6, <2>1
    <2> QED
      BY <2>1, <2>2, <2>3 DEF k
  <1> HIDE DEF T
  <1>9. ASSUME NEW n \in 1..c PROVE f[n] = q[n]
    <2>1. n - 1 \in Nat /\ (n - 1) + 1 = n
      BY <1>1
    <2>2. n - 1 \in T
      BY <1>7, <1>8, <2>1, Induction
    <2> QED
      BY <2>1, <2>2 DEF T
  <1>10. q = [n \in 1..c |-> q[n]]
    OBVIOUS
  <1> QED
    BY <1>5, <1>9, <1>10

\* A level of the books is a queue that is not empty.
LEMMA LevelShows ==
  ASSUME NEW b, NEW Q, Stands(b, Q), NEW l \in Locates, NEW side \in Sides,
         NEW levels, levels = b.books[l][side], NEW i \in 1..Len(levels)
  PROVE  LET q == Q[l][side][levels[i].price]
         IN /\ levels[i].price \in Prices
            /\ q \in Seq(Slots) /\ Len(q) > 0 /\ Line(q, b.orders, l, side, levels[i].price)
            /\ Totals(levels[i], q, b.orders)
            /\ QueueAt(levels[i], b.orders) = q
  <1> DEFINE p == levels[i].price
             q == Q[l][side][p]
             m == b.orders
  <1>1. Describes(levels, side, Q[l][side], m) /\ NoneEmpty(levels)
    BY DEF Stands, BooksShow
  <1>2. p \in Prices
    BY <1>1, LevelFields DEF Describes
  <1>3. Totals(levels[i], q, m)
    BY <1>1 DEF Describes
  <1>4. Lined(Q, m, b.acquired)
    BY DEF Stands
  <1> HIDE DEF p, m
  <1>5. q \in Seq(Slots) /\ Line(q, m, l, side, p) /\ Len(q) \in Nat
    BY <1>2, <1>4, LinedIs
  <1>6. levels[i].orderCount = Len(q) /\ levels[i].head = FrontOf(q) /\ levels[i].orderCount > 0
    BY <1>1, <1>3 DEF Totals, NoneEmpty
  <1>7. QueueAt(levels[i], m) = q
    <2> HIDE DEF q
    <2> QED
      BY <1>5, <1>6, QueueAtIs
  <1> QED
    BY <1>2, <1>3, <1>5, <1>6, <1>7 DEF p, m

\* Books that stand for queues are well formed.
LEMMA StandsIsWellFormed ==
  ASSUME NEW Q, Stands(builder, Q)
  PROVE  BooksWellFormed
  <1> SUFFICES ASSUME NEW l \in Locates, NEW side \in Sides, NEW i \in DOMAIN books[l][side]
               PROVE  LET levels == books[l][side]
                          q == QueueAt(levels[i], orders)
                      IN /\ i > 1 => Worse(side, levels[i - 1].price, levels[i].price)
                         /\ levels[i].orderCount > 0
                         /\ levels[i].shares = SharesOf(q, orders)
                         /\ levels[i].tail = Last(q) /\ orders[Last(q)].next = Null
                         /\ \A n \in DOMAIN q : orders[q[n]].prev = IF n = 1 THEN Null ELSE q[n - 1]
                         /\ \A n \in DOMAIN q :
                              /\ orders[q[n]].locate = l /\ orders[q[n]].side = side
                              /\ orders[q[n]].price = levels[i].price
    BY DEF BooksWellFormed
  <1> DEFINE levels == builder.books[l][side]
             q == QueueAt(levels[i], builder.orders)
             p == levels[i].price
  <1>1. levels \in Seq(LevelRecord) /\ Sorted(levels, side) /\ NoneEmpty(levels)
    BY DEF Stands, BooksShow, Describes
  <1>2. i \in 1..Len(levels)
    BY <1>1 DEF books
  <1>3. /\ q \in Seq(Slots) /\ Len(q) > 0 /\ Line(q, builder.orders, l, side, p)
        /\ Totals(levels[i], q, builder.orders)
    BY <1>2, LevelShows
  <1> HIDE DEF q
  <1>4. Len(q) \in 1..Len(q) /\ DOMAIN q = 1..Len(q) /\ Last(q) = q[Len(q)]
    BY <1>3 DEF Last
  <1>5. i > 1 => Worse(side, levels[i - 1].price, levels[i].price)
    <2> HIDE DEF levels
    <2>1. i > 1 => i - 1 \in 1..Len(levels) /\ i - 1 < i
      BY <1>1, <1>2
    <2> QED
      BY <1>1, <1>2, <2>1 DEF Sorted
  <1>6. /\ levels[i].orderCount > 0 /\ levels[i].shares = SharesOf(q, builder.orders)
        /\ levels[i].tail = q[Len(q)]
    BY <1>1, <1>2, <1>3, <1>4 DEF NoneEmpty, Totals, BackOf
  <1>7. /\ builder.orders[q[Len(q)]].next = Null
        /\ \A n \in 1..Len(q) :
             /\ builder.orders[q[n]].prev = IF n = 1 THEN Null ELSE q[n - 1]
             /\ builder.orders[q[n]].locate = l /\ builder.orders[q[n]].side = side
             /\ builder.orders[q[n]].price = p
    BY <1>3, <1>4 DEF Line, Placed
  <1> QED
    BY <1>4, <1>5, <1>6, <1>7 DEF books, orders, q

\* The refinement mapping is the queues.
LEMMA QueueOfIs ==
  ASSUME NEW Q, Stands(builder, Q), NEW l \in Locates, NEW side \in Sides, NEW p \in Prices
  PROVE  QueueOf(l, side, p) = Entries(Q[l][side][p], builder.orders)
  <1> DEFINE levels == builder.books[l][side]
             m == builder.orders
             at == {i \in DOMAIN levels : levels[i].price = p}
             i == CHOOSE i \in at : TRUE
             q == IF at = {} THEN <<>> ELSE QueueAt(levels[i], m)
  <1>1. /\ levels \in Seq(LevelRecord) /\ DOMAIN levels = 1..Len(levels)
        /\ Describes(levels, side, Q[l][side], m)
    <2>1. Describes(levels, side, Q[l][side], m)
      BY DEF Stands, BooksShow
    <2> HIDE DEF levels
    <2> QED
      BY <2>1 DEF Describes
  <1>2. Q[l][side][p] \in Seq(Slots)
    BY LinedIs DEF Stands
  <1>3. q = Q[l][side][p]
    <2>1. CASE at = {}
      <3>1. ~(Len(Q[l][side][p]) > 0)
        BY <1>1, <2>1 DEF Describes
      <3> QED
        BY <1>2, <2>1, <3>1
    <2>2. CASE at # {}
      <3>1. i \in 1..Len(levels) /\ levels[i].price = p
        BY <1>1, <2>2
      <3> HIDE DEF i, at
      <3>2. QueueAt(levels[i], m) = Q[l][side][levels[i].price]
        BY <3>1, LevelShows
      <3> QED
        BY <2>2, <3>1, <3>2
    <2> QED
      BY <2>1, <2>2
  <1>4. QueueOf(l, side, p) =
          [n \in 1..Len(q) |-> [ref |-> m[q[n]].ref, shares |-> m[q[n]].shares]]
    BY DEF QueueOf, books, orders
  <1> HIDE DEF q
  <1> QED
    BY <1>3, <1>4 DEF Entries, Entry

ShownQueues ==
  [l \in Locates |-> [side \in Sides |-> [price \in Prices |-> QueueOf(l, side, price)]]]

LEMMA ShownQueuesAre ==
  ASSUME NEW Q, Stands(builder, Q)
  PROVE  ShownQueues = View(Q, builder.orders)
  BY QueueOfIs DEF ShownQueues, View

USE SizesAssumption

-----------------------------------------------------------------------------
(* Steps of the queues.                                                    *)

\* V is what the queues look like: some function for each side and price.
IsView(V) ==
  /\ V = [l \in Locates |-> V[l]]
  /\ \A l \in Locates : V[l] = [side \in Sides |-> V[l][side]]
  /\ \A l \in Locates, side \in Sides : DOMAIN V[l][side] = Prices

LEMMA ViewIsView == ASSUME NEW Q, NEW m PROVE IsView(View(Q, m))
  BY DEF IsView, View

Reached(V, U) == U = V \/ PriceTime!Step(V, U)

\* A change of one side of one book is seen there.
LEMMA SeenThere ==
  ASSUME NEW V, IsView(V), NEW l \in Locates, NEW side \in Sides, NEW x,
         NEW U, U = [V EXCEPT ![l][side] = x], U # V
  PROVE  V[l][side] # U[l][side]
  <1> SUFFICES ASSUME V[l][side] = U[l][side] PROVE U = V
    OBVIOUS
  <1> DEFINE two == [V[l] EXCEPT ![side] = x]
  <1>1. U = [V EXCEPT ![l] = two]
    OBVIOUS
  <1>2. V = [k \in Locates |-> V[k]] /\ V[l] = [s \in Sides |-> V[l][s]]
    BY DEF IsView
  <1>3. two[side] = x
    BY <1>2
  <1>4. U[l] = two
    BY <1>1, <1>2
  <1>5. two = V[l]
    BY <1>2, <1>3, <1>4
  <1> HIDE DEF two
  <1> QED
    BY <1>1, <1>2, <1>5

\* One more, one less, one smaller, and one replaced: the steps PriceTimeQueues has.
LEMMA EnterReached ==
  ASSUME NEW V, IsView(V), NEW l \in Locates, NEW side \in Sides, NEW p \in Prices,
         NEW ref \in Refs, NEW shares \in 0..MaxShares, ~PriceTime!Live(V, ref),
         NEW U, U = Joined(V, l, side, p, ref, shares)
  PROVE  Reached(V, U)
  <1>1. CASE U = V
    BY <1>1 DEF Reached
  <1>2. CASE U # V
    <2>1. V[l][side] # U[l][side]
      BY <1>2, SeenThere, ZenonT(30) DEF Joined
    <2>2. PriceTime!Enter(V, U, ref, l, side, p)
      BY DEF PriceTime!Enter, PriceTime!Order, Joined
    <2>3. PriceTime!Step(V, U)
      BY <2>1, <2>2 DEF PriceTime!Step, PriceTime!QueueSides, Sides
    <2> QED
      BY <2>3 DEF Reached
  <1> QED
    BY <1>1, <1>2

LEMMA LeaveReached ==
  ASSUME NEW V, IsView(V), NEW l \in Locates, NEW side \in Sides, NEW p \in Prices,
         NEW n \in DOMAIN V[l][side][p],
         NEW U, U = Gone(V, l, side, p, n)
  PROVE  Reached(V, U) /\ U = PriceTime!Without(V, l, side, p, n)
  <1>1. U = PriceTime!Without(V, l, side, p, n)
    BY DEF PriceTime!Without, Gone, ViewWith, RemoveAt, PriceTime!RemoveAt
  <1>2. CASE U = V
    BY <1>1, <1>2 DEF Reached
  <1>3. CASE U # V
    <2>1. V[l][side] # U[l][side]
      <3> DEFINE x == [V[l][side] EXCEPT ![p] = RemoveAt(V[l][side][p], n)]
      <3>1. U = [V EXCEPT ![l][side] = x]
        BY DEF Gone, ViewWith
      <3>2. IsView(V) /\ l \in Locates /\ side \in Sides
        OBVIOUS
      <3> HIDE DEF x
      <3> QED
        BY ONLY <1>3, <3>1, <3>2, SeenThere
    <2>2. PriceTime!Leave(V, U, l, side, p, n)
      BY <1>1 DEF PriceTime!Leave
    <2>3. PriceTime!Step(V, U)
      BY <2>1, <2>2 DEF PriceTime!Step, PriceTime!QueueSides, Sides
    <2> QED
      BY <1>1, <2>3 DEF Reached
  <1> QED
    BY <1>2, <1>3

LEMMA ShrinkReached ==
  ASSUME NEW V, IsView(V), NEW l \in Locates, NEW side \in Sides, NEW p \in Prices,
         NEW n \in DOMAIN V[l][side][p], V[l][side][p][n].shares \in Nat,
         NEW d \in Nat, ~(d >= V[l][side][p][n].shares),
         NEW U, U = Cut(V, l, side, p, n, d)
  PROVE  Reached(V, U)
  <1>1. CASE U = V
    BY <1>1 DEF Reached
  <1>2. CASE U # V
    <2>1. V[l][side] # U[l][side]
      BY <1>2, SeenThere, ZenonT(30) DEF Cut
    <2>2. d \in 0..(V[l][side][p][n].shares - 1)
      OBVIOUS
    <2>3. PriceTime!Shrink(V, U, l, side, p, n)
      BY <2>2 DEF PriceTime!Shrink, Cut
    <2>4. PriceTime!Step(V, U)
      BY <2>1, <2>3 DEF PriceTime!Step, PriceTime!QueueSides, Sides
    <2> QED
      BY <2>4 DEF Reached
  <1> QED
    BY <1>1, <1>2

LEMMA ReplaceReached ==
  ASSUME NEW V, IsView(V), NEW l \in Locates, NEW side \in Sides, NEW p \in Prices,
         NEW n \in DOMAIN V[l][side][p],
         NEW G, G = Gone(V, l, side, p, n), IsView(G),
         NEW ref \in Refs, NEW price \in Prices, NEW shares \in 0..MaxShares,
         ~PriceTime!Live(G, ref),
         NEW U, U = Joined(G, l, side, price, ref, shares)
  PROVE  Reached(V, U)
  <1>1. CASE U = V
    BY <1>1 DEF Reached
  <1>2. CASE U # V
    <2>1. V[l][side] # U[l][side]
      <3> DEFINE y == U[l][side]
                 x == G[l][side]
      <3>1. G = [V EXCEPT ![l][side] = x]
        <4> DEFINE z == [V[l][side] EXCEPT ![p] = RemoveAt(V[l][side][p], n)]
        <4>1. G = [V EXCEPT ![l][side] = z]
          BY DEF Gone, ViewWith
        <4> HIDE DEF z
        <4>2. z = x
          BY <4>1 DEF IsView
        <4> QED
          BY <4>1, <4>2
      <3>2. U = [G EXCEPT ![l][side] = y]
        <4> DEFINE z == [G[l][side] EXCEPT ![price] =
                           Append(G[l][side][price], [ref |-> ref, shares |-> shares])]
        <4>1. U = [G EXCEPT ![l][side] = z]
          BY DEF Joined
        <4> HIDE DEF z
        <4>2. z = y
          BY <4>1, ZenonT(30) DEF IsView
        <4> QED
          BY <4>1, <4>2
      <3> HIDE DEF x, y
      <3>3. [G EXCEPT ![l][side] = y] = [V EXCEPT ![l][side] = y]
        BY <3>1 DEF IsView
      <3>4. U = [V EXCEPT ![l][side] = y]
        BY <3>2, <3>3
      <3>5. IsView(V) /\ l \in Locates /\ side \in Sides /\ U # V
        BY <1>2
      <3> QED
        BY ONLY <3>4, <3>5, SeenThere
    <2>2. G = PriceTime!Without(V, l, side, p, n)
      BY LeaveReached
    <2>3. PriceTime!Replace(V, U, l, side, p, n)
      BY <2>2 DEF PriceTime!Replace, PriceTime!Order, Joined
    <2>4. PriceTime!Step(V, U)
      BY <2>1, <2>3 DEF PriceTime!Step, PriceTime!QueueSides, Sides
    <2> QED
      BY <2>4 DEF Reached
  <1> QED
    BY <1>1, <1>2

\* A reference that the index does not know is in no queue.
LEMMA NotLive ==
  ASSUME NEW b, Sound(b), NEW Q, Stands(b, Q), NEW ref, ~IsLive(b, ref)
  PROVE  ~PriceTime!Live(View(Q, b.orders), ref)
  <1> SUFFICES ASSUME PriceTime!Live(View(Q, b.orders), ref) PROVE FALSE
    OBVIOUS
  <1> DEFINE V == View(Q, b.orders)
  <1>1. PICK l \in Locates, side \in Sides, p \in Prices :
          \E n \in DOMAIN V[l][side][p] : V[l][side][p][n].ref = ref
    BY DEF PriceTime!Live, PriceTime!At, PriceTime!QueueSides, Sides
  <1> DEFINE q == Q[l][side][p]
  <1>2. V[l][side][p] = Entries(q, b.orders)
    BY DEF View
  <1>3. q \in Seq(Slots) /\ \A n \in 1..Len(q) : q[n] \in b.acquired
    BY DEF Stands, Lined, AllQueues, Queues
  <1> HIDE DEF q, V
  <1>4. PICK n \in 1..Len(q) : b.orders[q[n]].ref = ref
    <2>1. PICK n \in DOMAIN Entries(q, b.orders) : Entries(q, b.orders)[n].ref = ref
      BY <1>1, <1>2
    <2>2. DOMAIN Entries(q, b.orders) = 1..Len(q)
      BY DEF Entries
    <2>3. Entries(q, b.orders)[n] = Entry(q[n], b.orders)
      BY <2>2 DEF Entries
    <2> QED
      BY <2>1, <2>2, <2>3 DEF Entry
  <1> QED
    BY <1>3, <1>4 DEF Sound, Tracked, IsLive

-----------------------------------------------------------------------------
(* The messages: the queues.                                               *)

\* Whatever queues b's books stand for, c's stand for the same or for those a
\* step later.
Moved(b, c) ==
  \A Q : Stands(b, Q) =>
    \E W : Stands(c, W) /\ Reached(View(Q, b.orders), View(W, c.orders))

\* The books, their orders and the slots handed out are the same.
SameBooks(a, b) == a.books = b.books /\ a.orders = b.orders /\ a.acquired = b.acquired

\* Only books, orders and slots matter.
LEMMA SameBooksMoved ==
  ASSUME NEW a, NEW b, SameBooks(a, b), NEW c, Moved(b, c), NEW d, SameBooks(c, d)
  PROVE  Moved(a, d)
  <1> SUFFICES ASSUME NEW Q, Stands(a, Q)
               PROVE  \E W : Stands(d, W) /\ Reached(View(Q, a.orders), View(W, d.orders))
    BY DEF Moved
  <1>1. Stands(b, Q) /\ View(Q, b.orders) = View(Q, a.orders)
    BY DEF Stands, SameBooks
  <1>2. PICK W : Stands(c, W) /\ Reached(View(Q, b.orders), View(W, c.orders))
    BY <1>1 DEF Moved
  <1>3. Stands(d, W) /\ View(W, d.orders) = View(W, c.orders)
    BY <1>2 DEF Stands, SameBooks
  <1> QED
    BY <1>1, <1>2, <1>3

LEMMA NoneMoved ==
  ASSUME NEW a, NEW b, SameBooks(a, b)
  PROVE  Moved(a, b)
  <1> SUFFICES ASSUME NEW Q, Stands(a, Q)
               PROVE  \E W : Stands(b, W) /\ Reached(View(Q, a.orders), View(W, b.orders))
    BY DEF Moved
  <1>1. Stands(b, Q) /\ View(Q, b.orders) = View(Q, a.orders)
    BY DEF Stands, SameBooks
  <1> QED
    BY <1>1 DEF Reached

LEMMA ChangeBookSame ==
  ASSUME NEW before, NEW after, NEW l
  PROVE  SameBooks(after, ChangeBook(before, after, l))
  BY DEF SameBooks, ChangeBook, Changed

\* What the queues look like at one price.
LEMMA ViewAt ==
  ASSUME NEW Q \in AllQueues, NEW m, NEW l \in Locates, NEW side \in Sides, NEW p \in Prices
  PROVE  LET entries == View(Q, m)[l][side][p]
         IN /\ DOMAIN entries = 1..Len(Q[l][side][p])
            /\ \A n \in 1..Len(Q[l][side][p]) : entries[n] = Entry(Q[l][side][p][n], m)
  BY DEF View, Entries

\* removeOrder() is an order's leaving.
LEMMA RemoveOrderLeaves ==
  ASSUME NEW b, Sound(b), NEW Q, Stands(b, Q), NEW o \in b.acquired
  PROVE  LET c == RemoveOrder(b, o)
         IN \E W : /\ Stands(c, W) /\ Thinner(Q, W)
                   /\ Reached(View(Q, b.orders), View(W, c.orders))
  <1> DEFINE l == b.orders[o].locate
             side == b.orders[o].side
             p == b.orders[o].price
             c == RemoveOrder(b, o)
             V == View(Q, b.orders)
  <1>1. l \in Locates /\ side \in Sides /\ p \in Prices
    BY PlaceOf
  <1>2. PICK W, n : /\ Stands(c, W) /\ Thinner(Q, W)
                    /\ n \in 1..Len(Q[l][side][p])
                    /\ View(W, c.orders) = Gone(V, l, side, p, n)
    BY RemoveOrderStands
  <1>3. Q \in AllQueues
    BY DEF Stands, Lined
  <1> HIDE DEF l, side, p, c
  <1>4. n \in DOMAIN V[l][side][p]
    BY <1>1, <1>2, <1>3, ViewAt
  <1>5. IsView(V)
    BY ViewIsView
  <1> HIDE DEF V
  <1>6. Reached(V, View(W, c.orders))
    BY ONLY <1>1, <1>2, <1>4, <1>5, LeaveReached
  <1> QED
    BY <1>2, <1>6 DEF V, c

\* take() is an order's shrinking, or its leaving.
LEMMA TakeShrinks ==
  ASSUME NEW b, Sound(b), NEW Q, Stands(b, Q), NEW o \in b.acquired, NEW d \in Nat
  PROVE  LET c == Take(b, o, d)
         IN \E W : /\ Stands(c, W) /\ Thinner(Q, W)
                   /\ Reached(View(Q, b.orders), View(W, c.orders))
  <1>1. CASE d >= b.orders[o].shares
    <2> DEFINE over == IF d > b.orders[o].shares THEN 1 ELSE 0
               counted == [b EXCEPT !.stats.overExecutions = @ + over]
    <2>1. Take(b, o, d) = RemoveOrder(counted, o)
      BY <1>1 DEF Take
    <2>2. Alike(b, counted)
      BY DEF Alike, Sound, Shaped, Fields
    <2> HIDE DEF counted
    <2>3. Sound(counted) /\ Stands(counted, Q) /\ o \in counted.acquired
      BY <2>2, AlikeSound, AlikeStands DEF Alike
    <2>4. View(Q, counted.orders) = View(Q, b.orders)
      BY <2>2 DEF Alike
    <2> QED
      BY <2>1, <2>3, <2>4, RemoveOrderLeaves
  <1>2. CASE ~(d >= b.orders[o].shares)
    <2> DEFINE l == b.orders[o].locate
               side == b.orders[o].side
               p == b.orders[o].price
               c == Take(b, o, d)
               V == View(Q, b.orders)
    <2>1. /\ l \in Locates /\ side \in Sides /\ p \in Prices
          /\ b.orders[o].shares \in Nat
      BY PlaceOf
    <2>2. PICK n :
            /\ Stands(c, Q) /\ n \in 1..Len(Q[l][side][p]) /\ Q[l][side][p][n] = o
            /\ View(Q, c.orders) = Cut(V, l, side, p, n, d)
      <3>1. /\ Sound(b) /\ Stands(b, Q) /\ o \in b.acquired /\ Partial(b, o, d)
            /\ l = b.orders[o].locate /\ side = b.orders[o].side /\ p = b.orders[o].price
            /\ c = Take(b, o, d) /\ V = View(Q, b.orders)
        BY <1>2 DEF Partial
      <3> HIDE DEF l, side, p, c, V
      <3>2. /\ Stands(c, Q)
            /\ \E n : /\ IsNth(Q, l, side, p, n, o)
                      /\ View(Q, c.orders) = Cut(View(Q, b.orders), l, side, p, n, d)
        BY ONLY <3>1, ReducedStands
      <3> QED
        BY <3>1, <3>2 DEF IsNth
    <2>3. Q \in AllQueues
      BY DEF Stands, Lined
    <2> HIDE DEF l, side, p, c
    <2>4. n \in DOMAIN V[l][side][p] /\ V[l][side][p][n] = Entry(o, b.orders)
      BY <2>1, <2>2, <2>3, ViewAt
    <2>5. V[l][side][p][n].shares = b.orders[o].shares
      BY <2>4 DEF Entry
    <2>6. IsView(V)
      BY ViewIsView
    <2> HIDE DEF V
    <2>7. V[l][side][p][n].shares \in Nat /\ ~(d >= V[l][side][p][n].shares) /\ d \in Nat
      BY <1>2, <2>1, <2>5
    <2>8. Reached(V, View(Q, c.orders))
      BY ONLY <2>1, <2>2, <2>4, <2>6, <2>7, ShrinkReached
    <2> QED
      BY <2>2, <2>8 DEF V, c, Thinner
  <1> QED
    BY <1>1, <1>2

\* A refused order changes no book.
LEMMA RefusedSame ==
  ASSUME NEW b, NEW l, NEW side, NEW ref, NEW shares, NEW p, Refused(b, ref)
  PROVE  SameBooks(b, AddOrder(b, l, side, ref, shares, p))
  BY DEF AddOrder, SameBooks

\* addOrder() is an order's entering, or nothing.
LEMMA EntersReached ==
  ASSUME NEW b, Sound(b), NEW Q, Stands(b, Q), NEW l \in Locates, NEW side \in Sides,
         NEW ref \in AnyRef, NEW shares \in 0..MaxShares, NEW p \in Prices
  PROVE  LET c == AddOrder(b, l, side, ref, shares, p)
         IN \E W : Stands(c, W) /\ Reached(View(Q, b.orders), View(W, c.orders))
  <1> DEFINE c == AddOrder(b, l, side, ref, shares, p)
             V == View(Q, b.orders)
  <1>1. CASE Refused(b, ref)
    <2>1. SameBooks(b, c)
      BY <1>1, RefusedSame
    <2>2. Stands(c, Q) /\ View(Q, c.orders) = View(Q, b.orders)
      BY <2>1 DEF Stands, SameBooks
    <2> QED
      BY <2>2 DEF Reached
  <1>2. CASE ~Refused(b, ref)
    <2>1. ref \in Refs /\ ~IsLive(b, ref) /\ shares \in Nat
      BY <1>2 DEF Refused, AnyRef
    <2>2. PICK W : /\ Stands(c, W)
                   /\ View(W, c.orders) = Joined(V, l, side, p, ref, shares)
      <3>1. /\ Sound(b) /\ Stands(b, Q) /\ l \in Locates /\ side \in Sides
            /\ shares \in Nat /\ p \in Prices /\ ~Refused(b, ref)
        BY <1>2, <2>1
      <3> QED
        BY ONLY <3>1, AddOrderStands
    <2>3. ~PriceTime!Live(V, ref)
      BY <2>1, NotLive
    <2>4. IsView(V)
      BY ViewIsView
    <2> HIDE DEF c, V
    <2>5. Reached(V, View(W, c.orders))
      BY <2>1, <2>2, <2>3, <2>4, EnterReached
    <2> QED
      BY <2>2, <2>5 DEF c, V
  <1> QED
    BY <1>1, <1>2

\* A replacement is the old order's leaving and the new one's entering, which
\* together are one step.
LEMMA ReplaceMoved ==
  ASSUME NEW b, Sound(b), NEW Q, Stands(b, Q), NEW o \in b.acquired,
         NEW ref \in AnyRef, NEW shares \in 0..MaxShares, NEW price \in Prices
  PROVE  LET removed == RemoveOrder(b, o)
             c == AddOrder(removed, b.orders[o].locate, b.orders[o].side,
                           ref, shares, price)
         IN \E W : Stands(c, W) /\ Reached(View(Q, b.orders), View(W, c.orders))
  <1> DEFINE l == b.orders[o].locate
             side == b.orders[o].side
             p == b.orders[o].price
             removed == RemoveOrder(b, o)
             c == AddOrder(removed, l, side, ref, shares, price)
             V == View(Q, b.orders)
  <1>1. CASE Refused(removed, ref)
    <2>1. PICK W : Stands(removed, W) /\ Reached(V, View(W, removed.orders))
      BY RemoveOrderLeaves
    <2>2. SameBooks(removed, c)
      BY <1>1, RefusedSame
    <2>3. Stands(c, W) /\ View(W, c.orders) = View(W, removed.orders)
      BY <2>1, <2>2 DEF Stands, SameBooks
    <2> QED
      BY <2>1, <2>3
  <1>2. CASE ~Refused(removed, ref)
    <2>1. l \in Locates /\ side \in Sides /\ p \in Prices
      BY PlaceOf
    <2>2. PICK U, n : /\ Stands(removed, U)
                      /\ n \in 1..Len(Q[l][side][p])
                      /\ View(U, removed.orders) = Gone(V, l, side, p, n)
      BY RemoveOrderStands
    <2>3. Q \in AllQueues
      BY DEF Stands, Lined
    <2>4. Sound(removed)
      BY RemoveOrderCorrect
    <2>5. ref \in Refs /\ ~IsLive(removed, ref) /\ shares \in Nat
      BY <1>2 DEF Refused, AnyRef
    <2> HIDE DEF removed, l, side, p
    <2> DEFINE G == View(U, removed.orders)
    <2>6. PICK W : /\ Stands(c, W)
                   /\ View(W, c.orders) = Joined(G, l, side, price, ref, shares)
      BY <1>2, <2>1, <2>2, <2>4, <2>5, AddOrderStands
    <2>7. ~PriceTime!Live(G, ref)
      BY <2>2, <2>4, <2>5, NotLive
    <2>8. IsView(V) /\ IsView(G)
      BY ViewIsView
    <2>9. n \in DOMAIN V[l][side][p] /\ G = Gone(V, l, side, p, n)
      BY <2>1, <2>2, <2>3, ViewAt
    <2> HIDE DEF c, V, G
    <2>10. Reached(V, View(W, c.orders))
      BY ONLY <2>1, <2>5, <2>6, <2>7, <2>8, <2>9, ReplaceReached,
              ref \in Refs, price \in Prices, shares \in 0..MaxShares
    <2> QED
      BY <2>6, <2>10 DEF c, V, removed, l, side, p
  <1> QED
    BY <1>1, <1>2

-----------------------------------------------------------------------------
(* Crossed books, and the counting of them.                                *)

\* The best level of a side is that of its best queue.
LEMMA BestIs ==
  ASSUME NEW side \in Sides, NEW q \in Queues, NEW m, NEW levels,
         Describes(levels, side, q, m), NoneEmpty(levels)
  PROVE  /\ levels # <<>> <=> \E p \in Prices : Len(q[p]) > 0
         /\ levels # <<>> =>
              /\ Last(levels).price \in Prices /\ Len(q[Last(levels).price]) > 0
              /\ \A p \in Prices : Len(q[p]) > 0 =>
                   p = Last(levels).price \/ Worse(side, p, Last(levels).price)
  <1> DEFINE c == Len(levels)
  <1>1. /\ levels \in Seq(LevelRecord) /\ c \in Nat
        /\ levels # <<>> <=> c > 0
        /\ Last(levels) = levels[c]
    BY DEF Describes, Last
  <1>2. ASSUME NEW i \in 1..c
        PROVE  levels[i].price \in Prices /\ Len(q[levels[i].price]) > 0
    <2>1. levels[i].price \in Prices
      BY <1>1, LevelFields
    <2>2. levels[i].orderCount = Len(q[levels[i].price]) /\ levels[i].orderCount > 0
      BY DEF Describes, Totals, NoneEmpty
    <2> QED
      BY <2>1, <2>2
  <1>3. ASSUME NEW p \in Prices, Len(q[p]) > 0
        PROVE  \E i \in 1..c : levels[i].price = p
    BY <1>3 DEF Describes
  <1>4. \A i \in 1..c : i < c => Worse(side, levels[i].price, levels[c].price)
    <2>1. Sorted(levels, side)
      BY DEF Describes
    <2> QED
      BY <1>1, <2>1 DEF Sorted
  <1>5. c > 0 => c \in 1..c
    BY <1>1
  <1>6. \A i \in 1..c : c > 0 /\ (i = c \/ i < c)
    BY <1>1
  <1> HIDE DEF c
  <1>7. levels # <<>> <=> \E p \in Prices : Len(q[p]) > 0
    <2>1. ASSUME levels # <<>> PROVE \E p \in Prices : Len(q[p]) > 0
      BY <1>1, <1>2, <1>5, <2>1
    <2>2. ASSUME NEW p \in Prices, Len(q[p]) > 0 PROVE levels # <<>>
      <3>1. PICK i \in 1..c : levels[i].price = p
        BY <1>3, <2>2
      <3> QED
        BY <1>1, <1>6, <3>1
    <2> QED
      BY <2>1, <2>2
  <1>8. ASSUME levels # <<>>
        PROVE  Last(levels).price \in Prices /\ Len(q[Last(levels).price]) > 0
    BY <1>1, <1>2, <1>5, <1>8
  <1>9. ASSUME levels # <<>>, NEW p \in Prices, Len(q[p]) > 0
        PROVE  p = Last(levels).price \/ Worse(side, p, Last(levels).price)
    <2>1. PICK i \in 1..c : levels[i].price = p
      BY <1>3, <1>9
    <2>2. c > 0 /\ Last(levels) = levels[c]
      BY <1>1, <1>9
    <2>3. CASE i = c
      BY <2>1, <2>2, <2>3
    <2>4. CASE i < c
      BY <1>4, <2>1, <2>2, <2>4
    <2> QED
      BY <1>6, <2>2, <2>3, <2>4
  <1> QED
    BY <1>7, <1>8, <1>9

\* A book is crossed if some bid is at or above some ask.
LEMMA CrossedIs ==
  ASSUME NEW b, NEW Q, Stands(b, Q), NEW l \in Locates
  PROVE  Crossed(b.books[l]) <=>
           \E p, r \in Prices : /\ Len(Q[l]["Bid"][p]) > 0 /\ Len(Q[l]["Ask"][r]) > 0
                                /\ p >= r
  <1> DEFINE bids == b.books[l]["Bid"]
             asks == b.books[l]["Ask"]
             bidQueues == Q[l]["Bid"]
             askQueues == Q[l]["Ask"]
  <1>1. "Bid" \in Sides /\ "Ask" \in Sides
    BY DEF Sides
  <1>2. bidQueues \in Queues /\ askQueues \in Queues
    BY <1>1 DEF Stands, Lined, AllQueues
  <1>3. /\ Describes(bids, "Bid", bidQueues, b.orders) /\ NoneEmpty(bids)
        /\ Describes(asks, "Ask", askQueues, b.orders) /\ NoneEmpty(asks)
    BY <1>1 DEF Stands, BooksShow
  <1>4. Crossed(b.books[l]) <=>
          /\ bids # <<>> /\ asks # <<>>
          /\ Last(bids).price >= Last(asks).price
    BY DEF Crossed
  <1> HIDE DEF bids, asks, bidQueues, askQueues
  <1>5. /\ bids # <<>> <=> \E p \in Prices : Len(bidQueues[p]) > 0
        /\ bids # <<>> =>
             /\ Last(bids).price \in Prices /\ Len(bidQueues[Last(bids).price]) > 0
             /\ \A p \in Prices : Len(bidQueues[p]) > 0 => p <= Last(bids).price
    <2>1. /\ bids # <<>> <=> \E p \in Prices : Len(bidQueues[p]) > 0
          /\ bids # <<>> =>
               /\ Last(bids).price \in Prices /\ Len(bidQueues[Last(bids).price]) > 0
               /\ \A p \in Prices : Len(bidQueues[p]) > 0 =>
                    p = Last(bids).price \/ Worse("Bid", p, Last(bids).price)
      BY ONLY <1>1, <1>2, <1>3, BestIs
    <2>2. ASSUME bids # <<>>, NEW p \in Prices, Len(bidQueues[p]) > 0
          PROVE  p <= Last(bids).price
      <3>1. p \in Nat /\ Last(bids).price \in Nat
        BY <2>1, <2>2
      <3> QED
        BY <2>1, <2>2, <3>1 DEF Worse
    <2> QED
      BY <2>1, <2>2
  <1>6. /\ asks # <<>> <=> \E r \in Prices : Len(askQueues[r]) > 0
        /\ asks # <<>> =>
             /\ Last(asks).price \in Prices /\ Len(askQueues[Last(asks).price]) > 0
             /\ \A r \in Prices : Len(askQueues[r]) > 0 => r >= Last(asks).price
    <2>1. /\ asks # <<>> <=> \E r \in Prices : Len(askQueues[r]) > 0
          /\ asks # <<>> =>
               /\ Last(asks).price \in Prices /\ Len(askQueues[Last(asks).price]) > 0
               /\ \A r \in Prices : Len(askQueues[r]) > 0 =>
                    r = Last(asks).price \/ Worse("Ask", r, Last(asks).price)
      BY ONLY <1>1, <1>2, <1>3, BestIs
    <2>2. ASSUME asks # <<>>, NEW r \in Prices, Len(askQueues[r]) > 0
          PROVE  r >= Last(asks).price
      <3>1. r \in Nat /\ Last(asks).price \in Nat
        BY <2>1, <2>2
      <3> QED
        BY <2>1, <2>2, <3>1 DEF Worse
    <2> QED
      BY <2>1, <2>2
  <1> SUFFICES (/\ bids # <<>> /\ asks # <<>>
                /\ Last(bids).price >= Last(asks).price) <=>
                 \E p, r \in Prices : /\ Len(bidQueues[p]) > 0 /\ Len(askQueues[r]) > 0
                                      /\ p >= r
    BY <1>4 DEF bidQueues, askQueues
  <1>7. ASSUME bids # <<>>, asks # <<>>, Last(bids).price >= Last(asks).price
        PROVE  \E p, r \in Prices : Len(bidQueues[p]) > 0 /\ Len(askQueues[r]) > 0 /\ p >= r
    BY <1>5, <1>6, <1>7
  <1>8. ASSUME NEW p \in Prices, NEW r \in Prices,
               Len(bidQueues[p]) > 0, Len(askQueues[r]) > 0, p >= r
        PROVE  bids # <<>> /\ asks # <<>> /\ Last(bids).price >= Last(asks).price
    <2>1. bids # <<>> /\ asks # <<>>
      BY <1>5, <1>6, <1>8
    <2>2. /\ Last(bids).price \in Nat /\ p <= Last(bids).price
          /\ Last(asks).price \in Nat /\ r >= Last(asks).price /\ p \in Nat /\ r \in Nat
      BY <1>5, <1>6, <1>8, <2>1
    <2> QED
      BY <1>8, <2>1, <2>2
  <1> QED
    BY <1>7, <1>8

\* Orders' leaving crosses no book.
LEMMA ThinnerUncrossed ==
  ASSUME NEW b, NEW Q, Stands(b, Q), NEW c, NEW W, Stands(c, W), Thinner(Q, W),
         NEW l \in Locates, Crossed(c.books[l])
  PROVE  Crossed(b.books[l])
  <1>1. PICK p \in Prices, r \in Prices :
          Len(W[l]["Bid"][p]) > 0 /\ Len(W[l]["Ask"][r]) > 0 /\ p >= r
    BY CrossedIs
  <1>2. Len(Q[l]["Bid"][p]) > 0 /\ Len(Q[l]["Ask"][r]) > 0
    BY <1>1 DEF Thinner, Sides
  <1> QED
    BY <1>1, <1>2, CrossedIs

Counted(c, l) == c.crossedByLocate[l] > 0

Tally(state) ==
  [NoneCounted EXCEPT !.crossedDuringMarket = 1,
                      !.crossedWhileTrading = IF state = "T" THEN 1 ELSE 0]

\* CrossingsAreCounted, of the builder before and after a message.
Tallied(b, c) ==
  \A l \in Locates :
    /\ b.marketOpen /\ ~Crossed(b.books[l]) /\ Crossed(c.books[l]) => Counted(c, l)
    /\ Counted(c, l) =>
         /\ b.marketOpen /\ Crossed(c.books[l]) /\ c.liveOrders >= b.liveOrders
         /\ c.stats = Tally(b.tradingState[l])

\* Nothing has been counted yet.
Fresh(b) == b.crossedByLocate = [l \in Locates |-> 0] /\ b.stats = NoneCounted

SameTally(a, b) ==
  /\ a.books = b.books /\ a.crossedByLocate = b.crossedByLocate
  /\ a.stats = b.stats /\ a.liveOrders = b.liveOrders

LEMMA ChangeBookTally ==
  ASSUME NEW before, NEW after, NEW l
  PROVE  SameTally(after, ChangeBook(before, after, l))
  BY DEF SameTally, ChangeBook, Changed

LEMMA SameTallied ==
  ASSUME NEW b, NEW c, Tallied(b, c), NEW d, SameTally(c, d)
  PROVE  Tallied(b, d)
  BY DEF Tallied, SameTally, Counted

\* Where nothing is counted no book may have become crossed.
LEMMA NoneTallied ==
  ASSUME NEW b, Fresh(b), NEW c, c.crossedByLocate = b.crossedByLocate,
         \A l \in Locates : Crossed(c.books[l]) => Crossed(b.books[l])
  PROVE  Tallied(b, c)
  BY DEF Tallied, Counted, Fresh

\* addOrder() counts a book that it leaves crossed in market hours, once.
LEMMA AddOrderCounts ==
  ASSUME NEW b, Sound(b), Fresh(b), NEW l \in Locates, NEW side, NEW ref, NEW shares, NEW p,
         NEW c, c = AddOrder(b, l, side, ref, shares, p)
  PROVE  /\ Refused(b, ref) =>
              c.crossedByLocate = b.crossedByLocate /\ c.books = b.books
         /\ ~Refused(b, ref) =>
              /\ c.liveOrders = b.liveOrders + 1
              /\ \A k \in Locates :
                   Counted(c, k) <=> k = l /\ b.marketOpen /\ Crossed(c.books[l])
              /\ Counted(c, l) => c.stats = Tally(b.tradingState[l])
  <1> DEFINE slot == CHOOSE s \in FreeSlots(b) : TRUE
             new == [Blank EXCEPT !.ref = ref, !.price = p, !.shares = shares,
                                  !.locate = l, !.side = side]
             placed == Enqueue(b.books[l][side], [b.orders EXCEPT ![slot] = new], slot)
             added == [b EXCEPT !.books[l][side] = placed.levels,
                                !.orders = placed.orders,
                                !.acquired = @ \cup {slot},
                                !.index = WithEntry(@, ref, slot),
                                !.liveOrders = @ + 1]
  <1>1. CASE Refused(b, ref)
    BY <1>1 DEF AddOrder
  <1>2. CASE ~Refused(b, ref)
    <2>1. c = CountCrossing(b, added, l)
      BY <1>2 DEF AddOrder
    <2> HIDE DEF placed, new, slot
    <2>2. /\ DOMAIN added = Fields /\ added.liveOrders = b.liveOrders + 1
          /\ added.crossedByLocate = [k \in Locates |-> 0] /\ added.stats = NoneCounted
      BY DEF Sound, Shaped, Fields, Fresh
    <2> HIDE DEF added
    <2>3. CASE ~Counts(b, added, l)
      <3>1. c = added
        BY <2>1, <2>3 DEF CountCrossing
      <3> QED
        BY <1>2, <2>2, <2>3, <3>1 DEF Counted, Counts
    <2>4. CASE Counts(b, added, l)
      <3>1. /\ c.books = added.books /\ c.liveOrders = added.liveOrders
            /\ c.crossedByLocate = [added.crossedByLocate EXCEPT ![l] = @ + 1]
            /\ c.stats = [added.stats EXCEPT
                            !.crossedDuringMarket = @ + 1,
                            !.crossedWhileTrading =
                              @ + (IF b.tradingState[l] = "T" THEN 1 ELSE 0)]
        BY <2>1, <2>2, <2>4 DEF CountCrossing, Fields
      <3>2. c.stats = Tally(b.tradingState[l])
        BY <2>2, <3>1 DEF Tally, NoneCounted
      <3>3. c.crossedByLocate = [k \in Locates |-> IF k = l THEN 1 ELSE 0]
        BY <2>2, <3>1
      <3> QED
        BY <1>2, <2>2, <2>4, <3>1, <3>2, <3>3 DEF Counted, Counts
    <2> QED
      BY <2>3, <2>4
  <1> QED
    BY <1>1, <1>2

-----------------------------------------------------------------------------
(* The messages: the queues and the crossings.                             *)

\* The books stand for some queues.
Standing(b) == \E Q : Stands(b, Q)

\* A message does what it should to the queues and to the count of crossings.
Handled(b, c) == Moved(b, c) /\ Tallied(b, c)

\* The handlers.
LEMMA UnknownHandled ==
  ASSUME NEW b, Correct(b), Fresh(b)
  PROVE  Handled(b, Unknown(b))
  <1>1. /\ SameBooks(b, Unknown(b))
        /\ Unknown(b).crossedByLocate = b.crossedByLocate
    BY DEF SameBooks, Unknown
  <1> QED
    BY <1>1, NoneMoved, NoneTallied DEF Handled, SameBooks

\* What removes or shrinks an order and counts no crossing.
LEMMA ThinnerHandled ==
  ASSUME NEW b, Fresh(b), Standing(b), NEW after, NEW l,
         after.crossedByLocate = b.crossedByLocate,
         \A Q : Stands(b, Q) =>
           \E W : /\ Stands(after, W) /\ Thinner(Q, W)
                  /\ Reached(View(Q, b.orders), View(W, after.orders))
  PROVE  Handled(b, ChangeBook(b, after, l))
  <1>1. SameBooks(b, b)
    BY DEF SameBooks
  <1>2. Moved(b, after)
    BY DEF Moved
  <1>3. SameBooks(after, ChangeBook(b, after, l))
    BY ChangeBookSame
  <1>4. Moved(b, ChangeBook(b, after, l))
    BY <1>1, <1>2, <1>3, SameBooksMoved
  <1>5. ASSUME NEW k \in Locates, Crossed(after.books[k]) PROVE Crossed(b.books[k])
    BY <1>5, ThinnerUncrossed DEF Standing
  <1>6. Tallied(b, after)
    BY <1>5, NoneTallied
  <1>7. SameTally(after, ChangeBook(b, after, l))
    BY ChangeBookTally
  <1> QED
    BY <1>4, <1>6, <1>7, SameTallied DEF Handled

LEMMA OnDeleteHandled ==
  ASSUME NEW b, Correct(b), Fresh(b), Standing(b), NEW m
  PROVE  Handled(b, OnDelete(b, m))
  <1>1. CASE ~IsLive(b, m.ref)
    BY <1>1, UnknownHandled DEF OnDelete
  <1>2. CASE IsLive(b, m.ref)
    <2> DEFINE o == b.index[m.ref]
               after == RemoveOrder(b, o)
    <2>1. o \in b.acquired
      BY <1>2, LookupCorrect
    <2>2. after.crossedByLocate = b.crossedByLocate
      BY DEF RemoveOrder, Correct, Sound, Shaped, Fields
    <2>3. \A Q : Stands(b, Q) =>
            \E W : /\ Stands(after, W) /\ Thinner(Q, W)
                   /\ Reached(View(Q, b.orders), View(W, after.orders))
      BY <2>1, RemoveOrderLeaves DEF Correct
    <2> HIDE DEF after
    <2>4. Handled(b, ChangeBook(b, after, LocateOf(b, m.ref)))
      BY <2>2, <2>3, ThinnerHandled
    <2> QED
      BY <1>2, <2>4 DEF OnDelete, after
  <1> QED
    BY <1>1, <1>2

LEMMA OnCancelHandled ==
  ASSUME NEW b, Correct(b), Fresh(b), Standing(b), NEW m, m.shares \in Nat
  PROVE  Handled(b, OnCancel(b, m))
  <1>1. CASE ~IsLive(b, m.ref)
    BY <1>1, UnknownHandled DEF OnCancel
  <1>2. CASE IsLive(b, m.ref)
    <2> DEFINE o == b.index[m.ref]
               after == Take(b, o, m.shares)
    <2>1. o \in b.acquired
      BY <1>2, LookupCorrect
    <2>2. after.crossedByLocate = b.crossedByLocate
      BY DEF Take, RemoveOrder, Correct, Sound, Shaped, Fields
    <2>3. \A Q : Stands(b, Q) =>
            \E W : /\ Stands(after, W) /\ Thinner(Q, W)
                   /\ Reached(View(Q, b.orders), View(W, after.orders))
      BY <2>1, TakeShrinks DEF Correct
    <2> HIDE DEF after
    <2>4. Handled(b, ChangeBook(b, after, LocateOf(b, m.ref)))
      BY <2>2, <2>3, ThinnerHandled
    <2> QED
      BY <1>2, <2>4 DEF OnCancel, Shrink, after
  <1> QED
    BY <1>1, <1>2

LEMMA OnAddHandled ==
  ASSUME NEW b, Correct(b), Fresh(b), NEW l \in Locates, NEW m, m.ref \in AnyRef,
         m.shares \in 0..MaxShares, m.price \in Prices
  PROVE  Handled(b, OnAdd(b, l, m))
  <1> DEFINE side == IF m.side = "B" THEN "Bid" ELSE "Ask"
             after == AddOrder(b, l, side, m.ref, m.shares, m.price)
  <1>1. side \in Sides
    BY DEF Sides
  <1>2. OnlyBook(b, after, l)
    BY AddOrderCorrect DEF Correct
  <1>3. \A Q : Stands(b, Q) =>
          \E W : Stands(after, W) /\ Reached(View(Q, b.orders), View(W, after.orders))
    BY <1>1, EntersReached DEF Correct
  <1>4. /\ Refused(b, m.ref) =>
             after.crossedByLocate = b.crossedByLocate /\ after.books = b.books
        /\ ~Refused(b, m.ref) =>
             /\ after.liveOrders = b.liveOrders + 1
             /\ \A k \in Locates :
                  Counted(after, k) <=> k = l /\ b.marketOpen /\ Crossed(after.books[l])
             /\ Counted(after, l) => after.stats = Tally(b.tradingState[l])
    <2> HIDE DEF side
    <2> QED
      BY AddOrderCounts DEF Correct
  <1>5. b.liveOrders \in Nat
    BY FS_CardinalityType DEF Correct, Sound, Tracked
  <1> HIDE DEF after
  <1>6. Moved(b, ChangeBook(b, after, l))
    <2>1. SameBooks(b, b)
      BY DEF SameBooks
    <2>2. Moved(b, after)
      BY <1>3 DEF Moved
    <2> QED
      BY <2>1, <2>2, ChangeBookSame, SameBooksMoved
  <1>7. Tallied(b, after)
    <2>1. CASE Refused(b, m.ref)
      BY <1>4, <2>1, NoneTallied
    <2>2. CASE ~Refused(b, m.ref)
      BY <1>2, <1>4, <1>5, <2>2 DEF Tallied, OnlyBook
    <2> QED
      BY <2>1, <2>2
  <1>8. Tallied(b, ChangeBook(b, after, l))
    BY <1>7, ChangeBookTally, SameTallied
  <1> QED
    BY <1>6, <1>8 DEF Handled, OnAdd, after

LEMMA OnReplaceHandled ==
  ASSUME NEW b, Correct(b), Fresh(b), Standing(b), NEW m, m.newRef \in AnyRef,
         m.shares \in 0..MaxShares, m.price \in Prices
  PROVE  Handled(b, OnReplace(b, m))
  <1>1. CASE ~IsLive(b, m.oldRef)
    BY <1>1, UnknownHandled DEF OnReplace
  <1>2. CASE IsLive(b, m.oldRef)
    <2> DEFINE o == b.index[m.oldRef]
               l == b.orders[o].locate
               side == b.orders[o].side
               removed == RemoveOrder(b, o)
               after == AddOrder(removed, l, side, m.newRef, m.shares, m.price)
    <2>1. o \in b.acquired /\ l \in Locates
      BY <1>2, LookupCorrect DEF LocateOf
    <2>2. \A Q : Stands(b, Q) =>
            \E W : Stands(after, W) /\ Reached(View(Q, b.orders), View(W, after.orders))
      BY <2>1, ReplaceMoved DEF Correct
    <2>3. \A Q : Stands(b, Q) => \E W : Stands(removed, W) /\ Thinner(Q, W)
      BY <2>1, RemoveOrderLeaves DEF Correct
    <2>4. /\ removed.crossedByLocate = b.crossedByLocate /\ removed.stats = b.stats
          /\ removed.marketOpen = b.marketOpen /\ removed.tradingState = b.tradingState
          /\ removed.liveOrders = b.liveOrders - 1
      BY DEF RemoveOrder, Correct, Sound, Shaped, Fields
    <2>5. Sound(removed) /\ OnlyBook(b, removed, l)
      BY <2>1, RemoveOrderCorrect DEF Correct
    <2> HIDE DEF removed, l, side
    <2>6. Fresh(removed)
      BY <2>4 DEF Fresh
    <2>7. /\ Refused(removed, m.newRef) =>
               after.crossedByLocate = removed.crossedByLocate /\ after.books = removed.books
          /\ ~Refused(removed, m.newRef) =>
               /\ after.liveOrders = removed.liveOrders + 1
               /\ \A k \in Locates :
                    Counted(after, k) <=> k = l /\ removed.marketOpen /\ Crossed(after.books[l])
               /\ Counted(after, l) => after.stats = Tally(removed.tradingState[l])
      BY <2>1, <2>5, <2>6, AddOrderCounts
    <2>8. OnlyBook(removed, after, l)
      BY <2>1, <2>5, AddOrderCorrect
    <2>9. b.liveOrders \in Nat
      BY FS_CardinalityType DEF Correct, Sound, Tracked
    <2> HIDE DEF after
    <2>10. Moved(b, ChangeBook(b, after, l))
      <3>1. SameBooks(b, b)
        BY DEF SameBooks
      <3>2. Moved(b, after)
        BY <2>2 DEF Moved
      <3> QED
        BY <3>1, <3>2, ChangeBookSame, SameBooksMoved
    <2>11. Tallied(b, after)
      <3>1. CASE Refused(removed, m.newRef)
        <4>1. ASSUME NEW k \in Locates, Crossed(after.books[k]) PROVE Crossed(b.books[k])
          <5>1. Crossed(removed.books[k])
            BY <2>7, <3>1, <4>1
          <5> QED
            BY <2>3, <5>1, ThinnerUncrossed DEF Standing
        <4> QED
          BY <2>4, <2>7, <3>1, <4>1, NoneTallied
      <3>2. CASE ~Refused(removed, m.newRef)
        <4>1. after.liveOrders >= b.liveOrders
          BY <2>4, <2>7, <2>9, <3>2
        <4>2. \A k \in Locates : k # l => after.books[k] = b.books[k]
          BY <2>5, <2>8 DEF OnlyBook
        <4> QED
          BY <2>4, <2>7, <3>2, <4>1, <4>2 DEF Tallied
      <3> QED
        BY <3>1, <3>2
    <2>12. Tallied(b, ChangeBook(b, after, l))
      BY <2>11, ChangeBookTally, SameTallied
    <2> QED
      BY <1>2, <2>10, <2>12 DEF Handled, OnReplace, after, removed, l, side
  <1> QED
    BY <1>1, <1>2

LEMMA OnSystemEventHandled ==
  ASSUME NEW b, Correct(b), Fresh(b), NEW m
  PROVE  Handled(b, OnSystemEvent(b, m))
  <1>1. /\ SameBooks(b, OnSystemEvent(b, m))
        /\ OnSystemEvent(b, m).crossedByLocate = b.crossedByLocate
    BY DEF SameBooks, OnSystemEvent
  <1> QED
    BY <1>1, NoneMoved, NoneTallied DEF Handled, SameBooks

LEMMA OnTradingActionHandled ==
  ASSUME NEW b, Correct(b), Fresh(b), NEW l, NEW m
  PROVE  Handled(b, OnTradingAction(b, l, m))
  <1>1. /\ SameBooks(b, OnTradingAction(b, l, m))
        /\ OnTradingAction(b, l, m).crossedByLocate = b.crossedByLocate
    BY DEF SameBooks, OnTradingAction
  <1> QED
    BY <1>1, NoneMoved, NoneTallied DEF Handled, SameBooks

-----------------------------------------------------------------------------
(* The invariant, with the queues.                                         *)

BookInv == IInv /\ Standing(builder)

\* Before any message every queue is empty.
NoOrders == [l \in Locates |-> [side \in Sides |-> [p \in Prices |-> <<>>]]]

\* The empty books stand for empty queues.
LEMMA InitStands == Init => Stands(builder, NoOrders)
  <1> SUFFICES ASSUME Init PROVE Stands(builder, NoOrders)
    OBVIOUS
  <1>1. /\ builder.acquired = {}
        /\ builder.books = [l \in Locates |-> [s \in Sides |-> <<>>]]
    BY DEF Init, NewBuilder
  <1>2. Lined(NoOrders, builder.orders, {})
    <2>1. NoOrders \in AllQueues
      BY DEF NoOrders, AllQueues, Queues
    <2>2. ASSUME NEW l \in Locates, NEW side \in Sides, NEW p \in Prices
          PROVE  Len(NoOrders[l][side][p]) = 0
      BY DEF NoOrders
    <2>3. ASSUME NEW l \in Locates, NEW side \in Sides, NEW p \in Prices
          PROVE  /\ Line(NoOrders[l][side][p], builder.orders, l, side, p)
                 /\ \A n \in 1..Len(NoOrders[l][side][p]) : NoOrders[l][side][p][n] \in {}
      <3>1. 1..Len(NoOrders[l][side][p]) = {}
        BY <2>2
      <3> QED
        BY <3>1 DEF Line
    <2> QED
      BY <2>1, <2>3 DEF Lined
  <1>3. BooksShow(builder.books, NoOrders, builder.orders)
    <2>1. ASSUME NEW l \in Locates, NEW side \in Sides
          PROVE  /\ Describes(<<>>, side, NoOrders[l][side], builder.orders)
                 /\ NoneEmpty(<<>>)
      BY DEF Describes, NoneEmpty, NoOrders, Sorted
    <2> QED
      BY <1>1, <2>1 DEF BooksShow
  <1> QED
    BY <1>1, <1>2, <1>3 DEF Stands

\* Setting the counters back changes nothing else, and there they start.
LEMMA ClearedFresh ==
  ASSUME BookInv
  PROVE  /\ Correct(Cleared) /\ Fresh(Cleared) /\ Standing(Cleared)
         /\ SameBooks(builder, Cleared)
         /\ Cleared.marketOpen = builder.marketOpen
         /\ Cleared.liveOrders = builder.liveOrders
         /\ Cleared.tradingState = builder.tradingState
  <1>1. Correct(Cleared)
    BY ClearedCorrect DEF BookInv
  <1>2. Fresh(Cleared)
    BY DEF Cleared, Fresh, BookInv, IInv, Sound, Shaped, Fields
  <1>3. /\ SameBooks(builder, Cleared)
        /\ Cleared.marketOpen = builder.marketOpen
        /\ Cleared.liveOrders = builder.liveOrders
        /\ Cleared.tradingState = builder.tradingState
    BY DEF Cleared, SameBooks
  <1>4. Standing(Cleared)
    BY <1>3 DEF Standing, Stands, SameBooks, BookInv
  <1> QED
    BY <1>1, <1>2, <1>3, <1>4

\* What is reported of a message.
Reported(b, c) ==
  \A l \in Locates :
    LET counted == c.crossedByLocate[l] > 0
    IN /\ b.marketOpen /\ ~Crossed(b.books[l]) /\ Crossed(c.books[l]) => counted
       /\ counted =>
            /\ b.marketOpen /\ Crossed(c.books[l])
            /\ c.liveOrders >= b.liveOrders
            /\ c.stats.crossedDuringMarket = 1
            /\ b.tradingState[l] = "T" <=> c.stats.crossedWhileTrading = 1

\* A message does to the builder what its handler does to what is Cleared.
LEMMA AfterHandled ==
  ASSUME BookInv, NEW c, Correct(c), Handled(Cleared, c), After(c)
  PROVE  Moved(builder, builder') /\ Reported(builder, builder')
  <1>1. /\ SameBooks(c, builder') /\ builder'.crossedByLocate = c.crossedByLocate
        /\ builder'.liveOrders = c.liveOrders
        /\ builder'.stats = [c.stats EXCEPT !.unknownRefs = 0, !.duplicateRefs = 0,
                                            !.overExecutions = 0]
    BY DEF After, SameBooks, Correct, Sound, Shaped, Fields
  <1>2. SameBooks(builder, Cleared) /\ Moved(Cleared, c)
    BY ClearedFresh DEF Handled
  <1>3. Moved(builder, builder')
    BY <1>1, <1>2, SameBooksMoved
  <1>4. Reported(builder, builder')
    <2> SUFFICES ASSUME NEW l \in Locates
                 PROVE  LET counted == builder'.crossedByLocate[l] > 0
                        IN /\ builder.marketOpen /\ ~Crossed(builder.books[l])
                              /\ Crossed(builder'.books[l]) => counted
                           /\ counted =>
                                /\ builder.marketOpen /\ Crossed(builder'.books[l])
                                /\ builder'.liveOrders >= builder.liveOrders
                                /\ builder'.stats.crossedDuringMarket = 1
                                /\ builder.tradingState[l] = "T" <=>
                                     builder'.stats.crossedWhileTrading = 1
      BY DEF Reported
    <2>1. /\ Cleared.books = builder.books /\ Cleared.marketOpen = builder.marketOpen
          /\ Cleared.liveOrders = builder.liveOrders
          /\ Cleared.tradingState = builder.tradingState
      BY ClearedFresh DEF SameBooks
    <2>2. /\ Cleared.marketOpen /\ ~Crossed(Cleared.books[l]) /\ Crossed(c.books[l])
               => Counted(c, l)
          /\ Counted(c, l) =>
               /\ Cleared.marketOpen /\ Crossed(c.books[l])
               /\ c.liveOrders >= Cleared.liveOrders
               /\ c.stats = Tally(Cleared.tradingState[l])
      BY DEF Handled, Tallied
    <2>3. builder'.books = c.books
      BY <1>1 DEF SameBooks
    <2>4. ASSUME Counted(c, l)
          PROVE  /\ builder'.stats.crossedDuringMarket = 1
                 /\ builder.tradingState[l] = "T" <=>
                      builder'.stats.crossedWhileTrading = 1
      <3>1. c.stats = Tally(builder.tradingState[l])
        BY <2>1, <2>2, <2>4
      <3> QED
        BY <1>1, <3>1 DEF Tally, NoneCounted
    <2> QED
      BY <1>1, <2>1, <2>2, <2>3, <2>4 DEF Counted
  <1> QED
    BY <1>3, <1>4

\* Every message.
LEMMA NextHandled ==
  ASSUME BookInv, Next
  PROVE  Moved(builder, builder') /\ Reported(builder, builder')
  <1> Correct(Cleared) /\ Fresh(Cleared) /\ Standing(Cleared)
    BY ClearedFresh
  <1>1. ASSUME NEW ref \in AnyRef, Delete(ref)
        PROVE  Moved(builder, builder') /\ Reported(builder, builder')
    BY <1>1, OnDeleteCorrect, OnDeleteHandled, AfterHandled DEF Delete
  <1>2. ASSUME NEW ref \in AnyRef, NEW shares \in 0..MaxShares + 1, Cancel(ref, shares)
        PROVE  Moved(builder, builder') /\ Reported(builder, builder')
    BY <1>2, OnCancelCorrect, OnCancelHandled, AfterHandled DEF Cancel
  <1>3. ASSUME NEW ref \in AnyRef, NEW shares \in Sizes, NEW price \in Prices,
               NEW l \in Locates, NEW side, Add(l, ref, side, shares, price)
        PROVE  Moved(builder, builder') /\ Reported(builder, builder')
    BY <1>3, OnAddCorrect, OnAddHandled, AfterHandled DEF Add
  <1>4. ASSUME NEW ref \in AnyRef, NEW shares \in Sizes, NEW price \in Prices,
               NEW newRef \in AnyRef, Replace(ref, newRef, shares, price)
        PROVE  Moved(builder, builder') /\ Reported(builder, builder')
    BY <1>4, OnReplaceCorrect, OnReplaceHandled, AfterHandled DEF Replace
  <1>5. ASSUME NEW code, SystemEvent(code)
        PROVE  Moved(builder, builder') /\ Reported(builder, builder')
    BY <1>5, OnSystemEventCorrect, OnSystemEventHandled, AfterHandled DEF SystemEvent
  <1>6. ASSUME NEW l, NEW state, TradingAction(l, state)
        PROVE  Moved(builder, builder') /\ Reported(builder, builder')
    BY <1>6, OnTradingActionCorrect, OnTradingActionHandled, AfterHandled DEF TradingAction
  <1> QED
    BY <1>1, <1>2, <1>3, <1>4, <1>5, <1>6 DEF Next

\* So there always are such queues.
LEMMA BookInvariance == Spec => []BookInv
  <1>1. Init => BookInv
    BY InitCorrect, InitStands DEF BookInv, Standing
  <1>2. BookInv /\ [Next]_builder => BookInv'
    <2> SUFFICES ASSUME BookInv, [Next]_builder PROVE BookInv'
      OBVIOUS
    <2>1. IInv'
      BY NextCorrect DEF BookInv
    <2>2. CASE Next
      <3>1. PICK Q : Stands(builder, Q)
        BY DEF BookInv, Standing
      <3>2. \E W : Stands(builder', W)
        BY <2>2, <3>1, NextHandled DEF Moved
      <3>3. Standing(builder)'
        BY <3>2 DEF Standing, Stands, Lined, BooksShow
      <3> QED
        BY <2>1, <3>3 DEF BookInv
    <2>3. CASE UNCHANGED builder
      BY <2>1, <2>3 DEF BookInv, Standing, Stands
    <2> QED
      BY <2>2, <2>3
  <1> QED
    BY <1>1, <1>2, PTL DEF Spec

\* Every level's totals and links agree with its queue, the levels are sorted and
\* none is empty (L3OrderBook.hpp, add, reduce and remove), for any feed.
THEOREM LevelsCorrect == Spec => []BooksWellFormed
  <1>1. BookInv => BooksWellFormed
    BY StandsIsWellFormed DEF BookInv, Standing
  <1> QED
    BY <1>1, BookInvariance, PTL

\* ShownQueuesAre, of the next state.
LEMMA ShownNext ==
  (\A Q : Stands(builder, Q) => ShownQueues = View(Q, builder.orders))'
  <1>1. \A Q : Stands(builder, Q) => ShownQueues = View(Q, builder.orders)
    BY ShownQueuesAre
  <1> QED
    BY <1>1, PTL

\* The builder (ItchBook.hpp) keeps price-time queues of the live orders:
\* PriceTimeQueues, with the queues its books show.
THEOREM QueuesCorrect == Spec => ImplementsQueues
  <1>1. Init => PriceTime!Init
    <2> SUFFICES ASSUME Init PROVE ShownQueues = View(NoOrders, builder.orders)
      BY DEF PriceTime!Init, PriceTime!QueueSides, ShownQueues, View, Sides, NoOrders, Entries
    <2> QED
      BY InitStands, ShownQueuesAre
  <1>2. BookInv /\ [Next]_builder => [PriceTime!Next]_ShownQueues
    <2> SUFFICES ASSUME BookInv, [Next]_builder PROVE [PriceTime!Next]_ShownQueues
      OBVIOUS
    <2>1. CASE Next
      <3>1. PICK Q : Stands(builder, Q)
        BY DEF BookInv, Standing
      <3>2. PICK W : /\ Stands(builder', W)
                     /\ Reached(View(Q, builder.orders), View(W, builder'.orders))
        BY <2>1, <3>1, NextHandled DEF Moved
      <3>3. ShownQueues = View(Q, builder.orders)
        BY <3>1, ShownQueuesAre
      <3>4. ShownQueues' = View(W, builder'.orders)
        BY ONLY <3>2, ShownNext
      <3>5. ShownQueues' = ShownQueues \/ PriceTime!Step(ShownQueues, ShownQueues')
        BY <3>2, <3>3, <3>4 DEF Reached
      <3> QED
        BY <3>5 DEF PriceTime!Next, ShownQueues
    <2>2. CASE UNCHANGED builder
      BY <2>2 DEF ShownQueues, QueueOf, books, orders
    <2> QED
      BY <2>1, <2>2
  <1> QED
    BY <1>1, <1>2, BookInvariance, PTL DEF Spec, ImplementsQueues, PriceTime!Spec, ShownQueues

\* A book that an add or a replace leaves crossed in market hours is counted,
\* and no other (ItchBook.hpp, the end of addOrder).
THEOREM CrossingsCorrect == Spec => CrossingsAreCounted
  <1>1. BookInv /\ [Next]_builder =>
          [\A l \in Locates :
             LET counted == builder'.crossedByLocate[l] > 0
             IN /\ builder.marketOpen /\ ~Crossed(books[l]) /\ Crossed(books'[l]) => counted
                /\ counted =>
                     /\ builder.marketOpen /\ Crossed(books'[l])
                     /\ builder'.liveOrders >= builder.liveOrders
                     /\ builder'.stats.crossedDuringMarket = 1
                     /\ builder.tradingState[l] = "T" <=>
                          builder'.stats.crossedWhileTrading = 1]_builder
    BY NextHandled DEF Reported, books
  <1> QED
    BY <1>1, BookInvariance, PTL DEF Spec, CrossingsAreCounted
=============================================================================
