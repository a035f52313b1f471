----------------------------- MODULE StorageProofs ---------------------------
(***************************************************************************)
(* Proofs about what a book keeps its orders in: OrderIndex, which finds   *)
(* them, and ObjectPool, which they live in.                               *)
(*                                                                         *)
(* OrderIndex, for every set of keys, every hash of them and every number  *)
(* of doublings, is the map its callers built (IsTheMap).  The slots on    *)
(* the way from an entry's home to the entry are in use (ProbesUnbroken),  *)
(* and no key is in two slots (UniqueInv), so a probe that starts at a     *)
(* key's home comes to the key; and as the table has room (SizeInv), a     *)
(* probe for a key that is not there comes to an unused slot.  In erase()  *)
(* the entry in the hole is no longer live, and in rehash() some entries   *)
(* are still pending in the old table; the live and the pending ones are   *)
(* the contents (ContentsInv).                                             *)
(*                                                                         *)
(* ObjectPool, for every block size, number of users and kind of object.   *)
(* The invariant is the conjunction of the three checked by TLC with       *)
(* HoldersHaveObjects, which says that what a user's pointer leads to is   *)
(* an object and not a link of the free list.                              *)
(***************************************************************************)
EXTENDS OrderIndex, ObjectPool, NumberLemmas, FiniteSetTheorems

-----------------------------------------------------------------------------
(* The index.                                                              *)

\* The entries a probe is to find, and those rehash() has yet to place.
Live(p) == Occupied(p) /\ (pc = "erase" => p # hole)
Pending(i) == pc = "rehash" /\ i >= at /\ old[i].key # kEmpty

UniqueInv ==
  /\ \A p, q \in DOMAIN slots :
       Live(p) /\ Live(q) /\ slots[p].key = slots[q].key => p = q
  /\ \A i, k \in DOMAIN old :
       Pending(i) /\ Pending(k) /\ old[i].key = old[k].key => i = k
  /\ \A p \in DOMAIN slots, i \in DOMAIN old :
       Live(p) /\ Pending(i) => slots[p].key # old[i].key

ContentsInv ==
  /\ \A p \in DOMAIN slots : Live(p) => contents[slots[p].key] = slots[p].value
  /\ \A i \in DOMAIN old : Pending(i) => contents[old[i].key] = old[i].value
  /\ \A key \in Keys :
       contents[key] # kEmpty =>
         \/ \E p \in DOMAIN slots : Live(p) /\ slots[p].key = key
         \/ \E i \in DOMAIN old : Pending(i) /\ old[i].key = key

Contained == {key \in Keys : contents[key] # kEmpty}
Placed == {key \in Keys : \E p \in DOMAIN slots : Live(p) /\ slots[p].key = key}

SizeInv ==
  /\ size = Cardinality(Placed) + (IF pc = "erase" THEN 1 ELSE 0)
  /\ 2 * size <= cap
  /\ pc = "rehash" => 2 * (Cardinality(Contained) + 1) <= cap /\ entry # None

HoleInv == pc = "erase" => Occupied(hole)

Inv ==
  /\ TypeOK /\ ProbesUnbroken /\ UniqueInv /\ ContentsInv /\ SizeInv /\ HoleInv

(***************************************************************************)
(* Tables.                                                                 *)
(***************************************************************************)

LEMMA NoneType == None.key = kEmpty /\ None \notin Entries
  BY EmptyAssumption DEF None, Entries

LEMMA CapacityOf ==
  ASSUME NEW c \in Nat, NEW t \in Tables(c)
  PROVE  Capacity(t) = c /\ DOMAIN t = 0..(c - 1)
<1>1. DOMAIN t = 0..(c - 1)
  BY DEF Tables
<1>2. Cardinality(0..(c - 1)) = c
  BY FS_Interval
<1> QED BY <1>1, <1>2 DEF Capacity

LEMMA UnusedType ==
  ASSUME NEW c \in Nat
  PROVE  /\ Unused(c) \in Tables(c)
         /\ Capacity(Unused(c)) = c /\ DOMAIN Unused(c) = 0..(c - 1)
         /\ \A i \in 0..(c - 1) : Unused(c)[i] = None
<1>1. Unused(c) \in Tables(c)
  BY DEF Unused, Tables
<1> QED BY <1>1, CapacityOf DEF Unused

LEMMA Dom ==
  TypeOK => /\ cap \in Nat /\ cap >= 2
            /\ DOMAIN slots = 0..(cap - 1)
            /\ DOMAIN old = 0..(Capacity(old) - 1)
  BY CapacityOf, PositiveAssumption DEF TypeOK

LEMMA SlotType ==
  TypeOK => \A p \in DOMAIN slots :
              /\ slots[p] \in Entries \cup {None}
              /\ Occupied(p) => /\ slots[p] \in Entries
                                /\ slots[p].key \in Keys
                                /\ slots[p].value \in Values
<1> SUFFICES ASSUME TypeOK, NEW p \in DOMAIN slots
             PROVE  /\ slots[p] \in Entries \cup {None}
                    /\ Occupied(p) => slots[p] \in Entries
  BY DEF Entries
<1>1. slots[p] \in Entries \cup {None}
  BY Dom DEF TypeOK, Tables
<1> QED BY <1>1, NoneType DEF Occupied

LEMMA OldType ==
  TypeOK => \A i \in DOMAIN old :
              /\ old[i] \in Entries \cup {None}
              /\ old[i].key # kEmpty => /\ old[i] \in Entries
                                        /\ old[i].key \in Keys
                                        /\ old[i].value \in Values
<1> SUFFICES ASSUME TypeOK, NEW i \in DOMAIN old
             PROVE  /\ old[i] \in Entries \cup {None}
                    /\ old[i].key # kEmpty => old[i] \in Entries
  BY DEF Entries
<1>1. old[i] \in Entries \cup {None}
  BY Dom DEF TypeOK, Tables
<1> QED BY <1>1, NoneType

\* The top bits of a hash are a slot's number.
LEMMA HomeType == TypeOK => \A key \in Keys : Home(key) \in DOMAIN slots
<1> SUFFICES ASSUME TypeOK, NEW key \in Keys
             PROVE  Home(key) \in 0..(cap - 1)
  BY Dom
<1> DEFINE a == hash[key] * cap  q == a \div MaxCapacity  r == a % MaxCapacity
<1>1. /\ hash[key] \in Nat /\ hash[key] < MaxCapacity
      /\ cap \in Nat /\ MaxCapacity \in Nat /\ MaxCapacity > 0
  BY Dom, PositiveAssumption DEF TypeOK
<1> DEFINE c == cap
<1>2. c \in Nat /\ c >= 2
  BY Dom
<1> HIDE DEF c
<1>3. a \in Nat /\ a + c <= MaxCapacity * c
  <2>1. hash[key] * c + c <= MaxCapacity * c
    BY <1>1, <1>2, MulGap
  <2>2. hash[key] * c \in Nat
    BY <1>1, <1>2
  <2> QED BY <2>1, <2>2 DEF c
<1> HIDE DEF a
<1>4. q \in Int /\ r \in 0..(MaxCapacity - 1) /\ a = q * MaxCapacity + r
  BY <1>1, <1>3, DivMod
<1> HIDE DEF q, r
<1>5. ~(q < 0)
  <2>1. q < 0 => q * MaxCapacity + MaxCapacity <= 0 * MaxCapacity
    BY <1>1, <1>4, MulGap
  <2>2. q * MaxCapacity \in Int
    BY <1>1, <1>4
  <2> QED BY <1>1, <1>3, <1>4, <2>1, <2>2
<1>6. ~(c <= q)
  <2>1. c < q => c * MaxCapacity + MaxCapacity <= q * MaxCapacity
    BY <1>1, <1>2, <1>4, MulGap
  <2>2. c * MaxCapacity = MaxCapacity * c /\ c * MaxCapacity \in Int
    BY <1>1, <1>2
  <2>3. q * MaxCapacity \in Int
    BY <1>1, <1>4
  <2> QED BY <1>1, <1>2, <1>3, <1>4, <2>1, <2>2, <2>3
<1> QED BY <1>2, <1>4, <1>5, <1>6 DEF Home, q, a, c

(***************************************************************************)
(* Probes.                                                                 *)
(***************************************************************************)

\* Slot i lies on the way from slot h round the array to slot p.
Way(h, p, i) == IF h <= p THEN h <= i /\ i < p ELSE h <= i \/ i < p

LEMMA AheadIs ==
  TypeOK => \A h, d \in 0..(cap - 1) :
    Ahead(h, d) = IF h + d < cap THEN h + d ELSE h + d - cap
<1> SUFFICES ASSUME TypeOK, NEW h \in 0..(cap - 1), NEW d \in 0..(cap - 1)
             PROVE  (h + d) % cap = IF h + d < cap THEN h + d ELSE h + d - cap
  BY DEF Ahead
<1> DEFINE c == cap
<1>1. c \in Nat /\ c >= 2 /\ h \in 0..(c - 1) /\ d \in 0..(c - 1)
  BY Dom
<1> HIDE DEF c
<1>2. CASE h + d < c
  <2>1. (0 * c + (h + d)) % c = h + d
    BY <1>1, <1>2, ModUnique
  <2>2. 0 * c + (h + d) = h + d
    BY <1>1
  <2> QED BY <1>2, <2>1, <2>2 DEF c
<1>3. CASE ~(h + d < c)
  <2>1. (1 * c + (h + d - c)) % c = h + d - c
    <3>1. h + d - c \in Nat /\ h + d - c < c
      BY <1>1, <1>3
    <3> QED BY <1>1, <3>1, ModUnique
  <2>2. 1 * c + (h + d - c) = h + d
    BY <1>1
  <2> QED BY <1>3, <2>1, <2>2 DEF c
<1> QED BY <1>2, <1>3

LEMMA AfterIs ==
  TypeOK => \A i \in 0..(cap - 1) :
    After(i) = IF i + 1 < cap THEN i + 1 ELSE 0
<1> SUFFICES ASSUME TypeOK, NEW i \in 0..(cap - 1)
             PROVE  After(i) = IF i + 1 < cap THEN i + 1 ELSE 0
  OBVIOUS
<1>1. 1 \in 0..(cap - 1)
  BY Dom
<1>2. Ahead(i, 1) = IF i + 1 < cap THEN i + 1 ELSE i + 1 - cap
  BY <1>1, AheadIs
<1> QED BY <1>2, Dom DEF Ahead, After

\* A probe for a key stops at a slot that has the key, or is unused, when no
\* slot on the way does.
LEMMA StopsIff ==
  ASSUME TypeOK, NEW key \in Keys, NEW i \in DOMAIN slots
  PROVE  StopsAt(key, i) <=>
           /\ slots[i].key \in {key, kEmpty}
           /\ \A x \in DOMAIN slots :
                Way(Home(key), i, x) => slots[x].key \notin {key, kEmpty}
<1> DEFINE h == Home(key)  c == cap
           Turn(x) == IF h <= x THEN x - h ELSE x + c - h
<1>1. /\ c \in Nat /\ c >= 2 /\ h \in 0..(c - 1) /\ i \in 0..(c - 1)
      /\ DOMAIN slots = 0..(c - 1)
  BY Dom, HomeType
<1>2. \A e \in 0..(c - 1) :
        Ahead(h, e) = IF h + e < c THEN h + e ELSE h + e - c
  BY <1>1, AheadIs
<1> HIDE DEF h, c
<1>3. ASSUME NEW x \in 0..(c - 1)
      PROVE  Turn(x) \in 0..(c - 1) /\ Ahead(h, Turn(x)) = x
  BY <1>1, <1>2
<1>4. ASSUME NEW d \in 0..(c - 1), i = Ahead(h, d), NEW x \in 0..(c - 1),
             Way(h, i, x)
      PROVE  Turn(x) \in 0..(d - 1)
  BY <1>1, <1>2, <1>4 DEF Way
<1>5. ASSUME NEW e \in 0..(Turn(i) - 1)
      PROVE  Ahead(h, e) \in 0..(c - 1) /\ Way(h, i, Ahead(h, e))
  BY <1>1, <1>2 DEF Way
<1>6. ASSUME StopsAt(key, i)
      PROVE  /\ slots[i].key \in {key, kEmpty}
             /\ \A x \in DOMAIN slots :
                  Way(h, i, x) => slots[x].key \notin {key, kEmpty}
  <2>1. PICK d \in 0..(c - 1) :
          /\ i = Ahead(h, d) /\ slots[i].key \in {key, kEmpty}
          /\ \A e \in 0..(d - 1) : slots[Ahead(h, e)].key \notin {key, kEmpty}
    BY <1>6 DEF StopsAt, h, c
  <2> QED BY <1>1, <1>3, <1>4, <2>1
<1>7. ASSUME slots[i].key \in {key, kEmpty},
             \A x \in DOMAIN slots :
               Way(h, i, x) => slots[x].key \notin {key, kEmpty}
      PROVE  StopsAt(key, i)
  <2>1. Turn(i) \in 0..(c - 1) /\ i = Ahead(h, Turn(i))
    BY <1>1, <1>3
  <2>2. \A e \in 0..(Turn(i) - 1) : slots[Ahead(h, e)].key \notin {key, kEmpty}
    BY <1>1, <1>5, <1>7
  <2> QED BY <1>7, <2>1, <2>2 DEF StopsAt, h, c
<1> QED BY <1>6, <1>7 DEF h

LEMMA PassesIs ==
  \A p, i : Passes(p, i) <=> Way(Home(slots[p].key), p, i)
  BY DEF Passes, Way

\* An unused slot at which a probe for a key stops is past any entry with that
\* key: there is none.
LEMMA AbsentThen ==
  ASSUME TypeOK, ProbesUnbroken, NEW key \in Keys, NEW i \in DOMAIN slots,
         StopsAt(key, i), ~Occupied(i),
         NEW p \in DOMAIN slots, Live(p)
  PROVE  slots[p].key # key
<1> SUFFICES ASSUME slots[p].key = key
             PROVE  FALSE
  OBVIOUS
<1> DEFINE h == Home(key)
<1>1. /\ h \in 0..(cap - 1) /\ p \in 0..(cap - 1) /\ i \in 0..(cap - 1)
      /\ cap \in Nat
  BY Dom, HomeType
<1>2. ~Way(h, p, i)
  BY PassesIs DEF ProbesUnbroken, Live
<1>3. ~Way(h, i, p)
  BY StopsIff
<1>4. p # i
  BY DEF Live
<1> HIDE DEF h
<1> QED BY <1>1, <1>2, <1>3, <1>4 DEF Way

\* An entry is where a probe for its key stops.
LEMMA LiveThen ==
  ASSUME TypeOK, ProbesUnbroken, UniqueInv, pc = "idle",
         NEW p \in DOMAIN slots, Live(p)
  PROVE  StopsAt(slots[p].key, p)
<1> DEFINE key == slots[p].key
<1>1. key \in Keys /\ key # kEmpty
  BY SlotType, EmptyAssumption DEF Live
<1>2. ASSUME NEW x \in DOMAIN slots, Way(Home(key), p, x)
      PROVE  slots[x].key \notin {key, kEmpty}
  <2>1. Occupied(x)
    BY <1>2, PassesIs DEF ProbesUnbroken, Live
  <2>2. x # p
    BY <1>1, <1>2, Dom, HomeType DEF Way
  <2>3. slots[x].key # key
    BY <2>1, <2>2 DEF UniqueInv, Live
  <2> QED BY <2>1, <2>3 DEF Occupied
<1> QED BY <1>1, <1>2, StopsIff

\* A table with an unused slot stops every probe that finds no entry.
LEMMA ProbeEnds ==
  ASSUME TypeOK, NEW key \in Keys,
         \A p \in DOMAIN slots : slots[p].key # key,
         \E p \in DOMAIN slots : ~Occupied(p)
  PROVE  \E i \in DOMAIN slots : StopsAt(key, i) /\ ~Occupied(i)
<1> DEFINE h == Home(key)  c == cap
           T == {d \in 0..(c - 1) : ~Occupied(Ahead(h, d))}
<1>1. /\ c \in Nat /\ c >= 2 /\ h \in 0..(c - 1)
      /\ DOMAIN slots = 0..(c - 1)
  BY Dom, HomeType
<1>2. \A e \in 0..(c - 1) :
        Ahead(h, e) = IF h + e < c THEN h + e ELSE h + e - c
  BY <1>1, AheadIs
<1> HIDE DEF h, c
<1>3. T # {}
  <2>1. PICK p \in 0..(c - 1) : ~Occupied(p)
    BY <1>1
  <2> DEFINE d == IF h <= p THEN p - h ELSE p + c - h
  <2>2. d \in 0..(c - 1) /\ Ahead(h, d) = p
    BY <1>1, <1>2
  <2> QED BY <2>1, <2>2
<1>4. PICK d \in T : \A e \in T : d <= e
  <2>1. T \in SUBSET Nat
    BY <1>1
  <2> HIDE DEF T
  <2> QED BY <1>3, <2>1, Least
<1>5. /\ d \in 0..(c - 1) /\ Ahead(h, d) \in 0..(c - 1) /\ ~Occupied(Ahead(h, d))
      /\ slots[Ahead(h, d)].key = kEmpty
  BY <1>1, <1>2, <1>4 DEF Occupied
<1>6. ASSUME NEW e \in 0..(d - 1)
      PROVE  slots[Ahead(h, e)].key \notin {key, kEmpty}
  <2>1. e \in 0..(c - 1) /\ Ahead(h, e) \in 0..(c - 1)
    BY <1>1, <1>2, <1>5
  <2>2. Occupied(Ahead(h, e))
    BY <1>4, <1>5, <2>1
  <2> QED BY <1>1, <2>1, <2>2 DEF Occupied
<1>7. StopsAt(key, Ahead(h, d))
  BY <1>5, <1>6 DEF StopsAt, h, c
<1> QED BY <1>1, <1>5, <1>7

(***************************************************************************)
(* The invariant is inductive.  First what placing an entry does, for the  *)
(* three actions that place one.                                           *)
(***************************************************************************)

LEMMA Finite ==
  /\ IsFiniteSet(Placed) /\ IsFiniteSet(Contained)
  /\ Cardinality(Placed) \in Nat /\ Cardinality(Contained) \in Nat
<1>1. Placed \in SUBSET Keys /\ Contained \in SUBSET Keys
  BY DEF Placed, Contained
<1>2. IsFiniteSet(Placed) /\ IsFiniteSet(Contained)
  BY <1>1, KeysAssumption, FS_Subset
<1> QED BY <1>2, FS_CardinalityType

LEMMA Placing ==
  ASSUME TypeOK, ProbesUnbroken, pc # "erase", pc' # "erase", hash' = hash,
         NEW e \in Entries, NEW i \in DOMAIN slots,
         StopsAt(e.key, i), ~Occupied(i),
         slots' = [slots EXCEPT ![i] = e]
  PROVE  /\ slots' \in Tables(cap) /\ cap' = cap /\ DOMAIN slots' = DOMAIN slots
         /\ slots'[i] = e /\ Live(i)'
         /\ \A p \in DOMAIN slots : p # i => /\ slots'[p] = slots[p]
                                             /\ Live(p)' <=> Live(p)
         /\ \A p \in DOMAIN slots : Live(p) => p # i /\ slots[p].key # e.key
         /\ ProbesUnbroken'
         /\ e.key \notin Placed /\ Placed' = Placed \cup {e.key}
<1>1. e.key \in Keys /\ e.value \in Values /\ e.key # kEmpty
  BY EmptyAssumption DEF Entries
<1>2. /\ slots' \in Tables(cap) /\ slots'[i] = e
      /\ \A p \in DOMAIN slots : p # i => slots'[p] = slots[p]
  BY Dom DEF TypeOK, Tables
<1>3. cap' = cap /\ DOMAIN slots' = DOMAIN slots
  BY <1>2, Dom, CapacityOf DEF cap
<1>4. \A p \in DOMAIN slots : /\ Occupied(p)' <=> Occupied(p) \/ p = i
                              /\ Live(p)' <=> Occupied(p)'
                              /\ Live(p) <=> Occupied(p)
  BY <1>1, <1>2 DEF Occupied, Live
<1>5. \A p \in DOMAIN slots : Live(p) => p # i /\ slots[p].key # e.key
  BY <1>1, <1>4, AbsentThen
<1>6. ASSUME NEW p \in DOMAIN slots, Occupied(p)',
             NEW x \in DOMAIN slots, Passes(p, x)'
      PROVE  Occupied(x)'
  <2>2. Way(Home(slots'[p].key), p, x)
    BY <1>3, <1>6 DEF Passes, Way, Home
  <2>3. CASE p = i
    <3>1. Way(Home(e.key), i, x)
      BY <1>2, <2>2, <2>3
    <3>2. slots[x].key # kEmpty
      BY <1>1, <3>1, StopsIff
    <3> QED BY <1>4, <3>2 DEF Occupied
  <2>4. CASE p # i
    <3>1. slots'[p] = slots[p] /\ Occupied(p)
      BY <1>2, <1>4, <1>6, <2>4
    <3>2. Passes(p, x)
      BY <2>2, <3>1, PassesIs
    <3> QED BY <1>4, <3>1, <3>2 DEF ProbesUnbroken
  <2> QED BY <2>3, <2>4
<1>7. ProbesUnbroken'
  BY <1>3, <1>6 DEF ProbesUnbroken
<1>8. Placed' = Placed \cup {e.key}
  <2>1. ASSUME NEW key \in Keys, key \in Placed'
        PROVE  key \in Placed \cup {e.key}
    <3>1. PICK p \in DOMAIN slots : Live(p)' /\ slots'[p].key = key
      BY <1>3, <2>1 DEF Placed
    <3> QED BY <1>2, <1>4, <3>1 DEF Placed
  <2>2. ASSUME NEW key \in Placed
        PROVE  key \in Placed'
    <3>1. PICK p \in DOMAIN slots : Live(p) /\ slots[p].key = key
      BY <2>2 DEF Placed
    <3>2. Live(p)' /\ slots'[p].key = key
      BY <1>2, <1>4, <1>5, <3>1
    <3> QED BY <1>3, <2>2, <3>2 DEF Placed
  <2>3. e.key \in Placed'
    BY <1>1, <1>2, <1>3, <1>4 DEF Placed
  <2>4. Placed' \subseteq Keys
    BY DEF Placed
  <2> QED BY <2>1, <2>2, <2>3, <2>4
<1>9. e.key \notin Placed
  BY <1>5 DEF Placed
<1> QED BY <1>2, <1>3, <1>4, <1>5, <1>7, <1>8, <1>9

LEMMA InitInv == Init => Inv
<1> SUFFICES ASSUME Init
             PROVE  Inv
  OBVIOUS
<1> USE DEF Init
<1>1. MinCapacity \in Nat /\ MinCapacity >= 2 /\ MaxCapacity \in Nat
  BY PositiveAssumption
<1>2. /\ slots \in Tables(MinCapacity) /\ cap = MinCapacity
      /\ DOMAIN slots = 0..(MinCapacity - 1)
      /\ \A p \in DOMAIN slots : ~Occupied(p) /\ ~Live(p)
  <2>1. /\ slots \in Tables(MinCapacity) /\ cap = MinCapacity
        /\ DOMAIN slots = 0..(MinCapacity - 1)
        /\ \A p \in DOMAIN slots : slots[p] = None
    BY <1>1, UnusedType DEF cap
  <2> QED BY <2>1, NoneType DEF Occupied, Live
<1>3. Capacity(old) = 0 /\ old \in Tables(0)
  BY UnusedType
<1>4. TypeOK
  BY <1>1, <1>2, <1>3 DEF TypeOK
<1>5. \A i \in DOMAIN old : ~Pending(i)
  BY DEF Pending
<1>6. Placed = {}
  BY <1>2 DEF Placed
<1>7. SizeInv
  BY <1>1, <1>2, <1>6, FS_EmptySet DEF SizeInv
<1>8. ProbesUnbroken /\ UniqueInv /\ ContentsInv /\ HoleInv
  BY <1>2, <1>5 DEF ProbesUnbroken, UniqueInv, ContentsInv, HoleInv
<1> QED BY <1>4, <1>7, <1>8 DEF Inv

\* What a call that inserts does when no entry is pending.
LEMMA InsertStep ==
  ASSUME Inv, pc # "erase", \A i \in DOMAIN old : ~Pending(i),
         2 * (Cardinality(Placed) + 1) <= cap,
         NEW e \in Entries, Insert(e),
         hash' = hash, pc' = "idle", entry' \in Entries \cup {None},
         Capacity(old)' \in Nat, at' \in 0..Capacity(old)',
         old' \in Tables(Capacity(old)'), hole' \in DOMAIN slots, j' \in DOMAIN slots
  PROVE  Inv'
<1>1. TypeOK /\ ProbesUnbroken
  BY DEF Inv
<1>2. PICK i \in DOMAIN slots :
        /\ StopsAt(e.key, i)
        /\ IF slots[i].key = e.key
           THEN UNCHANGED <<slots, size, contents>>
           ELSE /\ slots' = [slots EXCEPT ![i] = e]
                /\ size' = size + 1
                /\ contents' = [contents EXCEPT ![e.key] = e.value]
  BY DEF Insert
<1>3. e.key \in Keys /\ e.value \in Values /\ e.key # kEmpty /\ e.value # kEmpty
  BY EmptyAssumption DEF Entries
<1>4. \A k \in DOMAIN old' : ~Pending(k)'
  BY DEF Pending
<1>5. CASE slots[i].key = e.key
  <2>1. UNCHANGED <<slots, size, contents>>
    BY <1>2, <1>5
  <2>2. cap' = cap /\ DOMAIN slots' = DOMAIN slots
    BY <2>1 DEF cap
  <2>3. TypeOK'
    BY <1>1, <2>1, <2>2 DEF TypeOK
  <2>4. \A p \in DOMAIN slots : /\ Occupied(p)' <=> Occupied(p)
                                /\ Live(p)' <=> Live(p)
                                /\ Live(p) <=> Occupied(p)
    BY <2>1 DEF Occupied, Live
  <2>5. ProbesUnbroken'
    <3>1. \A p, x : Passes(p, x)' <=> Passes(p, x)
      BY <2>1, <2>2 DEF Passes, Home
    <3> QED BY <1>1, <2>1, <2>4, <3>1 DEF ProbesUnbroken
  <2>6. UniqueInv'
    BY <1>4, <2>1, <2>4 DEF Inv, UniqueInv
  <2>7. ContentsInv'
    BY <1>4, <2>1, <2>4 DEF Inv, ContentsInv
  <2>8. Placed' = Placed
    BY <2>1, <2>4 DEF Placed
  <2>9. SizeInv' /\ HoleInv'
    BY <2>1, <2>2, <2>8 DEF Inv, SizeInv, HoleInv
  <2> QED BY <2>3, <2>5, <2>6, <2>7, <2>9 DEF Inv
<1>6. CASE slots[i].key # e.key
  <2>1. /\ slots' = [slots EXCEPT ![i] = e] /\ size' = size + 1
        /\ contents' = [contents EXCEPT ![e.key] = e.value]
    BY <1>2, <1>6
  <2>2. ~Occupied(i)
    BY <1>1, <1>2, <1>3, <1>6, StopsIff DEF Occupied
  <2>3. /\ slots' \in Tables(cap) /\ cap' = cap /\ DOMAIN slots' = DOMAIN slots
        /\ slots'[i] = e /\ Live(i)'
        /\ \A p \in DOMAIN slots : p # i => /\ slots'[p] = slots[p]
                                            /\ Live(p)' <=> Live(p)
        /\ \A p \in DOMAIN slots : Live(p) => p # i /\ slots[p].key # e.key
        /\ ProbesUnbroken'
        /\ e.key \notin Placed /\ Placed' = Placed \cup {e.key}
    BY <1>1, <1>2, <2>1, <2>2, Placing
  <2>4. /\ contents' \in [Keys -> Values \cup {kEmpty}]
        /\ contents'[e.key] = e.value
        /\ \A key \in Keys : key # e.key => contents'[key] = contents[key]
    BY <1>1, <1>3, <2>1 DEF TypeOK
  <2>5. TypeOK'
    <3>1. size' \in Nat
      BY <1>1, <2>1 DEF TypeOK
    <3> QED BY <1>1, <2>3, <2>4, <3>1 DEF TypeOK
  <2>6. UniqueInv'
    BY <1>4, <2>3 DEF Inv, UniqueInv
  <2>7. ContentsInv'
    <3>1. ASSUME NEW p \in DOMAIN slots, Live(p)'
          PROVE  contents'[slots'[p].key] = slots'[p].value
      <4>1. CASE p = i
        BY <2>3, <2>4, <4>1
      <4>2. CASE p # i
        <5>1. slots'[p] = slots[p] /\ Live(p) /\ slots[p].key # e.key
          BY <2>3, <3>1, <4>2
        <5>2. slots[p].key \in Keys
          BY <1>1, <5>1, SlotType DEF Live
        <5> QED BY <2>4, <5>1, <5>2 DEF Inv, ContentsInv
      <4> QED BY <4>1, <4>2
    <3>2. ASSUME NEW key \in Keys, contents'[key] # kEmpty
          PROVE  \E p \in DOMAIN slots : Live(p)' /\ slots'[p].key = key
      <4>1. CASE key = e.key
        BY <2>3, <4>1
      <4>2. CASE key # e.key
        <5>1. PICK p \in DOMAIN slots : Live(p) /\ slots[p].key = key
          BY <2>4, <3>2, <4>2 DEF Inv, ContentsInv
        <5> QED BY <2>3, <5>1
      <4> QED BY <4>1, <4>2
    <3> QED BY <1>4, <2>3, <3>1, <3>2 DEF ContentsInv
  <2>8. SizeInv'
    <3>1. Cardinality(Placed') = Cardinality(Placed) + 1
      BY <2>3, Finite, FS_AddElement
    <3>2. size = Cardinality(Placed)
      BY Finite DEF Inv, SizeInv
    <3> QED BY <2>1, <2>3, <3>1, <3>2, Finite DEF SizeInv
  <2> QED BY <2>3, <2>5, <2>6, <2>7, <2>8 DEF Inv, HoleInv
<1> QED BY <1>5, <1>6

LEMMA TryInsertStep ==
  ASSUME Inv, NEW key \in Keys, NEW value \in Values, TryInsert(key, value)
  PROVE  Inv'
<1> USE DEF TryInsert
<1>1. Entry(key, value) \in Entries
  BY DEF Entry, Entries
<1>2. \A i \in DOMAIN old : ~Pending(i)
  BY DEF Pending
<1>3. 2 * (Cardinality(Placed) + 1) <= cap
  BY Finite, Dom DEF Inv, SizeInv, NeedsRoom
<1>4. /\ TypeOK /\ Capacity(old)' = Capacity(old) /\ hole \in DOMAIN slots
      /\ j \in DOMAIN slots /\ entry \in Entries \cup {None}
      /\ Capacity(old) \in Nat /\ at \in 0..Capacity(old)
      /\ old \in Tables(Capacity(old))
  BY DEF Inv, TypeOK
<1> QED BY <1>1, <1>2, <1>3, <1>4, InsertStep

\* Of a full table every entry is pending, and the new one has room for them.
LEMMA StartRehashStep ==
  ASSUME Inv, NEW key \in Keys, NEW value \in Values, StartRehash(key, value)
  PROVE  Inv'
<1> USE DEF StartRehash
<1> DEFINE c == cap
<1>1. /\ c \in Nat /\ c >= 2 /\ 2 * c \in Nat /\ slots \in Tables(c)
      /\ DOMAIN slots = 0..(c - 1) /\ TypeOK
  BY Dom DEF Inv, TypeOK
<1>2. cap' = 2 * c /\ slots' = Unused(2 * c)
  BY <1>1, UnusedType DEF cap
<1> HIDE DEF c
<1>3. /\ slots' \in Tables(2 * c) /\ DOMAIN slots' = 0..(2 * c - 1)
      /\ \A p \in DOMAIN slots' : slots'[p] = None
  BY <1>1, <1>2, UnusedType
<1>4. \A p \in DOMAIN slots' : ~Occupied(p)' /\ ~Live(p)'
  BY <1>3, NoneType DEF Occupied, Live
<1>5. /\ old' = slots /\ at' = 0 /\ DOMAIN old' = DOMAIN slots
      /\ Capacity(old)' = c
  BY <1>1, CapacityOf
<1>6. \A i \in DOMAIN slots : /\ Pending(i)' <=> Live(i)
                              /\ Live(i) <=> Occupied(i)
  BY <1>1, <1>5 DEF Pending, Live, Occupied
<1>7. entry' \in Entries
  BY DEF Entry, Entries
<1>8. TypeOK'
  <2>1. hole \in DOMAIN slots /\ j \in DOMAIN slots
    BY DEF Inv, TypeOK
  <2>2. hole' \in DOMAIN slots' /\ j' \in DOMAIN slots'
    BY <1>1, <1>3, <2>1
  <2>3. cap' >= MinCapacity
    BY <1>1, <1>2, PositiveAssumption DEF TypeOK, c
  <2> QED BY <1>1, <1>2, <1>3, <1>5, <1>7, <2>2, <2>3 DEF TypeOK
<1>9. UniqueInv'
  BY <1>4, <1>5, <1>6 DEF Inv, UniqueInv
<1>10. ContentsInv'
  <2>1. \A i \in DOMAIN old : ~Pending(i)
    BY DEF Pending
  <2> QED BY <1>4, <1>5, <1>6, <2>1 DEF Inv, ContentsInv
<1>11. ProbesUnbroken' /\ HoleInv'
  BY <1>4 DEF ProbesUnbroken, HoleInv
<1>12. SizeInv'
  <2>1. Placed' = {}
    BY <1>4 DEF Placed
  <2>2. Contained' = Placed
    <3>1. \A i \in DOMAIN old : ~Pending(i)
      BY DEF Pending
    <3>2. \A k \in Placed : contents[k] # kEmpty
      BY <1>1, SlotType, EmptyAssumption DEF Placed, Inv, ContentsInv, Live
    <3> QED BY <3>1, <3>2 DEF Contained, Placed, Inv, ContentsInv
  <2>3. 2 * Cardinality(Placed) <= c
    BY <1>1, Finite DEF Inv, SizeInv, c
  <2>4. entry' # None
    BY <1>7, NoneType
  <2> QED BY <1>1, <1>2, <2>1, <2>2, <2>3, <2>4, Finite, FS_EmptySet DEF SizeInv
<1> QED BY <1>8, <1>9, <1>10, <1>11, <1>12 DEF Inv

\* The entry placed is pending no more; a used slot is passed over.
LEMMA PlaceUniqueStep == Inv /\ PlaceUnique => Inv'
<1> SUFFICES ASSUME Inv, PlaceUnique
             PROVE  Inv'
  OBVIOUS
<1> USE DEF PlaceUnique
<1>1. TypeOK /\ ProbesUnbroken /\ at \in DOMAIN old /\ at \in Nat
  BY Dom DEF Inv, TypeOK
<1>2. \A k \in DOMAIN old : Pending(k)' <=> Pending(k) /\ k # at
  BY <1>1, Dom DEF Pending
<1>3. /\ Capacity(old)' = Capacity(old) /\ at' \in 0..Capacity(old)
      /\ Contained' = Contained
  BY DEF Inv, TypeOK, Contained
<1>4. CASE old[at].key = kEmpty
  <2>1. UNCHANGED <<slots, size, pc, hash, contents, hole, j, entry, old>>
    BY <1>4
  <2>2. cap' = cap
    BY <2>1 DEF cap
  <2>3. TypeOK'
    BY <1>1, <1>3, <2>1, <2>2 DEF TypeOK
  <2>4. \A p : (Occupied(p)' <=> Occupied(p)) /\ (Live(p)' <=> Live(p))
    BY <2>1 DEF Occupied, Live
  <2>5. \A k \in DOMAIN old : Pending(k)' <=> Pending(k)
    BY <1>2, <1>4 DEF Pending
  <2>6. ProbesUnbroken'
    BY <1>1, <2>1, <2>2 DEF ProbesUnbroken, Occupied, Passes, Home
  <2>7. UniqueInv' /\ ContentsInv'
    BY <2>1, <2>4, <2>5 DEF Inv, UniqueInv, ContentsInv
  <2>8. Placed' = Placed
    BY <2>1, <2>4 DEF Placed
  <2>9. SizeInv' /\ HoleInv'
    BY <1>3, <2>1, <2>2, <2>8 DEF Inv, SizeInv, HoleInv
  <2> QED BY <2>3, <2>6, <2>7, <2>9 DEF Inv
<1>5. CASE old[at].key # kEmpty
  <2> DEFINE e == old[at]
  <2>1. e \in Entries /\ e.key \in Keys /\ Pending(at)
    BY <1>1, <1>5, OldType DEF Pending
  <2>2. PICK i \in DOMAIN slots :
          /\ StopsAt(e.key, i)
          /\ slots' = [slots EXCEPT ![i] = e] /\ size' = size + 1
    BY <1>5
  <2>3. ~Occupied(i)
    <3>1. slots[i].key = e.key => Live(i)
      BY <1>5 DEF Live, Occupied
    <3>2. slots[i].key # e.key
      BY <1>1, <2>1, <3>1 DEF Inv, UniqueInv
    <3> QED BY <1>1, <2>1, <2>2, <3>2, StopsIff DEF Occupied
  <2> HIDE DEF e
  <2>4. /\ slots' \in Tables(cap) /\ cap' = cap /\ DOMAIN slots' = DOMAIN slots
        /\ slots'[i] = e /\ Live(i)'
        /\ \A p \in DOMAIN slots : p # i => /\ slots'[p] = slots[p]
                                            /\ Live(p)' <=> Live(p)
        /\ \A p \in DOMAIN slots : Live(p) => p # i /\ slots[p].key # e.key
        /\ ProbesUnbroken'
        /\ e.key \notin Placed /\ Placed' = Placed \cup {e.key}
    BY <1>1, <2>1, <2>2, <2>3, Placing
  <2>5. TypeOK'
    <3>1. size' \in Nat
      BY <1>1, <2>2 DEF TypeOK
    <3> QED BY <1>1, <1>3, <2>4, <3>1 DEF TypeOK
  <2>6. UniqueInv'
    <3>1. ASSUME NEW k \in DOMAIN old, Pending(k)'
          PROVE  Pending(k) /\ k # at /\ old[k].key # e.key
      BY <1>1, <1>2, <2>1, <3>1 DEF Inv, UniqueInv, e
    <3>2. ASSUME NEW p \in DOMAIN slots, NEW k \in DOMAIN old, Live(p)', Pending(k)'
          PROVE  slots'[p].key # old[k].key
      <4>1. CASE p = i
        BY <2>4, <3>1, <3>2, <4>1
      <4>2. CASE p # i
        BY <2>4, <3>1, <3>2, <4>2 DEF Inv, UniqueInv
      <4> QED BY <4>1, <4>2
    <3>3. ASSUME NEW p \in DOMAIN slots, NEW q \in DOMAIN slots,
                 Live(p)', Live(q)', slots'[p].key = slots'[q].key
          PROVE  p = q
      BY <2>4, <3>3 DEF Inv, UniqueInv
    <3> QED BY <2>4, <3>1, <3>2, <3>3 DEF Inv, UniqueInv
  <2>7. ContentsInv'
    <3>1. ASSUME NEW p \in DOMAIN slots, Live(p)'
          PROVE  contents[slots'[p].key] = slots'[p].value
      <4>1. CASE p = i
        BY <1>1, <2>1, <2>4, <4>1 DEF Inv, ContentsInv, e
      <4>2. CASE p # i
        BY <2>4, <3>1, <4>2 DEF Inv, ContentsInv
      <4> QED BY <4>1, <4>2
    <3>2. ASSUME NEW key \in Keys, contents[key] # kEmpty
          PROVE  \/ \E p \in DOMAIN slots : Live(p)' /\ slots'[p].key = key
                 \/ \E k \in DOMAIN old : Pending(k)' /\ old[k].key = key
      <4>1. CASE \E p \in DOMAIN slots : Live(p) /\ slots[p].key = key
        BY <2>4, <4>1
      <4>2. ASSUME NEW k \in DOMAIN old, Pending(k), old[k].key = key
            PROVE  \/ \E p \in DOMAIN slots : Live(p)' /\ slots'[p].key = key
                   \/ Pending(k)'
        <5>1. CASE k = at
          BY <2>4, <4>2, <5>1 DEF e
        <5>2. CASE k # at
          BY <1>2, <4>2, <5>2
        <5> QED BY <5>1, <5>2
      <4> QED BY <3>2, <4>1, <4>2 DEF Inv, ContentsInv
    <3> QED BY <1>2, <2>4, <3>1, <3>2 DEF Inv, ContentsInv
  <2>8. SizeInv'
    <3>1. Cardinality(Placed') = Cardinality(Placed) + 1
      BY <2>4, Finite, FS_AddElement
    <3>2. Placed' \in SUBSET Contained
      <4>1. ASSUME NEW key \in Placed
            PROVE  contents[key] # kEmpty
        <5>1. PICK p \in DOMAIN slots : Live(p) /\ slots[p].key = key
          BY <4>1 DEF Placed
        <5>2. slots[p].value \in Values
          BY <1>1, <5>1, SlotType DEF Live
        <5> QED BY <5>1, <5>2, EmptyAssumption DEF Inv, ContentsInv
      <4>2. contents[e.key] # kEmpty
        <5>1. contents[e.key] = e.value /\ e.value \in Values
          BY <1>1, <2>1 DEF Inv, ContentsInv, e, Entries
        <5> QED BY <5>1, EmptyAssumption
      <4> QED BY <2>1, <2>4, <4>1, <4>2 DEF Contained, Placed
    <3>3. Cardinality(Placed') <= Cardinality(Contained)
      BY <3>2, Finite, FS_Subset
    <3>4. size = Cardinality(Placed) /\ 2 * (Cardinality(Contained) + 1) <= cap
          /\ entry # None
      BY Finite DEF Inv, SizeInv
    <3> QED BY <1>1, <1>3, <2>2, <2>4, <3>1, <3>3, <3>4, Finite, Dom DEF SizeInv
  <2> QED BY <2>4, <2>5, <2>6, <2>7, <2>8 DEF Inv, HoleInv
<1> QED BY <1>4, <1>5

LEMMA EndRehashStep == Inv /\ EndRehash => Inv'
<1> SUFFICES ASSUME Inv, EndRehash
             PROVE  Inv'
  OBVIOUS
<1> USE DEF EndRehash, Return
<1>1. \A i \in DOMAIN old : ~Pending(i)
  BY Dom DEF Inv, TypeOK, Pending
<1>2. Contained = Placed
  <2>1. ASSUME NEW key \in Placed
        PROVE  contents[key] # kEmpty
    <3>1. PICK p \in DOMAIN slots : Live(p) /\ slots[p].key = key
      BY <2>1 DEF Placed
    <3>2. slots[p].value \in Values
      BY <3>1, SlotType DEF Live, Inv
    <3> QED BY <3>1, <3>2, EmptyAssumption DEF Inv, ContentsInv
  <2> QED BY <1>1, <2>1 DEF Contained, Placed, Inv, ContentsInv
<1>3. 2 * (Cardinality(Placed) + 1) <= cap /\ entry \in Entries
  BY <1>2 DEF Inv, SizeInv, TypeOK
<1>4. /\ old' \in Tables(0) /\ Capacity(old)' = 0
  BY UnusedType
<1>5. 0 \in DOMAIN slots
  BY Dom DEF Inv
<1> QED BY <1>1, <1>3, <1>4, <1>5, InsertStep

\* The entry in the hole is live no more, and nothing has been looked at.
LEMMA StartEraseStep ==
  ASSUME Inv, NEW key \in Keys, StartErase(key)
  PROVE  Inv'
<1> USE DEF StartErase
<1>1. PICK i \in DOMAIN slots :
        /\ StopsAt(key, i) /\ slots[i].key = key
        /\ hole' = i /\ j' = After(i)
  OBVIOUS
<1>2. TypeOK /\ ProbesUnbroken /\ key # kEmpty /\ cap' = cap
  BY EmptyAssumption DEF Inv, cap
<1>3. \A p \in DOMAIN slots : /\ Occupied(p)' <=> Occupied(p)
                              /\ Live(p) <=> Occupied(p)
                              /\ Live(p)' <=> Live(p) /\ p # i
  BY <1>1 DEF Occupied, Live
<1>4. Live(i)
  BY <1>1, <1>2, <1>3 DEF Occupied
<1>5. /\ i \in 0..(cap - 1) /\ DOMAIN slots = 0..(cap - 1) /\ cap \in Nat
      /\ After(i) = IF i + 1 < cap THEN i + 1 ELSE 0
  BY <1>1, <1>2, Dom, AfterIs
<1>6. /\ contents' \in [Keys -> Values \cup {kEmpty}] /\ contents'[key] = kEmpty
      /\ \A k \in Keys : k # key => contents'[k] = contents[k]
  BY <1>2 DEF TypeOK
<1>7. TypeOK'
  BY <1>1, <1>2, <1>5, <1>6 DEF TypeOK
<1>8. ProbesUnbroken'
  <2>1. \A p, x : Passes(p, x)' <=> Passes(p, x)
    BY <1>2 DEF Passes, Home
  <2>2. \A p \in DOMAIN slots : ~LookedAt(p)'
    BY <1>1, <1>5 DEF LookedAt
  <2> QED BY <1>2, <1>3, <2>1, <2>2 DEF ProbesUnbroken
<1>9. \A k \in DOMAIN old : ~Pending(k) /\ ~Pending(k)'
  BY DEF Pending
<1>10. UniqueInv'
  BY <1>3, <1>9 DEF Inv, UniqueInv
<1>11. ContentsInv'
  <2>1. ASSUME NEW p \in DOMAIN slots, Live(p)'
        PROVE  contents'[slots[p].key] = slots[p].value
    <3>1. Live(p) /\ slots[p].key # key
      BY <1>1, <1>3, <1>4, <2>1 DEF Inv, UniqueInv
    <3> QED BY <1>2, <1>6, <3>1, SlotType DEF Inv, ContentsInv, Live
  <2>2. ASSUME NEW k \in Keys, contents'[k] # kEmpty
        PROVE  \E p \in DOMAIN slots : Live(p)' /\ slots[p].key = k
    <3>1. k # key /\ contents[k] # kEmpty
      BY <1>6, <2>2
    <3>2. PICK p \in DOMAIN slots : Live(p) /\ slots[p].key = k
      BY <1>9, <3>1 DEF Inv, ContentsInv
    <3> QED BY <1>1, <1>3, <3>1, <3>2
  <2> QED BY <1>9, <2>1, <2>2 DEF ContentsInv
<1>12. SizeInv'
  <2>1. key \in Placed
    BY <1>1, <1>4 DEF Placed
  <2>2. Placed' = Placed \ {key}
    <3>1. ASSUME NEW k \in Keys
          PROVE  (\E p \in DOMAIN slots : Live(p)' /\ slots[p].key = k)
                 <=> k # key /\ \E p \in DOMAIN slots : Live(p) /\ slots[p].key = k
      BY <1>1, <1>3, <1>4 DEF Inv, UniqueInv
    <3> QED BY <3>1 DEF Placed
  <2>3. Cardinality(Placed') = Cardinality(Placed) - 1
    BY <2>1, <2>2, Finite, FS_RemoveElement
  <2> QED BY <1>2, <2>3, Finite DEF Inv, SizeInv
<1>13. HoleInv'
  BY <1>1, <1>3, <1>4 DEF HoleInv
<1> QED BY <1>7, <1>8, <1>10, <1>11, <1>12, <1>13 DEF Inv

\* An entry stays when the hole is not on the way to it.
LEMMA StaysIff ==
  ASSUME TypeOK, NEW h \in DOMAIN slots, j # hole
  PROVE  Stays(h) <=> ~Way(h, j, hole)
<1>1. j \in 0..(cap - 1) /\ hole \in 0..(cap - 1) /\ h \in 0..(cap - 1) /\ cap \in Nat
  BY Dom DEF TypeOK
<1> QED BY <1>1 DEF Stays, Way

LEMMA ShiftStep == Inv /\ Shift => Inv'
<1> SUFFICES ASSUME Inv, Shift
             PROVE  Inv'
  OBVIOUS
<1> USE DEF Shift
<1>1. /\ TypeOK /\ ProbesUnbroken /\ Occupied(j) /\ Occupied(hole)
      /\ j \in DOMAIN slots /\ hole \in DOMAIN slots
      /\ slots[j].key \in Keys
  BY SlotType DEF Inv, TypeOK, HoleInv, Occupied
<1>2. /\ DOMAIN slots = 0..(cap - 1) /\ cap \in Nat /\ cap >= 2
      /\ j \in 0..(cap - 1) /\ hole \in 0..(cap - 1)
      /\ After(j) = IF j + 1 < cap THEN j + 1 ELSE 0
      /\ After(j) \in 0..(cap - 1)
  BY <1>1, Dom, AfterIs
<1>3. \A k \in DOMAIN old : ~Pending(k) /\ ~Pending(k)'
  BY DEF Pending
<1> DEFINE h == Home(slots[j].key)
<1>4. h \in DOMAIN slots
  BY <1>1, HomeType
<1>5. CASE Stays(h)
  <2>1. UNCHANGED <<slots, hole>> /\ cap' = cap
    BY <1>5 DEF cap
  <2>2. TypeOK'
    BY <1>1, <1>2, <2>1 DEF TypeOK
  <2>3. \A p : /\ Occupied(p)' <=> Occupied(p)
               /\ Live(p)' <=> Live(p)
    BY <2>1 DEF Occupied, Live
  <2>4. \A p, x : Passes(p, x)' <=> Passes(p, x)
    BY <2>1 DEF Passes, Home
  <2>5. ProbesUnbroken'
    <3>1. ASSUME NEW p \in DOMAIN slots, p # hole, LookedAt(p)'
          PROVE  LookedAt(p) \/ p = j
      BY <1>2, <2>1, <3>1 DEF LookedAt
    <3>2. j # hole => ~Passes(j, hole)
      BY <1>1, <1>4, <1>5, StaysIff, PassesIs
    <3> QED BY <1>1, <2>1, <2>3, <2>4, <3>1, <3>2 DEF ProbesUnbroken
  <2>6. Placed' = Placed
    BY <2>1, <2>3 DEF Placed
  <2>7. UniqueInv' /\ ContentsInv' /\ SizeInv' /\ HoleInv'
    BY <1>3, <2>1, <2>3, <2>6
    DEF Inv, UniqueInv, ContentsInv, SizeInv, HoleInv
  <2> QED BY <2>2, <2>5, <2>7 DEF Inv
<1>6. CASE ~Stays(h)
  <2>1. slots' = [slots EXCEPT ![hole] = slots[j]] /\ hole' = j
    BY <1>6
  <2>2. j # hole
    BY <1>2, <1>4, <1>6 DEF Stays
  <2>3. /\ slots' \in Tables(cap) /\ slots'[hole] = slots[j]
        /\ \A p \in DOMAIN slots : p # hole => slots'[p] = slots[p]
    BY <1>1, <1>2, <2>1 DEF TypeOK, Tables
  <2>4. cap' = cap /\ DOMAIN slots' = DOMAIN slots
    BY <1>2, <2>3, CapacityOf DEF cap
  <2>5. TypeOK'
    BY <1>1, <1>2, <2>1, <2>3, <2>4 DEF TypeOK
  <2>6. \A p \in DOMAIN slots :
          /\ Occupied(p)' <=> Occupied(p)
          /\ Live(p) <=> Occupied(p) /\ p # hole
          /\ Live(p)' <=> Occupied(p) /\ p # j
    BY <1>1, <2>1, <2>3 DEF Occupied, Live
  <2>7. ProbesUnbroken'
    <3>1. \A p \in DOMAIN slots : ~LookedAt(p)'
      BY <1>2, <2>1 DEF LookedAt
    <3>2. ASSUME NEW p \in DOMAIN slots, Live(p)',
                 NEW x \in DOMAIN slots, Passes(p, x)'
          PROVE  Occupied(x)
      <4>1. Way(Home(slots'[p].key), p, x)
        BY <2>4, <3>2 DEF Passes, Way, Home
      <4>2. CASE p = hole
        <5>1. Way(h, hole, x) /\ Way(h, j, hole)
          BY <1>1, <1>4, <1>6, <2>2, <2>3, <4>1, <4>2, StaysIff
        <5>2. Way(h, j, x)
          <6> HIDE DEF h
          <6> QED BY <1>2, <1>4, <5>1 DEF Way
        <5>3. Passes(j, x)
          BY <5>2, PassesIs
        <5> QED BY <1>1, <2>2, <5>3 DEF ProbesUnbroken
      <4>3. CASE p # hole
        <5>1. Passes(p, x) /\ Occupied(p)
          BY <2>3, <2>6, <3>2, <4>1, <4>3, PassesIs
        <5> QED BY <1>1, <4>3, <5>1 DEF ProbesUnbroken
      <4> QED BY <4>2, <4>3
    <3> QED BY <2>4, <2>6, <3>1, <3>2 DEF ProbesUnbroken, Live
  \* The live entry of j is now the hole's; the others are where they were.
  <2> DEFINE From(p) == IF p = hole THEN j ELSE p
  <2>8. \A p \in DOMAIN slots :
          Live(p)' => /\ From(p) \in DOMAIN slots /\ Live(From(p))
                      /\ slots'[p] = slots[From(p)]
    BY <1>1, <2>2, <2>3, <2>6
  <2>9. \A p \in DOMAIN slots :
          Live(p) => \E q \in DOMAIN slots : Live(q)' /\ slots'[q] = slots[p]
    BY <1>1, <2>2, <2>3, <2>6
  <2>10. UniqueInv'
    <3>1. ASSUME NEW p \in DOMAIN slots, NEW q \in DOMAIN slots,
                 Live(p)', Live(q)', slots'[p].key = slots'[q].key
          PROVE  p = q
      <4>1. From(p) = From(q)
        BY <2>8, <3>1 DEF Inv, UniqueInv
      <4>2. p # j /\ q # j
        BY <2>6, <3>1
      <4> QED BY <4>1, <4>2
    <3> QED BY <1>3, <2>4, <3>1 DEF UniqueInv
  <2>11. ContentsInv'
    <3>1. ASSUME NEW p \in DOMAIN slots, Live(p)'
          PROVE  contents[slots'[p].key] = slots'[p].value
      BY <2>8, <3>1 DEF Inv, ContentsInv
    <3>2. ASSUME NEW key \in Keys, contents[key] # kEmpty
          PROVE  \E q \in DOMAIN slots : Live(q)' /\ slots'[q].key = key
      BY <1>3, <2>9, <3>2 DEF Inv, ContentsInv
    <3> QED BY <1>3, <2>4, <3>1, <3>2 DEF ContentsInv
  <2>12. Placed' = Placed
    BY <2>4, <2>8, <2>9 DEF Placed
  <2>13. SizeInv' /\ HoleInv'
    BY <1>1, <2>1, <2>4, <2>6, <2>12 DEF Inv, SizeInv, HoleInv
  <2> QED BY <2>5, <2>7, <2>10, <2>11, <2>13 DEF Inv
<1> QED BY <1>5, <1>6

\* Beyond the unused slot no entry is reached through the hole.
LEMMA EndEraseStep == Inv /\ EndErase => Inv'
<1> SUFFICES ASSUME Inv, EndErase
             PROVE  Inv'
  OBVIOUS
<1> USE DEF EndErase, Return
<1>1. /\ TypeOK /\ ProbesUnbroken /\ ~Occupied(j) /\ Occupied(hole)
      /\ j \in DOMAIN slots /\ hole \in DOMAIN slots /\ j # hole
  BY DEF Inv, TypeOK, HoleInv, Occupied
<1>2. /\ DOMAIN slots = 0..(cap - 1) /\ cap \in Nat /\ cap >= 2
      /\ j \in 0..(cap - 1) /\ hole \in 0..(cap - 1)
  BY <1>1, Dom
<1>3. \A k \in DOMAIN old : ~Pending(k)
  BY DEF Pending
<1>4. /\ slots' \in Tables(cap) /\ slots'[hole] = None
      /\ \A p \in DOMAIN slots : p # hole => slots'[p] = slots[p]
  BY <1>1, <1>2 DEF TypeOK, Tables
<1>5. cap' = cap /\ DOMAIN slots' = DOMAIN slots
  BY <1>2, <1>4, CapacityOf DEF cap
<1>6. \A p \in DOMAIN slots :
        /\ Occupied(p)' <=> Live(p)
        /\ Live(p)' <=> Live(p)
        /\ Live(p) <=> Occupied(p) /\ p # hole
  BY <1>4, NoneType DEF Occupied, Live
<1>7. /\ old' \in Tables(0) /\ Capacity(old)' = 0
  BY UnusedType
<1>8. \A k \in DOMAIN old' : ~Pending(k)'
  BY DEF Pending
<1>9. size = Cardinality(Placed) + 1 /\ Placed' = Placed
  <2>1. Placed' = Placed
    BY <1>4, <1>5, <1>6 DEF Placed
  <2> QED BY <2>1 DEF Inv, SizeInv
<1>10. TypeOK'
  BY <1>1, <1>2, <1>4, <1>5, <1>7, <1>9, Finite DEF TypeOK
<1>11. ProbesUnbroken'
  <2>1. ASSUME NEW p \in DOMAIN slots, Live(p),
               NEW x \in DOMAIN slots, Passes(p, x)'
        PROVE  Live(x)
    <3>1. Way(Home(slots[p].key), p, x) /\ Passes(p, x)
      BY <1>4, <1>5, <1>6, <2>1, PassesIs DEF Passes, Way, Home
    <3>2. Occupied(x) /\ ~Passes(p, j)
      BY <1>1, <1>6, <2>1, <3>1 DEF ProbesUnbroken
    <3>3. x # hole
      <4> SUFFICES ASSUME x = hole
                   PROVE  FALSE
        OBVIOUS
      <4> DEFINE h == Home(slots[p].key)
      <4>1. h \in 0..(cap - 1) /\ p \in 0..(cap - 1) /\ p # hole /\ p # j
        BY <1>1, <1>2, <1>6, <2>1, SlotType, HomeType
      <4>2. ~LookedAt(p)
        BY <1>1, <1>6, <2>1, <3>1 DEF ProbesUnbroken
      <4>3. Way(h, p, hole) /\ ~Way(h, p, j)
        BY <3>1, <3>2, PassesIs
      <4> HIDE DEF h
      <4> QED BY <1>1, <1>2, <4>1, <4>2, <4>3 DEF Way, LookedAt
    <3> QED BY <1>6, <3>2, <3>3
  <2> QED BY <1>5, <1>6, <2>1 DEF ProbesUnbroken
<1>12. UniqueInv'
  BY <1>4, <1>5, <1>6, <1>8 DEF Inv, UniqueInv
<1>13. ContentsInv'
  BY <1>3, <1>4, <1>5, <1>6, <1>8 DEF Inv, ContentsInv
<1>14. SizeInv' /\ HoleInv'
  BY <1>2, <1>5, <1>9, Finite DEF Inv, SizeInv, HoleInv
<1> QED BY <1>10, <1>11, <1>12, <1>13, <1>14 DEF Inv

LEMMA NextInv == Inv /\ [Next]_vars => Inv'
<1> SUFFICES ASSUME Inv, [Next]_vars
             PROVE  Inv'
  OBVIOUS
<1>1. ASSUME NEW key \in Keys, NEW value \in Values, TryInsert(key, value)
      PROVE  Inv'
  BY <1>1, TryInsertStep
<1>2. ASSUME NEW key \in Keys, NEW value \in Values, StartRehash(key, value)
      PROVE  Inv'
  BY <1>2, StartRehashStep
<1>3. CASE PlaceUnique
  BY <1>3, PlaceUniqueStep
<1>4. CASE EndRehash
  BY <1>4, EndRehashStep
<1>5. ASSUME NEW key \in Keys, StartErase(key)
      PROVE  Inv'
  BY <1>5, StartEraseStep
<1>6. CASE Shift
  BY <1>6, ShiftStep
<1>7. CASE EndErase
  BY <1>7, EndEraseStep
<1>8. CASE UNCHANGED vars
  <2>1. UNCHANGED <<cap, Placed, Contained>>
    BY <1>8 DEF vars, cap, Placed, Contained, Live, Occupied
  <2> QED
    BY <1>8, <2>1
    DEF Inv, TypeOK, ProbesUnbroken, UniqueInv, ContentsInv, SizeInv, HoleInv,
        Live, Occupied, Pending, LookedAt, Passes, Home, vars
<1> QED
  BY <1>1, <1>2, <1>3, <1>4, <1>5, <1>6, <1>7, <1>8
  DEF Next, Running, EraseAbsent

(***************************************************************************)
(* The theorems.                                                           *)
(***************************************************************************)

LEMMA Invariant == Spec => []Inv
<1>1. Init => Inv
  BY InitInv
<1>2. Inv /\ [Next]_vars => Inv'
  BY NextInv
<1> QED BY <1>1, <1>2, PTL DEF Spec

\* Every variable of the table and of a call in it keeps its type.
THEOREM TypeCorrect == Spec => []TypeOK
<1>1. Inv => TypeOK
  BY DEF Inv
<1> QED BY <1>1, Invariant, PTL

\* OrderIndex.hpp's "every entry stays reachable from its home without
\* tombstones": after every step of rehash() and of erase(), for every hash.
THEOREM NoProbeIsBroken == Spec => []ProbesUnbroken
<1>1. Inv => ProbesUnbroken
  BY DEF Inv
<1> QED BY <1>1, Invariant, PTL

\* A table at most half full has an unused slot: otherwise its keys, being
\* different, would be as many as its slots.
LEMMA RoomLeft ==
  ASSUME Inv, pc = "idle"
  PROVE  \E p \in DOMAIN slots : ~Occupied(p)
<1> SUFFICES ASSUME \A p \in DOMAIN slots : Occupied(p)
             PROVE  FALSE
  OBVIOUS
<1> DEFINE f == [p \in DOMAIN slots |-> slots[p].key]
<1>1. \A p \in DOMAIN slots : Live(p)
  BY DEF Live
<1>2. f \in Injection(DOMAIN slots, Placed)
  <2>1. f \in [DOMAIN slots -> Placed]
    BY <1>1, SlotType DEF Placed, Live, Inv
  <2>2. \A p, q \in DOMAIN slots : f[p] = f[q] => p = q
    BY <1>1 DEF Inv, UniqueInv
  <2> QED BY <2>1, <2>2 DEF Injection, IsInjective
<1>3. Cardinality(DOMAIN slots) <= Cardinality(Placed)
  BY <1>2, Finite, FS_Injection
<1>4. Cardinality(DOMAIN slots) = cap
  BY DEF cap, Capacity
<1> QED BY <1>3, <1>4, Finite, Dom DEF Inv, SizeInv

\* OrderIndex.hpp is a map for every hash of its keys: between calls find() has
\* the value tryInsert() put in and erase() has not taken out, a key that is not
\* in the table is not found and ends its probe, size() counts the keys, and in
\* the middle of a call no probe is cut short.
THEOREM IsAMap == Spec => []IsTheMap
<1>1. ASSUME Inv, pc = "idle"
      PROVE  /\ size = Cardinality({key \in Keys : contents[key] # kEmpty})
             /\ 2 * size <= cap
             /\ \A key \in Keys :
                  IF contents[key] # kEmpty THEN Finds(key, contents[key])
                  ELSE \E i \in DOMAIN slots : StopsAt(key, i) /\ ~Occupied(i)
  <2>1. TypeOK /\ ProbesUnbroken /\ UniqueInv /\ \A i \in DOMAIN old : ~Pending(i)
    BY <1>1 DEF Inv, Pending
  <2>2. \A p \in DOMAIN slots : Live(p) <=> Occupied(p)
    BY <1>1 DEF Live
  <2>3. Contained = Placed
    <3>1. ASSUME NEW key \in Placed
          PROVE  contents[key] # kEmpty
      <4>1. PICK p \in DOMAIN slots : Live(p) /\ slots[p].key = key
        BY <3>1 DEF Placed
      <4>2. slots[p].value \in Values
        BY <2>1, <4>1, SlotType DEF Live
      <4> QED BY <1>1, <4>1, <4>2, EmptyAssumption DEF Inv, ContentsInv
    <3> QED BY <1>1, <2>1, <3>1 DEF Contained, Placed, Inv, ContentsInv
  <2>4. size = Cardinality(Contained) /\ 2 * size <= cap
    BY <1>1, <2>3, Finite DEF Inv, SizeInv
  <2>5. ASSUME NEW key \in Keys, contents[key] # kEmpty
        PROVE  Finds(key, contents[key])
    <3>1. PICK p \in DOMAIN slots : Live(p) /\ slots[p].key = key
      BY <1>1, <2>1, <2>5 DEF Inv, ContentsInv
    <3>2. StopsAt(key, p)
      BY <1>1, <2>1, <3>1, LiveThen
    <3>3. slots[p] = Entry(key, contents[key])
      <4>1. slots[p] \in Entries /\ contents[key] = slots[p].value
        BY <1>1, <2>1, <3>1, SlotType DEF Live, Inv, ContentsInv
      <4> QED BY <3>1, <4>1 DEF Entries, Entry
    <3> QED BY <3>2, <3>3 DEF Finds
  <2>6. ASSUME NEW key \in Keys, contents[key] = kEmpty
        PROVE  \E i \in DOMAIN slots : StopsAt(key, i) /\ ~Occupied(i)
    <3>1. ASSUME NEW p \in DOMAIN slots
          PROVE  slots[p].key # key
      <4> SUFFICES ASSUME slots[p].key = key
                   PROVE  FALSE
        OBVIOUS
      <4>1. Live(p)
        BY <2>2, EmptyAssumption DEF Occupied
      <4>2. key \in Contained
        BY <2>3, <4>1 DEF Placed
      <4> QED BY <2>6, <4>2 DEF Contained
    <3> QED BY <1>1, <2>1, <3>1, RoomLeft, ProbeEnds
  <2> QED BY <2>4, <2>5, <2>6 DEF Contained
<1>2. Inv => AnswersAreRight
  BY <1>1 DEF AnswersAreRight
<1>3. Inv => IsTheMap
  BY <1>2 DEF Inv, IsTheMap
<1> QED BY <1>3, Invariant, PTL

-----------------------------------------------------------------------------
(* The pool.                                                               *)

HoldersHaveObjects ==
  \A u \in Users : holds[u] # Null =>
    \E value \in Objects : memory[holds[u]] = Object(value)

PoolInv ==
  /\ PoolTypeOK
  /\ SlotsPartitioned
  /\ FreeListIntact
  /\ HoldersHaveObjects

USE BlockAssumption, NullAssumption

LEMMA NullIsNoSlot == \A n \in Nat : Null \notin SlotsOf(n)
  BY DEF SlotsOf

\* The three kinds of contents differ.
LEMMA KindsDiffer ==
  /\ \A value, next : Object(value) # FreeSlot(next) /\ Object(value) # Raw
  /\ \A v, w : Object(v) = Object(w) => v = w
  /\ \A v, w : FreeSlot(v) = FreeSlot(w) => v = w
  /\ \A v : Object(v).kind = "object" /\ Object(v).value = v
  /\ \A v : FreeSlot(v).kind # "object" /\ FreeSlot(v).next = v
  /\ Raw.kind # "object"
  BY DEF Object, FreeSlot, Raw

LEMMA InitCorrect == PoolInit => PoolInv
  <1> SUFFICES ASSUME PoolInit PROVE PoolInv
    OBVIOUS
  <1>1. PoolTypeOK
    BY DEF PoolInit, PoolTypeOK, Slots, Contents
  <1>2. SlotsPartitioned
    BY DEF PoolInit, SlotsPartitioned, Free, HandedOut, Slots, SlotsOf
  <1>3. FreeListIntact
    BY DEF PoolInit, FreeListIntact, LinkAfter
  <1>4. HoldersHaveObjects
    BY DEF PoolInit, HoldersHaveObjects
  <1> QED
    BY <1>1, <1>2, <1>3, <1>4 DEF PoolInv

\* A user takes a slot that nobody holds, from the free list or beyond it.
LEMMA TakingASlot ==
  ASSUME PoolTypeOK, SlotsPartitioned, NEW u \in Users, NEW slot, slot # Null,
         \A w \in Users : holds[w] # slot,
         holds' = [holds EXCEPT ![u] = slot], holds[u] = Null,
         \A m, n \in DOMAIN freeList' : freeList'[m] = freeList'[n] => m = n,
         Free' = Free \ {slot}, HandedOut' = HandedOut \cup {slot}
  PROVE  SlotsPartitioned'
  <1>1. /\ DOMAIN holds = Users
        /\ \A w \in Users : holds'[w] = IF w = u THEN slot ELSE holds[w]
    BY DEF PoolTypeOK
  <1>2. \A v, w \in Users : holds'[v] = holds'[w] /\ holds'[v] # Null => v = w
    BY <1>1 DEF SlotsPartitioned
  <1>3. \A w \in Users : holds'[w] \notin Free'
    BY <1>1 DEF SlotsPartitioned
  <1>4. ASSUME NEW s \in HandedOut' PROVE s \in Free' \/ \E w \in Users : holds'[w] = s
    <2>1. CASE s = slot
      BY <1>1, <2>1
    <2>2. CASE s # slot
      <3>1. s \in HandedOut /\ (s \in Free => s \in Free')
        BY <2>2
      <3>2. CASE s \in Free
        BY <3>1, <3>2
      <3>3. CASE s \notin Free
        <4>1. PICK w \in Users : holds[w] = s
          BY <3>1, <3>3 DEF SlotsPartitioned
        <4>2. w # u
          BY <4>1, <3>1, NullIsNoSlot DEF HandedOut, Slots, PoolTypeOK
        <4> QED
          BY <1>1, <4>1, <4>2
      <3> QED
        BY <3>2, <3>3
    <2> QED
      BY <2>1, <2>2
  <1>5. Free' \subseteq HandedOut'
    BY DEF SlotsPartitioned
  <1>6. \A w \in Users : holds'[w] \in HandedOut' \cup {Null}
    BY <1>1 DEF SlotsPartitioned
  <1> QED
    BY <1>2, <1>3, <1>4, <1>5, <1>6 DEF SlotsPartitioned

-----------------------------------------------------------------------------
(* acquire() of a released slot.                                           *)

LEMMA AcquireReleasedStep ==
  ASSUME NEW u \in Users, NEW value \in Objects, PoolInv, AcquireReleased(u, value)
  PROVE  PoolInv'
  <1> USE DEF PoolInv
  <1>1. /\ freeList \in Seq(Slots) /\ freeList # <<>>
        /\ freeHead = freeList[1] /\ freeHead \in Slots
        /\ memory[freeHead] = FreeSlot(LinkAfter(1))
    BY DEF AcquireReleased, PoolTypeOK, FreeListIntact, LinkAfter
  <1>2. /\ freeList' = Tail(freeList) /\ freeList' \in Seq(Slots)
        /\ Len(freeList') = Len(freeList) - 1
        /\ \A n \in DOMAIN freeList' :
             n + 1 \in DOMAIN freeList /\ freeList'[n] = freeList[n + 1]
    BY <1>1 DEF AcquireReleased
  <1>3. freeHead' = LinkAfter(1)
    BY <1>1, KindsDiffer DEF AcquireReleased
  <1>4. Slots' = Slots /\ HandedOut' = HandedOut
    BY DEF AcquireReleased, Slots, HandedOut
  <1>5. /\ memory \in [Slots -> Contents]
        /\ memory' = [memory EXCEPT ![freeHead] = Object(value)]
        /\ holds \in [Users -> Slots \cup {Null}]
        /\ holds' = [holds EXCEPT ![u] = freeHead]
    BY DEF AcquireReleased, PoolTypeOK
  <1>6. Contents' = Contents /\ Object(value) \in Contents
    BY <1>4 DEF Contents
  <1>7. PoolTypeOK'
    <2>1. freeHead' \in Slots \cup {Null}
      BY <1>1, <1>3 DEF LinkAfter
    <2> QED
      BY <2>1, <1>1, <1>2, <1>4, <1>5, <1>6 DEF AcquireReleased, PoolTypeOK
  <1>8. Free' = Free \ {freeHead} /\ freeHead \in Free
    <2>1. \A n \in DOMAIN freeList : n # 1 => n - 1 \in DOMAIN freeList'
      BY <1>1, <1>2
    <2>2. \A n \in DOMAIN freeList : n # 1 => freeList[n] # freeHead
      BY <1>1 DEF SlotsPartitioned
    <2>3. \A n \in DOMAIN freeList : n # 1 => freeList[n] = freeList'[n - 1]
      BY <1>1, <1>2, <2>1
    <2> QED
      BY <1>1, <1>2, <2>1, <2>2, <2>3 DEF Free
  <1>9. SlotsPartitioned'
    <2>1. \A m, n \in DOMAIN freeList' : freeList'[m] = freeList'[n] => m = n
      <3> SUFFICES ASSUME NEW m \in DOMAIN freeList', NEW n \in DOMAIN freeList',
                          freeList'[m] = freeList'[n]
                   PROVE  m = n
        OBVIOUS
      <3>1. m + 1 = n + 1
        BY <1>2 DEF SlotsPartitioned
      <3> QED
        BY <1>2, <3>1
    <2>2. /\ freeHead \in HandedOut /\ freeHead # Null
          /\ \A w \in Users : holds[w] # freeHead
      BY <1>8 DEF SlotsPartitioned, AcquireReleased
    <2>3. PoolTypeOK /\ SlotsPartitioned /\ holds[u] = Null
      BY DEF AcquireReleased
    <2>4. HandedOut' = HandedOut \cup {freeHead}
      BY <1>4, <2>2
    <2> QED
      BY <1>5, <1>8, <2>1, <2>2, <2>3, <2>4, TakingASlot
  <1>10. FreeListIntact'
    <2>1. \A n \in DOMAIN freeList' : freeList'[n] # freeHead
      BY <1>8 DEF Free
    <2>2. \A n \in DOMAIN freeList' : LinkAfter(n)' = LinkAfter(n + 1)
      BY <1>1, <1>2 DEF LinkAfter
    <2>3. \A n \in DOMAIN freeList' : memory'[freeList'[n]] = memory[freeList[n + 1]]
      BY <1>1, <1>2, <1>5, <2>1
    <2>4. LinkAfter(0)' = LinkAfter(1)
      BY <1>1, <1>2 DEF LinkAfter
    <2> QED
      BY <1>1, <1>2, <1>3, <2>2, <2>3, <2>4 DEF FreeListIntact
  <1>11. HoldersHaveObjects'
    <2>1. \A w \in Users : w # u /\ holds[w] # Null => holds[w] # freeHead
      BY <1>8 DEF SlotsPartitioned
    <2> QED
      BY <1>1, <1>5, <2>1 DEF HoldersHaveObjects
  <1> QED
    BY <1>7, <1>9, <1>10, <1>11

-----------------------------------------------------------------------------
(* acquire() of an unused slot, in the newest block or in a new one.       *)

\* With no released slot at hand the free list is empty.
LEMMA NoneReleased ==
  ASSUME PoolTypeOK, FreeListIntact, freeHead = Null
  PROVE  freeList = <<>> /\ Free = {}
  <1>1. freeList \in Seq(Slots) /\ blocks \in Nat
    BY DEF PoolTypeOK
  <1>2. ASSUME freeList # <<>> PROVE FALSE
    <2>1. freeHead = freeList[1] /\ freeList[1] \in Slots
      BY <1>1, <1>2 DEF FreeListIntact, LinkAfter
    <2> QED
      BY <1>1, <2>1, NullIsNoSlot DEF Slots
  <1> QED
    BY <1>2 DEF Free

LEMMA AcquireUnusedStep ==
  ASSUME NEW u \in Users, NEW value \in Objects, PoolInv, AcquireUnused(u, value)
  PROVE  PoolInv'
  <1> USE DEF PoolInv
  <1> DEFINE slot == <<blocks, used>>
  <1>1. freeList = <<>> /\ freeList' = <<>> /\ Free = {} /\ Free' = {}
    BY NoneReleased DEF AcquireUnused, Free
  <1>2. /\ slot \in Slots /\ slot \notin HandedOut /\ Slots' = Slots
        /\ HandedOut' = HandedOut \cup {slot}
        /\ used' \in 0..BlockSize
    BY DEF AcquireUnused, Full, UsedNext, PoolTypeOK, Slots, SlotsOf, HandedOut
  <1>3. /\ memory \in [Slots -> Contents]
        /\ memory' = [memory EXCEPT ![slot] = Object(value)]
        /\ holds \in [Users -> Slots \cup {Null}]
        /\ holds' = [holds EXCEPT ![u] = slot]
        /\ holds[u] = Null
    BY DEF AcquireUnused, PoolTypeOK
  <1>4. PoolTypeOK'
    <2>1. Contents' = Contents /\ Object(value) \in Contents
      BY <1>2 DEF Contents
    <2> QED
      BY <1>1, <1>2, <1>3, <2>1 DEF AcquireUnused, PoolTypeOK
  <1>5. SlotsPartitioned'
    <2>1. \A w \in Users : holds[w] # slot
      BY <1>2, NullIsNoSlot DEF SlotsPartitioned, PoolTypeOK, Slots
    <2>2. slot # Null
      BY NullAssumption DEF PoolTypeOK
    <2>3. Free' = Free \ {slot} /\ HandedOut' = HandedOut \cup {slot}
      BY <1>1, <1>2
    <2>4. \A m, n \in DOMAIN freeList' : freeList'[m] = freeList'[n] => m = n
      BY <1>1
    <2>5. PoolTypeOK /\ SlotsPartitioned
      OBVIOUS
    <2> HIDE DEF slot
    <2> QED
      BY <1>3, <2>1, <2>2, <2>3, <2>4, <2>5, TakingASlot
  <1>6. FreeListIntact'
    BY <1>1 DEF AcquireUnused, FreeListIntact, LinkAfter
  <1>7. HoldersHaveObjects'
    <2>1. \A w \in Users : holds[w] # Null => holds[w] \in Slots /\ holds[w] # slot
      BY <1>2, <1>3 DEF SlotsPartitioned
    <2> QED
      BY <1>2, <1>3, <2>1 DEF HoldersHaveObjects
  <1> QED
    BY <1>4, <1>5, <1>6, <1>7

LEMMA AcquireInNewBlockStep ==
  ASSUME NEW u \in Users, NEW value \in Objects, PoolInv, AcquireInNewBlock(u, value)
  PROVE  PoolInv'
  <1> USE DEF PoolInv
  <1> DEFINE slot == <<blocks + 1, 0>>
  <1>1. freeList = <<>> /\ freeList' = <<>> /\ Free = {} /\ Free' = {}
    BY NoneReleased DEF AcquireInNewBlock, Free
  <1>2. /\ Slots \subseteq Slots' /\ slot \in Slots' /\ slot \notin Slots
        /\ HandedOut = Slots /\ HandedOut' = Slots \cup {slot}
    BY DEF AcquireInNewBlock, Full, PoolTypeOK, Slots, SlotsOf, HandedOut
  <1>3. /\ memory \in [Slots -> Contents]
        /\ memory' = [s \in Slots' |->
             IF s = slot THEN Object(value)
             ELSE IF s \in Slots THEN memory[s] ELSE Raw]
        /\ holds \in [Users -> Slots \cup {Null}]
        /\ holds' = [holds EXCEPT ![u] = slot]
        /\ holds[u] = Null
    BY DEF AcquireInNewBlock, PoolTypeOK, Slots
  <1>4. PoolTypeOK'
    <2>1. Contents \subseteq Contents' /\ Object(value) \in Contents' /\ Raw \in Contents'
      BY <1>2 DEF Contents
    <2>2. memory' \in [Slots' -> Contents']
      BY <1>2, <1>3, <2>1
    <2>3. holds' \in [Users -> Slots' \cup {Null}]
      BY <1>2, <1>3
    <2> QED
      BY <1>1, <2>2, <2>3 DEF AcquireInNewBlock, PoolTypeOK
  <1>5. SlotsPartitioned'
    <2>1. \A w \in Users : holds[w] # slot
      BY <1>2, <1>3, NullIsNoSlot DEF PoolTypeOK
    <2>2. slot # Null
      BY NullAssumption DEF PoolTypeOK
    <2>3. Free' = Free \ {slot} /\ HandedOut' = HandedOut \cup {slot}
      BY <1>1, <1>2
    <2>4. \A m, n \in DOMAIN freeList' : freeList'[m] = freeList'[n] => m = n
      BY <1>1
    <2>5. PoolTypeOK /\ SlotsPartitioned
      OBVIOUS
    <2> HIDE DEF slot
    <2> QED
      BY <1>3, <2>1, <2>2, <2>3, <2>4, <2>5, TakingASlot
  <1>6. FreeListIntact'
    BY <1>1 DEF AcquireInNewBlock, FreeListIntact, LinkAfter
  <1>7. HoldersHaveObjects'
    <2>1. \A w \in Users : holds[w] # Null => holds[w] \in Slots /\ holds[w] # slot
      BY <1>2, <1>3
    <2> QED
      BY <1>2, <1>3, <2>1 DEF HoldersHaveObjects
  <1> QED
    BY <1>4, <1>5, <1>6, <1>7

-----------------------------------------------------------------------------
(* The other steps.                                                        *)

LEMMA WriteStep ==
  ASSUME NEW u \in Users, NEW value \in Objects, PoolInv, Write(u, value)
  PROVE  PoolInv'
  <1> USE DEF PoolInv
  <1>1. /\ holds[u] \in Slots /\ holds[u] \notin Free
        /\ memory \in [Slots -> Contents]
        /\ memory' = [memory EXCEPT ![holds[u]] = Object(value)]
        /\ UNCHANGED <<blocks, used, freeHead, holds, freeList>>
    BY DEF Write, PoolTypeOK, SlotsPartitioned
  <1>2. Slots' = Slots /\ Contents' = Contents /\ Object(value) \in Contents
    BY <1>1 DEF Slots, Contents
  <1>3. PoolTypeOK'
    BY <1>1, <1>2 DEF PoolTypeOK
  <1>4. SlotsPartitioned'
    BY <1>1, <1>2 DEF SlotsPartitioned, Free, HandedOut
  <1>5. FreeListIntact'
    BY <1>1 DEF FreeListIntact, LinkAfter, Free, PoolTypeOK
  <1>6. HoldersHaveObjects'
    BY <1>1 DEF HoldersHaveObjects, PoolTypeOK
  <1> QED
    BY <1>3, <1>4, <1>5, <1>6

LEMMA ReleaseStep ==
  ASSUME NEW u \in Users, PoolInv, Release(u)
  PROVE  PoolInv'
  <1> USE DEF PoolInv
  <1> DEFINE slot == holds[u]
  <1>1. /\ slot \in Slots /\ slot \notin Free /\ slot # Null /\ slot \in HandedOut
        /\ holds \in [Users -> Slots \cup {Null}]
        /\ holds' = [holds EXCEPT ![u] = Null]
        /\ memory \in [Slots -> Contents]
        /\ memory' = [memory EXCEPT ![slot] = FreeSlot(freeHead)]
        /\ freeHead' = slot /\ UNCHANGED <<blocks, used>>
    BY DEF Release, Link, PoolTypeOK, SlotsPartitioned
  <1>2. Slots' = Slots /\ Contents' = Contents /\ HandedOut' = HandedOut
    BY <1>1 DEF Slots, Contents, HandedOut
  <1>3. /\ freeList \in Seq(Slots) /\ freeList' \in Seq(Slots)
        /\ Len(freeList') = Len(freeList) + 1 /\ freeList'[1] = slot
        /\ \A n \in DOMAIN freeList : freeList'[n + 1] = freeList[n]
        /\ \A n \in DOMAIN freeList' : n # 1 =>
             n - 1 \in DOMAIN freeList /\ freeList'[n] = freeList[n - 1]
    <2>1. freeList \in Seq(Slots) /\ freeList' = <<slot>> \o freeList
      BY DEF Release, PoolTypeOK
    <2> QED
      BY <1>1, <2>1
  <1>4. Free' = Free \cup {slot}
    <2>1. \A n \in DOMAIN freeList : n + 1 \in DOMAIN freeList'
      BY <1>3
    <2>2. 1 \in DOMAIN freeList'
      BY <1>3
    <2>3. ASSUME NEW s \in Free' PROVE s \in Free \cup {slot}
      <3>1. PICK n \in DOMAIN freeList' : freeList'[n] = s
        BY DEF Free
      <3> QED
        BY <1>3, <3>1 DEF Free
    <2>4. ASSUME NEW s \in Free PROVE s \in Free'
      <3>1. PICK n \in DOMAIN freeList : freeList[n] = s
        BY DEF Free
      <3> QED
        BY <1>3, <2>1, <3>1 DEF Free
    <2>5. slot \in Free'
      BY <1>3, <2>2 DEF Free
    <2> QED
      BY <2>3, <2>4, <2>5
  <1>5. \A w \in Users : w # u => holds'[w] = holds[w] /\ holds[w] # slot
    BY <1>1 DEF SlotsPartitioned
  <1>6. PoolTypeOK'
    <2>1. FreeSlot(freeHead) \in Contents /\ freeHead' \in Slots'
      BY <1>1, <1>2 DEF Contents, PoolTypeOK
    <2> QED
      BY <1>1, <1>2, <1>3, <2>1 DEF PoolTypeOK
  <1>7. SlotsPartitioned'
    <2>1. \A v, w \in Users : holds'[v] = holds'[w] /\ holds'[v] # Null => v = w
      BY <1>1 DEF SlotsPartitioned
    <2>2. \A m, n \in DOMAIN freeList' : freeList'[m] = freeList'[n] => m = n
      <3>1. \A n \in DOMAIN freeList : freeList[n] # slot
        BY <1>1 DEF Free
      <3> SUFFICES ASSUME NEW m \in DOMAIN freeList', NEW n \in DOMAIN freeList',
                          freeList'[m] = freeList'[n], m # n
                   PROVE  FALSE
        OBVIOUS
      <3>2. m # 1 /\ n # 1
        BY <1>3, <3>1
      <3>3. m - 1 = n - 1
        BY <1>3, <3>2 DEF SlotsPartitioned
      <3> QED
        BY <1>3, <3>3
    <2>3. \A w \in Users : holds'[w] \notin Free'
      <3>1. Null \notin Free'
        BY <1>1, <1>4, NullIsNoSlot DEF SlotsPartitioned, HandedOut, Slots, PoolTypeOK
      <3> QED
        BY <1>1, <1>4, <1>5, <3>1 DEF SlotsPartitioned
    <2>4. \A s \in HandedOut' : s \in Free' \/ \E w \in Users : holds'[w] = s
      <3> SUFFICES ASSUME NEW s \in HandedOut, s # slot, s \notin Free
                   PROVE  \E w \in Users : holds'[w] = s
        BY <1>2, <1>4
      <3>1. PICK w \in Users : holds[w] = s
        BY DEF SlotsPartitioned
      <3> QED
        BY <1>5, <3>1
    <2>5. Free' \subseteq HandedOut'
      BY <1>1, <1>2, <1>4 DEF SlotsPartitioned
    <2>6. \A w \in Users : holds'[w] \in HandedOut' \cup {Null}
      BY <1>1, <1>2 DEF SlotsPartitioned
    <2> QED
      BY <2>1, <2>2, <2>3, <2>4, <2>5, <2>6 DEF SlotsPartitioned
  <1>8. FreeListIntact'
    <2>1. LinkAfter(0)' = slot /\ LinkAfter(1)' = freeHead
      BY <1>3 DEF LinkAfter, FreeListIntact
    <2>2. ASSUME NEW n \in DOMAIN freeList', n # 1
          PROVE  memory'[freeList'[n]] = FreeSlot(LinkAfter(n)')
      <3>1. /\ n - 1 \in DOMAIN freeList /\ freeList'[n] = freeList[n - 1]
            /\ freeList[n - 1] \in Slots /\ freeList[n - 1] # slot
        BY <1>1, <1>3, <2>2 DEF Free
      <3>2. LinkAfter(n)' = LinkAfter(n - 1)
        BY <1>3, <3>1 DEF LinkAfter
      <3> QED
        BY <1>1, <3>1, <3>2 DEF FreeListIntact
    <2>3. memory'[freeList'[1]] = FreeSlot(LinkAfter(1)')
      BY <1>1, <1>3, <2>1
    <2> QED
      BY <1>1, <2>1, <2>2, <2>3 DEF FreeListIntact
  <1>9. HoldersHaveObjects'
    BY <1>1, <1>5 DEF HoldersHaveObjects
  <1> QED
    BY <1>6, <1>7, <1>8, <1>9

LEMMA StutteringStep == PoolInv /\ UNCHANGED poolVars => PoolInv'
  BY DEF PoolInv, poolVars, PoolTypeOK, SlotsPartitioned, FreeListIntact, HoldersHaveObjects,
         Slots, Contents, Free, HandedOut, LinkAfter

LEMMA NextCorrect == PoolInv /\ [PoolNext]_poolVars => PoolInv'
  <1> SUFFICES ASSUME PoolInv, [PoolNext]_poolVars PROVE PoolInv'
    OBVIOUS
  <1>1. CASE UNCHANGED poolVars
    BY <1>1, StutteringStep
  <1>2. ASSUME NEW u \in Users, NEW value \in Objects, AcquireReleased(u, value)
        PROVE  PoolInv'
    BY <1>2, AcquireReleasedStep
  <1>3. ASSUME NEW u \in Users, NEW value \in Objects, AcquireUnused(u, value)
        PROVE  PoolInv'
    BY <1>3, AcquireUnusedStep
  <1>4. ASSUME NEW u \in Users, NEW value \in Objects, AcquireInNewBlock(u, value)
        PROVE  PoolInv'
    BY <1>4, AcquireInNewBlockStep
  <1>5. ASSUME NEW u \in Users, NEW value \in Objects, Write(u, value)
        PROVE  PoolInv'
    BY <1>5, WriteStep
  <1>6. ASSUME NEW u \in Users, Release(u) PROVE PoolInv'
    BY <1>6, ReleaseStep
  <1> QED
    BY <1>1, <1>2, <1>3, <1>4, <1>5, <1>6 DEF PoolNext

-----------------------------------------------------------------------------
(* The theorems.                                                           *)

LEMMA Invariance == PoolSpec => []PoolInv
  BY InitCorrect, NextCorrect, PTL DEF PoolSpec

\* Every slot anyone knows of lies in a block of the pool.
THEOREM PoolTypeCorrect == PoolSpec => []PoolTypeOK
  <1>1. PoolInv => PoolTypeOK
    BY DEF PoolInv
  <1> QED
    BY Invariance, <1>1, PTL

\* acquire() and release() never hand a slot out twice and never lose one.
THEOREM NoneSharedNoneLost == PoolSpec => []SlotsPartitioned
  <1>1. PoolInv => SlotsPartitioned
    BY DEF PoolInv
  <1> QED
    BY Invariance, <1>1, PTL

\* The free list that release() threads through the slots stays whole.
THEOREM FreeListStaysIntact == PoolSpec => []FreeListIntact
  <1>1. PoolInv => FreeListIntact
    BY DEF PoolInv
  <1> QED
    BY Invariance, <1>1, PTL

\* addBlock() is called only when every slot there is is held.
THEOREM HeapOnlyWhenFull == PoolSpec => GrowsOnlyWhenAllInUse
  <1>1. ASSUME PoolInv, [PoolNext]_poolVars, blocks' # blocks
        PROVE  \A s \in Slots : \E u \in Users : holds[u] = s
    <2>1. PICK u \in Users, value \in Objects : AcquireInNewBlock(u, value)
      BY <1>1 DEF PoolNext, poolVars, AcquireReleased, AcquireUnused, Write, Release
    <2>2. Free = {}
      BY <1>1, <2>1, NoneReleased DEF PoolInv, AcquireInNewBlock
    <2>3. Slots = HandedOut
      BY <1>1, <2>1 DEF PoolInv, PoolTypeOK, AcquireInNewBlock, Full, Slots, SlotsOf, HandedOut
    <2> QED
      BY <1>1, <2>2, <2>3 DEF PoolInv, SlotsPartitioned
  <1>2. PoolInv /\ [PoolNext]_poolVars =>
          [blocks' # blocks => \A s \in Slots : \E u \in Users : holds[u] = s]_poolVars
    BY <1>1
  <1> QED
    BY Invariance, <1>2, PTL DEF PoolSpec, GrowsOnlyWhenAllInUse

-----------------------------------------------------------------------------
(* Refinement.                                                             *)

Mapped == [u \in Users |-> ObjectOf(u)]

\* A step that changes user u's object, and no other user's.
LEMMA OthersUntouched ==
  ASSUME PoolInv, NEW u \in Users, NEW value,
         \A w \in Users : w # u => holds'[w] = holds[w],
         \A w \in Users : w # u /\ holds[w] # Null => memory'[holds[w]] = memory[holds[w]],
         ObjectOf(u)' = value
  PROVE  Mapped' = [Mapped EXCEPT ![u] = value]
  <1>1. \A w \in Users : w # u => ObjectOf(w)' = ObjectOf(w)
    BY DEF ObjectOf
  <1> QED
    BY <1>1 DEF Mapped

\* Null stands for no object exactly where the user holds no slot.
LEMMA NoObject ==
  ASSUME PoolInv, NEW u \in Users
  PROVE  (ObjectOf(u) = Null) <=> (holds[u] = Null)
  BY KindsDiffer DEF PoolInv, HoldersHaveObjects, ObjectOf

LEMMA RefinesStep ==
  ASSUME PoolInv, [PoolNext]_poolVars
  PROVE  [OwnObjects!Next]_Mapped
  <1>1. CASE UNCHANGED poolVars
    BY <1>1 DEF poolVars, Mapped, ObjectOf
  <1>2. ASSUME NEW u \in Users, NEW value \in Objects,
               AcquireReleased(u, value) \/ AcquireUnused(u, value)
                 \/ AcquireInNewBlock(u, value)
        PROVE  OwnObjects!Acquire(u, value)
    <2>1. PICK slot : /\ slot \in Slots' /\ slot # Null
                      /\ \A w \in Users : holds[w] # slot
                      /\ holds[u] = Null /\ holds' = [holds EXCEPT ![u] = slot]
                      /\ memory'[slot] = Object(value)
                      /\ \A s \in Slots : s # slot => memory'[s] = memory[s]
      <3>1. CASE AcquireReleased(u, value)
        <4>1. freeHead \in Slots /\ freeHead # Null /\ Slots' = Slots
          BY <3>1 DEF AcquireReleased, PoolInv, PoolTypeOK, Slots
        <4>2. freeHead \in Free
          BY <3>1 DEF AcquireReleased, PoolInv, PoolTypeOK, FreeListIntact, LinkAfter, Free
        <4>3. \A w \in Users : holds[w] # freeHead
          BY <4>2 DEF PoolInv, SlotsPartitioned
        <4> QED
          BY <3>1, <4>1, <4>3 DEF AcquireReleased, PoolInv, PoolTypeOK
      <3>2. CASE AcquireUnused(u, value)
        <4> DEFINE slot == <<blocks, used>>
        <4>1. /\ slot \in Slots /\ slot # Null /\ slot \notin HandedOut /\ Slots' = Slots
          BY <3>2 DEF AcquireUnused, Full, PoolInv, PoolTypeOK, Slots, SlotsOf, HandedOut
        <4>2. \A w \in Users : holds[w] # slot
          BY <4>1 DEF PoolInv, SlotsPartitioned
        <4> QED
          BY <3>2, <4>1, <4>2 DEF AcquireUnused, PoolInv, PoolTypeOK
      <3>3. CASE AcquireInNewBlock(u, value)
        <4> DEFINE slot == <<blocks + 1, 0>>
        <4>1. /\ slot \in Slots' /\ slot # Null /\ slot \notin Slots
              /\ Slots \subseteq Slots' /\ Slots' = SlotsOf(blocks + 1)
          BY <3>3 DEF AcquireInNewBlock, PoolInv, PoolTypeOK, Slots, SlotsOf
        <4>2. \A w \in Users : holds[w] # slot
          BY <4>1 DEF PoolInv, PoolTypeOK
        <4> QED
          BY <3>3, <4>1, <4>2 DEF AcquireInNewBlock, PoolInv, PoolTypeOK
      <3> QED
        BY <1>2, <3>1, <3>2, <3>3
    <2>2. holds'[u] = slot /\ \A w \in Users : w # u => holds'[w] = holds[w]
      BY <2>1 DEF PoolInv, PoolTypeOK
    <2>3. ObjectOf(u)' = value
      BY <2>1, <2>2, KindsDiffer DEF ObjectOf
    <2>4. \A w \in Users : w # u /\ holds[w] # Null => memory'[holds[w]] = memory[holds[w]]
      BY <2>1 DEF PoolInv, PoolTypeOK
    <2>5. Mapped' = [Mapped EXCEPT ![u] = value]
      BY <2>2, <2>3, <2>4, OthersUntouched
    <2>6. Mapped[u] = Null
      BY <2>1 DEF Mapped, ObjectOf
    <2> QED
      BY <2>5, <2>6 DEF OwnObjects!Acquire, Mapped
  <1>3. ASSUME NEW u \in Users, NEW value \in Objects, Write(u, value)
        PROVE  OwnObjects!Write(u, value)
    <2>1. /\ holds[u] # Null /\ holds' = holds /\ holds[u] \in Slots
          /\ memory'[holds[u]] = Object(value)
          /\ \A s \in Slots : s # holds[u] => memory'[s] = memory[s]
      BY <1>3 DEF Write, PoolInv, PoolTypeOK
    <2>2. ObjectOf(u)' = value
      BY <2>1, KindsDiffer DEF ObjectOf
    <2>3. \A w \in Users : w # u /\ holds[w] # Null => memory'[holds[w]] = memory[holds[w]]
      BY <2>1 DEF PoolInv, PoolTypeOK, SlotsPartitioned
    <2>4. Mapped' = [Mapped EXCEPT ![u] = value]
      BY <2>1, <2>2, <2>3, OthersUntouched
    <2>5. Mapped[u] # Null
      BY <2>1, NoObject DEF Mapped
    <2> QED
      BY <2>4, <2>5 DEF OwnObjects!Write, Mapped
  <1>4. ASSUME NEW u \in Users, Release(u)
        PROVE  OwnObjects!Release(u)
    <2>1. /\ holds[u] # Null /\ holds'[u] = Null
          /\ \A w \in Users : w # u => holds'[w] = holds[w]
          /\ \A s \in Slots : s # holds[u] => memory'[s] = memory[s]
      BY <1>4 DEF Release, PoolInv, PoolTypeOK
    <2>2. ObjectOf(u)' = Null
      BY <2>1 DEF ObjectOf
    <2>3. \A w \in Users : w # u /\ holds[w] # Null => memory'[holds[w]] = memory[holds[w]]
      BY <2>1 DEF PoolInv, PoolTypeOK, SlotsPartitioned
    <2>4. Mapped' = [Mapped EXCEPT ![u] = Null]
      BY <2>1, <2>2, <2>3, OthersUntouched
    <2>5. Mapped[u] # Null
      BY <2>1, NoObject DEF Mapped
    <2> QED
      BY <2>4, <2>5 DEF OwnObjects!Release, Mapped
  <1> QED
    BY <1>1, <1>2, <1>3, <1>4 DEF PoolNext, OwnObjects!Next, Mapped

\* Every user has an object of its own, whatever the others do.
THEOREM Implementation == PoolSpec => ImplementsAllocator
  <1>1. PoolInit => OwnObjects!Init
    BY DEF PoolInit, OwnObjects!Init, ObjectOf
  <1>2. PoolInv /\ [PoolNext]_poolVars => [OwnObjects!Next]_Mapped
    BY RefinesStep
  <1> QED
    BY <1>1, <1>2, Invariance, PTL DEF PoolSpec, ImplementsAllocator, OwnObjects!Spec, Mapped
=============================================================================
