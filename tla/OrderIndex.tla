----------------------------- MODULE OrderIndex -----------------------------
(***************************************************************************)
(* OrderIndex<Value> (include/OrderIndex.hpp): a hash table with linear    *)
(* probing in one array, at most half full, whose erase() moves entries    *)
(* back instead of leaving tombstones.                                     *)
(*                                                                         *)
(* The loops that write, rehash() and the backward shift of erase(), take  *)
(* a step per iteration; those that only look for a key are one step.      *)
(* Fibonacci hashing is any function to MaxCapacity values: home() shifts  *)
(* out all but as many of its top bits as the capacity has.                *)
(***************************************************************************)
EXTENDS Integers, FiniteSets

CONSTANTS
  Keys,
  Values,
  kEmpty,       \* marks unused slots, so it can never be a key
  MinCapacity,  \* 16
  MaxCapacity   \* bounds the model: the table never needs more

ASSUME KeysAssumption == IsFiniteSet(Keys)
ASSUME EmptyAssumption == kEmpty \notin Keys \cup Values
ASSUME PositiveAssumption ==
  MinCapacity \in Nat /\ MinCapacity >= 2 /\ MaxCapacity \in Nat \ {0}
ASSUME CapacityAssumption ==
  \E m, n \in 1..(2 * Cardinality(Keys) + 2) :
    MinCapacity = 2 ^ m /\ MaxCapacity = 2 ^ (m + n - 1)
ASSUME RoomAssumption == 2 * Cardinality(Keys) + 2 <= MaxCapacity

VARIABLES
  hash,      \* hash[key], the key's product with the golden ratio
  slots,
  size,
  pc,        \* what runs: nothing, tryInsert() after or in rehash(), erase()
  entry,     \* what tryInsert() is to insert
  old, at,   \* rehash(): the slots before it, and the next of them to place
  hole, j,   \* erase(): the slot to fill or to clear, and the one looked at
  contents   \* history: what the calls that have returned TRUE put in

vars == <<hash, slots, size, pc, entry, old, at, hole, j, contents>>

None == [key |-> kEmpty, value |-> kEmpty]
Entry(key, value) == [key |-> key, value |-> value]
Unused(capacity) == [i \in 0..(capacity - 1) |-> None]

Capacity(table) == Cardinality(DOMAIN table)
cap == Capacity(slots)
After(i) == (i + 1) % cap

Home(key) == (hash[key] * cap) \div MaxCapacity

Init ==
  /\ hash \in [Keys -> 0..(MaxCapacity - 1)]
  /\ slots = Unused(MinCapacity) /\ size = 0
  /\ pc = "idle" /\ entry = None /\ old = Unused(0)
  /\ at = 0 /\ hole = 0 /\ j = 0
  /\ contents = [key \in Keys |-> kEmpty]

-----------------------------------------------------------------------------
(* Probing.                                                                *)

\* The slots from i on, as often as the loop goes round: the dth is i + d.
Ahead(i, d) == (i + d) % cap

\* Where a probe for `key` ends: at the key or at the first unused slot.  If
\* there is neither it never does.
StopsAt(key, i) ==
  \E d \in 0..(cap - 1) :
    /\ i = Ahead(Home(key), d)
    /\ slots[i].key \in {key, kEmpty}
    /\ \A e \in 0..(d - 1) : slots[Ahead(Home(key), e)].key \notin {key, kEmpty}

Finds(key, value) ==
  \E i \in DOMAIN slots : StopsAt(key, i) /\ slots[i] = Entry(key, value)

-----------------------------------------------------------------------------
(* tryInsert() and rehash().                                               *)

\* Mutant: the table fills up.
NeedsRoomFull == size + 1 > cap
NeedsRoom == (size + 1) * 2 > cap

\* The locals of a call end with it.
Return ==
  /\ pc' = "idle" /\ entry' = None /\ old' = Unused(0)
  /\ at' = 0 /\ hole' = 0 /\ j' = 0

\* The rest of tryInsert(), once there is room.
Insert(e) ==
  \E i \in DOMAIN slots :
    /\ StopsAt(e.key, i)
    /\ IF slots[i].key = e.key
       THEN UNCHANGED <<slots, size, contents>>
       ELSE /\ slots' = [slots EXCEPT ![i] = e]
            /\ size' = size + 1
            /\ contents' = [contents EXCEPT ![e.key] = e.value]

TryInsert(key, value) ==
  /\ pc = "idle"
  /\ ~NeedsRoom
  /\ Insert(Entry(key, value))
  /\ UNCHANGED <<hash, pc, entry, old, at, hole, j>>

\* The table is replaced by an unused one of twice its capacity.
StartRehash(key, value) ==
  /\ pc = "idle"
  /\ NeedsRoom
  /\ pc' = "rehash"
  /\ entry' = Entry(key, value)
  /\ old' = slots /\ at' = 0
  /\ slots' = Unused(2 * cap) /\ size' = 0
  /\ UNCHANGED <<hash, hole, j, contents>>

\* placeUnique() of the next entry: it goes to the first unused slot.
PlaceUnique ==
  /\ pc = "rehash" /\ at < Capacity(old)
  /\ at' = at + 1
  /\ IF old[at].key = kEmpty THEN UNCHANGED <<slots, size>>
     ELSE \E i \in DOMAIN slots :
            /\ StopsAt(old[at].key, i)
            /\ slots' = [slots EXCEPT ![i] = old[at]]
            /\ size' = size + 1
  /\ UNCHANGED <<hash, pc, entry, old, hole, j, contents>>

EndRehash ==
  /\ pc = "rehash" /\ at = Capacity(old)
  /\ Insert(entry)
  /\ Return
  /\ UNCHANGED hash

-----------------------------------------------------------------------------
(* erase().                                                                *)

EraseAbsent(key) ==
  /\ pc = "idle"
  /\ \E i \in DOMAIN slots : StopsAt(key, i) /\ slots[i].key = kEmpty
  /\ UNCHANGED vars

StartErase(key) ==
  /\ pc = "idle"
  /\ \E i \in DOMAIN slots :
       /\ StopsAt(key, i) /\ slots[i].key = key
       /\ hole' = i /\ j' = After(i)
  /\ pc' = "erase"
  /\ contents' = [contents EXCEPT ![key] = kEmpty]
  /\ UNCHANGED <<hash, slots, size, entry, old, at>>

\* Mutant: an entry whose home is the hole stays.
StaysAtHole(h) == IF hole < j THEN hole <= h /\ h <= j ELSE hole <= h \/ h <= j
\* The entry at j, whose home is h, is found without passing the hole.
Stays(h) == IF hole < j THEN hole < h /\ h <= j ELSE hole < h \/ h <= j

Shift ==
  /\ pc = "erase"
  /\ slots[j].key # kEmpty
  /\ IF Stays(Home(slots[j].key)) THEN UNCHANGED <<slots, hole>>
     ELSE slots' = [slots EXCEPT ![hole] = slots[j]] /\ hole' = j
  /\ j' = After(j)
  /\ UNCHANGED <<hash, size, pc, entry, old, at, contents>>

\* The value left in the hole is never read.
EndErase ==
  /\ pc = "erase"
  /\ slots[j].key = kEmpty
  /\ slots' = [slots EXCEPT ![hole] = None]
  /\ size' = size - 1
  /\ Return
  /\ UNCHANGED <<hash, contents>>

-----------------------------------------------------------------------------
Running == PlaceUnique \/ EndRehash \/ Shift \/ EndErase

Next ==
  \/ \E key \in Keys :
       \/ \E value \in Values : TryInsert(key, value) \/ StartRehash(key, value)
       \/ EraseAbsent(key) \/ StartErase(key)
  \/ Running

\* A call that has started goes on.
Spec == Init /\ [][Next]_vars /\ WF_vars(Running)
-----------------------------------------------------------------------------
(* Properties.                                                             *)

Entries == [key : Keys, value : Values]
Tables(capacity) == [0..(capacity - 1) -> Entries \cup {None}]
Occupied(i) == slots[i].key # kEmpty

TypeOK ==
  /\ hash \in [Keys -> 0..(MaxCapacity - 1)]
  /\ cap \in Nat /\ cap >= MinCapacity
  /\ slots \in Tables(cap) /\ size \in Nat
  /\ Capacity(old) \in Nat /\ at \in 0..Capacity(old)
  /\ old \in Tables(Capacity(old))
  /\ pc \in {"idle", "rehash", "erase"}
  /\ entry \in Entries \cup {None}
  /\ hole \in DOMAIN slots /\ j \in DOMAIN slots
  /\ contents \in [Keys -> Values \cup {kEmpty}]

\* Between calls the table has the size size() gives, in at most half of the
\* slots.  A probe for a key that is in it ends at that key, with the value it
\* was inserted with, and a probe for one that is not ends at an unused slot,
\* whatever was inserted and erased before and wherever clusters met, grew or
\* went round the end of the array.
AnswersAreRight ==
  pc = "idle" =>
    /\ size = Cardinality({key \in Keys : contents[key] # kEmpty})
    /\ 2 * size <= cap
    /\ \A key \in Keys :
         IF contents[key] # kEmpty THEN Finds(key, contents[key])
         ELSE \E i \in DOMAIN slots : StopsAt(key, i) /\ ~Occupied(i)

\* Slot i is passed on the way from the home of the entry in slot p to p.
Passes(p, i) ==
  LET h == Home(slots[p].key)
  IN IF h <= p THEN h <= i /\ i < p ELSE h <= i \/ i < p

\* i is one of the slots erase() has looked at since it made the hole.
LookedAt(i) == IF hole < j THEN hole < i /\ i < j ELSE hole < i \/ i < j

\* No probe is ever cut short, in the middle of a call either: the slots on the
\* way to an entry are in use, and when erase() has looked at an entry the hole
\* is not on the way to it.
ProbesUnbroken ==
  \A p \in DOMAIN slots :
    Occupied(p) /\ (pc = "erase" => p # hole) =>
      /\ \A i \in DOMAIN slots : Passes(p, i) => Occupied(i)
      /\ pc = "erase" /\ LookedAt(p) => ~Passes(p, hole)

\* The table is the map its callers built, between calls by its answers, and in
\* the middle of them by the probes it keeps whole.
IsTheMap == AnswersAreRight /\ ProbesUnbroken

\* Every call returns: erase() comes to an unused slot, and so does every probe.
CallsReturn == pc # "idle" ~> pc = "idle"
=============================================================================
