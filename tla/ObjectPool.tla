----------------------------- MODULE ObjectPool -----------------------------
(***************************************************************************)
(* ObjectPool<T, BlockSize> (include/ObjectPool.hpp): slots carved out of  *)
(* large blocks.  A slot holds an object while it is acquired; once it is  *)
(* released, the same memory holds the link of the free list.              *)
(*                                                                         *)
(* Slot <<b, k>> is the kth of block b.  Its users are whoever keeps the   *)
(* pointer acquire() gave them, one each.  Running out of heap is left     *)
(* out.                                                                    *)
(***************************************************************************)
EXTENDS Integers, Sequences

CONSTANTS
  BlockSize,
  Users,    \* they bound the objects acquired at a time
  Objects,  \* what a T may hold
  Null      \* nullptr

ASSUME BlockAssumption == BlockSize \in Nat \ {0}
ASSUME NullAssumption == Null \notin Nat \X Nat /\ Null \notin Objects

VARIABLES
  blocks,    \* number of blocks
  used,      \* slots handed out from the newest block
  freeHead,  \* most recently released slot, or Null
  memory,    \* what each slot of the blocks holds
  holds,     \* the slot each user has acquired, or Null
  freeList   \* history: the released slots, the most recent one first

poolVars == <<blocks, used, freeHead, memory, holds, freeList>>

SlotsOf(count) == (1..count) \X (0..(BlockSize - 1))
Slots == SlotsOf(blocks)

Raw == [kind |-> "raw"]
Object(value) == [kind |-> "object", value |-> value]
FreeSlot(next) == [kind |-> "free", next |-> next]

PoolInit ==
  /\ blocks = 1 /\ used = 0 /\ freeHead = Null
  /\ memory = [s \in SlotsOf(1) |-> Raw]
  /\ holds = [u \in Users |-> Null]
  /\ freeList = <<>>

-----------------------------------------------------------------------------
\* acquire() with a released slot at hand.
AcquireReleased(u, value) ==
  /\ holds[u] = Null
  /\ freeHead # Null
  /\ freeHead' = memory[freeHead].next
  /\ memory' = [memory EXCEPT ![freeHead] = Object(value)]
  /\ holds' = [holds EXCEPT ![u] = freeHead]
  /\ freeList' = Tail(freeList)
  /\ UNCHANGED <<blocks, used>>

\* Mutant: a block is added one slot early.
FullEarly == used >= BlockSize - 1
Full == used = BlockSize

\* Mutant: the slot is not counted as handed out.
UsedNextSame == used
UsedNext == used + 1

\* acquire() of the next unused slot of the newest block.
AcquireUnused(u, value) ==
  /\ holds[u] = Null
  /\ freeHead = Null
  /\ ~Full
  /\ used' = UsedNext
  /\ memory' = [memory EXCEPT ![<<blocks, used>>] = Object(value)]
  /\ holds' = [holds EXCEPT ![u] = <<blocks, used>>]
  /\ UNCHANGED <<blocks, freeHead, freeList>>

\* acquire() when there is none: addBlock(), whose first slot it is.
AcquireInNewBlock(u, value) ==
  LET slot == <<blocks + 1, 0>>
  IN /\ holds[u] = Null
     /\ freeHead = Null
     /\ Full
     /\ blocks' = blocks + 1 /\ used' = 1
     /\ memory' = [s \in SlotsOf(blocks + 1) |->
                     IF s = slot THEN Object(value)
                     ELSE IF s \in Slots THEN memory[s] ELSE Raw]
     /\ holds' = [holds EXCEPT ![u] = slot]
     /\ UNCHANGED <<freeHead, freeList>>

\* A user changes its object.
Write(u, value) ==
  /\ holds[u] # Null
  /\ memory' = [memory EXCEPT ![holds[u]] = Object(value)]
  /\ UNCHANGED <<blocks, used, freeHead, holds, freeList>>

\* Mutant: a released slot does not take the rest of the list along.
LinkNull == Null
Link == freeHead

Release(u) ==
  /\ holds[u] # Null
  /\ memory' = [memory EXCEPT ![holds[u]] = FreeSlot(Link)]
  /\ freeHead' = holds[u]
  /\ holds' = [holds EXCEPT ![u] = Null]
  /\ freeList' = <<holds[u]>> \o freeList
  /\ UNCHANGED <<blocks, used>>

PoolNext ==
  \E u \in Users :
    \/ \E value \in Objects :
         \/ AcquireReleased(u, value) \/ AcquireUnused(u, value)
         \/ AcquireInNewBlock(u, value) \/ Write(u, value)
    \/ Release(u)

PoolSpec == PoolInit /\ [][PoolNext]_poolVars
-----------------------------------------------------------------------------
(* Properties.                                                             *)

Contents ==
  {Raw} \cup {Object(value) : value \in Objects}
    \cup {FreeSlot(next) : next \in Slots \cup {Null}}

\* Every slot anyone knows of lies in a block.
PoolTypeOK ==
  /\ blocks \in Nat \ {0} /\ used \in 0..BlockSize
  /\ freeHead \in Slots \cup {Null}
  /\ memory \in [Slots -> Contents]
  /\ holds \in [Users -> Slots \cup {Null}]
  /\ freeList \in Seq(Slots)

Free == {freeList[n] : n \in DOMAIN freeList}
HandedOut == {s \in Slots : s[1] < blocks \/ s[2] < used}

\* The slots handed out so far are held by one user each, or free: none is held
\* twice, none both held and free, and none is ever lost.
SlotsPartitioned ==
  /\ \A u, v \in Users : holds[u] = holds[v] /\ holds[u] # Null => u = v
  /\ \A m, n \in DOMAIN freeList : freeList[m] = freeList[n] => m = n
  /\ \A u \in Users : holds[u] \notin Free
  /\ \A s \in HandedOut : s \in Free \/ \E u \in Users : holds[u] = s
  /\ Free \subseteq HandedOut
  /\ \A u \in Users : holds[u] \in HandedOut \cup {Null}

\* The links in the memory of the released slots lead through all of them, the
\* most recently released one first; users' writes never touch them.
LinkAfter(n) == IF n < Len(freeList) THEN freeList[n + 1] ELSE Null
FreeListIntact ==
  /\ freeHead = LinkAfter(0)
  /\ \A n \in DOMAIN freeList : memory[freeList[n]] = FreeSlot(LinkAfter(n))

\* acquire() calls the heap only when every slot of every block is in use.
GrowsOnlyWhenAllInUse ==
  [][blocks' # blocks => \A s \in Slots : \E u \in Users : holds[u] = s]_poolVars

\* Every user has an object of its own.
ObjectOf(u) ==
  IF holds[u] = Null \/ memory[holds[u]].kind # "object" THEN Null
  ELSE memory[holds[u]].value

OwnObjects == INSTANCE Allocator WITH object <- [u \in Users |-> ObjectOf(u)]

ImplementsAllocator == OwnObjects!Spec
=============================================================================
