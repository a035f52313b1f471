-------------------------- MODULE RingHarnessProofs -------------------------
(***************************************************************************)
(* Proofs about RingHarness, for every size of ring, batch, number and     *)
(* length of runs and difference of the clocks: in every variant of the    *)
(* ring no slot is the two threads' at once (NoDataRace), and an exit code *)
(* says what was measured (ExitIsEarned).                                  *)
(*                                                                         *)
(* The argument.  A store of value v to an index releases v accesses       *)
(* (IsIndex), so a thread that has read it knows as many; and with t the   *)
(* newest store of tail the producer has read, and h that of head the      *)
(* consumer has read,                                                      *)
(*     t <= consumed <= h <= published <= sent,  sent < t + Size           *)
(* for a producer that has claimed a slot (ProducerInv, ConsumerInv).      *)
(* That is all the variants have in common: whether they copy the other's  *)
(* index or hold their own back does not matter.  Message numbers of one   *)
(* slot are at least Size apart (SlotsApart), so what waits in the slots   *)
(* is the next messages in order (BufferInv), and what is received is      *)
(* measured once (MeasureInv).                                             *)
(***************************************************************************)
EXTENDS RingHarness, NumberLemmas, FiniteSetTheorems, SequenceTheorems

LEMMA Constants == Size \in Nat /\ Size > 0
  BY RingAssumption

LEMMA SlotType == \A a \in Nat : SlotOf(a) \in Slots
  BY Constants, DivMod DEF SlotOf, Slots

\* Different indices of one slot are at least Size apart.
LEMMA SlotsApart ==
  \A a, b \in Nat : SlotOf(a) = SlotOf(b) /\ a < b => a + Size <= b
  BY Constants, ModApart DEF SlotOf

-----------------------------------------------------------------------------
(* Sums and remainders.                                                    *)

\* A remainder may be taken before or after adding.
LEMMA ModSum ==
  ASSUME NEW a \in Int, NEW d \in Int, NEW m \in Nat, m > 0
  PROVE  ((a % m) + d) % m = (a + d) % m
<1> DEFINE q == a \div m  r == a % m
           e == r + d  k == e \div m  x == e % m
<1>1. q \in Int /\ r \in Int /\ a = q * m + r
  BY DivMod
<1> HIDE DEF q, r
<1>2. e \in Int /\ k \in Int /\ x \in 0..(m - 1) /\ e = k * m + x
  BY <1>1, DivMod
<1> HIDE DEF k, x
<1>3. (q + k) * m = q * m + k * m /\ q * m \in Int /\ k * m \in Int /\ q + k \in Int
  BY <1>1, <1>2
<1>4. a + d = (q + k) * m + x
  BY <1>1, <1>2, <1>3
<1> DEFINE j == q + k
<1>5. j \in Int /\ x \in Nat /\ x < m
  BY <1>2, <1>3
<1> HIDE DEF j
<1>6. (j * m + x) % m = x
  BY <1>5, ModUnique
<1>7. (a + d) % m = x
  BY <1>4, <1>6 DEF j
<1> QED BY <1>7 DEF x, r

\* The recursion of a fold takes the largest index off those still to come.
LEMMA MaxIs ==
  ASSUME NEW k \in Nat, NEW T \in SUBSET (1..(k + 1)), k + 1 \in T
  PROVE  Max(T) = k + 1 /\ T \ {k + 1} \in SUBSET (1..k)
<1>1. \A x \in T : k + 1 >= x
  OBVIOUS
<1>2. \A x \in T : x = k + 1 \/ ~(x >= k + 1)
  OBVIOUS
<1>3. Max(T) = k + 1
  BY <1>1, <1>2 DEF Max
<1>4. \A x \in T : x # k + 1 => x \in 1..k
  OBVIOUS
<1> QED BY <1>3, <1>4

AreSums(it, d, n) ==
  it = [T \in SUBSET (1..n) |-> IF T = {} THEN 0 ELSE it[T \ {Max(T)}] + d[Max(T)]]

LEMMA SumsExist ==
  ASSUME NEW d, NEW n \in Nat
  PROVE  \E it : AreSums(it, d, n)
<1> DEFINE K == {k \in Nat : \E it : AreSums(it, d, k)}
<1>1. 0 \in K
  <2>1. AreSums([T \in {{}} |-> 0], d, 0)
    <3>1. SUBSET (1..0) = {{}}
      OBVIOUS
    <3> QED BY <3>1 DEF AreSums
  <2> QED BY <2>1
<1>2. ASSUME NEW k \in Nat, k \in K PROVE k + 1 \in K
  <2>1. PICK it : AreSums(it, d, k)
    BY <1>2
  <2> DEFINE more == [T \in SUBSET (1..(k + 1)) |->
                        IF k + 1 \in T THEN it[T \ {k + 1}] + d[k + 1] ELSE it[T]]
  <2>2. ASSUME NEW T \in SUBSET (1..(k + 1))
        PROVE  more[T] = IF T = {} THEN 0 ELSE more[T \ {Max(T)}] + d[Max(T)]
    <3>1. CASE k + 1 \in T
      <4>1. Max(T) = k + 1 /\ T \ {k + 1} \in SUBSET (1..k)
        BY <3>1, MaxIs
      <4>2. T \ {k + 1} \in SUBSET (1..(k + 1))
        OBVIOUS
      <4>3. more[T \ {k + 1}] = it[T \ {k + 1}]
        BY <4>2
      <4>4. more[T] = it[T \ {k + 1}] + d[k + 1]
        BY <3>1
      <4>5. T # {}
        BY <3>1
      <4> HIDE DEF more
      <4> QED BY <4>1, <4>3, <4>4, <4>5
    <3>2. CASE k + 1 \notin T
      <4>1. T \in SUBSET (1..k)
        BY <3>2
      <4> DEFINE x == Max(T)
      <4> HIDE DEF x
      <4>2. T \ {x} \in SUBSET (1..(k + 1)) /\ k + 1 \notin T \ {x}
        BY <3>2
      <4>3. more[T] = it[T] /\ more[T \ {x}] = it[T \ {x}]
        BY <3>2, <4>2
      <4>4. it[T] = IF T = {} THEN 0 ELSE it[T \ {x}] + d[x]
        BY <2>1, <4>1 DEF AreSums, x
      <4> HIDE DEF more
      <4> QED BY <4>3, <4>4 DEF x
    <3> QED BY <3>1, <3>2
  <2>3. more = [T \in SUBSET (1..(k + 1)) |-> more[T]]
    OBVIOUS
  <2> HIDE DEF more
  <2>4. AreSums(more, d, k + 1)
    BY <2>2, <2>3 DEF AreSums
  <2> QED BY <2>4
<1> HIDE DEF K
<1>3. n \in K
  BY <1>1, <1>2, Induction
<1> QED BY <1>3 DEF K

LEMMA SumIs ==
  ASSUME NEW d, NEW n \in Nat, DOMAIN d = 1..n
  PROVE  \E it : /\ it[0] = 0 /\ it[n] = Sum(d)
                 /\ \A k \in Nat : k < n => it[k + 1] = it[k] + d[k + 1]
<1> DEFINE g == CHOOSE it : AreSums(it, d, n)
           it == [k \in 0..n |-> g[1..k]]
<1>1. AreSums(g, d, n)
  BY SumsExist
<1>2. Sum(d) = g[1..n]
  BY DEF Sum, FoldLeft, MapThenFoldSet, AreSums
<1> HIDE DEF g
<1>3. \A T \in SUBSET (1..n) :
        g[T] = IF T = {} THEN 0 ELSE g[T \ {Max(T)}] + d[Max(T)]
  BY <1>1 DEF AreSums
<1>4. it[0] = 0
  <2>1. 1..0 = {} /\ {} \in SUBSET (1..n) /\ 0 \in 0..n
    OBVIOUS
  <2> QED BY <1>3, <2>1
<1>5. it[n] = Sum(d)
  BY <1>2
<1>6. ASSUME NEW k \in Nat, k < n PROVE it[k + 1] = it[k] + d[k + 1]
  <2>1. /\ 1..(k + 1) \in SUBSET (1..n) /\ k + 1 \in 1..(k + 1)
        /\ (1..(k + 1)) \ {k + 1} = 1..k /\ k \in 0..n /\ k + 1 \in 0..n
    BY <1>6
  <2>2. Max(1..(k + 1)) = k + 1
    <3> DEFINE T == 1..(k + 1)
    <3>1. T \in SUBSET (1..(k + 1)) /\ k + 1 \in T
      OBVIOUS
    <3> HIDE DEF T
    <3>2. Max(T) = k + 1
      BY <3>1, MaxIs
    <3> QED BY <3>2 DEF T
  <2>3. g[1..(k + 1)] = g[1..k] + d[k + 1]
    BY <1>3, <2>1, <2>2
  <2> QED BY <2>1, <2>3
<1> HIDE DEF it
<1> QED BY <1>4, <1>5, <1>6

\* One more number is added to the sum.
LEMMA SumAppend ==
  ASSUME NEW n \in Nat, NEW d \in [1..n -> Int], NEW e, DOMAIN e = 1..(n + 1),
         e[n + 1] \in Int, \A k \in 1..n : e[k] = d[k]
  PROVE  Sum(d) \in Int /\ Sum(e) = Sum(d) + e[n + 1]
<1>1. PICK a : /\ a[0] = 0 /\ a[n] = Sum(d)
               /\ \A k \in Nat : k < n => a[k + 1] = a[k] + d[k + 1]
  BY SumIs
<1>2. PICK b : /\ b[0] = 0 /\ b[n + 1] = Sum(e)
               /\ \A k \in Nat : k < n + 1 => b[k + 1] = b[k] + e[k + 1]
  BY SumIs
<1> DEFINE K == {k \in Nat : k <= n => a[k] \in Int /\ b[k] = a[k]}
<1>3. 0 \in K
  BY <1>1, <1>2
<1>4. ASSUME NEW k \in Nat, k \in K PROVE k + 1 \in K
  <2>1. SUFFICES ASSUME k + 1 <= n PROVE a[k + 1] \in Int /\ b[k + 1] = a[k + 1]
    OBVIOUS
  <2>2. k < n /\ k < n + 1 /\ k + 1 \in 1..n /\ k <= n
    BY <2>1
  <2>3. a[k] \in Int /\ b[k] = a[k] /\ d[k + 1] \in Int /\ e[k + 1] = d[k + 1]
    BY <1>4, <2>2
  <2> QED BY <1>1, <1>2, <2>2, <2>3
<1> HIDE DEF K
<1>5. n \in K
  BY <1>3, <1>4, Induction
<1>6. a[n] \in Int /\ b[n] = a[n]
  BY <1>5 DEF K
<1>7. b[n + 1] = b[n] + e[n + 1]
  BY <1>2
<1> QED BY <1>1, <1>2, <1>6, <1>7

LEMMA EmptySum == Sum(<<>>) = 0
<1>1. DOMAIN <<>> = 1..0
  OBVIOUS
<1>2. \E it : it[0] = 0 /\ it[0] = Sum(<<>>)
  BY <1>1, SumIs
<1> QED BY <1>2

\* Finitely many integers have a greatest.
LEMMA Greatest ==
  ASSUME NEW T \in SUBSET Int, IsFiniteSet(T), T # {}
  PROVE  Max(T) \in T /\ \A x \in T : Max(T) >= x
<1> DEFINE HasMax(S) == \E m \in S : \A x \in S : m >= x
           K == {n \in Nat : \A S \in SUBSET Int :
                   IsFiniteSet(S) /\ Cardinality(S) = n /\ S # {} => HasMax(S)}
<1>1. 0 \in K
  BY FS_EmptySet
<1>2. ASSUME NEW n \in Nat, n \in K PROVE n + 1 \in K
  <2> SUFFICES ASSUME NEW S \in SUBSET Int, IsFiniteSet(S), Cardinality(S) = n + 1, S # {}
               PROVE  HasMax(S)
    OBVIOUS
  <2>1. PICK y \in S : TRUE
    OBVIOUS
  <2> DEFINE R == S \ {y}
  <2>2. IsFiniteSet(R) /\ Cardinality(R) = n
    <3>1. IsFiniteSet(R) /\ Cardinality(R) = Cardinality(S) - 1
      BY FS_RemoveElement
    <3> QED BY <3>1
  <2>3. CASE R = {}
    <3>1. \A x \in S : x = y
      BY <2>3
    <3> QED BY <3>1
  <2>4. CASE R # {}
    <3>1. PICK m \in R : \A x \in R : m >= x
      BY <1>2, <2>2, <2>4
    <3> DEFINE top == IF m >= y THEN m ELSE y
    <3>2. top \in S /\ \A x \in S : top >= x
      <4>1. m \in Int /\ y \in Int /\ m \in S
        OBVIOUS
      <4>2. ASSUME NEW x \in S PROVE top >= x
        <5>1. x \in Int /\ (x = y \/ m >= x)
          BY <3>1
        <5> QED BY <4>1, <5>1
      <4> QED BY <4>1, <4>2
    <3> HIDE DEF top
    <3> QED BY <3>2
  <2> QED BY <2>3, <2>4
<1> HIDE DEF K
<1>3. Cardinality(T) \in Nat /\ \A n \in Nat : n \in K
  BY <1>1, <1>2, Induction, FS_CardinalityType
<1>4. HasMax(T)
  BY <1>3 DEF K
<1> QED BY <1>4 DEF Max

-----------------------------------------------------------------------------
(* The invariant.                                                          *)

Programs == {"ring_study", "ring_latency", "ring_bench"}
VariantRecords == [cached : BOOLEAN, batch : Nat \ {0}, flushes : BOOLEAN]
RunRecords == [messages : Nat, warmup : Nat, interval : Nat, recordLatency : BOOLEAN]
Stores == [value : Nat, clock : Nat]
Producers ==
  [pc : {"waiting", "sending", "claimed", "written", "done"}, i : Nat, start : Int,
   writeIdx : Nat, cachedTail : Nat, tailSeen : Nat, readsKnown : Nat]
Consumers ==
  [pc : {"starting", "receiving", "peeked", "received"}, i : Nat, cachedHead : Nat,
   headSeen : Nat, writesKnown : Nat]
Contents == [seq : Int, intended : Int, sent : Int, write : Nat]
Stamps == [sent : Int, received : Int]

\* An index: stores of growing values, each releasing as many accesses.
IsIndex(stores) ==
  /\ stores \in Seq(Stores) /\ Len(stores) > 0
  /\ \A k \in 1..Len(stores) : stores[k].clock = stores[k].value
  /\ \A j, k \in 1..Len(stores) : j <= k => stores[j].value <= stores[k].value

SettingsInv ==
  /\ program \in Programs /\ skew \in Int
  /\ variant \in VariantRecords /\ (~variant.cached => variant.batch = 1)
  /\ runs \in Seq(RunRecords) /\ runs # <<>>
  /\ program = "ring_bench" => Len(runs) = 1 /\ cfg.recordLatency /\ cfg.warmup = 0

ProducerInv ==
  /\ p \in Producers
  /\ p.writeIdx = p.i /\ Value(head) <= p.i
  /\ ~variant.cached => Value(head) = p.i
  /\ p.tailSeen \in 1..Len(tail)
  /\ p.readsKnown >= tail[p.tailSeen].value
  /\ variant.cached => p.cachedTail = tail[p.tailSeen].value
  /\ p.pc \in {"claimed", "written"} => p.i < tail[p.tailSeen].value + Size

ConsumerInv ==
  /\ c \in Consumers
  /\ Value(tail) = c.i
  /\ c.headSeen \in 1..Len(head)
  /\ c.writesKnown >= head[c.headSeen].value
  /\ variant.cached => c.cachedHead = head[c.headSeen].value
  /\ c.i <= head[c.headSeen].value
  /\ c.pc \in {"peeked", "received"} => c.i < head[c.headSeen].value

Written == IF p.pc = "written" THEN p.i + 1 ELSE p.i
Read == IF c.pc = "received" THEN c.i + 1 ELSE c.i

\* A message not consumed yet is in its slot.
BufferInv ==
  /\ buffer \in [Slots -> Contents]
  /\ \A j \in Nat : c.i <= j /\ j < Written =>
       buffer[SlotOf(j)].write = j + 1 /\ buffer[SlotOf(j)].seq = j

ReadInv ==
  /\ lastRead \in [Slots -> Nat]
  /\ \A slot \in Slots : lastRead[slot] # 0 =>
       SlotOf(lastRead[slot] - 1) = slot /\ lastRead[slot] <= Read

\* How many messages of this run were measured.
MeasuredOf(run, read) ==
  IF run.recordLatency /\ read > run.warmup THEN read - run.warmup ELSE 0
Measured == MeasuredOf(cfg, Read)

ResultFields ==
  {"sendToReceive", "intendedToReceive", "outOfOrder", "negativeDeltas", "totalLatency"}

MeasureInv ==
  /\ now \in Int /\ measured \in Seq(Stamps)
  /\ DOMAIN results = ResultFields
  /\ results.outOfOrder = 0 /\ results.negativeDeltas \in Nat
  /\ program = "ring_bench" => results.totalLatency = Sum(RawDelays) % 2 ^ ValueBits
  /\ program # "ring_bench" =>
       /\ results.sendToReceive.count = Measured
       /\ results.intendedToReceive.count = (IF Paced THEN Measured ELSE 0)
       /\ results.negativeDeltas = 0 =>
            \A n \in 1..Len(measured) : measured[n].received >= measured[n].sent

\* Nothing goes on after the exit.
ExitInv ==
  exit # "none" =>
    /\ Joined /\ Len(runs) = 1
    /\ exit = "0" /\ program # "ring_bench" => ~Fails

Inv ==
  /\ SettingsInv /\ IsIndex(head) /\ IsIndex(tail)
  /\ ProducerInv /\ ConsumerInv /\ BufferInv /\ ReadInv /\ MeasureInv /\ ExitInv

LEMMA CfgType ==
  ASSUME SettingsInv
  PROVE  /\ cfg \in RunRecords /\ Total \in Nat /\ Total = cfg.warmup + cfg.messages
         /\ cfg.warmup \in Nat /\ cfg.messages \in Nat
<1>1. runs \in Seq(RunRecords) /\ runs # <<>>
  BY DEF SettingsInv
<1>2. cfg \in RunRecords
  BY <1>1 DEF cfg
<1> HIDE DEF RunRecords
<1> QED BY <1>2 DEF Total, RunRecords

\* What the two know of one another.
LEMMA Ordered ==
  ASSUME IsIndex(head), IsIndex(tail), ProducerInv, ConsumerInv
  PROVE  /\ p.i \in Nat /\ c.i \in Nat /\ WriteIdx = p.i /\ Value(tail) = c.i
         /\ tail[p.tailSeen].value \in Nat /\ tail[p.tailSeen].value <= c.i
         /\ head[c.headSeen].value \in Nat /\ c.i <= head[c.headSeen].value
         /\ head[c.headSeen].value <= Value(head) /\ Value(head) \in Nat
         /\ Value(head) <= p.i /\ p.readsKnown \in Nat /\ c.writesKnown \in Nat
<1>1. p.i \in Nat /\ c.i \in Nat /\ p.readsKnown \in Nat /\ c.writesKnown \in Nat
  BY DEF ProducerInv, ConsumerInv, Producers, Consumers
<1>2. WriteIdx = p.i /\ Value(tail) = c.i /\ Value(head) <= p.i
  BY DEF WriteIdx, ProducerInv, ConsumerInv
<1>3. /\ Len(tail) \in 1..Len(tail) /\ Len(head) \in 1..Len(head)
      /\ \A k \in 1..Len(tail) : tail[k] \in Stores
      /\ \A k \in 1..Len(head) : head[k] \in Stores
  BY DEF IsIndex
<1>4. p.tailSeen \in 1..Len(tail) /\ p.tailSeen <= Len(tail)
  BY DEF ProducerInv
<1>5. c.headSeen \in 1..Len(head) /\ c.headSeen <= Len(head)
  BY DEF ConsumerInv
<1>6. tail[p.tailSeen].value \in Nat /\ tail[p.tailSeen].value <= Value(tail)
  BY <1>3, <1>4 DEF IsIndex, Value, Newest, Stores
<1>7. /\ head[c.headSeen].value \in Nat /\ head[c.headSeen].value <= Value(head)
      /\ Value(head) \in Nat
  BY <1>3, <1>5 DEF IsIndex, Value, Newest, Stores
<1>8. c.i <= head[c.headSeen].value
  BY DEF ConsumerInv
<1> QED BY <1>1, <1>2, <1>6, <1>7, <1>8

\* "All keep the same two release/acquire edges."
LEMMA NoRace == ASSUME Inv PROVE NoDataRace
<1>1. /\ p.i \in Nat /\ c.i \in Nat /\ WriteIdx = p.i /\ Value(tail) = c.i
      /\ tail[p.tailSeen].value \in Nat /\ tail[p.tailSeen].value <= c.i
      /\ head[c.headSeen].value \in Nat /\ c.i <= head[c.headSeen].value
      /\ head[c.headSeen].value <= Value(head) /\ Value(head) \in Nat
      /\ Value(head) <= p.i /\ p.readsKnown \in Nat /\ c.writesKnown \in Nat
  BY Ordered DEF Inv
<1> DEFINE t == tail[p.tailSeen].value  h == head[c.headSeen].value
<1>2. p.readsKnown >= t /\ c.writesKnown >= h
  BY DEF Inv, ProducerInv, ConsumerInv
<1>3. ASSUME p.pc = "claimed" PROVE lastRead[SlotOf(p.i)] <= p.readsKnown
  <2> DEFINE x == SlotOf(p.i)  l == lastRead[x]  r == p.readsKnown  i == p.i
  <2>1. x \in Slots /\ l \in Nat
    BY <1>1, SlotType DEF Inv, ReadInv
  <2>2. i < t + Size
    BY <1>3 DEF Inv, ProducerInv
  <2>3. Read <= i
    <3>1. CASE c.pc = "received"
      <4>1. c.i < h
        BY <3>1 DEF Inv, ConsumerInv
      <4> DEFINE v == Value(head)  k == c.i
      <4> HIDE DEF h, v, k, i
      <4>2. k \in Nat /\ k < h /\ h \in Nat /\ h <= v /\ v \in Nat /\ v <= i /\ i \in Nat
        BY <1>1, <4>1 DEF h, v, k, i
      <4>3. k + 1 <= i
        BY <4>2
      <4> QED BY <3>1, <4>3 DEF Read, k
    <3>2. CASE c.pc # "received"
      BY <1>1, <3>2 DEF Read
    <3> QED BY <3>1, <3>2
  <2>4. l # 0 => SlotOf(l - 1) = x /\ l <= Read
    BY <2>1 DEF Inv, ReadInv
  <2>5. Read \in Nat /\ Size \in Nat /\ i \in Nat /\ r \in Nat /\ t \in Nat /\ r >= t
    BY <1>1, <1>2, Constants DEF Read
  <2>6. CASE l = 0
    BY <2>5, <2>6 DEF l
  <2>7. CASE l # 0
    <3> HIDE DEF l, r, i, t
    <3>1. l - 1 \in Nat /\ l - 1 < i
      BY <2>1, <2>3, <2>4, <2>5, <2>7
    <3>2. SlotOf(l - 1) = SlotOf(i)
      BY <2>4, <2>7 DEF x, i
    <3>3. (l - 1) + Size <= i
      BY <2>5, <3>1, <3>2, SlotsApart
    <3>4. l <= r
      BY <2>1, <2>2, <2>5, <3>3
    <3> QED BY <3>4 DEF l, r, i
  <2> QED BY <2>6, <2>7
<1>4. ASSUME c.pc = "peeked" PROVE buffer[SlotOf(c.i)].write <= c.writesKnown
  <2> DEFINE i == c.i  w == c.writesKnown  v == Value(head)  n == p.i
  <2>1. i < h
    BY <1>4 DEF Inv, ConsumerInv
  <2>2. i \in Nat /\ h \in Nat /\ w \in Nat /\ w >= h /\ h <= v /\ v \in Nat /\ v <= n /\ n \in Nat
    BY <1>1, <1>2
  <2>3. n <= Written
    BY <1>1 DEF Written
  <2>4. i <= i /\ i < n /\ i + 1 <= w
    <3> HIDE DEF i, h, w, v, n
    <3> QED BY <2>1, <2>2
  <2>5. i < Written
    BY <2>2, <2>3, <2>4 DEF Written
  <2>6. buffer[SlotOf(i)].write = i + 1
    BY <2>2, <2>4, <2>5 DEF Inv, BufferInv
  <2> QED BY <2>4, <2>6
<1> QED BY <1>1, <1>3, <1>4 DEF NoDataRace

-----------------------------------------------------------------------------
(* The start, and the start of every run.                                  *)

LEMMA EpochType == Epoch \in Int
<1> DEFINE T == {0 - s : s \in Skews}
<1>1. IsFiniteSet(T)
  <2> DEFINE f == [s \in Skews |-> 0 - s]
  <2>1. f \in Surjection(Skews, T)
    BY DEF Surjection, Range
  <2> HIDE DEF f, T
  <2> QED BY <2>1, SkewsAssumption, FS_Surjection
<1>2. IsFiniteSet(T \cup {0})
  BY <1>1, FS_AddElement
<1>3. T \cup {0} \in SUBSET Int /\ T \cup {0} # {}
  BY SkewsAssumption
<1> HIDE DEF T
<1>4. Max(T \cup {0}) \in T \cup {0}
  BY <1>2, <1>3, Greatest
<1> QED BY <1>3, <1>4 DEF Epoch, T

\* A sequence with one more at its end.
LEMMA OneMore ==
  ASSUME NEW S, NEW s \in Seq(S), NEW e \in S
  PROVE  s \o <<e>> \in Seq(S) /\ s \o <<e>> # <<>>
<1>1. <<e>> \in Seq(S) /\ Len(<<e>>) = 1
  OBVIOUS
<1> DEFINE t == <<e>>
<1> HIDE DEF t
<1>2. t \in Seq(S) /\ Len(t) = 1
  BY <1>1 DEF t
<1>3. s \o t \in Seq(S) /\ Len(s \o t) = Len(s) + Len(t)
  BY <1>2, ConcatProperties
<1>4. Len(s) \in Nat /\ Len(<<>>) = 0
  OBVIOUS
<1>5. s \o t # <<>>
  BY <1>2, <1>3, <1>4
<1> QED BY <1>3, <1>5 DEF t

LEMMA RunsOfType ==
  ASSUME NEW prog \in Programs, NEW interval \in Intervals
  PROVE  /\ RunsOf(prog, interval) \in Seq(RunRecords) /\ RunsOf(prog, interval) # <<>>
         /\ prog = "ring_bench" => /\ Len(RunsOf(prog, interval)) = 1
                                  /\ Head(RunsOf(prog, interval)).recordLatency
                                  /\ Head(RunsOf(prog, interval)).warmup = 0
<1>1. /\ Reps \in Nat /\ BurstMessages \in Nat /\ PacedMessages \in Nat /\ Warmup \in Nat
      /\ interval \in Nat /\ WarmupShare \in Nat /\ WarmupShare > 0
  BY OptionsAssumption, RingAssumption
<1> DEFINE short == BurstMessages \div WarmupShare
           long == PacedMessages \div WarmupShare
<1>2. short \in Nat /\ long \in Nat
  BY <1>1
<1> HIDE DEF short, long
<1> DEFINE burst == Run(BurstMessages, short, 0, FALSE)
           paced == Run(PacedMessages, long, interval, TRUE)
           latency == Run(PacedMessages, Warmup, interval, TRUE)
           bench == Run(PacedMessages, 0, 0, TRUE)
<1>3. /\ burst \in RunRecords /\ paced \in RunRecords
      /\ latency \in RunRecords /\ bench \in RunRecords
      /\ bench.recordLatency /\ bench.warmup = 0
  BY <1>1, <1>2 DEF Run, RunRecords
<1>4. RunsOf(prog, interval) =
        CASE prog = "ring_study" -> [rep \in 1..Reps |-> burst] \o <<paced>>
          [] prog = "ring_latency" -> <<latency>>
          [] prog = "ring_bench" -> <<bench>>
  BY DEF RunsOf, StudyRuns, LatencyRuns, BenchRuns, short, long
<1> HIDE DEF burst, paced, latency, bench
<1>5. CASE prog = "ring_study"
  <2> DEFINE bursts == [rep \in 1..Reps |-> burst]
  <2>1. bursts \in Seq(RunRecords)
    BY <1>1, <1>3
  <2>2. RunsOf(prog, interval) = bursts \o <<paced>>
    BY <1>4, <1>5
  <2> HIDE DEF bursts
  <2>3. bursts \o <<paced>> \in Seq(RunRecords) /\ bursts \o <<paced>> # <<>>
    BY <1>3, <2>1, OneMore
  <2> QED BY <1>5, <2>2, <2>3
<1>6. CASE prog = "ring_latency"
  BY <1>3, <1>4, <1>6
<1>7. CASE prog = "ring_bench"
  BY <1>3, <1>4, <1>7
<1> QED BY <1>5, <1>6, <1>7 DEF Programs

\* A ring of its own, and two threads at their beginning.
NewRun ==
  /\ head = NewIndex /\ tail = NewIndex
  /\ buffer = [s \in Slots |-> NoMessage] /\ lastRead = [s \in Slots |-> 0]
  /\ p = NewProducer /\ c = NewConsumer
  /\ now = Epoch /\ results = NewResults /\ measured = <<>>

LEMMA NewRunInv ==
  ASSUME SettingsInv, NewRun, exit = "none"
  PROVE  Inv
<1>1. /\ p.pc = "waiting" /\ p.i = 0 /\ p.writeIdx = 0 /\ p.cachedTail = 0
      /\ p.tailSeen = 1 /\ p.readsKnown = 0 /\ p \in Producers
  BY DEF NewRun, NewProducer, Producers
<1>2. /\ c.pc = "starting" /\ c.i = 0 /\ c.cachedHead = 0 /\ c.headSeen = 1
      /\ c.writesKnown = 0 /\ c \in Consumers
  BY DEF NewRun, NewConsumer, Consumers
<1>3. /\ IsIndex(head) /\ IsIndex(tail) /\ Len(head) = 1 /\ Len(tail) = 1
      /\ head[1].value = 0 /\ tail[1].value = 0 /\ Value(head) = 0 /\ Value(tail) = 0
  BY DEF NewRun, NewIndex, IsIndex, Stores, Value, Newest
<1>4. ProducerInv
  BY <1>1, <1>3 DEF ProducerInv
<1>5. ConsumerInv
  BY <1>2, <1>3 DEF ConsumerInv
<1>6. BufferInv
  BY <1>1, <1>2 DEF BufferInv, NewRun, NoMessage, Contents, Written
<1>7. ReadInv
  BY DEF ReadInv, NewRun
<1>8. MeasureInv
  <2>1. now \in Int /\ measured \in Seq(Stamps) /\ Len(measured) = 0
    BY EpochType DEF NewRun
  <2>2. /\ DOMAIN results = ResultFields /\ results.outOfOrder = 0
        /\ results.negativeDeltas = 0 /\ results.totalLatency = 0
        /\ results.sendToReceive.count = 0 /\ results.intendedToReceive.count = 0
    BY DEF NewRun, NewResults, ResultFields, EmptyHistogram
  <2>3. RawDelays = <<>>
    BY DEF RawDelays, NewRun
  <2>4. 0 = Sum(RawDelays) % 2 ^ ValueBits
    <3> DEFINE m == 2 ^ ValueBits
    <3>1. m \in Nat /\ m > 0
      BY WordAssumption
    <3> HIDE DEF m
    <3>2. 0 % m = 0
      BY <3>1
    <3> QED BY <2>3, <3>2, EmptySum DEF m
  <2>5. cfg.warmup \in Nat
    BY CfgType DEF RunRecords
  <2>6. Measured = 0
    BY <1>2, <2>5 DEF Measured, MeasuredOf, Read
  <2> QED BY <2>1, <2>2, <2>4, <2>6 DEF MeasureInv
<1>9. ExitInv
  BY DEF ExitInv
<1> QED BY <1>3, <1>4, <1>5, <1>6, <1>7, <1>8, <1>9 DEF Inv

LEMMA NewRunInvPrimed == (SettingsInv /\ NewRun /\ exit = "none")' => Inv'
<1>1. SettingsInv /\ NewRun /\ exit = "none" => Inv
  BY NewRunInv
<1> QED BY <1>1, PTL

LEMMA InitInv == Init => Inv
<1> SUFFICES ASSUME Init PROVE Inv
  OBVIOUS
<1>1. variant \in VariantRecords /\ (~variant.cached => variant.batch = 1)
  <2>1. Batches \subseteq Nat \ {0}
    BY RingAssumption
  <2>2. variant \in Variants
    BY DEF Init
  <2>3. CASE variant = [cached |-> FALSE, batch |-> 1, flushes |-> FALSE]
    BY <2>3 DEF VariantRecords
  <2>4. CASE variant = [cached |-> TRUE, batch |-> 1, flushes |-> FALSE]
    BY <2>4 DEF VariantRecords
  <2>5. ASSUME NEW b \in Batches, variant = [cached |-> TRUE, batch |-> b, flushes |-> TRUE]
        PROVE  variant \in VariantRecords /\ (~variant.cached => variant.batch = 1)
    BY <2>1, <2>5 DEF VariantRecords
  <2> QED BY <2>2, <2>3, <2>4, <2>5 DEF Variants
<1>2. SettingsInv
  <2>1. program \in Programs /\ skew \in Int
    BY SkewsAssumption DEF Init, Programs
  <2>2. /\ runs \in Seq(RunRecords) /\ runs # <<>>
        /\ program = "ring_bench" => Len(runs) = 1 /\ cfg.recordLatency /\ cfg.warmup = 0
    BY <2>1, RunsOfType DEF Init, cfg
  <2> QED BY <1>1, <2>1, <2>2 DEF SettingsInv
<1> QED BY <1>2, NewRunInv DEF Init, NewRun

-----------------------------------------------------------------------------
(* What a step leaves alone.                                               *)

\* A store releases what was accessed before it.
LEMMA IndexGrows ==
  ASSUME NEW stores, IsIndex(stores), NEW v \in Nat, Value(stores) <= v
  PROVE  /\ IsIndex(Store(stores, v, v)) /\ Value(Store(stores, v, v)) = v
         /\ Len(Store(stores, v, v)) = Len(stores) + 1
         /\ \A k \in 1..Len(stores) : Store(stores, v, v)[k] = stores[k]
<1> DEFINE e == [value |-> v, clock |-> v]  n == Len(stores)  t == Append(stores, e)
<1>1. e \in Stores /\ e.value = v /\ e.clock = v
  BY DEF Stores
<1>2. stores \in Seq(Stores) /\ n \in Nat /\ n > 0
  BY DEF IsIndex
<1> HIDE DEF e
<1>3. /\ t \in Seq(Stores) /\ Len(t) = n + 1 /\ t[n + 1] = e
      /\ \A k \in 1..n : t[k] = stores[k]
  BY <1>1, <1>2
<1> HIDE DEF t, n
<1>4. /\ \A k \in 1..n : stores[k] \in Stores /\ stores[k].clock = stores[k].value
      /\ \A j, k \in 1..n : j <= k => stores[j].value <= stores[k].value
      /\ stores[n].value <= v /\ n \in 1..n
  BY <1>2 DEF IsIndex, Value, Newest, n
<1>5. \A k \in 1..n : stores[k].value \in Nat /\ stores[k].value <= v
  BY <1>2, <1>4 DEF Stores
<1>6. \A k \in 1..(n + 1) : k \in 1..n \/ k = n + 1
  BY <1>2
<1>7. \A k \in 1..(n + 1) : t[k].clock = t[k].value
  BY <1>1, <1>3, <1>4, <1>6
<1>8. ASSUME NEW j \in 1..(n + 1), NEW k \in 1..(n + 1), j <= k
      PROVE  t[j].value <= t[k].value
  <2>1. CASE k \in 1..n
    <3>1. j \in 1..n
      BY <1>2, <1>8, <2>1
    <3> QED BY <1>3, <1>4, <1>8, <2>1, <3>1
  <2>2. CASE k = n + 1
    BY <1>1, <1>3, <1>5, <1>6, <2>2
  <2> QED BY <1>6, <2>1, <2>2
<1>9. IsIndex(t)
  BY <1>2, <1>3, <1>7, <1>8 DEF IsIndex
<1>10. Value(t) = v /\ Store(stores, v, v) = t
  BY <1>1, <1>3 DEF Value, Newest, Store, t, e
<1> QED BY <1>3, <1>9, <1>10 DEF n

LEMMA SettingsKeep ==
  ASSUME Inv, exit = "none", UNCHANGED <<settings, exit>>
  PROVE  SettingsInv' /\ ExitInv'
<1>1. SettingsInv'
  BY DEF Inv, SettingsInv, settings, cfg
<1>2. ExitInv'
  BY DEF ExitInv
<1> QED BY <1>1, <1>2

\* The producer may store its index, and the consumer is where it was.
LEMMA ConsumerKeeps ==
  ASSUME IsIndex(head), ConsumerInv, UNCHANGED <<c, tail, variant>>,
         Len(head') \in Nat, Len(head') >= Len(head),
         \A k \in 1..Len(head) : head'[k] = head[k]
  PROVE  ConsumerInv'
<1> DEFINE k == c.headSeen
<1>1. Len(head) \in Nat
  BY DEF IsIndex
<1>2. k \in 1..Len(head)
  BY DEF ConsumerInv
<1>3. k \in 1..Len(head') /\ head'[k] = head[k]
  BY <1>1, <1>2
<1>4. Value(tail') = Value(tail)
  OBVIOUS
<1> QED BY <1>3, <1>4 DEF ConsumerInv, Value, Newest

LEMMA ProducerKeeps ==
  ASSUME IsIndex(tail), ProducerInv, UNCHANGED <<p, head, variant>>,
         Len(tail') \in Nat, Len(tail') >= Len(tail),
         \A k \in 1..Len(tail) : tail'[k] = tail[k]
  PROVE  ProducerInv'
<1> DEFINE k == p.tailSeen
<1>1. Len(tail) \in Nat
  BY DEF IsIndex
<1>2. k \in 1..Len(tail)
  BY DEF ProducerInv
<1>3. k \in 1..Len(tail') /\ tail'[k] = tail[k]
  BY <1>1, <1>2
<1>4. Value(head') = Value(head)
  OBVIOUS
<1> QED BY <1>3, <1>4 DEF ProducerInv, Value, Newest

LEMMA BufferKeeps ==
  ASSUME BufferInv, UNCHANGED buffer, c.i \in Int, c'.i \in Int, c'.i >= c.i,
         Written' = Written, Written \in Int
  PROVE  BufferInv'
<1> DEFINE w == Written
<1>1. \A j \in Nat : c'.i <= j /\ j < w =>
         buffer[SlotOf(j)].write = j + 1 /\ buffer[SlotOf(j)].seq = j
  BY DEF BufferInv
<1>2. (w)' = w
  OBVIOUS
<1> QED BY <1>1, <1>2 DEF BufferInv, SlotOf

LEMMA ReadKeeps ==
  ASSUME ReadInv, UNCHANGED lastRead, Read' = Read
  PROVE  ReadInv'
  BY DEF ReadInv, SlotOf

LEMMA MeasureKeeps ==
  ASSUME MeasureInv, UNCHANGED <<report, program, runs>>, now' \in Int, Read' = Read
  PROVE  MeasureInv'
<1>1. /\ measured' = measured /\ results' = results /\ program' = program
      /\ runs' = runs /\ cfg' = cfg
  BY DEF report, cfg
<1>2. Measured' = Measured /\ Paced' = Paced /\ RawDelays' = RawDelays
  BY <1>1 DEF Measured, Paced, RawDelays
<1>3. Sum(RawDelays)' = Sum(RawDelays)
  BY <1>2
<1> QED BY <1>1, <1>2, <1>3 DEF MeasureInv

-----------------------------------------------------------------------------
(* The producer's steps.                                                   *)

LEMMA WrittenType ==
  ASSUME ProducerInv, ConsumerInv
  PROVE  /\ p.i \in Nat /\ c.i \in Nat /\ Written \in Int /\ Read \in Int
         /\ Written \in {p.i, p.i + 1} /\ Read \in {c.i, c.i + 1}
<1>1. p.i \in Nat /\ c.i \in Nat
  BY DEF ProducerInv, ConsumerInv, Producers, Consumers
<1> QED BY <1>1 DEF Written, Read

\* Only the producer's private state changes, and it writes and publishes nothing.
LEMMA PrivateProducerStep ==
  ASSUME Inv, exit = "none", UNCHANGED <<settings, ring, c, now, report, exit>>,
         ProducerInv', Written' = Written
  PROVE  Inv'
<1>1. SettingsInv' /\ ExitInv'
  BY SettingsKeep
<1>2. IsIndex(head)' /\ IsIndex(tail)'
  BY DEF Inv, IsIndex, ring
<1>3. ConsumerInv'
  <2>1. /\ Len(head') \in Nat /\ Len(head') >= Len(head)
        /\ \A k \in 1..Len(head) : head'[k] = head[k]
    BY DEF Inv, IsIndex, ring
  <2> QED BY <2>1, ConsumerKeeps DEF Inv, ring, settings
<1>4. BufferInv'
  <2>1. c.i \in Nat /\ Written \in Int /\ c' = c /\ buffer' = buffer
    BY WrittenType DEF Inv, ring
  <2> QED BY <2>1, BufferKeeps DEF Inv
<1>5. ReadInv'
  BY ReadKeeps DEF Inv, ring, Read
<1>6. MeasureInv'
  <2>1. now' \in Int /\ Read' = Read
    BY DEF Inv, MeasureInv, Read
  <2> QED BY <2>1, MeasureKeeps DEF Inv, settings
<1> QED BY <1>1, <1>2, <1>3, <1>4, <1>5, <1>6 DEF Inv

LEMMA StartStep == ASSUME Inv, Start PROVE Inv'
<1>1. exit = "none"
  BY DEF Inv, ExitInv, Joined, Start
<1>2. p \in Producers /\ p.pc = "waiting" /\ now + Lead \in Int
  BY OptionsAssumption DEF Inv, ProducerInv, MeasureInv, Start
<1>3. p' = [p EXCEPT !.pc = "sending", !.start = now + Lead]
  BY DEF Start
<1>4. /\ p' \in Producers /\ p'.pc = "sending" /\ p'.i = p.i /\ p'.writeIdx = p.writeIdx
      /\ p'.cachedTail = p.cachedTail /\ p'.tailSeen = p.tailSeen
      /\ p'.readsKnown = p.readsKnown
  BY <1>2, <1>3 DEF Producers
<1>5. ProducerInv'
  BY <1>4 DEF Inv, ProducerInv, Start, Value, Newest, settings, ring
<1>6. Written' = Written
  BY <1>2, <1>4 DEF Written
<1> QED BY <1>1, <1>5, <1>6, PrivateProducerStep DEF Start

LEMMA ClaimStep == ASSUME Inv, Claim PROVE Inv'
<1>1. exit = "none"
  BY DEF Inv, ExitInv, Joined, Claim
<1>2. p \in Producers /\ p.pc = "sending" /\ p' = [p EXCEPT !.pc = "claimed"]
  BY DEF Inv, ProducerInv, Claim
<1>3. /\ p' \in Producers /\ p'.pc = "claimed" /\ p'.i = p.i /\ p'.writeIdx = p.writeIdx
      /\ p'.cachedTail = p.cachedTail /\ p'.tailSeen = p.tailSeen
      /\ p'.readsKnown = p.readsKnown
  BY <1>2 DEF Producers
<1> DEFINE t == tail[p.tailSeen].value
<1>4. p.i < t + Size
  <2>1. variant.cached /\ ~(WriteIdx - p.cachedTail >= Size)
    BY DEF Claim, ClaimReads, LooksFull
  <2>2. p.cachedTail = t
    BY <2>1 DEF Inv, ProducerInv
  <2>3. WriteIdx = p.i /\ p.i \in Nat /\ t \in Nat
    BY Ordered DEF Inv
  <2> HIDE DEF t
  <2> QED BY <2>1, <2>2, <2>3, Constants
<1>5. ProducerInv'
  BY <1>3, <1>4 DEF Inv, ProducerInv, Claim, Value, Newest, settings, ring
<1>6. Written' = Written
  BY <1>2, <1>3 DEF Written
<1> QED BY <1>1, <1>5, <1>6, PrivateProducerStep DEF Claim

LEMMA ClaimReadingStep == ASSUME Inv, NEW s, ClaimReading(s) PROVE Inv'
<1>1. exit = "none"
  BY DEF Inv, ExitInv, Joined, ClaimReading
<1>2. /\ p \in Producers /\ p.pc = "sending" /\ s \in p.tailSeen..Len(tail)
      /\ p.tailSeen \in 1..Len(tail) /\ Len(tail) \in Nat
  BY DEF Inv, ProducerInv, ClaimReading, Newest, IsIndex
<1>3. s \in 1..Len(tail) /\ s \in Nat
  BY <1>2
<1> DEFINE t == tail[s].value
<1>4. t \in Nat /\ tail[s].clock = t
  <2>1. tail[s] \in Stores /\ tail[s].clock = tail[s].value
    BY <1>3 DEF Inv, IsIndex
  <2> QED BY <2>1 DEF Stores
<1>5. p.readsKnown \in Nat /\ p.cachedTail \in Nat /\ p.i \in Nat /\ WriteIdx = p.i
  BY <1>2, Ordered DEF Inv, Producers
<1> DEFINE known == Acquire(p.readsKnown, tail[s])
<1>6. known \in Nat /\ known >= t
  BY <1>4, <1>5 DEF Acquire
<1> DEFINE pc == IF LooksFull(WriteIdx, t) THEN p.pc ELSE "claimed"
           copy == IF variant.cached THEN t ELSE p.cachedTail
<1>7. /\ pc \in {"sending", "claimed"} /\ (pc = "claimed" => p.i < t + Size)
      /\ copy \in Nat /\ (variant.cached => copy = t)
  <2>1. pc = "claimed" => ~(p.i - t >= Size)
    BY <1>2, <1>5 DEF LooksFull
  <2> HIDE DEF t
  <2> QED BY <1>2, <1>4, <1>5, <2>1, Constants
<1>8. p' = [p EXCEPT !.pc = pc, !.cachedTail = copy, !.tailSeen = s, !.readsKnown = known]
  BY DEF ClaimReading
<1> HIDE DEF t, known, pc, copy
<1>9. /\ p' \in Producers /\ p'.pc = pc /\ p'.i = p.i /\ p'.writeIdx = p.writeIdx
      /\ p'.cachedTail = copy /\ p'.tailSeen = s /\ p'.readsKnown = known
  BY <1>2, <1>3, <1>6, <1>7, <1>8 DEF Producers
<1>10. UNCHANGED <<settings, ring, c, now, report, exit>>
  BY DEF ClaimReading
<1>11. ProducerInv'
  <2>1. tail' = tail /\ head' = head /\ variant' = variant
    BY <1>10 DEF ring, settings
  <2>2. /\ p.writeIdx = p.i /\ Value(head) <= p.i
        /\ ~variant.cached => Value(head) = p.i
    BY DEF Inv, ProducerInv
  <2> QED BY <1>3, <1>6, <1>7, <1>9, <2>1, <2>2 DEF ProducerInv, t, Value, Newest
<1>12. Written' = Written
  BY <1>2, <1>7, <1>9 DEF Written
<1> QED BY <1>1, <1>10, <1>11, <1>12, PrivateProducerStep

\* The message goes to a slot of which none is waiting any more.
LEMMA WriteMessageStep == ASSUME Inv, WriteMessage PROVE Inv'
<1>1. exit = "none"
  BY DEF Inv, ExitInv, Joined, WriteMessage
<1>2. p \in Producers /\ p.pc = "claimed" /\ p' = [p EXCEPT !.pc = "written"]
  BY DEF Inv, ProducerInv, WriteMessage
<1>3. /\ p' \in Producers /\ p'.pc = "written" /\ p'.i = p.i /\ p'.writeIdx = p.writeIdx
      /\ p'.cachedTail = p.cachedTail /\ p'.tailSeen = p.tailSeen
      /\ p'.readsKnown = p.readsKnown
  BY <1>2 DEF Producers
<1> DEFINE i == p.i  x == SlotOf(i)
           message == IF cfg.recordLatency
                      THEN [seq |-> i, intended |-> Intended, sent |-> now, write |-> i + 1]
                      ELSE [buffer[x] EXCEPT !.seq = i, !.write = i + 1]
<1>4. WriteIdx = i /\ i \in Nat /\ x \in Slots
  BY Ordered, SlotType DEF Inv
<1>5. buffer' = [buffer EXCEPT ![x] = message]
  BY <1>4 DEF WriteMessage
<1>6. message \in Contents /\ message.seq = i /\ message.write = i + 1
  <2>1. buffer[x] \in Contents /\ now \in Int
    BY <1>4 DEF Inv, BufferInv, MeasureInv
  <2>2. Intended \in Int
    <3>1. p.start \in Int /\ p.i \in Nat
      BY <1>2 DEF Producers
    <3>2. cfg.interval \in Nat
      BY CfgType DEF Inv, RunRecords
    <3>3. p.i * cfg.interval \in Nat
      BY <3>1, <3>2
    <3> QED BY <3>1, <3>3 DEF Intended
  <2>3. CASE cfg.recordLatency
    BY <1>4, <2>1, <2>2, <2>3 DEF Contents
  <2>4. CASE ~cfg.recordLatency
    <3> DEFINE b == buffer[x]
    <3>1. message = [b EXCEPT !.seq = i, !.write = i + 1] /\ i \in Int /\ i + 1 \in Nat
      BY <1>4, <2>4
    <3> HIDE DEF message, x, i
    <3>2. b \in Contents
      BY <2>1
    <3> HIDE DEF b
    <3> QED BY <3>1, <3>2 DEF Contents
  <2> QED BY <2>3, <2>4
<1>7. UNCHANGED <<settings, head, tail, lastRead, c, now, report, exit>>
  BY DEF WriteMessage
<1>8. SettingsInv' /\ ExitInv'
  BY <1>1, <1>7, SettingsKeep
<1>9. IsIndex(head)' /\ IsIndex(tail)'
  BY <1>7 DEF Inv, IsIndex
<1>10. ProducerInv'
  BY <1>2, <1>3, <1>7 DEF Inv, ProducerInv, Value, Newest, settings
<1>11. ConsumerInv'
  <2>1. /\ Len(head') \in Nat /\ Len(head') >= Len(head)
        /\ \A k \in 1..Len(head) : head'[k] = head[k]
    BY <1>7 DEF Inv, IsIndex
  <2> QED BY <1>7, <2>1, ConsumerKeeps DEF Inv, settings
<1>12. BufferInv'
  <2> HIDE DEF message
  <2>1. buffer' \in [Slots -> Contents]
    BY <1>5, <1>6 DEF Inv, BufferInv
  <2>2. Written = i /\ Written' = i + 1
    BY <1>2, <1>3 DEF Written
  <2>3. ASSUME NEW j \in Nat, c.i <= j, j < i + 1
        PROVE  buffer'[SlotOf(j)].write = j + 1 /\ buffer'[SlotOf(j)].seq = j
    <3> DEFINE y == SlotOf(j)
    <3>1. buffer \in [Slots -> Contents] /\ y \in Slots
      BY SlotType DEF Inv, BufferInv
    <3>2. CASE j = i
      BY <1>4, <1>5, <1>6, <3>1, <3>2
    <3>3. CASE j # i
      <4>1. j < i
        BY <1>4, <2>3, <3>3
      <4>2. y # x
        <5> DEFINE t == tail[p.tailSeen].value  k == c.i
        <5>1. t \in Nat /\ k \in Nat /\ t <= k
          BY Ordered DEF Inv
        <5>2. i < t + Size
          BY <1>2 DEF Inv, ProducerInv
        <5>3. k <= j
          BY <2>3
        <5>4. y = x => j + Size <= i
          BY <1>4, <4>1, SlotsApart
        <5> HIDE DEF t, k, y, x, i
        <5> QED BY <1>4, <5>1, <5>2, <5>3, <5>4, Constants
      <4>3. buffer'[y] = buffer[y]
        BY <1>5, <3>1, <4>2
      <4>4. buffer[y].write = j + 1 /\ buffer[y].seq = j
        BY <2>2, <2>3, <4>1 DEF Inv, BufferInv
      <4> QED BY <4>3, <4>4
    <3> QED BY <3>2, <3>3
  <2>4. c' = c
    BY <1>7
  <2> QED BY <2>1, <2>2, <2>3, <2>4 DEF BufferInv, SlotOf
<1>13. ReadInv'
  BY <1>7, ReadKeeps DEF Inv, Read
<1>14. MeasureInv'
  <2>1. now' \in Int /\ Read' = Read
    BY <1>7 DEF Inv, MeasureInv, Read
  <2> QED BY <1>7, <2>1, MeasureKeeps DEF Inv, settings
<1> QED BY <1>8, <1>9, <1>10, <1>11, <1>12, <1>13, <1>14 DEF Inv

LEMMA PublishStep == ASSUME Inv, Publish PROVE Inv'
<1>1. exit = "none"
  BY DEF Inv, ExitInv, Joined, Publish
<1> DEFINE i == p.i
<1>2. /\ p \in Producers /\ p.pc = "written" /\ p.writeIdx = i
      /\ p' = [p EXCEPT !.pc = "sending", !.i = i + 1, !.writeIdx = p.writeIdx + 1]
  BY DEF Inv, ProducerInv, Publish
<1>3. i \in Nat /\ WriteIdx = i /\ Value(head) \in Nat /\ Value(head) <= i
  BY Ordered DEF Inv
<1>4. /\ p' \in Producers /\ p'.pc = "sending" /\ p'.i = i + 1 /\ p'.writeIdx = i + 1
      /\ p'.cachedTail = p.cachedTail /\ p'.tailSeen = p.tailSeen
      /\ p'.readsKnown = p.readsKnown
  <2> HIDE DEF i
  <2>1. i + 1 \in Nat /\ p' = [p EXCEPT !.pc = "sending", !.i = i + 1, !.writeIdx = i + 1]
    BY <1>2, <1>3
  <2> QED BY <1>2, <2>1 DEF Producers
<1>5. UNCHANGED <<settings, tail, buffer, lastRead, c, now, report, exit>>
  BY DEF Publish
<1>6. SettingsInv' /\ ExitInv'
  BY <1>1, <1>5, SettingsKeep
<1>7. IsIndex(head) /\ IsIndex(tail) /\ Len(head) \in Nat
  BY DEF Inv, IsIndex
<1>8. /\ IsIndex(head') /\ Len(head') \in Nat /\ Len(head') >= Len(head)
      /\ \A k \in 1..Len(head) : head'[k] = head[k]
      /\ Value(head') <= i + 1 /\ (~variant.cached => Value(head') = i + 1)
  <2>1. head' = IF Publishes THEN Store(head, i + 1, i + 1) ELSE head
    BY <1>3 DEF Publish
  <2>2. CASE Publishes
    <3>1. head' = Store(head, i + 1, i + 1) /\ i + 1 \in Nat /\ Value(head) <= i + 1
      BY <1>3, <2>1, <2>2
    <3> QED BY <1>3, <1>7, <3>1, IndexGrows
  <2>3. CASE ~Publishes
    <3>1. head' = head
      BY <2>1, <2>3
    <3>2. variant.cached
      <4> SUFFICES ASSUME ~variant.cached PROVE FALSE
        OBVIOUS
      <4>1. variant.batch = 1 /\ Value(head) = i
        BY DEF Inv, SettingsInv, ProducerInv
      <4> QED BY <1>3, <2>3, <4>1 DEF Publishes
    <3> QED BY <1>3, <1>7, <3>1, <3>2
  <2> QED BY <2>2, <2>3
<1>9. IsIndex(head)' /\ IsIndex(tail)'
  BY <1>5, <1>7, <1>8 DEF IsIndex
<1>10. ProducerInv'
  <2>1. /\ p.tailSeen \in 1..Len(tail) /\ p.readsKnown >= tail[p.tailSeen].value
        /\ variant.cached => p.cachedTail = tail[p.tailSeen].value
    BY DEF Inv, ProducerInv
  <2> QED BY <1>4, <1>5, <1>8, <2>1 DEF ProducerInv, Value, Newest, settings
<1>11. ConsumerInv'
  BY <1>5, <1>7, <1>8, ConsumerKeeps DEF Inv, settings
<1>12. BufferInv'
  <2>1. c.i \in Nat /\ Written \in Int /\ c' = c /\ Written' = Written
    BY <1>2, <1>4, <1>5, WrittenType DEF Inv, Written
  <2> QED BY <1>5, <2>1, BufferKeeps DEF Inv
<1>13. ReadInv'
  BY <1>5, ReadKeeps DEF Inv, Read
<1>14. MeasureInv'
  <2>1. now' \in Int /\ Read' = Read
    BY <1>5 DEF Inv, MeasureInv, Read
  <2> QED BY <1>5, <2>1, MeasureKeeps DEF Inv, settings
<1> QED BY <1>6, <1>9, <1>10, <1>11, <1>12, <1>13, <1>14 DEF Inv

LEMMA FlushStep == ASSUME Inv, Flush PROVE Inv'
<1>1. exit = "none"
  BY DEF Inv, ExitInv, Joined, Flush
<1> DEFINE i == p.i
<1>2. p \in Producers /\ p.pc = "sending" /\ p' = [p EXCEPT !.pc = "done"]
  BY DEF Inv, ProducerInv, Flush
<1>3. i \in Nat /\ WriteIdx = i /\ Value(head) \in Nat /\ Value(head) <= i
  BY Ordered DEF Inv
<1>4. /\ p' \in Producers /\ p'.pc = "done" /\ p'.i = i /\ p'.writeIdx = p.writeIdx
      /\ p'.cachedTail = p.cachedTail /\ p'.tailSeen = p.tailSeen
      /\ p'.readsKnown = p.readsKnown
  BY <1>2, <1>3 DEF Producers
<1>5. UNCHANGED <<settings, tail, buffer, lastRead, c, now, report, exit>>
  BY DEF Flush
<1>6. SettingsInv' /\ ExitInv'
  BY <1>1, <1>5, SettingsKeep
<1>7. IsIndex(head) /\ IsIndex(tail) /\ Len(head) \in Nat
  BY DEF Inv, IsIndex
<1>8. /\ IsIndex(head') /\ Len(head') \in Nat /\ Len(head') >= Len(head)
      /\ \A k \in 1..Len(head) : head'[k] = head[k]
      /\ Value(head') <= i /\ (~variant.cached => Value(head') = i)
  <2>1. head' = Store(head, i, i) \/ head' = head
    BY <1>3 DEF Flush
  <2>2. CASE head' = Store(head, i, i)
    BY <1>3, <1>7, <2>2, IndexGrows
  <2>3. CASE head' = head
    BY <1>3, <1>7, <2>3 DEF Inv, ProducerInv
  <2> QED BY <2>1, <2>2, <2>3
<1>9. IsIndex(head)' /\ IsIndex(tail)'
  BY <1>5, <1>7, <1>8 DEF IsIndex
<1>10. ProducerInv'
  <2>1. /\ p.tailSeen \in 1..Len(tail) /\ p.readsKnown >= tail[p.tailSeen].value
        /\ variant.cached => p.cachedTail = tail[p.tailSeen].value
        /\ p.writeIdx = i
    BY DEF Inv, ProducerInv
  <2> QED BY <1>4, <1>5, <1>8, <2>1 DEF ProducerInv, Value, Newest, settings
<1>11. ConsumerInv'
  BY <1>5, <1>7, <1>8, ConsumerKeeps DEF Inv, settings
<1>12. BufferInv'
  <2>1. c.i \in Nat /\ Written \in Int /\ c' = c /\ Written' = Written
    BY <1>2, <1>4, <1>5, WrittenType DEF Inv, Written
  <2> QED BY <1>5, <2>1, BufferKeeps DEF Inv
<1>13. ReadInv'
  BY <1>5, ReadKeeps DEF Inv, Read
<1>14. MeasureInv'
  <2>1. now' \in Int /\ Read' = Read
    BY <1>5 DEF Inv, MeasureInv, Read
  <2> QED BY <1>5, <2>1, MeasureKeeps DEF Inv, settings
<1> QED BY <1>6, <1>9, <1>10, <1>11, <1>12, <1>13, <1>14 DEF Inv

-----------------------------------------------------------------------------
(* The consumer's steps.                                                   *)

\* Only the consumer's private state and its being ready change.
LEMMA PrivateConsumerStep ==
  ASSUME Inv, exit = "none", UNCHANGED <<settings, ring, p, now, report, exit>>,
         ConsumerInv', c'.i = c.i, Read' = Read
  PROVE  Inv'
<1>1. SettingsInv' /\ ExitInv'
  BY SettingsKeep
<1>2. IsIndex(head)' /\ IsIndex(tail)'
  BY DEF Inv, IsIndex, ring
<1>3. ProducerInv'
  <2>1. /\ Len(tail') \in Nat /\ Len(tail') >= Len(tail)
        /\ \A k \in 1..Len(tail) : tail'[k] = tail[k]
    BY DEF Inv, IsIndex, ring
  <2> QED BY <2>1, ProducerKeeps DEF Inv, ring, settings
<1>4. BufferInv'
  <2>1. c.i \in Nat /\ Written \in Int /\ Written' = Written /\ buffer' = buffer
    BY WrittenType DEF Inv, ring, Written
  <2> QED BY <2>1, BufferKeeps DEF Inv
<1>5. ReadInv'
  BY ReadKeeps DEF Inv, ring
<1>6. MeasureInv'
  <2>1. now' \in Int
    BY DEF Inv, MeasureInv
  <2> QED BY <2>1, MeasureKeeps DEF Inv, settings
<1> QED BY <1>1, <1>2, <1>3, <1>4, <1>5, <1>6 DEF Inv

LEMMA SignalReadyStep == ASSUME Inv, SignalReady PROVE Inv'
<1>1. exit = "none"
  BY DEF Inv, ExitInv, Joined, SignalReady
<1>2. c \in Consumers /\ c.pc = "starting" /\ c' = [c EXCEPT !.pc = "receiving"]
  BY DEF Inv, ConsumerInv, SignalReady
<1>3. /\ c' \in Consumers /\ c'.pc = "receiving" /\ c'.i = c.i
      /\ c'.cachedHead = c.cachedHead /\ c'.headSeen = c.headSeen
      /\ c'.writesKnown = c.writesKnown
  BY <1>2 DEF Consumers
<1>4. ConsumerInv'
  BY <1>3 DEF Inv, ConsumerInv, SignalReady, Value, Newest, settings, ring
<1>5. Read' = Read
  BY <1>2, <1>3 DEF Read
<1> QED BY <1>1, <1>3, <1>4, <1>5, PrivateConsumerStep DEF SignalReady

LEMMA PeekStep == ASSUME Inv, Peek PROVE Inv'
<1>1. exit = "none"
  <2>1. c.i \in Nat /\ Total \in Nat
    BY Ordered, CfgType DEF Inv
  <2>2. ~Joined
    BY <2>1 DEF Peek, Joined
  <2> QED BY <2>2 DEF Inv, ExitInv
<1>2. c \in Consumers /\ c.pc = "receiving" /\ c' = [c EXCEPT !.pc = "peeked"]
  BY DEF Inv, ConsumerInv, Peek
<1>3. /\ c' \in Consumers /\ c'.pc = "peeked" /\ c'.i = c.i
      /\ c'.cachedHead = c.cachedHead /\ c'.headSeen = c.headSeen
      /\ c'.writesKnown = c.writesKnown
  BY <1>2 DEF Consumers
<1> DEFINE h == head[c.headSeen].value
<1>4. c.i < h
  <2>1. variant.cached /\ Value(tail) # c.cachedHead
    BY DEF Peek, PeekReads, LooksEmpty
  <2>2. c.cachedHead = h
    BY <2>1 DEF Inv, ConsumerInv
  <2>3. Value(tail) = c.i /\ c.i \in Nat /\ h \in Nat /\ c.i <= h
    BY Ordered DEF Inv
  <2> HIDE DEF h
  <2> QED BY <2>1, <2>2, <2>3
<1>5. ConsumerInv'
  BY <1>3, <1>4 DEF Inv, ConsumerInv, Peek, Value, Newest, settings, ring
<1>6. Read' = Read
  BY <1>2, <1>3 DEF Read
<1> QED BY <1>1, <1>3, <1>5, <1>6, PrivateConsumerStep DEF Peek

LEMMA PeekReadingStep == ASSUME Inv, NEW s, PeekReading(s) PROVE Inv'
<1>1. exit = "none"
  <2>1. c.i \in Nat /\ Total \in Nat
    BY Ordered, CfgType DEF Inv
  <2>2. ~Joined
    BY <2>1 DEF PeekReading, Joined
  <2> QED BY <2>2 DEF Inv, ExitInv
<1>2. /\ c \in Consumers /\ c.pc = "receiving" /\ s \in c.headSeen..Len(head)
      /\ c.headSeen \in 1..Len(head) /\ Len(head) \in Nat
  BY DEF Inv, ConsumerInv, PeekReading, Newest, IsIndex
<1>3. s \in 1..Len(head) /\ s \in Nat /\ c.headSeen <= s
  BY <1>2
<1> DEFINE h == head[s].value  i == c.i
<1>4. h \in Nat /\ head[s].clock = h
  <2>1. head[s] \in Stores /\ head[s].clock = head[s].value
    BY <1>3 DEF Inv, IsIndex
  <2> QED BY <2>1 DEF Stores
<1>5. c.writesKnown \in Nat /\ c.cachedHead \in Nat /\ i \in Nat /\ Value(tail) = i
  BY <1>2, Ordered DEF Inv, Consumers
<1>6. i <= h
  <2> DEFINE g == head[c.headSeen].value
  <2>1. g \in Nat /\ i <= g
    BY Ordered DEF Inv
  <2>2. g <= h
    BY <1>2, <1>3 DEF Inv, IsIndex
  <2> HIDE DEF g, h, i
  <2> QED BY <1>4, <1>5, <2>1, <2>2
<1> DEFINE known == Acquire(c.writesKnown, head[s])
<1>7. known \in Nat /\ known >= h
  BY <1>4, <1>5 DEF Acquire
<1> DEFINE pc == IF LooksEmpty(h, Value(tail)) THEN c.pc ELSE "peeked"
           copy == IF variant.cached THEN h ELSE c.cachedHead
<1>8. /\ pc \in {"receiving", "peeked"} /\ (pc = "peeked" => i < h)
      /\ copy \in Nat /\ (variant.cached => copy = h)
  <2>1. pc = "peeked" => i # h
    BY <1>2, <1>5 DEF LooksEmpty
  <2> HIDE DEF h, i
  <2> QED BY <1>2, <1>4, <1>5, <1>6, <2>1
<1>9. c' = [c EXCEPT !.pc = pc, !.cachedHead = copy, !.headSeen = s, !.writesKnown = known]
  BY DEF PeekReading
<1> HIDE DEF h, known, pc, copy
<1>10. /\ c' \in Consumers /\ c'.pc = pc /\ c'.i = i
       /\ c'.cachedHead = copy /\ c'.headSeen = s /\ c'.writesKnown = known
  BY <1>2, <1>3, <1>7, <1>8, <1>9 DEF Consumers
<1>11. UNCHANGED <<settings, ring, p, now, report, exit>>
  BY DEF PeekReading
<1>12. ConsumerInv'
  <2>1. tail' = tail /\ head' = head /\ variant' = variant
    BY <1>11 DEF ring, settings
  <2> QED BY <1>3, <1>5, <1>6, <1>7, <1>8, <1>10, <2>1 DEF ConsumerInv, h, Value, Newest
<1>13. Read' = Read
  BY <1>2, <1>8, <1>10 DEF Read
<1> QED BY <1>1, <1>10, <1>11, <1>12, <1>13, PrivateConsumerStep

\* The message at a slot to be read is the one sent next, and undamaged.
LEMMA NextMessage ==
  ASSUME Inv, c.pc = "peeked"
  PROVE  /\ Readable(SlotOf(Value(tail))) = {buffer[SlotOf(c.i)]}
         /\ SlotOf(c.i) \in Slots /\ buffer[SlotOf(c.i)] \in Contents
         /\ buffer[SlotOf(c.i)].seq = c.i /\ Value(tail) = c.i
<1> DEFINE i == c.i  x == SlotOf(i)
<1>1. i \in Nat /\ Value(tail) = i /\ x \in Slots
  BY Ordered, SlotType DEF Inv
<1>2. buffer[x] \in Contents
  BY <1>1 DEF Inv, BufferInv
<1>3. buffer[x].seq = i
  <2> DEFINE h == head[c.headSeen].value  v == Value(head)  n == p.i
  <2>1. i < h
    BY DEF Inv, ConsumerInv
  <2>2. h \in Nat /\ h <= v /\ v \in Nat /\ v <= n /\ n \in Nat
    BY Ordered DEF Inv
  <2>3. Written \in {n, n + 1}
    BY WrittenType DEF Inv
  <2>4. i <= i /\ i < n /\ i < n + 1
    <3> HIDE DEF i, h, v, n
    <3> QED BY <1>1, <2>1, <2>2
  <2>5. i < Written
    BY <2>3, <2>4
  <2> QED BY <1>1, <2>4, <2>5 DEF Inv, BufferInv
<1>4. ~(buffer[x].write > c.writesKnown)
  <2>1. buffer[x].write <= c.writesKnown
    BY <1>1, NoRace DEF NoDataRace
  <2>2. buffer[x].write \in Nat /\ c.writesKnown \in Nat
    BY <1>2, Ordered DEF Inv, Contents
  <2> QED BY <2>1, <2>2
<1> QED BY <1>1, <1>2, <1>3, <1>4 DEF Readable

LEMMA RecordedIs ==
  ASSUME NEW r, DOMAIN r = ResultFields, NEW m, NEW time
  PROVE  /\ DOMAIN Recorded(r, m, time) = ResultFields
         /\ Recorded(r, m, time).outOfOrder = r.outOfOrder
         /\ Recorded(r, m, time).sendToReceive.count = r.sendToReceive.count + 1
         /\ Recorded(r, m, time).intendedToReceive.count =
              IF Paced THEN r.intendedToReceive.count + 1 ELSE r.intendedToReceive.count
         /\ Recorded(r, m, time).negativeDeltas =
              IF Paced THEN r.negativeDeltas + Negative(m.sent, time)
                              + Negative(m.intended, time)
              ELSE r.negativeDeltas + Negative(m.sent, time)
<1> DEFINE a == Record(r.sendToReceive, Elapsed(m.sent, time))
           n == r.negativeDeltas + Negative(m.sent, time)
           sent == [r EXCEPT !.sendToReceive = a, !.negativeDeltas = n]
           b == Record(r.intendedToReceive, Elapsed(m.intended, time))
           both == [sent EXCEPT !.intendedToReceive = b,
                                !.negativeDeltas = n + Negative(m.intended, time)]
<1>1. a.count = r.sendToReceive.count + 1 /\ b.count = r.intendedToReceive.count + 1
  BY DEF Record
<1> HIDE DEF a, b, n
<1>2. /\ DOMAIN sent = ResultFields /\ sent.outOfOrder = r.outOfOrder
      /\ sent.sendToReceive = a /\ sent.intendedToReceive = r.intendedToReceive
      /\ sent.negativeDeltas = n
  BY DEF ResultFields
<1> HIDE DEF sent
<1>3. /\ DOMAIN both = ResultFields /\ both.outOfOrder = r.outOfOrder
      /\ both.sendToReceive = a /\ both.intendedToReceive = b
      /\ both.negativeDeltas = n + Negative(m.intended, time)
  BY <1>2 DEF ResultFields
<1>4. Recorded(r, m, time) = IF Paced THEN both ELSE sent
  BY <1>2 DEF Recorded, sent, a, b, n
<1> HIDE DEF both
<1> QED BY <1>1, <1>2, <1>3, <1>4 DEF n

\* One message more is received in order, and what it measures is recorded.
LEMMA ReceivedIs ==
  ASSUME MeasureInv, NEW m, m.seq = c.i, NEW time
  PROVE  LET r == Received(results, m, time)
             measures == cfg.recordLatency /\ c.i >= cfg.warmup
         IN /\ DOMAIN r = ResultFields /\ r.outOfOrder = 0
            /\ program = "ring_bench" =>
                 /\ r.totalLatency = (results.totalLatency + time - m.sent) % 2 ^ ValueBits
                 /\ r.negativeDeltas = results.negativeDeltas
            /\ program # "ring_bench" =>
                 /\ measures => /\ r.sendToReceive.count = results.sendToReceive.count + 1
                                /\ r.intendedToReceive.count =
                                     IF Paced THEN results.intendedToReceive.count + 1
                                     ELSE results.intendedToReceive.count
                                /\ r.negativeDeltas =
                                     IF Paced
                                     THEN results.negativeDeltas + Negative(m.sent, time)
                                            + Negative(m.intended, time)
                                     ELSE results.negativeDeltas + Negative(m.sent, time)
                 /\ ~measures => /\ r.sendToReceive = results.sendToReceive
                                 /\ r.intendedToReceive = results.intendedToReceive
                                 /\ r.negativeDeltas = results.negativeDeltas
<1> DEFINE r == Received(results, m, time)
           measures == cfg.recordLatency /\ c.i >= cfg.warmup
           s == IF measures THEN Recorded(results, m, time) ELSE results
           latency == (results.totalLatency + time - m.sent) % 2 ^ ValueBits
<1>1. DOMAIN results = ResultFields /\ results.outOfOrder = 0
  BY DEF MeasureInv
<1>2. CASE program = "ring_bench"
  <2>1. r = [results EXCEPT !.totalLatency = latency]
    BY <1>2 DEF Received
  <2> HIDE DEF r, latency
  <2>2. /\ DOMAIN r = ResultFields /\ r.outOfOrder = 0 /\ r.totalLatency = latency
        /\ r.negativeDeltas = results.negativeDeltas
    BY <1>1, <2>1 DEF ResultFields
  <2> QED BY <1>2, <2>2 DEF r, latency
<1>3. CASE program # "ring_bench"
  <2>1. DOMAIN s = ResultFields /\ s.outOfOrder = 0
    BY <1>1, RecordedIs
  <2>2. r = [s EXCEPT !.outOfOrder = @ + (IF m.seq # c.i THEN 1 ELSE 0)]
    BY <1>3 DEF Received
  <2>3. r = [s EXCEPT !.outOfOrder = 0]
    BY <2>1, <2>2
  <2> HIDE DEF r, s
  <2>4. /\ DOMAIN r = ResultFields /\ r.outOfOrder = 0
        /\ r.sendToReceive = s.sendToReceive /\ r.intendedToReceive = s.intendedToReceive
        /\ r.negativeDeltas = s.negativeDeltas
    BY <2>1, <2>3 DEF ResultFields
  <2>5. CASE measures
    <3>1. s = Recorded(results, m, time)
      BY <2>5 DEF s
    <3> QED BY <1>1, <1>3, <2>4, <2>5, <3>1, RecordedIs DEF r
  <2>6. CASE ~measures
    <3>1. s = results
      BY <2>6 DEF s
    <3> QED BY <1>3, <2>4, <2>6, <3>1 DEF r
  <2> QED BY <2>5, <2>6
<1> QED BY <1>2, <1>3

LEMMA OneMeasured ==
  ASSUME NEW run \in RunRecords, NEW i \in Nat
  PROVE  /\ (run.recordLatency /\ i >= run.warmup) =>
              MeasuredOf(run, i + 1) = MeasuredOf(run, i) + 1
         /\ ~(run.recordLatency /\ i >= run.warmup) =>
              MeasuredOf(run, i + 1) = MeasuredOf(run, i)
<1> DEFINE w == run.warmup
<1>1. w \in Nat
  BY DEF RunRecords
<1>2. CASE ~run.recordLatency
  BY <1>2 DEF MeasuredOf
<1>3. CASE run.recordLatency
  <2>1. \A n \in Nat : MeasuredOf(run, n) = IF n > w THEN n - w ELSE 0
    BY <1>3 DEF MeasuredOf
  <2> HIDE DEF w
  <2>2. i >= w => MeasuredOf(run, i + 1) = MeasuredOf(run, i) + 1
    BY <1>1, <2>1
  <2>3. ~(i >= w) => MeasuredOf(run, i + 1) = MeasuredOf(run, i)
    BY <1>1, <2>1
  <2> QED BY <1>3, <2>2, <2>3 DEF w
<1> QED BY <1>2, <1>3

LEMMA Measuring ==
  ASSUME Inv, Receive
  PROVE  MeasureInv'
<1> DEFINE i == c.i  m == buffer[SlotOf(i)]  time == now + skew
           measures == cfg.recordLatency /\ i >= cfg.warmup
           stamp == [sent |-> m.sent, received |-> time]
           r == Received(results, m, time)
<1>1. /\ c.pc = "peeked" /\ c' = [c EXCEPT !.pc = "received"] /\ c \in Consumers
      /\ UNCHANGED <<settings, now>>
  BY DEF Inv, ConsumerInv, Receive
<1>2. /\ Readable(SlotOf(Value(tail))) = {m} /\ m \in Contents /\ m.seq = i
  BY <1>1, NextMessage
<1>3. /\ results' = r
      /\ measured' = IF measures THEN Append(measured, stamp) ELSE measured
  BY <1>2 DEF Receive
<1>4. c'.pc = "received" /\ c'.i = i /\ i \in Nat /\ Read = i /\ Read' = i + 1
  BY <1>1 DEF Consumers, Read
<1>5. time \in Int /\ now \in Int /\ m.sent \in Int /\ m.intended \in Int
  BY <1>2 DEF Inv, MeasureInv, SettingsInv, Contents
<1>6. /\ program' = program /\ cfg' = cfg /\ Paced' = Paced /\ now' = now
  BY <1>1 DEF settings, cfg, Paced
<1>7. cfg.warmup \in Nat
  BY CfgType DEF Inv
<1>8. /\ measured \in Seq(Stamps) /\ DOMAIN results = ResultFields
      /\ results.negativeDeltas \in Nat
  BY DEF Inv, MeasureInv
<1>9. stamp \in Stamps /\ stamp.sent = m.sent /\ stamp.received = time
  BY <1>5 DEF Stamps
<1> DEFINE k == Len(measured)
<1>10. /\ measured' \in Seq(Stamps)
       /\ ~measures => measured' = measured
       /\ measures => /\ Len(measured') = k + 1 /\ measured'[k + 1] = stamp
                      /\ \A n \in 1..k : measured'[n] = measured[n]
  <2> HIDE DEF stamp, measures
  <2> QED BY <1>3, <1>8, <1>9
<1>11. Measured = MeasuredOf(cfg, i) /\ Measured' = MeasuredOf(cfg, i + 1)
  BY <1>4, <1>6 DEF Measured
<1>12. Measured' = IF measures THEN Measured + 1 ELSE Measured
  <2>1. cfg \in RunRecords
    BY CfgType DEF Inv
  <2> QED BY <1>4, <1>11, <2>1, OneMeasured
<1>13. /\ DOMAIN r = ResultFields /\ r.outOfOrder = 0
       /\ program = "ring_bench" =>
            /\ r.totalLatency = (results.totalLatency + time - m.sent) % 2 ^ ValueBits
            /\ r.negativeDeltas = results.negativeDeltas
       /\ program # "ring_bench" =>
            /\ measures => /\ r.sendToReceive.count = results.sendToReceive.count + 1
                           /\ r.intendedToReceive.count =
                                IF Paced THEN results.intendedToReceive.count + 1
                                ELSE results.intendedToReceive.count
                           /\ r.negativeDeltas =
                                IF Paced
                                THEN results.negativeDeltas + Negative(m.sent, time)
                                       + Negative(m.intended, time)
                                ELSE results.negativeDeltas + Negative(m.sent, time)
            /\ ~measures => /\ r.sendToReceive = results.sendToReceive
                            /\ r.intendedToReceive = results.intendedToReceive
                            /\ r.negativeDeltas = results.negativeDeltas
  BY <1>2, ReceivedIs DEF Inv
<1>14. /\ Negative(m.sent, time) \in Nat /\ Negative(m.intended, time) \in Nat
       /\ Negative(m.sent, time) = 0 => time >= m.sent
  BY DEF Negative
<1> HIDE DEF r, m, time
<1>15. r.negativeDeltas \in Nat
  BY <1>8, <1>13, <1>14
<1>16. ASSUME program = "ring_bench"
       PROVE  r.totalLatency = (Sum(RawDelays) % 2 ^ ValueBits)'
  <2>1. measures
    BY <1>4, <1>16 DEF Inv, SettingsInv
  <2> DEFINE d == RawDelays
             e == [n \in DOMAIN measured' |-> measured'[n].received - measured'[n].sent]
             gain == time - m.sent
             word == 2 ^ ValueBits
  <2>2. RawDelays' = e
    BY DEF RawDelays
  <2>3. k \in Nat /\ d \in [1..k -> Int]
    <3>1. k \in Nat /\ DOMAIN measured = 1..k /\ \A n \in 1..k : measured[n] \in Stamps
      BY <1>8
    <3> HIDE DEF k
    <3> QED BY <3>1 DEF RawDelays, Stamps
  <2>4. /\ DOMAIN e = 1..(k + 1) /\ e[k + 1] = gain
        /\ \A n \in 1..k : e[n] = d[n]
    <3>1. DOMAIN measured' = 1..(k + 1) /\ k + 1 \in 1..(k + 1) /\ DOMAIN measured = 1..k
      BY <1>8, <1>10, <2>1, <2>3
    <3>2. e[k + 1] = gain
      BY <1>9, <1>10, <2>1, <3>1
    <3>3. \A n \in 1..k : e[n] = d[n]
      <4>1. \A n \in 1..k : n \in 1..(k + 1)
        BY <2>3
      <4> QED BY <1>10, <2>1, <3>1, <4>1 DEF RawDelays
    <3> QED BY <3>1, <3>2, <3>3
  <2>5. gain \in Int
    BY <1>5
  <2> HIDE DEF d, e, k
  <2>6. Sum(d) \in Int /\ Sum(e) = Sum(d) + gain
    BY <2>3, <2>4, <2>5, SumAppend
  <2>7. results.totalLatency = Sum(d) % word
    BY <1>16 DEF Inv, MeasureInv, d
  <2>8. word \in Nat /\ word > 0
    BY WordAssumption
  <2>9. r.totalLatency = (results.totalLatency + time - m.sent) % word
    BY <1>13, <1>16
  <2> DEFINE a == Sum(d)
  <2>10. (a % word) \in Int
    BY <2>6, <2>8
  <2>11. results.totalLatency + time - m.sent = (a % word) + gain
    BY <1>5, <2>7, <2>10
  <2> HIDE DEF a, word, gain
  <2>12. ((a % word) + gain) % word = (a + gain) % word
    BY <2>5, <2>6, <2>8, ModSum DEF a
  <2>13. r.totalLatency = Sum(e) % word
    BY <2>6, <2>9, <2>11, <2>12 DEF a
  <2> QED BY <2>2, <2>13 DEF word
<1>17. ASSUME program # "ring_bench"
       PROVE  /\ r.sendToReceive.count = Measured'
              /\ r.intendedToReceive.count = (IF Paced THEN Measured' ELSE 0)
              /\ r.negativeDeltas = 0 =>
                   \A n \in 1..Len(measured') : measured'[n].received >= measured'[n].sent
  <2>1. /\ results.sendToReceive.count = Measured
        /\ results.intendedToReceive.count = (IF Paced THEN Measured ELSE 0)
        /\ results.negativeDeltas = 0 =>
             \A n \in 1..Len(measured) : measured[n].received >= measured[n].sent
    BY <1>17 DEF Inv, MeasureInv
  <2>2. CASE ~measures
    BY <1>10, <1>12, <1>13, <1>17, <2>1, <2>2
  <2>3. CASE measures
    <3>1. /\ r.sendToReceive.count = Measured'
          /\ r.intendedToReceive.count = (IF Paced THEN Measured' ELSE 0)
      BY <1>12, <1>13, <1>17, <2>1, <2>3
    <3>2. ASSUME r.negativeDeltas = 0, NEW n \in 1..Len(measured')
          PROVE  measured'[n].received >= measured'[n].sent
      <4>1. results.negativeDeltas = 0 /\ time >= m.sent
        BY <1>8, <1>13, <1>14, <1>17, <2>3, <3>2
      <4>2. k \in Nat /\ (n \in 1..k \/ n = k + 1)
        BY <1>8, <1>10, <2>3
      <4> QED BY <1>9, <1>10, <2>1, <2>3, <4>1, <4>2
    <3> QED BY <3>1, <3>2
  <2> QED BY <2>2, <2>3
<1> HIDE DEF k, measures
<1> QED BY <1>3, <1>5, <1>6, <1>10, <1>13, <1>15, <1>16, <1>17 DEF MeasureInv

LEMMA ReceiveStep == ASSUME Inv, Receive PROVE Inv'
<1>1. exit = "none"
  BY DEF Inv, ExitInv, Joined, Receive
<1> DEFINE i == c.i  x == SlotOf(i)
<1>2. c \in Consumers /\ c.pc = "peeked" /\ c' = [c EXCEPT !.pc = "received"]
  BY DEF Inv, ConsumerInv, Receive
<1>3. /\ c' \in Consumers /\ c'.pc = "received" /\ c'.i = i
      /\ c'.cachedHead = c.cachedHead /\ c'.headSeen = c.headSeen
      /\ c'.writesKnown = c.writesKnown
  BY <1>2 DEF Consumers
<1>4. i \in Nat /\ Value(tail) = i /\ x \in Slots
  BY Ordered, SlotType DEF Inv
<1>5. /\ UNCHANGED <<settings, head, tail, buffer, p, exit>>
      /\ lastRead' = [lastRead EXCEPT ![x] = i + 1]
  BY <1>4 DEF Receive
<1>6. SettingsInv' /\ ExitInv'
  BY <1>1, <1>5, SettingsKeep
<1>7. IsIndex(head)' /\ IsIndex(tail)'
  BY <1>5 DEF Inv, IsIndex
<1>8. ProducerInv'
  <2>1. /\ Len(tail') \in Nat /\ Len(tail') >= Len(tail)
        /\ \A k \in 1..Len(tail) : tail'[k] = tail[k]
    BY <1>5 DEF Inv, IsIndex
  <2> QED BY <1>5, <2>1, ProducerKeeps DEF Inv, settings
<1>9. ConsumerInv'
  BY <1>2, <1>3, <1>5 DEF Inv, ConsumerInv, Value, Newest, settings
<1>10. BufferInv'
  <2>1. Written \in Int /\ Written' = Written
    BY <1>5, WrittenType DEF Inv, Written
  <2> QED BY <1>3, <1>4, <1>5, <2>1, BufferKeeps DEF Inv
<1>11. ReadInv'
  <2>1. Read = i /\ Read' = i + 1
    BY <1>2, <1>3 DEF Read
  <2>2. lastRead \in [Slots -> Nat]
    BY DEF Inv, ReadInv
  <2>3. lastRead' \in [Slots -> Nat]
    BY <1>4, <1>5, <2>2
  <2>4. ASSUME NEW slot \in Slots, lastRead'[slot] # 0
        PROVE  SlotOf(lastRead'[slot] - 1) = slot /\ lastRead'[slot] <= i + 1
    <3>1. CASE slot = x
      <4>1. lastRead'[slot] = i + 1 /\ (i + 1) - 1 = i
        BY <1>4, <1>5, <2>2, <3>1
      <4> QED BY <1>4, <3>1, <4>1
    <3>2. CASE slot # x
      <4> DEFINE l == lastRead[slot]
      <4>1. lastRead'[slot] = l /\ l \in Nat
        BY <1>5, <2>2, <3>2
      <4>2. SlotOf(l - 1) = slot /\ l <= i
        BY <2>1, <2>4, <4>1 DEF Inv, ReadInv
      <4> HIDE DEF l
      <4> QED BY <1>4, <4>1, <4>2
    <3> QED BY <3>1, <3>2
  <2> QED BY <2>1, <2>3, <2>4 DEF ReadInv, SlotOf
<1>12. MeasureInv'
  BY Measuring
<1> QED BY <1>6, <1>7, <1>8, <1>9, <1>10, <1>11, <1>12 DEF Inv

LEMMA ConsumeStep == ASSUME Inv, Consume PROVE Inv'
<1>1. exit = "none"
  BY DEF Inv, ExitInv, Joined, Consume
<1> DEFINE i == c.i
<1>2. /\ c \in Consumers /\ c.pc = "received"
      /\ c' = [c EXCEPT !.pc = "receiving", !.i = i + 1]
  BY DEF Inv, ConsumerInv, Consume
<1>3. i \in Nat /\ Value(tail) = i
  BY Ordered DEF Inv
<1>4. /\ c' \in Consumers /\ c'.pc = "receiving" /\ c'.i = i + 1
      /\ c'.cachedHead = c.cachedHead /\ c'.headSeen = c.headSeen
      /\ c'.writesKnown = c.writesKnown
  <2> HIDE DEF i
  <2>1. i + 1 \in Nat
    BY <1>3
  <2> QED BY <1>2, <2>1 DEF Consumers
<1>5. /\ UNCHANGED <<settings, head, buffer, lastRead, p, now, report, exit>>
      /\ tail' = Store(tail, i + 1, i + 1)
  BY <1>3 DEF Consume
<1>6. SettingsInv' /\ ExitInv'
  BY <1>1, <1>5, SettingsKeep
<1>7. IsIndex(head) /\ IsIndex(tail) /\ Len(tail) \in Nat
  BY DEF Inv, IsIndex
<1>8. /\ IsIndex(tail') /\ Len(tail') \in Nat /\ Len(tail') >= Len(tail)
      /\ \A k \in 1..Len(tail) : tail'[k] = tail[k]
      /\ Value(tail') = i + 1
  <2>1. i + 1 \in Nat /\ Value(tail) <= i + 1
    BY <1>3
  <2> QED BY <1>5, <1>7, <2>1, IndexGrows
<1>9. IsIndex(head)' /\ IsIndex(tail)'
  BY <1>5, <1>7, <1>8 DEF IsIndex
<1>10. ProducerInv'
  BY <1>5, <1>7, <1>8, ProducerKeeps DEF Inv, settings
<1>11. ConsumerInv'
  <2> DEFINE h == head[c.headSeen].value
  <2>1. i + 1 <= h
    <3>1. i < h /\ h \in Nat
      BY <1>2, Ordered DEF Inv, ConsumerInv
    <3> HIDE DEF i, h
    <3> QED BY <1>3, <3>1
  <2>2. /\ c.headSeen \in 1..Len(head) /\ c.writesKnown >= h
        /\ variant.cached => c.cachedHead = h
    BY DEF Inv, ConsumerInv
  <2> QED BY <1>4, <1>5, <1>8, <2>1, <2>2 DEF ConsumerInv, Value, Newest, settings
<1>12. BufferInv'
  <2>1. Written \in Int /\ Written' = Written
    BY <1>5, WrittenType DEF Inv, Written
  <2>2. c'.i \in Int /\ c'.i >= c.i /\ c.i \in Int
    BY <1>3, <1>4
  <2> QED BY <1>5, <2>1, <2>2, BufferKeeps DEF Inv
<1>13. Read' = Read
  BY <1>2, <1>4 DEF Read
<1>14. ReadInv'
  BY <1>5, <1>13, ReadKeeps DEF Inv
<1>15. MeasureInv'
  <2>1. now' \in Int
    BY <1>5 DEF Inv, MeasureInv
  <2> QED BY <1>5, <1>13, <2>1, MeasureKeeps DEF Inv, settings
<1> QED BY <1>6, <1>9, <1>10, <1>11, <1>12, <1>14, <1>15 DEF Inv

-----------------------------------------------------------------------------
(* The program's steps, and the invariant.                                 *)

LEMMA NextRunStep == ASSUME Inv, NextRun PROVE Inv'
<1>1. exit = "none" /\ exit' = "none"
  <2>1. runs \in Seq(RunRecords) /\ Len(runs) > 1
    BY DEF Inv, SettingsInv, NextRun
  <2> DEFINE n == Len(runs)
  <2>2. n \in Nat /\ n > 1
    BY <2>1
  <2> HIDE DEF n
  <2>3. n # 1
    BY <2>2
  <2>4. exit = "none"
    BY <2>3 DEF Inv, ExitInv, n
  <2> QED BY <2>4 DEF NextRun
<1>2. SettingsInv'
  <2>1. runs \in Seq(RunRecords) /\ Len(runs) > 1 /\ runs' = Tail(runs)
    BY DEF Inv, SettingsInv, NextRun
  <2>2. runs' \in Seq(RunRecords) /\ Len(runs') = Len(runs) - 1 /\ Len(runs') > 0
    <3> HIDE DEF RunRecords
    <3> QED BY <2>1
  <2>3. runs' # <<>>
    BY <2>2
  <2>4. program # "ring_bench"
    BY <2>1 DEF Inv, SettingsInv
  <2> QED BY <2>2, <2>3, <2>4 DEF Inv, SettingsInv, NextRun
<1>3. NewRun'
  BY DEF NextRun, NewRun
<1> QED BY <1>1, <1>2, <1>3, NewRunInvPrimed

LEMMA ExitStep == ASSUME Inv, NEW written \in BOOLEAN, Exit(written) PROVE Inv'
<1>1. /\ exit = "none" /\ Joined /\ Len(runs) = 1
      /\ UNCHANGED <<settings, ring, p, c, now, report>>
  BY DEF Exit
<1>2. /\ program' = program /\ runs' = runs /\ p' = p /\ c' = c /\ results' = results
      /\ cfg' = cfg
  BY <1>1 DEF settings, report, cfg
<1>3. SettingsInv'
  BY <1>1 DEF Inv, SettingsInv, settings, cfg
<1>4. IsIndex(head)' /\ IsIndex(tail)' /\ ProducerInv' /\ ConsumerInv'
  BY <1>1 DEF Inv, IsIndex, ProducerInv, ConsumerInv, ring, settings, Value, Newest
<1>5. BufferInv' /\ ReadInv' /\ MeasureInv'
  <2>1. Written' = Written /\ Read' = Read
    BY <1>2 DEF Written, Read
  <2>2. BufferInv'
    BY <1>1, <2>1 DEF Inv, BufferInv, ring, SlotOf
  <2>3. ReadInv'
    BY <1>1, <2>1, ReadKeeps DEF Inv, ring
  <2>4. MeasureInv'
    <3>1. now' \in Int
      BY <1>1 DEF Inv, MeasureInv
    <3> QED BY <1>1, <2>1, <3>1, MeasureKeeps DEF Inv, settings
  <2> QED BY <2>2, <2>3, <2>4
<1>6. ExitInv'
  <2>1. Joined' /\ Len(runs') = 1 /\ Fails' = Fails
    BY <1>1, <1>2 DEF Joined, Total, Fails
  <2>2. ASSUME exit' = "0", program # "ring_bench" PROVE ~Fails
    <3>1. failed' = (failed \/ Fails)
      BY DEF Exit
    <3>2. exit' = CASE failed' -> "1" [] ~failed' -> IF written THEN "0" ELSE "2"
      BY <2>2 DEF Exit
    <3>3. ~failed'
      BY <2>2, <3>2
    <3> QED BY <3>1, <3>3
  <2> QED BY <1>2, <2>1, <2>2 DEF ExitInv
<1> QED BY <1>3, <1>4, <1>5, <1>6 DEF Inv

LEMMA AdvanceStep == ASSUME Inv, NEW d \in Jumps, Advance(d) PROVE Inv'
<1>1. exit = "none"
  BY DEF Inv, ExitInv, Advance
<1>2. UNCHANGED <<settings, ring, p, c, report, exit>> /\ now' = now + d
  BY DEF Advance
<1>3. SettingsInv' /\ ExitInv'
  BY <1>1, <1>2, SettingsKeep
<1>4. IsIndex(head)' /\ IsIndex(tail)' /\ ProducerInv' /\ ConsumerInv'
  BY <1>2 DEF Inv, IsIndex, ProducerInv, ConsumerInv, ring, settings, Value, Newest
<1>5. Written' = Written /\ Read' = Read
  BY <1>2 DEF Written, Read
<1>6. BufferInv'
  BY <1>2, <1>5 DEF Inv, BufferInv, ring, SlotOf
<1>7. ReadInv'
  BY <1>2, <1>5, ReadKeeps DEF Inv, ring
<1>8. MeasureInv'
  <2>1. now' \in Int
    BY <1>2, OptionsAssumption DEF Inv, MeasureInv
  <2> QED BY <1>2, <1>5, <2>1, MeasureKeeps DEF Inv, settings
<1> QED BY <1>3, <1>4, <1>6, <1>7, <1>8 DEF Inv

LEMMA Stutter == ASSUME Inv, UNCHANGED vars PROVE Inv'
<1>1. UNCHANGED <<settings, ring, p, c, now, report, exit>>
  BY DEF vars
<1>2. /\ program' = program /\ runs' = runs /\ p' = p /\ c' = c /\ results' = results
      /\ cfg' = cfg /\ exit' = exit
  BY <1>1 DEF settings, report, cfg
<1>3. SettingsInv' /\ ExitInv'
  BY <1>1, <1>2 DEF Inv, SettingsInv, settings, ExitInv, Joined, Total, Fails
<1>4. IsIndex(head)' /\ IsIndex(tail)' /\ ProducerInv' /\ ConsumerInv'
  BY <1>1 DEF Inv, IsIndex, ProducerInv, ConsumerInv, ring, settings, Value, Newest
<1>5. Written' = Written /\ Read' = Read
  BY <1>2 DEF Written, Read
<1>6. BufferInv'
  BY <1>1, <1>5 DEF Inv, BufferInv, ring, SlotOf
<1>7. ReadInv'
  BY <1>1, <1>5, ReadKeeps DEF Inv, ring
<1>8. MeasureInv'
  <2>1. now' \in Int
    BY <1>1 DEF Inv, MeasureInv
  <2> QED BY <1>1, <1>5, <2>1, MeasureKeeps DEF Inv, settings
<1> QED BY <1>3, <1>4, <1>6, <1>7, <1>8 DEF Inv

LEMMA NextInv == Inv /\ [Next]_vars => Inv'
<1> SUFFICES ASSUME Inv, [Next]_vars PROVE Inv'
  OBVIOUS
<1>1. CASE Producer
  <2>1. CASE Start
    BY <2>1, StartStep
  <2>2. CASE Claim
    BY <2>2, ClaimStep
  <2>3. CASE \E s \in 1..Newest(tail) : ClaimReading(s)
    BY <2>3, ClaimReadingStep
  <2>4. CASE WriteMessage
    BY <2>4, WriteMessageStep
  <2>5. CASE Publish
    BY <2>5, PublishStep
  <2>6. CASE Flush
    BY <2>6, FlushStep
  <2> QED BY <1>1, <2>1, <2>2, <2>3, <2>4, <2>5, <2>6 DEF Producer
<1>2. CASE Consumer
  <2>1. CASE SignalReady
    BY <2>1, SignalReadyStep
  <2>2. CASE Peek
    BY <2>2, PeekStep
  <2>3. CASE \E s \in 1..Newest(head) : PeekReading(s)
    BY <2>3, PeekReadingStep
  <2>4. CASE Receive
    BY <2>4, ReceiveStep
  <2>5. CASE Consume
    BY <2>5, ConsumeStep
  <2> QED BY <1>2, <2>1, <2>2, <2>3, <2>4, <2>5 DEF Consumer
<1>3. CASE Main
  BY <1>3, NextRunStep, ExitStep DEF Main
<1>4. CASE \E d \in Jumps : Advance(d)
  BY <1>4, AdvanceStep
<1>5. CASE Exited \/ UNCHANGED vars
  BY <1>5, Stutter DEF Exited
<1> QED BY <1>1, <1>2, <1>3, <1>4, <1>5 DEF Next

LEMMA InvHolds == Spec => []Inv
<1> QED BY InitInv, NextInv, PTL DEF Spec

-----------------------------------------------------------------------------
(* What the programs promise.                                              *)

\* Whichever variant of the ring is used, whatever it reads from the shared
\* indices and however long publishing is put off, neither thread touches a
\* slot that the other may still be accessing.
THEOREM SlotsAreHandedOver == Spec => []NoDataRace
<1>1. Inv => NoDataRace
  BY NoRace
<1> QED BY <1>1, InvHolds, PTL

LEMMA Earned == Inv => ExitIsEarned
<1> SUFFICES ASSUME Inv, Joined PROVE ExitIsEarned
  BY DEF ExitIsEarned
<1>1. c.pc = "receiving" /\ c.i = Total /\ Read = Total
  BY DEF Joined, Read
<1>2. /\ cfg.warmup \in Nat /\ cfg.messages \in Nat /\ Total = cfg.warmup + cfg.messages
  BY CfgType DEF Inv
<1>3. cfg.recordLatency => Measured = cfg.messages
  BY <1>1, <1>2 DEF Measured, MeasuredOf
<1>4. results.outOfOrder = 0
  BY DEF Inv, MeasureInv
<1>5. program = "ring_bench" => results.totalLatency = Sum(RawDelays) % 2 ^ ValueBits
  BY DEF Inv, MeasureInv
<1>6. ASSUME program # "ring_bench", cfg.recordLatency
      PROVE  /\ results.sendToReceive.count = cfg.messages
             /\ results.intendedToReceive.count = (IF Paced THEN cfg.messages ELSE 0)
  BY <1>3, <1>6 DEF Inv, MeasureInv
<1>7. ASSUME program # "ring_bench", exit = "0", NEW n \in DOMAIN RawDelays
      PROVE  RawDelays[n] >= 0
  <2>1. results.negativeDeltas = 0
    BY <1>7 DEF Inv, ExitInv, Fails
  <2>2. measured \in Seq(Stamps) /\ n \in 1..Len(measured)
    BY <1>7 DEF Inv, MeasureInv, RawDelays
  <2>3. measured[n].received >= measured[n].sent
    BY <1>7, <2>1, <2>2 DEF Inv, MeasureInv
  <2>4. measured[n].received \in Int /\ measured[n].sent \in Int
    <3>1. measured[n] \in Stamps
      BY <2>2
    <3> QED BY <3>1 DEF Stamps
  <2>5. RawDelays[n] = measured[n].received - measured[n].sent
    BY <2>2 DEF RawDelays
  <2> QED BY <2>3, <2>4, <2>5
<1> QED BY <1>4, <1>5, <1>6, <1>7 DEF ExitIsEarned

\* What the exit code of a ring benchmark is worth, for any number and sizes of
\* runs and any clocks: the messages came in order, each one measured was
\* recorded, and on success none was received before it was sent.
THEOREM ExitCodeIsEarned == Spec => []ExitIsEarned
<1> QED BY Earned, InvHolds, PTL
=============================================================================
