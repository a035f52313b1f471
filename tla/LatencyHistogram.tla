-------------------------- MODULE LatencyHistogram --------------------------
(***************************************************************************)
(* LatencyHistogram (include/LatencyHistogram.hpp), as operators on its    *)
(* state.  Small values have a bucket each; above those every doubling of  *)
(* the value is cut into kSubBucketHalf buckets of equal width.            *)
(*                                                                         *)
(* A percentile is a natural number here, and its rank is computed         *)
(* exactly: the rounding of the code's doubles is left out.                *)
(***************************************************************************)
EXTENDS Integers, FiniteSetsExt, Folds

CONSTANTS
  kSubBucketBits,  \* 7 in the code
  ValueBits        \* 64 in the code: values are uint64_t

ASSUME BitsAssumption ==
  /\ kSubBucketBits \in Nat \ {0}
  /\ ValueBits \in Nat /\ ValueBits >= kSubBucketBits
\* True of every natural number; provers have no powers.
ASSUME WordAssumption == 2 ^ ValueBits \in Nat \ {0}

Values == 0..(2 ^ ValueBits - 1)
kSubBucketCount == 2 ^ kSubBucketBits
kSubBucketHalf == kSubBucketCount \div 2
Buckets == 0..((ValueBits - kSubBucketBits + 2) * kSubBucketHalf - 1)

-----------------------------------------------------------------------------
(* Buckets.                                                                *)

\* The low bits a value loses: none if it has at most kSubBucketBits.
Shift(value) ==
  CHOOSE s \in 0..ValueBits :
    /\ value < 2 ^ (s + kSubBucketBits)
    /\ s > 0 => value >= 2 ^ (s - 1 + kSubBucketBits)

IndexOf(value) ==
  Shift(value) * kSubBucketHalf + value \div 2 ^ Shift(value)

ShiftOf(bucket) ==
  IF bucket < kSubBucketCount THEN 0 ELSE bucket \div kSubBucketHalf - 1

LowestEquivalent(bucket) ==
  (bucket - ShiftOf(bucket) * kSubBucketHalf) * 2 ^ ShiftOf(bucket)

\* Mutant: a bucket is reported by its lowest value.
HighestIsLowest(bucket) == LowestEquivalent(bucket)
HighestEquivalent(bucket) ==
  LowestEquivalent(bucket) + 2 ^ ShiftOf(bucket) - 1

-----------------------------------------------------------------------------
(* The histogram.                                                          *)

\* A new one, and what reset() leaves.
EmptyHistogram ==
  [counts |-> [b \in Buckets |-> 0], count |-> 0, sum |-> 0,
   min |-> 2 ^ ValueBits - 1, max |-> 0]

Record(h, value) ==
  [counts |-> [h.counts EXCEPT ![IndexOf(value)] = @ + 1],
   count |-> h.count + 1,
   sum |-> (h.sum + value) % 2 ^ ValueBits,
   min |-> IF value < h.min THEN value ELSE h.min,
   max |-> IF value > h.max THEN value ELSE h.max]

\* How many of n values `percentile` percent are, rounded up, and at least one.
Rank(percentile, n) ==
  LET exact == (percentile * n + 99) \div 100 IN IF exact = 0 THEN 1 ELSE exact

Seen(h, bucket) ==
  MapThenFoldSet(+, 0, LAMBDA b : h.counts[b], LAMBDA S : CHOOSE b \in S : TRUE,
                 0..bucket)

ValueAtPercentile(h, percentile) ==
  LET reached == {b \in Buckets : Seen(h, b) >= Rank(percentile, h.count)}
      top == HighestEquivalent(Min(reached))
  IN IF h.count = 0 THEN 0
     ELSE IF percentile = 0 THEN h.min
     ELSE IF top < h.max THEN top ELSE h.max
=============================================================================
