---------------------------- MODULE NumberLemmas ----------------------------
(***************************************************************************)
(* What the proofs need to know of natural numbers: induction, remainders, *)
(* sums, and queues of consecutive numbers.                                *)
(*                                                                         *)
(* Induction is stated for a set of numbers, so that it needs no operator  *)
(* as a parameter: of a formula P it is used on {n \in Nat : P(n)}.        *)
(***************************************************************************)
EXTENDS Integers, Sequences, WellFoundedInduction, TLAPS

\* Every set of numbers has a least one.
LEMMA Least ==
  ASSUME NEW T \in SUBSET Nat, T # {}
  PROVE  \E m \in T : \A n \in T : m <= n
<1>1. PICK m \in T : \A n \in T : ~(<<n, m>> \in OpToRel(<, Nat))
  BY NatLessThanWellFounded, WFMin
<1>2. \A n \in T : ~(n < m)
  BY <1>1 DEF OpToRel
<1> QED BY <1>2

LEMMA Induction ==
  ASSUME NEW T, 0 \in T, \A n \in Nat : n \in T => n + 1 \in T
  PROVE  \A n \in Nat : n \in T
<1> DEFINE Out == Nat \ T
<1> SUFFICES ASSUME Out # {} PROVE FALSE
  OBVIOUS
<1>1. PICK m \in Out : \A n \in Out : m <= n
  BY Least
<1>2. m # 0 /\ m \in Nat
  OBVIOUS
<1>3. m - 1 \in Nat /\ m - 1 \notin Out
  BY <1>1, <1>2
<1>4. m - 1 \in T /\ (m - 1) + 1 = m
  BY <1>2, <1>3
<1> QED BY <1>3, <1>4

-----------------------------------------------------------------------------
\* Multiplication is monotone, with the gap of one factor spelled out.
LEMMA MulGap ==
  \A q, r \in Int : \A m \in Nat : q < r => q * m + m <= r * m
<1> SUFFICES ASSUME NEW q \in Int, NEW r \in Int, NEW m \in Nat, q < r
             PROVE  q * m + m <= r * m
  OBVIOUS
<1>1. PICK d \in Nat : r = q + 1 + d
  <2>1. r - q - 1 \in Nat
    OBVIOUS
  <2> QED BY <2>1
<1>2. r * m = q * m + m + d * m
  BY <1>1
<1>3. d * m >= 0
  BY <1>1
<1> QED BY <1>2, <1>3

\* Division with remainder.
LEMMA DivMod ==
  \A a \in Int : \A m \in Nat : m > 0 =>
    /\ a \div m \in Int /\ a % m \in 0..(m - 1)
    /\ a = (a \div m) * m + (a % m)
  OBVIOUS

\* The quotient is the only one that leaves a remainder below m.
LEMMA ModUnique ==
  \A q \in Int : \A r, m \in Nat : m > 0 /\ r < m => (q * m + r) % m = r
<1> SUFFICES ASSUME NEW q \in Int, NEW r \in Nat, NEW m \in Nat, m > 0, r < m
             PROVE  (q * m + r) % m = r
  OBVIOUS
<1> DEFINE a == q * m + r  p == a \div m  s == a % m
<1>1. q * m \in Int /\ a \in Int
  OBVIOUS
<1>2. p \in Int /\ s \in 0..(m - 1) /\ a = p * m + s
  BY <1>1, DivMod
<1> HIDE DEF p, s
<1>3. ~(p < q)
  <2>1. p < q => p * m + m <= q * m
    BY <1>2, MulGap
  <2>2. p * m \in Int
    BY <1>2
  <2> QED BY <1>1, <1>2, <2>1, <2>2
<1>4. ~(q < p)
  <2>1. q < p => q * m + m <= p * m
    BY <1>2, MulGap
  <2>2. p * m \in Int
    BY <1>2
  <2> QED BY <1>1, <1>2, <2>1, <2>2
<1>5. p = q
  BY <1>2, <1>3, <1>4
<1>6. s = r
  BY <1>1, <1>2, <1>5
<1> QED BY <1>6 DEF s

\* Two numbers with the same remainder are at least m apart.
LEMMA ModApart ==
  \A a, b, m \in Nat : m > 0 /\ a % m = b % m /\ a < b => a + m <= b
<1> SUFFICES ASSUME NEW a \in Nat, NEW b \in Nat, NEW m \in Nat,
                    m > 0, a % m = b % m, a < b
             PROVE  a + m <= b
  OBVIOUS
<1> DEFINE p == a \div m  q == b \div m  r == a % m
<1>1. /\ p \in Int /\ q \in Int /\ r \in 0..(m - 1)
      /\ a = p * m + r /\ b = q * m + r
  BY DivMod
<1> HIDE DEF p, q, r
<1>2. p * m \in Int /\ q * m \in Int
  BY <1>1
<1>3. p < q
  <2>1. q < p => q * m + m <= p * m
    BY <1>1, MulGap
  <2> QED BY <1>1, <1>2, <2>1
<1>4. p * m + m <= q * m
  BY <1>1, <1>3, MulGap
<1> QED BY <1>1, <1>2, <1>4

\* One more, once wrapped, is the wrapped successor of the wrapped number.
LEMMA ModSuccessor ==
  \A a, m \in Nat : m > 0 => ((a % m) + 1) % m = (a + 1) % m
<1> SUFFICES ASSUME NEW a \in Nat, NEW m \in Nat, m > 0
             PROVE  ((a % m) + 1) % m = (a + 1) % m
  OBVIOUS
<1> DEFINE p == a \div m  r == a % m
<1>1. p \in Int /\ r \in 0..(m - 1) /\ a = p * m + r
  BY DivMod
<1> HIDE DEF p, r
<1>2. CASE r + 1 < m
  <2>1. (p * m + (r + 1)) % m = r + 1
    BY <1>1, <1>2, ModUnique
  <2>2. (0 * m + (r + 1)) % m = r + 1
    BY <1>1, <1>2, ModUnique
  <2>3. p * m \in Int /\ p * m + (r + 1) = a + 1
    BY <1>1
  <2>4. 0 * m + (r + 1) = r + 1
    BY <1>1
  <2> QED BY <2>1, <2>2, <2>3, <2>4 DEF r
<1>3. CASE r + 1 = m
  <2>1. ((p + 1) * m + 0) % m = 0
    BY <1>1, ModUnique
  <2>2. (1 * m + 0) % m = 0
    BY <1>1, ModUnique
  <2>3. (p + 1) * m + 0 = a + 1
    BY <1>1, <1>3
  <2>4. 1 * m + 0 = r + 1
    BY <1>1, <1>3
  <2> QED BY <2>1, <2>2, <2>3, <2>4 DEF r
<1> QED BY <1>1, <1>2, <1>3

\* A whole lap keeps the remainder.
LEMMA ModLap == \A a, m \in Nat : m > 0 => (a + m) % m = a % m
<1> SUFFICES ASSUME NEW a \in Nat, NEW m \in Nat, m > 0
             PROVE  (a + m) % m = a % m
  OBVIOUS
<1> DEFINE p == a \div m  r == a % m
<1>1. p \in Int /\ r \in 0..(m - 1) /\ a = p * m + r
  BY DivMod
<1> HIDE DEF p, r
<1>2. ((p + 1) * m + r) % m = r
  BY <1>1, ModUnique
<1>3. (p + 1) * m + r = a + m
  BY <1>1
<1> QED BY <1>2, <1>3 DEF r

-----------------------------------------------------------------------------
\* The queue of the numbers after from, up to to.
Numbered(from, to) == [k \in 1..(to - from) |-> from + k]

\* Sequences of the same length with the same elements are the same.
LEMMA SameSequence ==
  ASSUME NEW s \in Seq(Nat), NEW t \in Seq(Nat), NEW n \in Int,
         Len(s) = n, Len(t) = n, \A k \in 1..n : s[k] = t[k]
  PROVE  s = t
<1>1. s \in [1..n -> Nat] /\ t \in [1..n -> Nat]
  OBVIOUS
<1> QED BY <1>1

\* Such a queue grows at one end and shrinks at the other.
LEMMA NumberedQueue ==
  ASSUME NEW from \in Nat, NEW to \in Nat, from <= to
  PROVE  /\ Numbered(from, to) \in Seq(Nat)
         /\ Len(Numbered(from, to)) = to - from
         /\ Numbered(from, to + 1) = Append(Numbered(from, to), to + 1)
         /\ from < to => /\ Numbered(from, to) # <<>>
                         /\ Head(Numbered(from, to)) = from + 1
                         /\ Tail(Numbered(from, to)) = Numbered(from + 1, to)
<1> DEFINE q == Numbered(from, to)
<1>1. q \in Seq(Nat) /\ Len(q) = to - from
  BY DEF Numbered
<1>2. Numbered(from, to + 1) = Append(q, to + 1)
  BY <1>1 DEF Numbered
<1>3. ASSUME from < to
      PROVE  q # <<>> /\ Head(q) = from + 1 /\ Tail(q) = Numbered(from + 1, to)
  <2>1. q # <<>> /\ Head(q) = from + 1
    BY <1>1, <1>3 DEF Numbered
  <2>2. /\ Tail(q) \in Seq(Nat) /\ Len(Tail(q)) = to - from - 1
        /\ \A k \in 1..(to - from - 1) : Tail(q)[k] = q[k + 1]
    BY <1>1, <2>1
  <2>3. \A k \in 1..(to - from - 1) : q[k + 1] = (from + 1) + k
    BY DEF Numbered
  <2>4. /\ Numbered(from + 1, to) \in Seq(Nat)
        /\ Len(Numbered(from + 1, to)) = to - from - 1
        /\ \A k \in 1..(to - from - 1) : Numbered(from + 1, to)[k] = (from + 1) + k
    BY <1>3 DEF Numbered
  <2>5. Tail(q) = Numbered(from + 1, to)
    <3> DEFINE t == Tail(q)  r == Numbered(from + 1, to)  n == to - from - 1
    <3>1. \A k \in 1..n : t[k] = r[k]
      <4> HIDE DEF q
      <4> QED BY <2>2, <2>3, <2>4
    <3>2. t \in Seq(Nat) /\ r \in Seq(Nat) /\ n \in Int /\ Len(t) = n /\ Len(r) = n
      BY <2>2, <2>4
    <3> HIDE DEF t, r, n
    <3>3. t = r
      BY <3>1, <3>2, SameSequence
    <3> QED BY <3>3 DEF t, r
  <2> QED BY <2>1, <2>5
<1> QED BY <1>1, <1>2, <1>3
=============================================================================
