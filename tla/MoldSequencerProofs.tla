------------------------ MODULE MoldSequencerProofs -------------------------
(***************************************************************************)
(* Each message exactly once and in order, with the counters true, for any *)
(* packets and calls, any number of sessions and any MaxHeld; and that the *)
(* sequencer implements InOrderDelivery.                                   *)
(*                                                                         *)
(* The argument.  A method takes the sequencer from one Good state to      *)
(* another.  What it does is one of two things, or the first and then the  *)
(* second: Skips says that numbers no packet in hand carries are counted   *)
(* as lost; Moves says that delivery goes on through the numbers in hand   *)
(* and those of a packet that comes in, and what is left of them is in     *)
(* hand still.  What drainHeld() moves in its turns composes to one        *)
(* move.  Conserves counts the messages.  So a call is a Skips and a Moves *)
(* (OnPacketCorrect, GiveUpGapCorrect), which keeps the account of all     *)
(* numbers and messages (Accounted), and is a step of the delivery.        *)
(*                                                                         *)
(* The loop and the sum over the held packets are recursive functions;     *)
(* what they compute is proved by induction on sets of turns.              *)
(***************************************************************************)
EXTENDS MoldSequencer, NumberLemmas, FiniteSetTheorems

USE NumberAssumption, CountAssumption, HeldAssumption, SessionsAssumption, CallsAssumption
  DEF FirstSequence

-----------------------------------------------------------------------------
(* States of a Sequencer.                                                  *)

\* Packets that carry messages.
DataPackets ==
  {p \in PacketsOf(Sessions) :
     p.count \in Nat \ {0, kEndOfSession} /\ p.sequence + p.count <= MaxNumber}

Delivered == [session : Sessions, number : 1..MaxNumber]

States ==
  [next : 1..MaxNumber, known : 0..MaxNumber,
   held : Seq(DataPackets),
   session : Sessions \cup {NoSession},
   endOfSession : BOOLEAN, ended : BOOLEAN,
   duplicates : Nat, gaps : Nat, lost : Nat, otherSession : Nat,
   delivered : Seq(Delivered)]

Sorted(packets) ==
  \A i, j \in 1..Len(packets) : i < j => packets[i].sequence <= packets[j].sequence

\* What the held packets carry that is not delivered yet.
InHand(s) ==
  {m \in Nat : m >= s.next /\ \E i \in 1..Len(s.held) : m \in NumbersOf(s.held[i])}

Good(s) ==
  /\ s \in States
  /\ Sorted(s.held)
  /\ \A i \in 1..Len(s.held) :
       /\ s.held[i].session = s.session
       /\ s.held[i].sequence + s.held[i].count <= s.known
  /\ \A i \in 1..Len(s.delivered) :
       s.delivered[i].session = s.session /\ s.delivered[i].number < s.next
  /\ \A i, j \in 1..Len(s.delivered) :
       i < j => s.delivered[i].number < s.delivered[j].number
  /\ s.session = NoSession => s.held = <<>> /\ s.delivered = <<>>

\* Nothing more to be delivered is in hand.
Drained(s) == s.held # <<>> => Head(s.held).sequence > s.next

\* From s to t messages `new` come in and delivery goes on in order, through
\* what is in hand.
Moves(s, t, new) ==
  /\ t.next >= s.next
  /\ \A m \in Nat : s.next <= m /\ m < t.next => m \in InHand(s) \/ m \in new
  /\ \A m \in Nat : m \in InHand(t) <=> m >= t.next /\ (m \in InHand(s) \/ m \in new)
  /\ Len(t.delivered) = Len(s.delivered) + (t.next - s.next)
  /\ \A i \in 1..Len(s.delivered) : t.delivered[i] = s.delivered[i]
  /\ \A i \in 1..(t.next - s.next) :
       t.delivered[Len(s.delivered) + i] = [session |-> s.session, number |-> s.next + i - 1]
  /\ t.session = s.session /\ t.known = s.known /\ t.lost = s.lost

\* `count` messages come in, and each is delivered, counted or held.
Conserves(s, t, count) ==
  Len(t.delivered) + t.duplicates + MessagesIn(t.held)
    = Len(s.delivered) + s.duplicates + MessagesIn(s.held) + count

-----------------------------------------------------------------------------
(* Recursive functions: what the loops compute, turn by turn.              *)

AreTurns(after, s, n) ==
  after = [k \in 0..n |-> IF k = 0 THEN s ELSE DrainFront(after[k - 1])]

LEMMA MoreTurns ==
  ASSUME NEW s, NEW n \in Nat, NEW after, AreTurns(after, s, n)
  PROVE  \E more : AreTurns(more, s, n + 1)
<1> DEFINE more == [k \in 0..(n + 1) |-> IF k = n + 1 THEN DrainFront(after[n]) ELSE after[k]]
<1>1. \A k \in 0..n : after[k] = IF k = 0 THEN s ELSE DrainFront(after[k - 1])
  BY DEF AreTurns
<1>2. ASSUME NEW k \in 0..(n + 1)
      PROVE  more[k] = IF k = 0 THEN s ELSE DrainFront(more[k - 1])
  <2>1. CASE k = n + 1
    BY <2>1
  <2>2. CASE k # n + 1
    BY <1>1, <2>2
  <2> QED BY <2>1, <2>2
<1>3. more = [k \in 0..(n + 1) |-> more[k]]
  OBVIOUS
<1> HIDE DEF more
<1>4. more = [k \in 0..(n + 1) |-> IF k = 0 THEN s ELSE DrainFront(more[k - 1])]
  BY <1>2, <1>3
<1> QED BY <1>4 DEF AreTurns

LEMMA TurnsExist ==
  ASSUME NEW s, NEW n \in Nat
  PROVE  \E after : AreTurns(after, s, n)
<1> DEFINE T == {k \in Nat : \E after : AreTurns(after, s, k)}
<1>1. 0 \in T
  <2>1. AreTurns([k \in 0..0 |-> s], s, 0)
    BY DEF AreTurns
  <2> QED BY <2>1
<1>2. \A k \in Nat : k \in T => k + 1 \in T
  BY MoreTurns
<1> HIDE DEF T
<1>3. n \in T
  BY <1>1, <1>2, Induction
<1> QED BY <1>3 DEF T

LEMMA DrainTurnsAre ==
  ASSUME NEW s, Len(s.held) \in Nat
  PROVE  /\ DrainTurns(s)[0] = s
         /\ \A k \in 1..Len(s.held) : DrainTurns(s)[k] = DrainFront(DrainTurns(s)[k - 1])
<1>1. PICK after : AreTurns(after, s, Len(s.held))
  BY TurnsExist
<1>2. AreTurns(DrainTurns(s), s, Len(s.held))
  BY <1>1 DEF DrainTurns, AreTurns
<1> DEFINE turns == DrainTurns(s)
<1> HIDE DEF turns
<1>3. turns = [k \in 0..Len(s.held) |-> IF k = 0 THEN s ELSE DrainFront(turns[k - 1])]
  BY <1>2 DEF AreTurns, turns
<1>4. \A k \in 0..Len(s.held) : turns[k] = IF k = 0 THEN s ELSE DrainFront(turns[k - 1])
  BY <1>3
<1>5. turns[0] = s /\ \A k \in 1..Len(s.held) : turns[k] = DrainFront(turns[k - 1])
  BY <1>4
<1> QED BY <1>5 DEF turns

AreSums(sum, packets, n) ==
  sum = [k \in 0..n |-> IF k = 0 THEN 0 ELSE sum[k - 1] + packets[k].count]

LEMMA MoreSums ==
  ASSUME NEW packets, NEW n \in Nat, NEW sum, AreSums(sum, packets, n)
  PROVE  \E more : AreSums(more, packets, n + 1)
<1> DEFINE more == [k \in 0..(n + 1) |-> IF k = n + 1 THEN sum[n] + packets[n + 1].count ELSE sum[k]]
<1>1. \A k \in 0..n : sum[k] = IF k = 0 THEN 0 ELSE sum[k - 1] + packets[k].count
  BY DEF AreSums
<1>2. ASSUME NEW k \in 0..(n + 1)
      PROVE  more[k] = IF k = 0 THEN 0 ELSE more[k - 1] + packets[k].count
  <2>1. CASE k = n + 1
    BY <2>1
  <2>2. CASE k # n + 1
    BY <1>1, <2>2
  <2> QED BY <2>1, <2>2
<1>3. more = [k \in 0..(n + 1) |-> more[k]]
  OBVIOUS
<1> HIDE DEF more
<1>4. more = [k \in 0..(n + 1) |-> IF k = 0 THEN 0 ELSE more[k - 1] + packets[k].count]
  BY <1>2, <1>3
<1> QED BY <1>4 DEF AreSums

LEMMA SumsExist ==
  ASSUME NEW packets, NEW n \in Nat
  PROVE  \E sum : AreSums(sum, packets, n)
<1> DEFINE T == {k \in Nat : \E sum : AreSums(sum, packets, k)}
<1>1. 0 \in T
  <2>1. AreSums([k \in 0..0 |-> 0], packets, 0)
    BY DEF AreSums
  <2> QED BY <2>1
<1>2. \A k \in Nat : k \in T => k + 1 \in T
  BY MoreSums
<1> HIDE DEF T
<1>3. n \in T
  BY <1>1, <1>2, Induction
<1> QED BY <1>3 DEF T

\* The sums of the counts of a sequence of packets.
LEMMA CountsUpToAre ==
  ASSUME NEW packets, Len(packets) \in Nat
  PROVE  /\ CountsUpTo(packets)[0] = 0
         /\ \A k \in 1..Len(packets) :
              CountsUpTo(packets)[k] = CountsUpTo(packets)[k - 1] + packets[k].count
<1>1. PICK sum : AreSums(sum, packets, Len(packets))
  BY SumsExist
<1>2. AreSums(CountsUpTo(packets), packets, Len(packets))
  BY <1>1 DEF CountsUpTo, AreSums
<1> DEFINE sums == CountsUpTo(packets)
<1> HIDE DEF sums
<1>3. sums = [k \in 0..Len(packets) |-> IF k = 0 THEN 0 ELSE sums[k - 1] + packets[k].count]
  BY <1>2 DEF AreSums, sums
<1>4. \A k \in 0..Len(packets) : sums[k] = IF k = 0 THEN 0 ELSE sums[k - 1] + packets[k].count
  BY <1>3
<1>5. sums[0] = 0 /\ \A k \in 1..Len(packets) : sums[k] = sums[k - 1] + packets[k].count
  BY <1>4
<1> QED BY <1>5 DEF sums

\* Sequences: a function on 1..n is one; what two make when put together.
LEMMA FunctionIsSequence ==
  ASSUME NEW T, NEW n \in Nat, NEW f \in [1..n -> T]
  PROVE  f \in Seq(T) /\ Len(f) = n
  OBVIOUS

LEMMA ElementIs ==
  ASSUME NEW T, NEW a \in Seq(T)
  PROVE  Len(a) \in Nat /\ \A i \in 1..Len(a) : a[i] \in T
  OBVIOUS

LEMMA InsertAtIs ==
  ASSUME NEW packets \in Seq(DataPackets), NEW at \in 1..(Len(packets) + 1),
         NEW p \in DataPackets
  PROVE  LET more == InsertAt(packets, at, p)
         IN /\ more \in Seq(DataPackets) /\ Len(more) = Len(packets) + 1
            /\ \A i \in 1..(at - 1) : more[i] = packets[i]
            /\ more[at] = p
            /\ \A i \in at..Len(packets) : more[i + 1] = packets[i]
<1> DEFINE before == SubSeq(packets, 1, at - 1)
           after == SubSeq(packets, at, Len(packets))
<1>1. /\ before \in Seq(DataPackets) /\ Len(before) = at - 1
      /\ \A i \in 1..(at - 1) : before[i] = packets[i]
  OBVIOUS
<1>2. /\ after \in Seq(DataPackets) /\ Len(after) = Len(packets) - at + 1
      /\ \A i \in at..Len(packets) : after[i - at + 1] = packets[i]
  OBVIOUS
<1>3. /\ <<p>> \in Seq(DataPackets) /\ Len(<<p>>) = 1 /\ <<p>>[1] = p
  OBVIOUS
<1> HIDE DEF before, after
<1>4. /\ before \o <<p>> \in Seq(DataPackets) /\ Len(before \o <<p>>) = at
      /\ \A i \in 1..(at - 1) : (before \o <<p>>)[i] = packets[i]
      /\ (before \o <<p>>)[at] = p
  BY <1>1, <1>3
<1> DEFINE front == before \o <<p>>
<1> HIDE DEF front
<1>5. /\ front \in Seq(DataPackets) /\ Len(front) = at
      /\ \A i \in 1..(at - 1) : front[i] = packets[i]
      /\ front[at] = p
  BY <1>4 DEF front
<1>6. /\ front \o after \in Seq(DataPackets) /\ Len(front \o after) = Len(packets) + 1
      /\ \A i \in 1..at : (front \o after)[i] = front[i]
      /\ \A i \in at..Len(packets) : (front \o after)[i + 1] = packets[i]
  <2>1. front \o after \in Seq(DataPackets) /\ Len(front \o after) = Len(packets) + 1
    BY <1>2, <1>5
  <2>2. \A i \in 1..at : (front \o after)[i] = front[i]
    BY <1>2, <1>5
  <2>3. ASSUME NEW i \in at..Len(packets) PROVE (front \o after)[i + 1] = packets[i]
    <3> DEFINE k == i - at + 1
    <3>1. k \in 1..Len(after) /\ Len(front) + k = i + 1 /\ after[k] = packets[i]
      BY <1>2, <1>5
    <3> HIDE DEF k
    <3>2. (front \o after)[Len(front) + k] = after[k]
      BY <1>2, <1>5, <3>1
    <3> QED BY <3>1, <3>2
  <2> QED BY <2>1, <2>2, <2>3
<1>7. InsertAt(packets, at, p) = front \o after
  BY DEF InsertAt, front, before, after
<1> DEFINE more == front \o after
<1> HIDE DEF more
<1>8. more \in Seq(DataPackets) /\ Len(more) = Len(packets) + 1
  BY <1>6 DEF more
<1>9. \A i \in 1..at : more[i] = front[i]
  BY <1>6 DEF more
<1>10. \A i \in at..Len(packets) : more[i + 1] = packets[i]
  BY <1>6 DEF more
<1>11. \A i \in 1..(at - 1) : more[i] = packets[i]
  BY <1>5, <1>9
<1>12. more[at] = p
  BY <1>5, <1>9
<1> QED BY <1>7, <1>8, <1>10, <1>11, <1>12 DEF more

LEMMA CountsType ==
  ASSUME NEW packets \in Seq(DataPackets)
  PROVE  /\ \A k \in 0..Len(packets) : CountsUpTo(packets)[k] \in Nat
         /\ MessagesIn(packets) \in Nat
<1> DEFINE sums == CountsUpTo(packets)
           T == {k \in Nat : k <= Len(packets) => sums[k] \in Nat}
<1>1. /\ sums[0] = 0
      /\ \A k \in 1..Len(packets) : sums[k] = sums[k - 1] + packets[k].count
  BY CountsUpToAre
<1>2. \A k \in 1..Len(packets) : packets[k].count \in Nat
  BY DEF DataPackets
<1> HIDE DEF sums
<1>3. 0 \in T
  BY <1>1
<1>4. ASSUME NEW k \in Nat, k \in T PROVE k + 1 \in T
  <2>1. CASE k + 1 <= Len(packets)
    <3>1. sums[k] \in Nat /\ sums[k + 1] = sums[k] + packets[k + 1].count
      BY <1>1, <1>4, <2>1
    <3> QED BY <1>2, <2>1, <3>1
  <2>2. CASE ~(k + 1 <= Len(packets))
    BY <2>2
  <2> QED BY <2>1, <2>2
<1> HIDE DEF T
<1>5. \A k \in Nat : k \in T
  BY <1>3, <1>4, Induction
<1>6. \A k \in 0..Len(packets) : sums[k] \in Nat
  BY <1>5 DEF T
<1> QED BY <1>6 DEF sums, MessagesIn

\* Packets taken off the front, or put in anywhere, change the sum by theirs.
LEMMA MessagesInTail ==
  ASSUME NEW packets \in Seq(DataPackets), packets # <<>>
  PROVE  MessagesIn(packets) = Head(packets).count + MessagesIn(Tail(packets))
<1> DEFINE rest == Tail(packets)
           sums == CountsUpTo(packets)
           sumsOfRest == CountsUpTo(rest)
           T == {k \in Nat : k <= Len(rest) => sums[k + 1] = packets[1].count + sumsOfRest[k]}
<1>1. /\ rest \in Seq(DataPackets) /\ Len(rest) = Len(packets) - 1
      /\ \A k \in 1..Len(rest) : rest[k] = packets[k + 1]
      /\ Head(packets) = packets[1]
  OBVIOUS
<1>2. /\ sums[0] = 0
      /\ \A k \in 1..Len(packets) : sums[k] = sums[k - 1] + packets[k].count
  BY CountsUpToAre
<1> HIDE DEF rest
<1>3. /\ sumsOfRest[0] = 0
      /\ \A k \in 1..Len(rest) : sumsOfRest[k] = sumsOfRest[k - 1] + rest[k].count
  BY <1>1, CountsUpToAre
<1>4. \A k \in 0..Len(rest) : sumsOfRest[k] \in Nat
  BY <1>1, CountsType
<1>5. \A k \in 1..Len(packets) : packets[k].count \in Nat
  BY DEF DataPackets
<1> HIDE DEF sums, sumsOfRest
<1>6. 0 \in T
  BY <1>1, <1>2, <1>3, <1>5
<1>7. ASSUME NEW k \in Nat, k \in T PROVE k + 1 \in T
  <2>1. CASE k + 1 <= Len(rest)
    <3>1. sums[k + 1] = packets[1].count + sumsOfRest[k]
      BY <1>7, <2>1
    <3>2. sums[k + 2] = sums[k + 1] + packets[k + 2].count
      BY <1>1, <1>2, <2>1
    <3>3. sumsOfRest[k + 1] = sumsOfRest[k] + packets[k + 2].count
      BY <1>1, <1>3, <2>1
    <3>4. sumsOfRest[k] \in Nat /\ packets[1].count \in Nat /\ packets[k + 2].count \in Nat
      BY <1>1, <1>4, <1>5, <2>1
    <3> QED BY <3>1, <3>2, <3>3, <3>4
  <2>2. CASE ~(k + 1 <= Len(rest))
    BY <2>2
  <2> QED BY <2>1, <2>2
<1> HIDE DEF T
<1>8. Len(rest) \in T
  BY <1>1, <1>6, <1>7, Induction
<1>9. sums[Len(packets)] = packets[1].count + sumsOfRest[Len(rest)]
  BY <1>1, <1>8 DEF T
<1> QED BY <1>1, <1>9 DEF sums, sumsOfRest, rest, MessagesIn

LEMMA MessagesInInsert ==
  ASSUME NEW packets \in Seq(DataPackets), NEW at \in 1..(Len(packets) + 1),
         NEW p \in DataPackets
  PROVE  MessagesIn(InsertAt(packets, at, p)) = MessagesIn(packets) + p.count
<1> DEFINE more == InsertAt(packets, at, p)
           sums == CountsUpTo(packets)
           sumsOfMore == CountsUpTo(more)
           T == {k \in Nat : k <= Len(packets) + 1 =>
                   sumsOfMore[k] = IF k < at THEN sums[k] ELSE sums[k - 1] + p.count}
<1>1. /\ more \in Seq(DataPackets) /\ Len(more) = Len(packets) + 1
      /\ \A i \in 1..(at - 1) : more[i] = packets[i]
      /\ more[at] = p
      /\ \A i \in at..Len(packets) : more[i + 1] = packets[i]
  BY InsertAtIs
<1>2. /\ sums[0] = 0
      /\ \A k \in 1..Len(packets) : sums[k] = sums[k - 1] + packets[k].count
  BY CountsUpToAre
<1> HIDE DEF more
<1>3. /\ sumsOfMore[0] = 0
      /\ \A k \in 1..Len(more) : sumsOfMore[k] = sumsOfMore[k - 1] + more[k].count
  BY <1>1, CountsUpToAre
<1>4. \A k \in 0..Len(packets) : sums[k] \in Nat
  BY CountsType
<1>5. p.count \in Nat /\ \A k \in 1..Len(packets) : packets[k].count \in Nat
  BY DEF DataPackets
<1> HIDE DEF sums, sumsOfMore
<1>6. 0 \in T
  BY <1>2, <1>3
<1>7. ASSUME NEW k \in Nat, k \in T PROVE k + 1 \in T
  <2> SUFFICES ASSUME k + 1 <= Len(packets) + 1
               PROVE  sumsOfMore[k + 1] = IF k + 1 < at THEN sums[k + 1] ELSE sums[k] + p.count
    OBVIOUS
  <2>1. sumsOfMore[k] = IF k < at THEN sums[k] ELSE sums[k - 1] + p.count
    BY <1>7
  <2>2. sumsOfMore[k + 1] = sumsOfMore[k] + more[k + 1].count
    BY <1>1, <1>3
  <2>3. CASE k + 1 < at
    <3>1. sums[k + 1] = sums[k] + packets[k + 1].count /\ more[k + 1] = packets[k + 1]
      BY <1>1, <1>2, <2>3
    <3> QED BY <2>1, <2>2, <2>3, <3>1
  <2>4. CASE k + 1 = at
    BY <1>1, <2>1, <2>2, <2>4
  <2>5. CASE k + 1 > at
    <3>1. /\ k \in at..Len(packets) /\ more[k + 1] = packets[k]
          /\ sums[k] = sums[k - 1] + packets[k].count
      BY <1>1, <1>2, <2>5
    <3>2. sums[k - 1] \in Nat /\ packets[k].count \in Nat
      BY <1>4, <1>5, <3>1
    <3> QED BY <1>5, <2>1, <2>2, <2>5, <3>1, <3>2
  <2> QED BY <2>3, <2>4, <2>5
<1> HIDE DEF T
<1>8. Len(packets) + 1 \in T
  BY <1>6, <1>7, Induction
<1>9. sumsOfMore[Len(more)] = sums[Len(packets)] + p.count
  BY <1>1, <1>8 DEF T
<1> QED BY <1>9 DEF sums, sumsOfMore, more, MessagesIn

-----------------------------------------------------------------------------
(* The methods of the Sequencer.                                           *)

LEMMA NumbersOfData ==
  ASSUME NEW p \in DataPackets
  PROVE  /\ p.sequence \in 0..MaxNumber /\ p.count \in Nat \ {0}
         /\ p.sequence + p.count <= MaxNumber /\ p.session \in Sessions
         /\ Messages(p) = p.count
         /\ NumbersOf(p) = p.sequence..(p.sequence + p.count - 1)
  BY DEF DataPackets, PacketsOf, Messages, NumbersOf

LEMMA EndOfIs ==
  ASSUME NEW p \in PacketsOf(Sessions), Decodes(p)
  PROVE  /\ Messages(p) \in Nat
         /\ EndOf(p) = p.sequence + Messages(p) /\ EndOf(p) \in 0..MaxNumber
<1>1. p.sequence \in 0..MaxNumber /\ Messages(p) \in Nat
  BY DEF PacketsOf, Messages
<1> DEFINE end == p.sequence + Messages(p)
<1>2. end \in 0..MaxNumber
  BY <1>1 DEF Decodes
<1> HIDE DEF end
<1>3. (0 * (MaxNumber + 1) + end) % (MaxNumber + 1) = end
  BY <1>2, ModUnique
<1>4. 0 * (MaxNumber + 1) + end = end
  BY <1>2
<1>5. EndOf(p) = end
  BY <1>3, <1>4 DEF EndOf, end
<1> QED BY <1>1, <1>2, <1>5 DEF end

LEMMA EndOfData ==
  ASSUME NEW p \in DataPackets
  PROVE  EndOf(p) = p.sequence + p.count
<1>1. p \in PacketsOf(Sessions) /\ Decodes(p)
  BY NumbersOfData DEF Decodes, DataPackets
<1> QED BY <1>1, EndOfIs, NumbersOfData

LEMMA StateFields ==
  ASSUME NEW s \in States
  PROVE  /\ s.next \in 1..MaxNumber /\ s.next \in Nat /\ s.known \in 0..MaxNumber
         /\ s.held \in Seq(DataPackets) /\ s.session \in Sessions \cup {NoSession}
         /\ s.endOfSession \in BOOLEAN /\ s.ended \in BOOLEAN
         /\ s.duplicates \in Nat /\ s.gaps \in Nat /\ s.lost \in Nat
         /\ s.otherSession \in Nat /\ s.delivered \in Seq(Delivered)
         /\ Len(s.held) \in Nat /\ Len(s.delivered) \in Nat
         /\ MessagesIn(s.held) \in Nat
<1>1. /\ s.next \in 1..MaxNumber /\ s.known \in 0..MaxNumber
      /\ s.held \in Seq(DataPackets) /\ s.session \in Sessions \cup {NoSession}
      /\ s.endOfSession \in BOOLEAN /\ s.ended \in BOOLEAN
      /\ s.duplicates \in Nat /\ s.gaps \in Nat /\ s.lost \in Nat
      /\ s.otherSession \in Nat /\ s.delivered \in Seq(Delivered)
  BY DEF States
<1> QED BY <1>1, CountsType

\* deliverNew() of a packet that delivery has come to.
LEMMA DeliverNewCorrect ==
  ASSUME NEW s \in States, s.session \in Sessions,
         NEW p \in DataPackets, p.sequence <= s.next, p.session = s.session
  PROVE  LET t == DeliverNew(s, p)
         IN /\ t \in States /\ t.held = s.held /\ t.known = s.known
            /\ Moves(s, t, NumbersOf(p))
            /\ Conserves(s, t, p.count)
            /\ t.next = IF p.sequence + p.count <= s.next THEN s.next
                        ELSE p.sequence + p.count
<1> DEFINE t == DeliverNew(s, p)
           n == s.next
           q == p.sequence
           c == p.count
           stale == Stale(s, p)
           fresh == c - stale
           run == [i \in 1..fresh |-> [session |-> p.session, number |-> q + stale + i - 1]]
<1>1. /\ n \in 1..MaxNumber /\ n \in Nat /\ s.duplicates \in Nat
      /\ s.delivered \in Seq(Delivered) /\ Len(s.delivered) \in Nat
      /\ MessagesIn(s.held) \in Nat
  BY StateFields
<1>2. /\ q \in 0..MaxNumber /\ c \in Nat \ {0} /\ q + c <= MaxNumber /\ q <= n
      /\ p.session \in Sessions
      /\ \A m \in Nat : m \in NumbersOf(p) <=> q <= m /\ m < q + c
  BY NumbersOfData
<1>3. stale = IF q >= n THEN 0 ELSE IF q + c <= n THEN c ELSE n - q
  BY EndOfData DEF Stale
<1>4. t = [s EXCEPT !.next = @ + fresh, !.duplicates = @ + stale,
                    !.delivered = @ \o run]
  BY DEF DeliverNew
<1> HIDE DEF n, q, c, stale, fresh, run, t
<1>5. /\ stale \in Nat /\ fresh \in Nat /\ c = fresh + stale
      /\ fresh = IF q + c <= n THEN 0 ELSE q + c - n
      /\ fresh > 0 => q + stale = n
  BY <1>1, <1>2, <1>3 DEF fresh
<1>6. \A i \in 1..fresh : q + stale + i - 1 = n + i - 1 /\ n + i - 1 \in 1..MaxNumber
  BY <1>1, <1>2, <1>5
<1>7. run = [i \in 1..fresh |-> [session |-> s.session, number |-> n + i - 1]]
  BY <1>6 DEF run
<1>8. /\ run \in Seq(Delivered) /\ Len(run) = fresh
      /\ \A i \in 1..fresh : run[i] = [session |-> s.session, number |-> n + i - 1]
  <2>1. \A i \in 1..fresh : [session |-> s.session, number |-> n + i - 1] \in Delivered
    BY <1>6 DEF Delivered
  <2>2. run \in [1..fresh -> Delivered]
    BY <1>7, <2>1
  <2>3. run \in Seq(Delivered) /\ Len(run) = fresh
    BY <1>5, <2>2, FunctionIsSequence
  <2> QED BY <1>7, <2>3
<1>9. /\ n + fresh \in 1..MaxNumber /\ s.duplicates + stale \in Nat
      /\ s.delivered \o run \in Seq(Delivered)
  <2>1. n + fresh \in 1..MaxNumber
    BY <1>1, <1>2, <1>5
  <2> QED BY <1>1, <1>5, <1>8, <2>1
<1>10. t = [s EXCEPT !.next = n + fresh, !.duplicates = s.duplicates + stale,
                     !.delivered = s.delivered \o run]
  BY <1>4 DEF States, n
<1>11. t \in States
  BY <1>9, <1>10 DEF States
<1>12. /\ t.next = n + fresh /\ t.duplicates = s.duplicates + stale
       /\ t.delivered = s.delivered \o run
       /\ t.held = s.held /\ t.known = s.known /\ t.session = s.session
       /\ t.lost = s.lost
  BY <1>10 DEF States
<1>13. /\ Len(s.delivered \o run) = Len(s.delivered) + fresh
       /\ \A i \in 1..Len(s.delivered) : (s.delivered \o run)[i] = s.delivered[i]
       /\ \A i \in 1..fresh : (s.delivered \o run)[Len(s.delivered) + i] = run[i]
  <2> DEFINE old == s.delivered
  <2>1. old \in Seq(Delivered) /\ run \in Seq(Delivered) /\ Len(run) = fresh
    BY <1>1, <1>8
  <2> HIDE DEF old
  <2>2. /\ Len(old \o run) = Len(old) + Len(run)
        /\ \A i \in 1..Len(old) : (old \o run)[i] = old[i]
        /\ \A i \in 1..Len(run) : (old \o run)[Len(old) + i] = run[i]
    BY <2>1
  <2> QED BY <2>1, <2>2 DEF old
<1>14. Moves(s, t, NumbersOf(p))
  <2>1. \A m \in Nat : n <= m /\ m < n + fresh => m \in NumbersOf(p)
    BY <1>1, <1>2, <1>5
  <2>2. \A m \in Nat : m \in NumbersOf(p) => m < n + fresh
    BY <1>1, <1>2, <1>5
  <2>3. n + fresh >= n /\ (n + fresh) - n = fresh /\ n + fresh \in Nat
    BY <1>1, <1>5
  <2>4. \A m \in Nat : m \in InHand(s) <=>
          m >= n /\ \E i \in 1..Len(s.held) : m \in NumbersOf(s.held[i])
    BY DEF InHand, n
  <2>5. \A m \in Nat : m \in InHand(t) <=>
          m >= n + fresh /\ \E i \in 1..Len(s.held) : m \in NumbersOf(s.held[i])
    BY <1>12 DEF InHand
  <2>6. \A m \in Nat : m >= n + fresh => m >= n
    BY <1>1, <2>3
  <2>7. \A m \in Nat : m >= n + fresh => m \notin NumbersOf(p)
    BY <1>1, <1>2, <1>5
  <2>8. \A m \in Nat : m \in InHand(t) <=>
               m >= n + fresh /\ (m \in InHand(s) \/ m \in NumbersOf(p))
    BY <2>4, <2>5, <2>6, <2>7
  <2> QED BY <1>8, <1>12, <1>13, <2>1, <2>3, <2>8 DEF Moves, n
<1>15. Conserves(s, t, p.count)
  <2> DEFINE d == s.duplicates  l == Len(s.delivered)  w == MessagesIn(s.held)
  <2>1. d \in Nat /\ l \in Nat /\ w \in Nat
    BY <1>1
  <2> HIDE DEF d, l, w
  <2>2. l + fresh + (d + stale) + w = l + d + w + c
    BY <1>5, <2>1
  <2> QED BY <1>12, <1>13, <2>2 DEF Conserves, c, d, l, w
<1>16. n + fresh = IF q + c <= n THEN n ELSE q + c
  BY <1>1, <1>2, <1>5
<1> QED BY <1>11, <1>12, <1>14, <1>15, <1>16 DEF t, n, q, c

\* What was delivered stays in order.
LEMMA MovesKeepOrder ==
  ASSUME NEW s \in States, NEW t \in States, NEW new, Moves(s, t, new),
         \A i \in 1..Len(s.delivered) :
           s.delivered[i].session = s.session /\ s.delivered[i].number < s.next,
         \A i, j \in 1..Len(s.delivered) :
           i < j => s.delivered[i].number < s.delivered[j].number
  PROVE  /\ \A i \in 1..Len(t.delivered) :
              t.delivered[i].session = t.session /\ t.delivered[i].number < t.next
         /\ \A i, j \in 1..Len(t.delivered) :
              i < j => t.delivered[i].number < t.delivered[j].number
<1> DEFINE n == Len(s.delivered)  l == Len(t.delivered)
           a == s.next  b == t.next
           old == [i \in 1..n |-> s.delivered[i].number]
           number == [i \in 1..l |-> t.delivered[i].number]
<1>1. /\ n \in Nat /\ a \in Nat /\ b \in Nat /\ b >= a
      /\ \A i \in 1..n : old[i] \in Nat
  <2>1. /\ n \in Nat /\ a \in Nat /\ b \in Nat /\ s.delivered \in Seq(Delivered)
    BY StateFields
  <2>2. \A i \in 1..n : s.delivered[i] \in Delivered
    BY <2>1, ElementIs
  <2>3. \A i \in 1..n : s.delivered[i].number \in Nat
    BY <2>2 DEF Delivered
  <2> QED BY <2>1, <2>3 DEF Moves
<1>2. l = n + (b - a) /\ t.session = s.session
  BY DEF Moves
<1>3. /\ \A i \in 1..n : t.delivered[i] = s.delivered[i]
      /\ \A k \in 1..(b - a) :
           t.delivered[n + k] = [session |-> s.session, number |-> a + k - 1]
  BY DEF Moves
<1>4. /\ \A i \in 1..n : s.delivered[i].session = s.session /\ old[i] < a
      /\ \A i, j \in 1..n : i < j => old[i] < old[j]
  OBVIOUS
<1> HIDE DEF n, l, a, b
<1>5. /\ \A i \in 1..n : i \in 1..l
      /\ \A i \in 1..l : i \in 1..n \/ \E k \in 1..(b - a) : i = n + k
  <2>1. \A i \in 1..n : i \in 1..l
    BY <1>1, <1>2
  <2>2. ASSUME NEW i \in 1..l, i \notin 1..n PROVE \E k \in 1..(b - a) : i = n + k
    <3>1. i - n \in 1..(b - a) /\ i = n + (i - n)
      BY <1>1, <1>2, <2>2
    <3> QED BY <3>1
  <2> QED BY <2>1, <2>2
<1>6. /\ \A i \in 1..n : number[i] = old[i]
      /\ \A i \in 1..n : t.delivered[i].session = s.session
  BY <1>3, <1>4, <1>5
<1>7. ASSUME NEW k \in 1..(b - a)
      PROVE  /\ number[n + k] = a + k - 1
             /\ t.delivered[n + k].session = s.session
  <2>1. n + k \in 1..l
    BY <1>1, <1>2
  <2>2. number[n + k] = t.delivered[n + k].number
    BY <2>1
  <2>3. t.delivered[n + k] = [session |-> s.session, number |-> a + k - 1]
    BY <1>3
  <2> HIDE DEF number
  <2> QED BY <2>2, <2>3
<1> HIDE DEF old, number
<1>8. ASSUME NEW i \in 1..l
      PROVE  t.delivered[i].session = s.session /\ number[i] < b
  <2>1. CASE i \in 1..n
    BY <1>1, <1>4, <1>6, <2>1
  <2>2. ASSUME NEW k \in 1..(b - a), i = n + k
        PROVE  t.delivered[i].session = s.session /\ number[i] < b
    <3>1. number[n + k] = a + k - 1 /\ t.delivered[n + k].session = s.session
      BY <1>7
    <3>2. a + k - 1 < b
      BY <1>1
    <3> QED BY <2>2, <3>1, <3>2
  <2> QED BY <1>5, <2>1, <2>2
<1>9. ASSUME NEW i \in 1..l, NEW j \in 1..l, i < j
      PROVE  number[i] < number[j]
  <2>1. CASE i \in 1..n /\ j \in 1..n
    BY <1>4, <1>6, <1>9, <2>1
  <2>2. ASSUME i \in 1..n, NEW k \in 1..(b - a), j = n + k
        PROVE  number[i] < number[j]
    <3>1. number[i] = old[i] /\ old[i] < a /\ old[i] \in Nat
      BY <1>1, <1>4, <1>6, <2>2
    <3>2. number[j] = a + k - 1
      BY <1>7, <2>2
    <3> QED BY <1>1, <3>1, <3>2
  <2>3. ASSUME NEW h \in 1..(b - a), i = n + h, NEW k \in 1..(b - a), j = n + k
        PROVE  number[i] < number[j]
    <3>1. number[i] = a + h - 1 /\ number[j] = a + k - 1
      BY <1>7, <2>3
    <3>2. h < k
      BY <1>1, <1>9, <2>3
    <3> QED BY <1>1, <3>1, <3>2
  <2>4. ASSUME NEW h \in 1..(b - a), i = n + h, j \in 1..n
        PROVE  FALSE
    BY <1>1, <1>9, <2>4
  <2> QED BY <1>5, <2>1, <2>2, <2>3, <2>4
<1> QED BY <1>2, <1>8, <1>9 DEF l, b, number

LEMMA MovesCompose ==
  ASSUME NEW r \in States, NEW s \in States, NEW t \in States, NEW first, NEW second,
         Moves(r, s, first), Moves(s, t, second)
  PROVE  Moves(r, t, first \cup second)
<1> DEFINE a == r.next  b == s.next  c == t.next  n == Len(r.delivered)
<1>1. /\ a \in Nat /\ b \in Nat /\ c \in Nat /\ n \in Nat /\ a <= b /\ b <= c
  BY StateFields DEF Moves
<1>2. /\ Len(s.delivered) = n + (b - a)
      /\ Len(t.delivered) = Len(s.delivered) + (c - b)
  BY DEF Moves
<1>3. /\ \A m \in Nat : a <= m /\ m < b => m \in InHand(r) \/ m \in first
      /\ \A m \in Nat : m \in InHand(s) <=> m >= b /\ (m \in InHand(r) \/ m \in first)
      /\ \A m \in Nat : b <= m /\ m < c => m \in InHand(s) \/ m \in second
      /\ \A m \in Nat : m \in InHand(t) <=> m >= c /\ (m \in InHand(s) \/ m \in second)
  BY DEF Moves
<1>4. /\ \A i \in 1..n : s.delivered[i] = r.delivered[i]
      /\ \A i \in 1..(b - a) :
           s.delivered[n + i] = [session |-> r.session, number |-> a + i - 1]
      /\ \A i \in 1..Len(s.delivered) : t.delivered[i] = s.delivered[i]
      /\ \A i \in 1..(c - b) :
           t.delivered[Len(s.delivered) + i] = [session |-> r.session, number |-> b + i - 1]
  BY DEF Moves
<1> HIDE DEF a, b, c, n
<1>5. /\ c >= a /\ Len(t.delivered) = n + (c - a)
  BY <1>1, <1>2
<1>6. \A m \in Nat : a <= m /\ m < c => m \in InHand(r) \/ m \in first \cup second
  BY <1>1, <1>3
<1>7. \A m \in Nat : m \in InHand(t) <=>
        m >= c /\ (m \in InHand(r) \/ m \in first \cup second)
  BY <1>1, <1>3
<1>8. \A i \in 1..n : t.delivered[i] = r.delivered[i]
  <2>1. \A i \in 1..n : i \in 1..Len(s.delivered)
    BY <1>1, <1>2
  <2> QED BY <1>4, <2>1
<1>9. ASSUME NEW i \in 1..(c - a)
      PROVE  t.delivered[n + i] = [session |-> r.session, number |-> a + i - 1]
  <2>1. CASE i <= b - a
    <3>1. i \in 1..(b - a) /\ n + i \in 1..Len(s.delivered)
      BY <1>1, <1>2, <2>1
    <3> QED BY <1>4, <3>1
  <2>2. CASE ~(i <= b - a)
    <3> DEFINE k == i - (b - a)
    <3>1. /\ k \in 1..(c - b) /\ Len(s.delivered) + k = n + i
          /\ b + k - 1 = a + i - 1
      BY <1>1, <1>2, <2>2
    <3> HIDE DEF k
    <3>2. t.delivered[Len(s.delivered) + k] = [session |-> r.session, number |-> b + k - 1]
      BY <1>4, <3>1
    <3> QED BY <3>1, <3>2
  <2> QED BY <2>1, <2>2
<1>10. t.session = r.session /\ t.known = r.known /\ t.lost = r.lost
  BY DEF Moves
<1> QED BY <1>5, <1>6, <1>7, <1>8, <1>9, <1>10 DEF Moves, a, b, c, n

LEMMA ConservesCompose ==
  ASSUME NEW r \in States, NEW s \in States, NEW t \in States, NEW first \in Nat, NEW second \in Nat,
         Conserves(r, s, first), Conserves(s, t, second)
  PROVE  Conserves(r, t, first + second)
<1> DEFINE a == Len(r.delivered) + r.duplicates + MessagesIn(r.held)
           b == Len(s.delivered) + s.duplicates + MessagesIn(s.held)
           c == Len(t.delivered) + t.duplicates + MessagesIn(t.held)
<1>1. a \in Nat /\ b = a + first /\ c = b + second
  <2>1. /\ Len(r.delivered) \in Nat /\ r.duplicates \in Nat /\ MessagesIn(r.held) \in Nat
    BY StateFields
  <2>2. a \in Nat
    BY <2>1
  <2> QED BY <2>2 DEF Conserves
<1> HIDE DEF a, b, c
<1>2. c = a + (first + second)
  BY <1>1
<1> QED BY <1>2 DEF Conserves, a, c

LEMMA MovesStay ==
  ASSUME NEW s \in States
  PROVE  Moves(s, s, {}) /\ Conserves(s, s, 0)
<1> DEFINE n == s.next
           l == Len(s.delivered)
           all == Len(s.delivered) + s.duplicates + MessagesIn(s.held)
<1>1. n \in Nat /\ l \in Nat
  BY StateFields
<1>2. all \in Nat
  <2>1. l \in Nat /\ s.duplicates \in Nat /\ MessagesIn(s.held) \in Nat
    BY StateFields
  <2> QED BY <2>1
<1>3. \A m \in Nat : m \in InHand(s) => m >= n
  BY DEF InHand
<1> HIDE DEF n, l, all
<1>4. /\ n >= n /\ \A m \in Nat : ~(n <= m /\ m < n)
      /\ l = l + (n - n) /\ \A i \in 1..(n - n) : FALSE
  BY <1>1
<1>5. Moves(s, s, {})
  BY <1>3, <1>4 DEF Moves, n, l
<1>6. all = all + 0
  BY <1>2
<1> QED BY <1>5, <1>6 DEF Conserves, all

\* A good state stays one when delivery moves on.
LEMMA GoodAfter ==
  ASSUME NEW s, Good(s), s.session \in Sessions,
         NEW t \in States, NEW new, Moves(s, t, new), Sorted(t.held),
         \A i \in 1..Len(t.held) :
           /\ t.held[i].session = s.session
           /\ t.held[i].sequence + t.held[i].count <= s.known
  PROVE  Good(t)
<1>1. /\ s \in States
      /\ \A i \in 1..Len(s.delivered) :
           s.delivered[i].session = s.session /\ s.delivered[i].number < s.next
      /\ \A i, j \in 1..Len(s.delivered) :
           i < j => s.delivered[i].number < s.delivered[j].number
  BY DEF Good
<1>2. /\ \A i \in 1..Len(t.delivered) :
           t.delivered[i].session = t.session /\ t.delivered[i].number < t.next
      /\ \A i, j \in 1..Len(t.delivered) :
           i < j => t.delivered[i].number < t.delivered[j].number
  BY <1>1, MovesKeepOrder
<1>3. t.session = s.session /\ t.known = s.known /\ t.session # NoSession
  BY DEF Moves
<1> QED BY <1>2, <1>3 DEF Good

LEMMA TailIs ==
  ASSUME NEW packets \in Seq(DataPackets), packets # <<>>
  PROVE  /\ Tail(packets) \in Seq(DataPackets) /\ Len(packets) \in Nat \ {0}
         /\ Len(Tail(packets)) = Len(packets) - 1
         /\ \A i \in 1..Len(Tail(packets)) :
              i + 1 \in 1..Len(packets) /\ Tail(packets)[i] = packets[i + 1]
         /\ Head(packets) = packets[1] /\ Head(packets) \in DataPackets
         /\ 1 \in 1..Len(packets)
  OBVIOUS

\* The first of the held packets carries what the others do not.
LEMMA InHandOfTail ==
  ASSUME NEW s \in States, NEW r \in States, s.held # <<>>,
         r.held = Tail(s.held), r.next = s.next
  PROVE  \A m \in Nat : m \in InHand(s) <=>
           m \in InHand(r) \/ (m >= s.next /\ m \in NumbersOf(Head(s.held)))
<1> DEFINE packets == s.held  rest == Tail(s.held)
<1>1. packets \in Seq(DataPackets)
  BY StateFields
<1>2. /\ Len(packets) \in Nat /\ Len(rest) = Len(packets) - 1
      /\ \A i \in 1..Len(rest) : i + 1 \in 1..Len(packets) /\ rest[i] = packets[i + 1]
      /\ Head(packets) = packets[1] /\ 1 \in 1..Len(packets)
  BY <1>1, TailIs
<1> HIDE DEF packets, rest
<1>3. \A i \in 1..Len(packets) : i = 1 \/ \E j \in 1..Len(rest) : i = j + 1
  <2>1. ASSUME NEW i \in 1..Len(packets), i # 1 PROVE \E j \in 1..Len(rest) : i = j + 1
    <3>1. i - 1 \in 1..Len(rest) /\ i = (i - 1) + 1
      BY <1>2, <2>1
    <3> QED BY <3>1
  <2> QED BY <2>1
<1>4. ASSUME NEW m \in Nat
      PROVE  (\E i \in 1..Len(packets) : m \in NumbersOf(packets[i])) <=>
               \/ \E i \in 1..Len(rest) : m \in NumbersOf(rest[i])
               \/ m \in NumbersOf(Head(packets))
  BY <1>2, <1>3
<1>5. \A m \in Nat : m \in InHand(s) <=>
        m >= s.next /\ \E i \in 1..Len(packets) : m \in NumbersOf(packets[i])
  BY DEF InHand, packets
<1>6. \A m \in Nat : m \in InHand(r) <=>
        m >= s.next /\ \E i \in 1..Len(rest) : m \in NumbersOf(rest[i])
  BY DEF InHand, rest
<1> QED BY <1>4, <1>5, <1>6 DEF packets

\* One turn of drainHeld().
LEMMA DrainFrontCorrect ==
  ASSUME NEW s, Good(s), ~Drained(s)
  PROVE  LET t == DrainFront(s)
         IN /\ Good(t) /\ Moves(s, t, {}) /\ Conserves(s, t, 0)
            /\ Len(t.held) = Len(s.held) - 1
<1> DEFINE p == Head(s.held)
           r == [s EXCEPT !.held = Tail(s.held)]
           t == DeliverNew(r, p)
<1>1. /\ s \in States /\ s.held \in Seq(DataPackets) /\ s.held # <<>>
      /\ ~(p.sequence > s.next)
  BY StateFields DEF Good, Drained
<1>2. /\ Tail(s.held) \in Seq(DataPackets) /\ Len(s.held) \in Nat
      /\ Len(Tail(s.held)) = Len(s.held) - 1
      /\ \A i \in 1..Len(Tail(s.held)) :
           i + 1 \in 1..Len(s.held) /\ Tail(s.held)[i] = s.held[i + 1]
      /\ p = s.held[1] /\ p \in DataPackets /\ 1 \in 1..Len(s.held)
  BY <1>1, TailIs
<1>3. p.session = s.session /\ s.session \in Sessions
  BY <1>2, NumbersOfData DEF Good
<1>4. p.sequence <= s.next
  <2> DEFINE q == p.sequence  n == s.next
  <2>1. q \in 0..MaxNumber /\ n \in Nat /\ ~(q > n)
    BY <1>1, <1>2, NumbersOfData, StateFields
  <2> HIDE DEF q, n
  <2>2. q <= n
    BY <2>1
  <2> QED BY <2>2 DEF q, n
<1>5. /\ r \in States
      /\ r.held = Tail(s.held) /\ r.next = s.next /\ r.known = s.known
      /\ r.session = s.session /\ r.lost = s.lost /\ r.duplicates = s.duplicates
      /\ r.delivered = s.delivered
  BY <1>1, <1>2 DEF States
<1>6. DrainFront(s) = t
  BY <1>1, <1>4, <1>5 DEF DrainFront
<1> HIDE DEF r, p
<1>7. /\ t \in States /\ t.held = r.held /\ Moves(r, t, NumbersOf(p))
      /\ Conserves(r, t, p.count)
  BY <1>2, <1>3, <1>4, <1>5, DeliverNewCorrect
<1> HIDE DEF t
<1>8. Moves(s, t, {})
  <2>1. \A m \in Nat : m \in InHand(s) <=>
          m \in InHand(r) \/ (m >= s.next /\ m \in NumbersOf(p))
    BY <1>1, <1>5, InHandOfTail DEF p
  <2> DEFINE a == s.next  b == t.next
  <2>2. /\ a \in Nat /\ b \in Nat /\ b >= a
        /\ \A m \in Nat : a <= m /\ m < b => m \in InHand(r) \/ m \in NumbersOf(p)
        /\ \A m \in Nat : m \in InHand(t) <=> m >= b /\ (m \in InHand(r) \/ m \in NumbersOf(p))
    BY <1>1, <1>5, <1>7, StateFields DEF Moves
  <2>3. \A m \in Nat : m \in InHand(s) <=>
          m \in InHand(r) \/ (m >= a /\ m \in NumbersOf(p))
    BY <2>1
  <2> HIDE DEF a, b
  <2>4. \A m \in Nat : a <= m /\ m < b => m \in InHand(s)
    BY <2>2, <2>3
  <2>5. \A m \in Nat : m \in InHand(t) <=> m >= b /\ m \in InHand(s)
    BY <2>2, <2>3
  <2>6. /\ \A m \in Nat : s.next <= m /\ m < t.next => m \in InHand(s)
        /\ \A m \in Nat : m \in InHand(t) <=> m >= t.next /\ m \in InHand(s)
    BY <2>4, <2>5 DEF a, b
  <2> QED BY <1>5, <1>7, <2>6 DEF Moves
<1>9. Conserves(s, t, 0)
  <2> DEFINE a == Len(s.delivered) + s.duplicates
             b == Len(t.delivered) + t.duplicates + MessagesIn(t.held)
             c == p.count
             w == MessagesIn(s.held)
             v == MessagesIn(r.held)
  <2>1. w = c + v
    BY <1>1, <1>5, MessagesInTail DEF p
  <2>2. b = a + v + c
    BY <1>5, <1>7 DEF Conserves
  <2>3. a \in Nat /\ c \in Nat /\ v \in Nat
    <3>1. Len(s.delivered) \in Nat /\ s.duplicates \in Nat /\ v \in Nat /\ c \in Nat
      BY <1>1, <1>2, <1>5, StateFields, NumbersOfData
    <3> QED BY <3>1
  <2> HIDE DEF a, b, c, w, v
  <2>4. b = a + w + 0
    BY <2>1, <2>2, <2>3
  <2> QED BY <2>4 DEF Conserves, a, b, w
<1>10. Sorted(Tail(s.held))
  <2> DEFINE rest == Tail(s.held)
  <2>1. Sorted(s.held)
    BY DEF Good
  <2>2. /\ Len(s.held) \in Nat /\ Len(rest) = Len(s.held) - 1
        /\ \A i \in 1..Len(rest) : i + 1 \in 1..Len(s.held) /\ rest[i] = s.held[i + 1]
    BY <1>2
  <2> HIDE DEF rest
  <2>3. ASSUME NEW i \in 1..Len(rest), NEW j \in 1..Len(rest), i < j
        PROVE  rest[i].sequence <= rest[j].sequence
    <3>1. i + 1 < j + 1
      BY <2>2, <2>3
    <3> QED BY <2>1, <2>2, <3>1 DEF Sorted
  <2>4. Sorted(rest)
    BY <2>3 DEF Sorted
  <2> QED BY <2>4 DEF rest
<1>11. Good(t)
  <2>1. \A i \in 1..Len(t.held) :
          /\ t.held[i].session = s.session
          /\ t.held[i].sequence + t.held[i].count <= s.known
    BY <1>2, <1>5, <1>7 DEF Good
  <2> QED BY <1>3, <1>5, <1>7, <1>8, <1>10, <2>1, GoodAfter
<1> QED BY <1>2, <1>5, <1>6, <1>7, <1>8, <1>9, <1>11

\* drainHeld(): after it nothing that could be delivered is held.
LEMMA DrainHeldCorrect ==
  ASSUME NEW s, Good(s)
  PROVE  LET t == DrainHeld(s)
         IN /\ Good(t) /\ Moves(s, t, {}) /\ Conserves(s, t, 0) /\ Drained(t)
            /\ Len(t.held) <= Len(s.held)
            /\ ~Drained(s) => Len(t.held) < Len(s.held)
<1> DEFINE after == DrainTurns(s)
           all == Len(s.held)
           Reached(k) ==
             /\ Good(after[k]) /\ Moves(s, after[k], {}) /\ Conserves(s, after[k], 0)
             /\ Drained(after[k]) \/ Len(after[k].held) <= all - k
             /\ Len(after[k].held) <= all
             /\ k > 0 /\ ~Drained(s) => Len(after[k].held) < all
           T == {k \in Nat : k <= all => Reached(k)}
<1>1. s \in States /\ all \in Nat
  BY StateFields DEF Good
<1>2. after[0] = s /\ \A k \in 1..all : after[k] = DrainFront(after[k - 1])
  BY <1>1, DrainTurnsAre
<1> HIDE DEF after, all
<1>3. Reached(0)
  <2>1. all <= all /\ all <= all - 0 /\ ~(0 > 0)
    BY <1>1
  <2> QED BY <1>1, <1>2, <2>1, MovesStay DEF all
<1>4. ASSUME NEW k \in Nat, k + 1 <= all, Reached(k) PROVE Reached(k + 1)
  <2> DEFINE r == after[k]  t == after[k + 1]
  <2>1. t = DrainFront(r)
    <3>1. k + 1 \in 1..all /\ (k + 1) - 1 = k
      BY <1>1, <1>4
    <3> QED BY <1>2, <3>1
  <2>2. /\ Good(r) /\ Moves(s, r, {}) /\ Conserves(s, r, 0) /\ r \in States
        /\ Drained(r) \/ Len(r.held) <= all - k
        /\ Len(r.held) <= all
        /\ k > 0 /\ ~Drained(s) => Len(r.held) < all
    BY <1>4 DEF Good
  <2>3. k = 0 => r = s
    BY <1>2
  <2>4. Len(r.held) \in Nat
    BY <2>2, StateFields
  <2> HIDE DEF r, t
  <2>5. CASE Drained(r)
    <3>1. t = r
      <4>1. ~(r.held # <<>> /\ Head(r.held).sequence <= r.next)
        <5>1. SUFFICES ASSUME r.held # <<>> PROVE ~(Head(r.held).sequence <= r.next)
          OBVIOUS
        <5> DEFINE q == Head(r.held).sequence  n == r.next
        <5>2. q > n /\ q \in Nat /\ n \in Nat
          <6>1. r.held \in Seq(DataPackets) /\ n \in Nat
            BY <2>2, StateFields
          <6>2. Head(r.held) \in DataPackets
            BY <5>1, <6>1, TailIs
          <6> QED BY <2>5, <5>1, <6>1, <6>2, NumbersOfData DEF Drained
        <5> HIDE DEF q, n
        <5>3. ~(q <= n)
          BY <5>2
        <5> QED BY <5>3 DEF q, n
      <4> QED BY <2>1, <4>1 DEF DrainFront
    <3>2. ~Drained(s) => k > 0
      BY <2>3, <2>5
    <3> QED BY <2>2, <2>5, <3>1, <3>2 DEF t
  <2>6. CASE ~Drained(r)
    <3>1. /\ Good(t) /\ Moves(r, t, {}) /\ Conserves(r, t, 0) /\ t \in States
          /\ Len(t.held) = Len(r.held) - 1
      BY <2>1, <2>2, <2>6, DrainFrontCorrect DEF Good
    <3>2. Moves(s, t, {} \cup {})
      BY <1>1, <2>2, <3>1, MovesCompose
    <3>3. Conserves(s, t, 0 + 0)
      BY <1>1, <2>2, <3>1, ConservesCompose
    <3>4. {} \cup {} = {} /\ 0 + 0 = 0
      OBVIOUS
    <3>5. Moves(s, t, {}) /\ Conserves(s, t, 0)
      BY <3>2, <3>3, <3>4
    <3>6. /\ Len(t.held) <= all - (k + 1) /\ Len(t.held) < all /\ Len(t.held) <= all
      <4> DEFINE a == Len(r.held)  b == Len(t.held)
      <4>1. a \in Nat /\ b = a - 1 /\ a <= all - k /\ a <= all
        BY <2>2, <2>4, <2>6, <3>1
      <4> HIDE DEF a, b
      <4>2. b <= all - (k + 1) /\ b < all /\ b <= all
        BY <1>1, <4>1
      <4> QED BY <4>2 DEF b
    <3> QED BY <3>1, <3>5, <3>6 DEF t
  <2> QED BY <2>5, <2>6
<1>5. 0 \in T
  BY <1>3
<1>6. ASSUME NEW k \in Nat, k \in T PROVE k + 1 \in T
  <2>1. k + 1 <= all => k <= all
    BY <1>1
  <2> HIDE DEF Reached
  <2> QED BY <1>4, <1>6, <2>1
<1> HIDE DEF T
<1>7. all \in T
  BY <1>1, <1>5, <1>6, Induction
<1>8. Reached(all)
  <2> HIDE DEF Reached
  <2>1. all <= all
    BY <1>1
  <2> QED BY <1>7, <2>1 DEF T
<1> DEFINE t == after[all]
<1>9. t = DrainHeld(s)
  BY DEF DrainHeld, after, all
<1> HIDE DEF t
<1>10. /\ Good(t) /\ Moves(s, t, {}) /\ Conserves(s, t, 0)
       /\ Drained(t) \/ Len(t.held) <= all - all
       /\ Len(t.held) <= all
       /\ all > 0 /\ ~Drained(s) => Len(t.held) < all
  BY <1>8 DEF t
<1>11. Len(t.held) <= all - all => Drained(t)
  <2>1. t.held \in Seq(DataPackets) /\ all - all = 0
    BY <1>1, <1>10, StateFields DEF Good
  <2>2. Len(t.held) <= 0 => t.held = <<>>
    BY <2>1
  <2> QED BY <2>1, <2>2 DEF Drained
<1>12. ~Drained(s) => all > 0
  <2>1. s.held \in Seq(DataPackets)
    BY <1>1, StateFields
  <2>2. s.held # <<>> => Len(s.held) > 0
    BY <2>1
  <2> QED BY <2>2 DEF Drained, all
<1> QED BY <1>9, <1>10, <1>11, <1>12 DEF all

\* finishIfEnded() changes nothing but whether the session has ended.
LEMMA FinishCorrect ==
  ASSUME NEW s, Good(s)
  PROVE  LET t == FinishIfEnded(s)
         IN /\ Good(t) /\ Moves(s, t, {}) /\ Conserves(s, t, 0)
            /\ Drained(s) => Drained(t)
            /\ t.held = s.held
<1> DEFINE t == FinishIfEnded(s)
<1>1. s \in States
  BY DEF Good
<1>2. /\ t \in States /\ t.next = s.next /\ t.known = s.known /\ t.held = s.held
      /\ t.session = s.session /\ t.duplicates = s.duplicates /\ t.lost = s.lost
      /\ t.delivered = s.delivered
  BY <1>1 DEF FinishIfEnded, States
<1> HIDE DEF t
<1>3. \A m \in Nat : m \in InHand(t) <=> m \in InHand(s)
  BY <1>2 DEF InHand
<1>4. Moves(s, s, {}) /\ Conserves(s, s, 0)
  BY <1>1, MovesStay
<1>5. Moves(s, t, {})
  BY <1>2, <1>3, <1>4 DEF Moves
<1>6. Conserves(s, t, 0)
  BY <1>2, <1>4 DEF Conserves
<1>7. Good(t)
  BY <1>2 DEF Good
<1>8. Drained(s) => Drained(t)
  BY <1>2 DEF Drained
<1> QED BY <1>2, <1>5, <1>6, <1>7, <1>8 DEF t

\* hold() puts a packet where the held ones stay sorted.
LEMMA HoldAtIs ==
  ASSUME NEW s \in States, Sorted(s.held), NEW p \in DataPackets
  PROVE  LET at == HoldAt(s, p)
         IN /\ at \in 1..(Len(s.held) + 1)
            /\ \A i \in 1..Len(s.held) : i < at => s.held[i].sequence < p.sequence
            /\ \A i \in 1..Len(s.held) : i >= at => s.held[i].sequence >= p.sequence
<1> DEFINE packets == s.held  n == Len(packets)  q == p.sequence
           start == [i \in 1..n |-> packets[i].sequence]
           Later == {i \in 1..(n + 1) : i <= n => start[i] >= q}
           IsAt(at) == /\ \A i \in 1..(at - 1) : packets[i].sequence < q
                       /\ at <= n => packets[at].sequence >= q
<1>1. /\ n \in Nat /\ q \in Nat /\ \A i \in 1..n : start[i] \in Nat
  <2>1. packets \in Seq(DataPackets) /\ n \in Nat
    BY StateFields
  <2>2. \A i \in 1..n : packets[i] \in DataPackets
    BY <2>1, ElementIs
  <2>3. \A i \in 1..n : packets[i].sequence \in Nat
    BY <2>2, NumbersOfData
  <2> QED BY <2>1, <2>3, NumbersOfData
<1>2. \A i, j \in 1..n : i < j => start[i] <= start[j]
  BY DEF Sorted
<1>3. \A i \in 1..n : start[i] = packets[i].sequence
  OBVIOUS
<1> HIDE DEF packets, n, q, start
<1>4. PICK at \in Later : \A i \in Later : at <= i
  <2>1. n + 1 \in Later /\ Later \subseteq Nat
    BY <1>1
  <2> QED BY <2>1, Least
<1>5. IsAt(at) /\ at \in 1..(n + 1)
  <2>1. ASSUME NEW i \in 1..(at - 1) PROVE start[i] < q /\ i \in 1..n
    <3>1. i \in 1..n /\ ~(at <= i)
      BY <1>1, <1>4, <2>1
    <3>2. i \notin Later
      BY <1>4, <3>1
    <3> QED BY <1>1, <3>1, <3>2
  <2>2. at \in 1..n => start[at] >= q
    BY <1>1, <1>4
  <2>3. at <= n => at \in 1..n
    BY <1>1, <1>4
  <2> QED BY <1>3, <1>4, <2>1, <2>2, <2>3
<1> DEFINE found == HoldAt(s, p)
<1>6. found = CHOOSE i \in 1..(n + 1) : IsAt(i)
  BY DEF HoldAt, packets, n, q
<1> HIDE DEF IsAt, found
<1>7. found \in 1..(n + 1) /\ IsAt(found)
  BY <1>5, <1>6
<1>8. ASSUME NEW i \in 1..n, i < found PROVE start[i] < q
  <2>1. i \in 1..(found - 1)
    BY <1>1, <1>7, <1>8
  <2> QED BY <1>3, <1>7, <2>1 DEF IsAt
<1>9. ASSUME NEW i \in 1..n, i >= found PROVE start[i] >= q
  <2>1. found \in 1..n
    BY <1>1, <1>7, <1>9
  <2>2. start[found] >= q
    <3>1. found <= n
      BY <1>1, <2>1
    <3> QED BY <1>3, <1>7, <2>1, <3>1 DEF IsAt
  <2>3. start[i] >= start[found]
    <3>1. CASE i = found
      BY <1>1, <2>1, <3>1
    <3>2. CASE i # found
      <4>1. found < i
        BY <1>1, <1>9, <2>1, <3>2
      <4>2. start[found] <= start[i] /\ start[found] \in Nat /\ start[i] \in Nat
        BY <1>1, <1>2, <2>1, <4>1
      <4> QED BY <4>2
    <3> QED BY <3>1, <3>2
  <2>4. start[i] \in Nat /\ start[found] \in Nat
    BY <1>1, <2>1
  <2> QED BY <1>1, <2>2, <2>3, <2>4
<1> QED BY <1>3, <1>7, <1>8, <1>9 DEF found, n, q, packets

\* hold(): a packet that is not held yet joins the held ones.
LEMMA InsertedIs ==
  ASSUME NEW s \in States, NEW p \in DataPackets, NEW at \in 1..(Len(s.held) + 1),
         NEW t \in States, t.held = InsertAt(s.held, at, p)
  PROVE  /\ Len(t.held) = Len(s.held) + 1
         /\ \A i \in 1..Len(t.held) :
              \/ i = at /\ t.held[i] = p
              \/ i < at /\ i \in 1..Len(s.held) /\ t.held[i] = s.held[i]
              \/ i > at /\ i - 1 \in 1..Len(s.held) /\ i - 1 >= at /\ t.held[i] = s.held[i - 1]
         /\ at \in 1..Len(t.held) /\ t.held[at] = p
         /\ \A i \in 1..Len(s.held) :
              \E j \in 1..Len(t.held) : t.held[j] = s.held[i]
<1> DEFINE packets == s.held  more == t.held  n == Len(s.held)  l == Len(t.held)
<1>1. /\ packets \in Seq(DataPackets) /\ n \in Nat
  BY StateFields
<1>2. /\ l = n + 1
      /\ \A i \in 1..(at - 1) : more[i] = packets[i]
      /\ more[at] = p
      /\ \A i \in at..n : more[i + 1] = packets[i]
  BY <1>1, InsertAtIs
<1> HIDE DEF packets, more, n, l
<1>a. at \in 1..(n + 1)
  BY DEF n, packets
<1>3. ASSUME NEW i \in 1..l
      PROVE  \/ i = at /\ more[i] = p
             \/ i < at /\ i \in 1..n /\ more[i] = packets[i]
             \/ i > at /\ i - 1 \in 1..n /\ i - 1 >= at /\ more[i] = packets[i - 1]
  <2>1. CASE i = at
    BY <1>2, <2>1
  <2>2. CASE i < at
    <3>1. i \in 1..(at - 1) /\ i \in 1..n
      BY <1>1, <1>2, <1>a, <2>2
    <3> QED BY <1>2, <2>2, <3>1
  <2>3. CASE i > at
    <3>1. i - 1 \in at..n /\ i - 1 \in 1..n /\ i - 1 >= at /\ (i - 1) + 1 = i
      BY <1>1, <1>2, <1>a, <2>3
    <3>2. more[(i - 1) + 1] = packets[i - 1]
      BY <1>2, <3>1
    <3> QED BY <2>3, <3>1, <3>2
  <2> QED BY <1>a, <2>1, <2>2, <2>3
<1>4. at \in 1..l /\ more[at] = p
  BY <1>1, <1>2, <1>a
<1>5. ASSUME NEW i \in 1..n PROVE \E j \in 1..l : more[j] = packets[i]
  <2>1. CASE i < at
    <3>1. i \in 1..(at - 1) /\ i \in 1..l
      BY <1>1, <1>2, <1>a, <2>1
    <3> QED BY <1>2, <3>1
  <2>2. CASE ~(i < at)
    <3>1. i \in at..n /\ i + 1 \in 1..l
      BY <1>1, <1>2, <1>a, <2>2
    <3> QED BY <1>2, <3>1
  <2> QED BY <2>1, <2>2
<1> QED BY <1>2, <1>3, <1>4, <1>5 DEF packets, more, n, l

LEMMA HoldCorrect ==
  ASSUME NEW s, Good(s), Drained(s), NEW p \in DataPackets,
         p.session = s.session, p.sequence + p.count <= s.known, p.sequence > s.next
  PROVE  LET t == Hold(s, p)
         IN /\ Good(t) /\ Drained(t) /\ Moves(s, t, NumbersOf(p))
            /\ Conserves(s, t, p.count)
            /\ Len(t.held) <= Len(s.held) + 1
<1> DEFINE at == HoldAt(s, p)
           t == Hold(s, p)
           n == Len(s.held)
           alreadyHeld == /\ at <= n
                          /\ s.held[at].sequence = p.sequence
                          /\ s.held[at].count >= p.count
<1>1. /\ s \in States /\ Sorted(s.held) /\ s.session \in Sessions
      /\ \A i \in 1..n : /\ s.held[i].session = s.session
                         /\ s.held[i].sequence + s.held[i].count <= s.known
  BY NumbersOfData DEF Good
<1>2. /\ at \in 1..(n + 1)
      /\ \A i \in 1..n : i < at => s.held[i].sequence < p.sequence
      /\ \A i \in 1..n : i >= at => s.held[i].sequence >= p.sequence
  BY <1>1, HoldAtIs
<1>3. /\ n \in Nat /\ s.held \in Seq(DataPackets) /\ s.duplicates \in Nat
      /\ \A i \in 1..n : s.held[i] \in DataPackets
  BY <1>1, StateFields, ElementIs
<1>4. \A m \in NumbersOf(p) : m \in Nat /\ m >= s.next
  <2> DEFINE q == p.sequence  c == p.count  a == s.next
  <2>1. q \in Nat /\ c \in Nat /\ a \in Nat /\ q > a /\ NumbersOf(p) = q..(q + c - 1)
    BY <1>1, NumbersOfData, StateFields
  <2> HIDE DEF q, c, a
  <2>2. \A m \in q..(q + c - 1) : m \in Nat /\ m >= a
    BY <2>1
  <2> QED BY <2>1, <2>2 DEF a
<1>5. t = IF alreadyHeld THEN [s EXCEPT !.duplicates = s.duplicates + p.count]
          ELSE [s EXCEPT !.held = InsertAt(s.held, at, p)]
  BY <1>1 DEF Hold, States
<1>s. Moves(s, s, {}) /\ Conserves(s, s, 0)
  BY <1>1, MovesStay
<1> HIDE DEF at, t
<1>6. CASE alreadyHeld
  <2>1. s.duplicates + p.count \in Nat /\ p.count \in Nat
    <3> DEFINE d == s.duplicates  c == p.count
    <3>1. d \in Nat /\ c \in Nat
      BY <1>3, NumbersOfData
    <3> HIDE DEF d, c
    <3>2. d + c \in Nat
      BY <3>1
    <3> QED BY <3>1, <3>2 DEF d, c
  <2>2. t = [s EXCEPT !.duplicates = s.duplicates + p.count]
    BY <1>5, <1>6
  <2>3. /\ t \in States /\ t.next = s.next /\ t.known = s.known /\ t.held = s.held
        /\ t.session = s.session /\ t.duplicates = s.duplicates + p.count
        /\ t.lost = s.lost /\ t.delivered = s.delivered
    BY <1>1, <2>1, <2>2 DEF States
  <2>4. at \in 1..n
    BY <1>2, <1>3, <1>6
  <2>5. NumbersOf(p) \subseteq NumbersOf(s.held[at])
    <3> DEFINE h == s.held[at]  q == p.sequence  c == p.count  d == h.count
    <3>1. h \in DataPackets /\ h.sequence = q
      BY <1>3, <1>6, <2>4
    <3>2. /\ q \in Nat /\ c \in Nat /\ d \in Nat /\ d >= c
          /\ NumbersOf(p) = q..(q + c - 1)
          /\ NumbersOf(h) = q..(q + d - 1)
      BY <1>6, <3>1, NumbersOfData
    <3> HIDE DEF h, q, c, d
    <3>3. q..(q + c - 1) \subseteq q..(q + d - 1)
      BY <3>2
    <3> QED BY <3>2, <3>3 DEF h
  <2>6. \A m \in Nat : m \in NumbersOf(p) => m \in InHand(s)
    BY <1>4, <2>4, <2>5 DEF InHand
  <2>7. \A m \in Nat : m \in InHand(t) <=> m \in InHand(s)
    BY <2>3 DEF InHand
  <2>8. Moves(s, t, NumbersOf(p))
    BY <1>s, <2>3, <2>6, <2>7 DEF Moves
  <2>9. Conserves(s, t, p.count)
    <3> DEFINE l == Len(s.delivered)  d == s.duplicates  w == MessagesIn(s.held)  c == p.count
    <3>1. l \in Nat /\ d \in Nat /\ w \in Nat /\ c \in Nat
      BY <1>1, <2>1, StateFields
    <3> HIDE DEF l, d, w, c
    <3>2. l + (d + c) + w = l + d + w + c
      BY <3>1
    <3> QED BY <2>3, <3>2 DEF Conserves, l, d, w, c
  <2>10. Good(t) /\ Drained(t)
    BY <2>3 DEF Good, Drained
  <2>11. n <= n + 1
    BY <1>3
  <2> QED BY <2>3, <2>8, <2>9, <2>10, <2>11 DEF t
<1>7. CASE ~alreadyHeld
  <2>1. t = [s EXCEPT !.held = InsertAt(s.held, at, p)]
    BY <1>5, <1>7
  <2>2. InsertAt(s.held, at, p) \in Seq(DataPackets)
    BY <1>2, <1>3, InsertAtIs
  <2>3. /\ t \in States /\ t.next = s.next /\ t.known = s.known
        /\ t.held = InsertAt(s.held, at, p)
        /\ t.session = s.session /\ t.duplicates = s.duplicates
        /\ t.lost = s.lost /\ t.delivered = s.delivered
    BY <1>1, <2>1, <2>2 DEF States
  <2>4. /\ Len(t.held) = n + 1
        /\ \A i \in 1..Len(t.held) :
              \/ i = at /\ t.held[i] = p
              \/ i < at /\ i \in 1..n /\ t.held[i] = s.held[i]
              \/ i > at /\ i - 1 \in 1..n /\ i - 1 >= at /\ t.held[i] = s.held[i - 1]
        /\ at \in 1..Len(t.held) /\ t.held[at] = p
        /\ \A i \in 1..n : \E j \in 1..Len(t.held) : t.held[j] = s.held[i]
    BY <1>1, <1>2, <2>3, InsertedIs
  <2>5. \A m \in Nat : m \in InHand(t) <=> m \in InHand(s) \/ m \in NumbersOf(p)
    <3>1. ASSUME NEW m \in Nat
          PROVE  (\E i \in 1..Len(t.held) : m \in NumbersOf(t.held[i])) <=>
                   \/ \E i \in 1..n : m \in NumbersOf(s.held[i])
                   \/ m \in NumbersOf(p)
      BY <2>4
    <3> QED BY <1>4, <2>3, <3>1 DEF InHand
  <2>6. Moves(s, t, NumbersOf(p))
    BY <1>4, <1>s, <2>3, <2>5 DEF Moves
  <2>7. Conserves(s, t, p.count)
    <3> DEFINE l == Len(s.delivered)  d == s.duplicates  w == MessagesIn(s.held)  c == p.count
    <3>1. l \in Nat /\ d \in Nat /\ w \in Nat /\ c \in Nat
      BY <1>1, StateFields, NumbersOfData
    <3>2. MessagesIn(t.held) = w + c
      BY <1>2, <1>3, <2>3, MessagesInInsert
    <3> HIDE DEF l, d, w, c
    <3>3. l + d + (w + c) = l + d + w + c
      BY <3>1
    <3> QED BY <2>3, <3>2, <3>3 DEF Conserves, l, d, w, c
  <2>8. Sorted(t.held)
    <3> DEFINE l == Len(t.held)  q == p.sequence
               start == [i \in 1..n |-> s.held[i].sequence]
               begin == [i \in 1..l |-> t.held[i].sequence]
    <3>1. /\ q \in Nat /\ \A i \in 1..n : start[i] \in Nat
          /\ \A i, j \in 1..n : i < j => start[i] <= start[j]
          /\ \A i \in 1..n : i < at => start[i] < q
          /\ \A i \in 1..n : i >= at => start[i] >= q
      BY <1>1, <1>2, <1>3, NumbersOfData DEF Sorted
    <3>2. \A i \in 1..l :
              \/ i = at /\ begin[i] = q
              \/ i < at /\ i \in 1..n /\ begin[i] = start[i]
              \/ i > at /\ i - 1 \in 1..n /\ i - 1 >= at /\ begin[i] = start[i - 1]
      BY <2>4
    <3>3. \A i \in 1..l : begin[i] = t.held[i].sequence
      OBVIOUS
    <3>4. at \in Nat /\ l = n + 1
      BY <1>2, <1>3, <2>4
    <3> HIDE DEF l, q, start, begin, n
    <3>5. ASSUME NEW i \in 1..l, NEW j \in 1..l, i < j PROVE begin[i] <= begin[j]
      <4>1. CASE j < at
        <5>1. i < at /\ i # at /\ ~(i > at) /\ ~(j > at) /\ j # at
          BY <3>4, <3>5, <4>1
        <5>2. begin[i] = start[i] /\ begin[j] = start[j] /\ i \in 1..n /\ j \in 1..n
          BY <3>2, <5>1
        <5> QED BY <3>1, <3>5, <5>2
      <4>2. CASE j = at
        <5>1. i < at /\ i # at /\ ~(i > at) /\ ~(j > at)
          BY <3>4, <3>5, <4>2
        <5>2. begin[i] = start[i] /\ i \in 1..n /\ begin[j] = q
          BY <3>2, <4>2, <5>1
        <5>3. start[i] < q /\ start[i] \in Nat
          BY <3>1, <5>1, <5>2
        <5> QED BY <3>1, <5>2, <5>3
      <4>3. CASE j > at
        <5>1. begin[j] = start[j - 1] /\ j - 1 \in 1..n /\ j - 1 >= at
          BY <3>2, <3>4, <4>3
        <5>2. start[j - 1] >= q /\ start[j - 1] \in Nat
          BY <3>1, <5>1
        <5>3. CASE i = at
          <6>1. begin[i] = q
            BY <3>2, <3>4, <5>3
          <6> QED BY <3>1, <5>1, <5>2, <6>1
        <5>4. CASE i < at
          <6>1. begin[i] = start[i] /\ i \in 1..n
            BY <3>2, <3>4, <5>4
          <6>2. start[i] < q /\ start[i] \in Nat
            BY <3>1, <5>4, <6>1
          <6> QED BY <3>1, <5>1, <5>2, <6>1, <6>2
        <5>5. CASE i > at
          <6>1. begin[i] = start[i - 1] /\ i - 1 \in 1..n /\ i - 1 < j - 1
            BY <3>2, <3>4, <3>5, <5>5
          <6> QED BY <3>1, <5>1, <6>1
        <5> QED BY <3>4, <5>3, <5>4, <5>5
      <4> QED BY <3>4, <4>1, <4>2, <4>3
    <3> QED BY <3>3, <3>5 DEF Sorted, l
  <2>9. Good(t)
    <3>1. \A i \in 1..Len(t.held) :
            /\ t.held[i].session = s.session
            /\ t.held[i].sequence + t.held[i].count <= s.known
      <4> DEFINE Fits(h) == h.session = s.session /\ h.sequence + h.count <= s.known
      <4>1. Fits(p) /\ \A i \in 1..n : Fits(s.held[i])
        BY <1>1
      <4> HIDE DEF Fits
      <4>2. \A i \in 1..Len(t.held) : Fits(t.held[i])
        BY <2>4, <4>1
      <4> QED BY <4>2 DEF Fits
    <3> QED BY <1>1, <2>3, <2>6, <2>8, <3>1, GoodAfter
  <2>10. Drained(t)
    <3>1. t.held \in Seq(DataPackets) /\ Len(t.held) = n + 1
      BY <2>3, <2>4, StateFields
    <3>2. t.held # <<>> /\ Head(t.held) = t.held[1] /\ 1 \in 1..Len(t.held)
      BY <1>3, <3>1
    <3>3. CASE at = 1
      BY <2>3, <2>4, <3>2, <3>3 DEF Drained
    <3>4. CASE at # 1
      <4>1. ~(1 > at) /\ 1 # at
        BY <1>2, <3>4
      <4>2. 1 \in 1..n /\ t.held[1] = s.held[1]
        BY <2>4, <3>2, <4>1
      <4>3. s.held # <<>> /\ Head(s.held) = s.held[1]
        BY <1>3, <4>2
      <4> QED BY <2>3, <3>2, <4>2, <4>3 DEF Drained
    <3> QED BY <3>3, <3>4
  <2>11. n + 1 <= n + 1
    BY <1>3
  <2> QED BY <2>4, <2>6, <2>7, <2>9, <2>10, <2>11 DEF t
<1> QED BY <1>6, <1>7

-----------------------------------------------------------------------------
(* The public handlers.                                                    *)

\* From s to r a gap is given up: what is not in hand is lost.
Skips(s, r) ==
  /\ r.next >= s.next
  /\ \A m \in Nat : m \in InHand(r) <=> m \in InHand(s)
  /\ \A m \in Nat : m \in InHand(s) => m >= r.next
  /\ r.delivered = s.delivered
  /\ r.lost = s.lost + (r.next - s.next)

\* A call: perhaps a gap is given up, then messages `new` come in.
Steps(s, t, new) ==
  \E r \in States : Skips(s, r) /\ Moves(r, t, new)

LEMMA SkipsNone ==
  ASSUME NEW s \in States, NEW r \in States, r.next = s.next, r.held = s.held,
         r.delivered = s.delivered, r.lost = s.lost
  PROVE  Skips(s, r)
<1> DEFINE a == s.next  l == s.lost
<1>1. a \in Nat /\ l \in Nat
  BY StateFields
<1>2. \A m \in Nat : m \in InHand(r) <=> m \in InHand(s)
  BY DEF InHand
<1>3. \A m \in Nat : m \in InHand(s) => m >= a
  BY DEF InHand
<1> HIDE DEF a, l
<1>4. a >= a /\ l = l + (a - a)
  BY <1>1
<1> QED BY <1>2, <1>3, <1>4 DEF Skips, a, l

\* All that is in hand is as far as the first held packet.
LEMMA InHandBeyondHead ==
  ASSUME NEW s \in States, Sorted(s.held), NEW m \in Nat, m \in InHand(s)
  PROVE  s.held # <<>> /\ m >= Head(s.held).sequence
<1>1. PICK i \in 1..Len(s.held) : m \in NumbersOf(s.held[i])
  BY DEF InHand
<1> DEFINE n == Len(s.held)
<1>2. /\ s.held \in Seq(DataPackets) /\ n \in Nat
      /\ \A j \in 1..n : s.held[j] \in DataPackets
  BY StateFields, ElementIs
<1>3. s.held # <<>> /\ Head(s.held) = s.held[1] /\ 1 \in 1..n
  BY <1>1, <1>2
<1> DEFINE q == s.held[1].sequence  r == s.held[i].sequence  c == s.held[i].count
<1>4. r \in Nat /\ q \in Nat /\ c \in Nat /\ m \in r..(r + c - 1)
  <2>1. s.held[1] \in DataPackets /\ s.held[i] \in DataPackets
    BY <1>1, <1>2, <1>3
  <2>2. q \in Nat /\ r \in Nat /\ c \in Nat
    BY <2>1, NumbersOfData
  <2>3. NumbersOf(s.held[i]) = r..(r + c - 1)
    BY <2>1, NumbersOfData
  <2> QED BY <1>1, <2>2, <2>3
<1>5. i = 1 \/ 1 < i
  BY <1>1, <1>2
<1>6. 1 < i => q <= r
  BY <1>1, <1>3 DEF Sorted
<1>7. i = 1 => q = r
  OBVIOUS
<1> HIDE DEF q, r, c
<1>8. m >= q
  BY <1>4, <1>5, <1>6, <1>7
<1> QED BY <1>3, <1>8 DEF q

\* What giving up counts before it drains.
LEMMA SkipCorrect ==
  ASSUME NEW s, Good(s), Drained(s)
  PROVE  LET r == Skip(s)
         IN /\ Good(r) /\ Skips(s, r) /\ Conserves(s, r, 0)
            /\ r.held = s.held /\ r.session = s.session /\ r.known = s.known
            /\ s.held # <<>> => ~Drained(r)
            /\ s.held = <<>> => r.next >= s.known
<1> DEFINE r == Skip(s)
           a == s.next
           b == r.next
           target == Target(s)
           l == s.lost
           g == s.gaps
<1>1. /\ s \in States /\ a \in 1..MaxNumber /\ s.known \in 0..MaxNumber /\ l \in Nat
      /\ g \in Nat /\ s.held \in Seq(DataPackets) /\ Sorted(s.held)
      /\ s.delivered \in Seq(Delivered)
  BY StateFields DEF Good
<1>2. /\ target \in 0..MaxNumber
      /\ s.held # <<>> => target = Head(s.held).sequence /\ target > a
      /\ s.held = <<>> => target = s.known
  <2>1. CASE s.held = <<>>
    BY <1>1, <2>1 DEF Target
  <2>2. CASE s.held # <<>>
    <3>1. Head(s.held) \in DataPackets
      BY <1>1, <2>2, TailIs
    <3> QED BY <2>2, <3>1, NumbersOfData DEF Target, Drained
  <2> QED BY <2>1, <2>2
<1>3. r = IF target > a
          THEN [s EXCEPT !.gaps = g + 1, !.lost = l + (target - a), !.next = target]
          ELSE s
  BY <1>1 DEF Skip, States
<1>s. Moves(s, s, {}) /\ Conserves(s, s, 0)
  BY <1>1, MovesStay
<1> HIDE DEF target, r
<1>4. /\ r \in States /\ r.held = s.held /\ r.session = s.session /\ r.known = s.known
      /\ r.delivered = s.delivered /\ r.duplicates = s.duplicates
      /\ b = (IF target > a THEN target ELSE a)
      /\ r.lost = (IF target > a THEN l + (target - a) ELSE l)
  <2>1. CASE target > a
    <3>1. r = [s EXCEPT !.gaps = g + 1, !.lost = l + (target - a), !.next = target]
      BY <1>3, <2>1
    <3>2. g + 1 \in Nat /\ l + (target - a) \in Nat /\ target \in 1..MaxNumber
      <4> HIDE DEF a, l, g
      <4> QED BY <1>1, <1>2, <2>1
    <3> HIDE DEF a, l, g
    <3>3. /\ r \in States /\ r.held = s.held /\ r.session = s.session /\ r.known = s.known
          /\ r.delivered = s.delivered /\ r.duplicates = s.duplicates
          /\ b = target /\ r.lost = l + (target - a)
      BY <1>1, <3>1, <3>2 DEF States
    <3> QED BY <2>1, <3>3
  <2>2. CASE ~(target > a)
    <3>1. r = s
      BY <1>3, <2>2
    <3> QED BY <1>1, <2>2, <3>1
  <2> QED BY <2>1, <2>2
<1>5. \A m \in Nat : m \in InHand(s) => m >= b
  <2>1. ASSUME NEW m \in Nat, m \in InHand(s) PROVE m >= b
    <3>1. s.held # <<>> /\ m >= target
      BY <1>1, <1>2, <2>1, InHandBeyondHead
    <3>2. b = target
      BY <1>2, <1>4, <3>1
    <3> QED BY <3>1, <3>2
  <2> QED BY <2>1
<1>6. \A m \in Nat : m \in InHand(r) <=> m \in InHand(s)
  <2>1. /\ \A m \in Nat : m \in InHand(s) <=>
             m >= a /\ \E i \in 1..Len(s.held) : m \in NumbersOf(s.held[i])
        /\ \A m \in Nat : m \in InHand(r) <=>
             m >= b /\ \E i \in 1..Len(s.held) : m \in NumbersOf(s.held[i])
    BY <1>4 DEF InHand
  <2> HIDE DEF a, b
  <2>2. b >= a /\ \A m \in Nat : m >= b => m >= a
    BY <1>1, <1>2, <1>4
  <2> QED BY <1>5, <2>1, <2>2
<1>7. b >= a /\ r.lost = l + (b - a) /\ b \in Nat
  <2> HIDE DEF a, b, l
  <2> QED BY <1>1, <1>2, <1>4
<1>8. Skips(s, r)
  BY <1>4, <1>5, <1>6, <1>7 DEF Skips
<1>9. Conserves(s, r, 0)
  BY <1>4, <1>s DEF Conserves
<1>10. Good(r)
  <2>1. ASSUME NEW i \in 1..Len(s.delivered)
        PROVE  s.delivered[i].session = s.session /\ s.delivered[i].number < b
    <3> DEFINE number == s.delivered[i].number
    <3>1. s.delivered[i].session = s.session /\ number < a
      BY DEF Good
    <3>2. number \in Nat
      <4>1. s.delivered[i] \in Delivered
        BY <1>1, <2>1, ElementIs
      <4> QED BY <4>1 DEF Delivered
    <3> HIDE DEF number, a, b
    <3>3. number < b
      BY <1>1, <1>7, <3>1, <3>2
    <3> QED BY <3>1, <3>3 DEF number, b
  <2> QED BY <1>4, <2>1 DEF Good
<1>11. s.held # <<>> => ~Drained(r)
  <2>1. ASSUME s.held # <<>> PROVE ~(Head(s.held).sequence > b)
    <3>1. target = Head(s.held).sequence /\ b = target
      BY <1>2, <1>4, <2>1
    <3>2. ~(target > target)
      BY <1>2
    <3> QED BY <3>1, <3>2
  <2> QED BY <1>4, <2>1 DEF Drained
<1>12. s.held = <<>> => b >= s.known
  <2> DEFINE k == s.known
  <2> HIDE DEF a, b, k
  <2>1. k \in Nat /\ (s.held = <<>> => target = k)
    BY <1>1, <1>2 DEF k
  <2>2. s.held = <<>> => b >= k
    BY <1>1, <1>4, <2>1
  <2> QED BY <2>2 DEF k
<1> QED BY <1>4, <1>8, <1>9, <1>10, <1>11, <1>12 DEF r

\* drainHeld() and finishIfEnded(), which end both handlers.
LEMMA SettleCorrect ==
  ASSUME NEW s, Good(s)
  PROVE  LET t == FinishIfEnded(DrainHeld(s))
         IN /\ Good(t) /\ Drained(t) /\ Moves(s, t, {}) /\ Conserves(s, t, 0)
            /\ Len(t.held) <= Len(s.held)
            /\ ~Drained(s) => Len(t.held) < Len(s.held)
<1> DEFINE r == DrainHeld(s)  t == FinishIfEnded(r)
<1>1. /\ Good(r) /\ Moves(s, r, {}) /\ Conserves(s, r, 0) /\ Drained(r)
      /\ Len(r.held) <= Len(s.held)
      /\ ~Drained(s) => Len(r.held) < Len(s.held)
  BY DrainHeldCorrect
<1> HIDE DEF r
<1>2. /\ Good(t) /\ Moves(r, t, {}) /\ Conserves(r, t, 0) /\ Drained(t)
      /\ t.held = r.held
  BY <1>1, FinishCorrect
<1> HIDE DEF t
<1>3. s \in States /\ r \in States /\ t \in States
  BY <1>1, <1>2 DEF Good
<1>4. Moves(s, t, {} \cup {}) /\ Conserves(s, t, 0 + 0)
  BY <1>1, <1>2, <1>3, MovesCompose, ConservesCompose
<1>5. {} \cup {} = {} /\ 0 + 0 = 0
  OBVIOUS
<1>6. Moves(s, t, {}) /\ Conserves(s, t, 0)
  BY <1>4, <1>5
<1> QED BY <1>1, <1>2, <1>6 DEF r, t

LEMMA GiveUpGapCorrect ==
  ASSUME NEW s, Good(s), Drained(s)
  PROVE  LET t == GiveUpGap(s)
         IN /\ Good(t) /\ Drained(t) /\ Conserves(s, t, 0)
            /\ t.session = s.session /\ t.known = s.known
            /\ Len(t.held) <= Len(s.held)
            /\ s.held # <<>> => Len(t.held) < Len(s.held)
            /\ s.held = <<>> => t.next >= s.known
            /\ \E r \in States : Skips(s, r) /\ Moves(r, t, {}) /\ r.session = s.session
<1> DEFINE r == Skip(s)  t == FinishIfEnded(DrainHeld(r))
<1>1. t = GiveUpGap(s)
  BY DEF GiveUpGap
<1>2. /\ Good(r) /\ Skips(s, r) /\ Conserves(s, r, 0)
      /\ r.held = s.held /\ r.session = s.session /\ r.known = s.known
      /\ s.held # <<>> => ~Drained(r)
      /\ s.held = <<>> => r.next >= s.known
  BY SkipCorrect
<1> HIDE DEF r
<1>3. /\ Good(t) /\ Drained(t) /\ Moves(r, t, {}) /\ Conserves(r, t, 0)
      /\ Len(t.held) <= Len(r.held)
      /\ ~Drained(r) => Len(t.held) < Len(r.held)
  BY <1>2, SettleCorrect
<1> HIDE DEF t
<1>4. s \in States /\ r \in States /\ t \in States
  BY <1>2, <1>3 DEF Good
<1>5. Conserves(s, t, 0)
  <2>1. Conserves(s, t, 0 + 0)
    BY <1>2, <1>3, <1>4, ConservesCompose
  <2>2. 0 + 0 = 0
    OBVIOUS
  <2> QED BY <2>1, <2>2
<1>6. t.session = s.session /\ t.known = s.known
  BY <1>2, <1>3 DEF Moves
<1>7. s.held = <<>> => t.next >= s.known
  <2> DEFINE a == r.next  b == t.next  k == s.known
  <2>1. a \in Nat /\ b \in Nat /\ k \in Nat /\ b >= a
    BY <1>3, <1>4, StateFields DEF Moves
  <2>2. s.held = <<>> => a >= k
    BY <1>2
  <2> HIDE DEF a, b, k
  <2>3. s.held = <<>> => b >= k
    BY <2>1, <2>2
  <2> QED BY <2>3 DEF b, k
<1> QED BY <1>1, <1>2, <1>3, <1>4, <1>5, <1>6, <1>7

\* What every packet of the session announces changes nothing that is in hand.
LEMMA AnnounceCorrect ==
  ASSUME NEW s, Good(s), Drained(s), NEW p \in PacketsOf(Sessions), Decodes(p),
         s.session \in {NoSession, p.session}
  PROVE  LET a == Announce(s, p)
         IN /\ Good(a) /\ Drained(a) /\ Skips(s, a) /\ Conserves(s, a, 0)
            /\ a.held = s.held /\ a.session = p.session
            /\ p.sequence + Messages(p) <= a.known
<1> DEFINE a == Announce(s, p)
           end == EndOf(p)
           known == IF end > s.known THEN end ELSE s.known
           n == Len(s.held)
<1>1. /\ s \in States /\ s.known \in 0..MaxNumber /\ s.endOfSession \in BOOLEAN
      /\ s.held \in Seq(DataPackets) /\ n \in Nat
      /\ \A i \in 1..n : s.held[i] \in DataPackets
  BY StateFields, ElementIs DEF Good
<1>2. p.session \in Sessions /\ p.count \in Nat
  BY DEF PacketsOf
<1>3. end \in 0..MaxNumber /\ end = p.sequence + Messages(p)
  BY EndOfIs
<1>4. a = [s EXCEPT !.session = p.session, !.known = known,
                    !.endOfSession = s.endOfSession \/ p.count = kEndOfSession]
  BY <1>1 DEF Announce, States
<1> HIDE DEF a, end
<1>5. known \in 0..MaxNumber /\ known >= s.known /\ known >= end
  <2> DEFINE k == s.known
  <2>1. k \in 0..MaxNumber
    BY <1>1
  <2> HIDE DEF k
  <2>2. (IF end > k THEN end ELSE k) \in 0..MaxNumber
    BY <1>3, <2>1
  <2>3. (IF end > k THEN end ELSE k) >= k /\ (IF end > k THEN end ELSE k) >= end
    BY <1>3, <2>1
  <2> QED BY <2>2, <2>3 DEF k
<1> HIDE DEF known
<1>6. (s.endOfSession \/ p.count = kEndOfSession) \in BOOLEAN
  OBVIOUS
<1>7. /\ a \in States /\ a.next = s.next /\ a.known = known /\ a.held = s.held
      /\ a.session = p.session /\ a.duplicates = s.duplicates /\ a.lost = s.lost
      /\ a.delivered = s.delivered
  BY <1>1, <1>2, <1>4, <1>5, <1>6 DEF States
<1>s. Conserves(s, s, 0)
  BY <1>1, MovesStay
<1>8. Conserves(s, a, 0)
  BY <1>7, <1>s DEF Conserves
<1>9. Skips(s, a)
  BY <1>1, <1>7, SkipsNone
<1>10. s.session # NoSession => s.session = p.session
  OBVIOUS
<1>11. s.session = NoSession => Len(s.held) = 0 /\ Len(s.delivered) = 0
  BY DEF Good
<1>12. ASSUME NEW i \in 1..n
       PROVE  /\ s.held[i].session = p.session
              /\ s.held[i].sequence + s.held[i].count <= known
  <2>1. s.session = p.session
    BY <1>10, <1>11, <1>12
  <2> DEFINE last == s.held[i].sequence + s.held[i].count  k == s.known
  <2>2. s.held[i].session = s.session /\ last <= k
    BY DEF Good
  <2>3. last \in Nat /\ k \in Nat /\ known \in Nat /\ known >= k
    <3>1. s.held[i] \in DataPackets
      BY <1>1
    <3> DEFINE q == s.held[i].sequence  c == s.held[i].count
    <3>2. q \in Nat /\ c \in Nat
      BY <3>1, NumbersOfData
    <3> HIDE DEF q, c
    <3>3. q + c \in Nat
      BY <3>2
    <3> QED BY <1>1, <1>5, <3>3 DEF q, c
  <2> HIDE DEF last, k
  <2>4. last <= known
    BY <2>2, <2>3
  <2> QED BY <2>1, <2>2, <2>4 DEF last
<1>13. ASSUME NEW i \in 1..Len(s.delivered)
       PROVE  s.delivered[i].session = p.session
  BY <1>10, <1>11, <1>13 DEF Good
<1>14. Good(a)
  <2>1. /\ a \in States /\ Sorted(a.held) /\ a.session # NoSession
        /\ \A i \in 1..Len(a.held) :
             /\ a.held[i].session = a.session
             /\ a.held[i].sequence + a.held[i].count <= a.known
    BY <1>2, <1>7, <1>12 DEF Good
  <2>2. /\ \A i \in 1..Len(a.delivered) :
             a.delivered[i].session = a.session /\ a.delivered[i].number < a.next
        /\ \A i, j \in 1..Len(a.delivered) :
             i < j => a.delivered[i].number < a.delivered[j].number
    BY <1>7, <1>13 DEF Good
  <2> QED BY <2>1, <2>2 DEF Good
<1>15. Drained(a)
  BY <1>7 DEF Drained
<1> QED BY <1>3, <1>5, <1>7, <1>8, <1>9, <1>14, <1>15 DEF a, end

\* A packet with messages, once its announcement is taken in.
LEMMA DeliverCorrect ==
  ASSUME NEW s, Good(s), Drained(s), Len(s.held) <= MaxHeld, NEW p \in DataPackets,
         p.session = s.session, p.sequence + p.count <= s.known
  PROVE  LET t == Deliver(s, p)
         IN /\ Good(t) /\ Drained(t) /\ Len(t.held) <= MaxHeld
            /\ Conserves(s, t, p.count) /\ t.session = s.session
            /\ Steps(s, t, NumbersOf(p))
<1> DEFINE beyond == p.sequence > s.next
           room == IF beyond /\ Len(s.held) >= MaxHeld THEN GiveUpGap(s) ELSE s
           t == IF p.sequence > room.next THEN Hold(room, p)
                ELSE FinishIfEnded(DrainHeld(DeliverNew(room, p)))
<1>1. t = Deliver(s, p)
  BY DEF Deliver
<1>2. /\ s \in States /\ s.session \in Sessions /\ Len(s.held) \in Nat
      /\ p.count \in Nat \ {0} /\ p.sequence \in Nat /\ s.held \in Seq(DataPackets)
      /\ s.known \in Nat
  BY NumbersOfData, StateFields DEF Good
<1>3. /\ Good(room) /\ Drained(room) /\ Conserves(s, room, 0)
      /\ room.session = s.session /\ room.known = s.known
      /\ \E r \in States : Skips(s, r) /\ Moves(r, room, {})
      /\ Len(room.held) <= MaxHeld
      /\ p.sequence > room.next => Len(room.held) + 1 <= MaxHeld
  <2>1. CASE beyond /\ Len(s.held) >= MaxHeld
    <3> DEFINE given == GiveUpGap(s)
    <3>1. room = given
      BY <2>1
    <3>2. /\ Good(given) /\ Drained(given) /\ Conserves(s, given, 0)
          /\ given.session = s.session /\ given.known = s.known
          /\ Len(given.held) <= Len(s.held)
          /\ s.held # <<>> => Len(given.held) < Len(s.held)
          /\ s.held = <<>> => given.next >= s.known
          /\ \E r \in States : Skips(s, r) /\ Moves(r, given, {})
      BY GiveUpGapCorrect
    <3> HIDE DEF given
    <3>3. Len(given.held) \in Nat /\ given.next \in Nat
      BY <3>2, StateFields DEF Good
    <3>4. p.sequence > given.next => s.held # <<>>
      <4> DEFINE q == p.sequence  c == p.count  k == s.known  a == given.next
      <4>1. q \in Nat /\ c \in Nat \ {0} /\ k \in Nat /\ a \in Nat /\ q + c <= k
        BY <1>2, <3>3
      <4> HIDE DEF q, c, k, a
      <4>2. a >= k => ~(q > a)
        BY <4>1
      <4> QED BY <3>2, <4>2 DEF q, k, a
    <3>5. /\ Len(given.held) <= MaxHeld
          /\ s.held # <<>> => Len(given.held) + 1 <= MaxHeld
      <4> DEFINE l == Len(s.held)  m == Len(given.held)
      <4>1. l \in Nat /\ m \in Nat /\ l <= MaxHeld /\ m <= l /\ (s.held # <<>> => m < l)
        BY <1>2, <3>2, <3>3
      <4> HIDE DEF l, m
      <4>2. m <= MaxHeld /\ (s.held # <<>> => m + 1 <= MaxHeld)
        BY <4>1
      <4> QED BY <4>2 DEF m
    <3> HIDE DEF room
    <3> QED BY <3>1, <3>2, <3>4, <3>5
  <2>2. CASE ~(beyond /\ Len(s.held) >= MaxHeld)
    <3>1. room = s
      BY <2>2
    <3> HIDE DEF room
    <3>2. Moves(s, s, {}) /\ Conserves(s, s, 0) /\ Skips(s, s)
      BY <1>2, MovesStay, SkipsNone
    <3>3. beyond => Len(s.held) + 1 <= MaxHeld
      BY <1>2, <2>2
    <3> QED BY <1>2, <3>1, <3>2, <3>3
  <2> QED BY <2>1, <2>2
<1> HIDE DEF room
<1>4. room \in States /\ Len(room.held) \in Nat /\ room.next \in Nat
  BY <1>3, StateFields DEF Good
<1>5. /\ Good(t) /\ Drained(t) /\ Len(t.held) <= MaxHeld
      /\ Conserves(room, t, p.count) /\ Moves(room, t, NumbersOf(p))
  <2>1. CASE p.sequence > room.next
    <3> DEFINE u == Hold(room, p)
    <3>1. t = u
      BY <2>1
    <3>2. /\ Good(u) /\ Drained(u) /\ Moves(room, u, NumbersOf(p))
          /\ Conserves(room, u, p.count) /\ Len(u.held) <= Len(room.held) + 1
      BY <1>3, <2>1, HoldCorrect
    <3> HIDE DEF u
    <3>3. Len(u.held) \in Nat
      BY <3>2, StateFields DEF Good
    <3>4. Len(u.held) <= MaxHeld
      BY <1>3, <1>4, <2>1, <3>2, <3>3
    <3> QED BY <3>1, <3>2, <3>4
  <2>2. CASE ~(p.sequence > room.next)
    <3> DEFINE d == DeliverNew(room, p)  u == FinishIfEnded(DrainHeld(d))
    <3>1. t = u
      BY <2>2
    <3>2. p.sequence <= room.next
      BY <1>2, <1>4, <2>2
    <3>3. /\ d \in States /\ d.held = room.held /\ Moves(room, d, NumbersOf(p))
          /\ Conserves(room, d, p.count)
      BY <1>2, <1>3, <1>4, <3>2, DeliverNewCorrect
    <3> HIDE DEF d
    <3>4. /\ Sorted(d.held)
          /\ \A i \in 1..Len(d.held) :
               /\ d.held[i].session = room.session
               /\ d.held[i].sequence + d.held[i].count <= room.known
      BY <1>3, <3>3 DEF Good
    <3>5. Good(d)
      BY <1>2, <1>3, <3>3, <3>4, GoodAfter
    <3>6. /\ Good(u) /\ Drained(u) /\ Moves(d, u, {}) /\ Conserves(d, u, 0)
          /\ Len(u.held) <= Len(d.held)
      BY <3>5, SettleCorrect
    <3> HIDE DEF u
    <3>7. u \in States /\ Len(u.held) \in Nat
      BY <3>6, StateFields DEF Good
    <3>8. Moves(room, u, NumbersOf(p) \cup {}) /\ Conserves(room, u, p.count + 0)
      BY <1>2, <1>4, <3>3, <3>6, <3>7, MovesCompose, ConservesCompose
    <3>9. NumbersOf(p) \cup {} = NumbersOf(p) /\ p.count + 0 = p.count
      <4>1. \A c \in Nat : c + 0 = c
        OBVIOUS
      <4> QED BY <1>2, <4>1
    <3>10. Len(u.held) <= MaxHeld
      <4> DEFINE l == Len(u.held)  m == Len(room.held)
      <4>1. l \in Nat /\ m \in Nat /\ l <= m /\ m <= MaxHeld
        BY <1>3, <1>4, <3>3, <3>6, <3>7
      <4> HIDE DEF l, m
      <4>2. l <= MaxHeld
        BY <4>1
      <4> QED BY <4>2 DEF l
    <3> QED BY <3>1, <3>6, <3>8, <3>9, <3>10
  <2> QED BY <2>1, <2>2
<1> HIDE DEF t
<1>6. t \in States /\ t.session = s.session
  BY <1>3, <1>5 DEF Good, Moves
<1>7. Conserves(s, t, p.count)
  <2>1. Conserves(s, t, 0 + p.count)
    BY <1>2, <1>3, <1>4, <1>5, <1>6, ConservesCompose
  <2>2. \A c \in Nat : 0 + c = c
    OBVIOUS
  <2> QED BY <1>2, <2>1, <2>2
<1>8. Steps(s, t, NumbersOf(p))
  <2>1. PICK r \in States : Skips(s, r) /\ Moves(r, room, {})
    BY <1>3
  <2>2. Moves(r, t, {} \cup NumbersOf(p))
    BY <1>4, <1>5, <1>6, <2>1, MovesCompose
  <2>3. {} \cup NumbersOf(p) = NumbersOf(p)
    OBVIOUS
  <2> QED BY <2>1, <2>2, <2>3 DEF Steps
<1> QED BY <1>1, <1>5, <1>6, <1>7, <1>8

\* What a call takes in: nothing of another session.
Accepts(s, p) == s.session \in {NoSession, p.session}

LEMMA OnPacketCorrect ==
  ASSUME NEW s, Good(s), Drained(s), Len(s.held) <= MaxHeld,
         NEW p \in PacketsOf(Sessions), Decodes(p)
  PROVE  LET t == OnPacket(s, p)
         IN /\ Good(t) /\ Drained(t) /\ Len(t.held) <= MaxHeld
            /\ Accepts(s, p) => /\ Conserves(s, t, Messages(p))
                                /\ Steps(s, t, NumbersOf(p))
            /\ ~Accepts(s, p) => Conserves(s, t, 0) /\ Steps(s, t, {})
<1> DEFINE t == OnPacket(s, p)
<1>1. s \in States
  BY DEF Good
<1>2. CASE ~Accepts(s, p)
  <2>1. t = [s EXCEPT !.otherSession = s.otherSession + 1]
    BY <1>1, <1>2 DEF OnPacket, Accepts, States
  <2>2. s.otherSession + 1 \in Nat
    <3> DEFINE o == s.otherSession
    <3>1. o \in Nat
      BY <1>1, StateFields
    <3> HIDE DEF o
    <3>2. o + 1 \in Nat
      BY <3>1
    <3> QED BY <3>2 DEF o
  <2>3. /\ t \in States /\ t.next = s.next /\ t.known = s.known /\ t.held = s.held
        /\ t.session = s.session /\ t.duplicates = s.duplicates /\ t.lost = s.lost
        /\ t.delivered = s.delivered
    BY <1>1, <2>1, <2>2 DEF States
  <2> HIDE DEF t
  <2>4. Good(t) /\ Drained(t) /\ Len(t.held) <= MaxHeld
    BY <2>3 DEF Good, Drained
  <2>5. Skips(s, t) /\ Moves(t, t, {})
    BY <1>1, <2>3, SkipsNone, MovesStay
  <2>6. Conserves(s, s, 0)
    BY <1>1, MovesStay
  <2>7. Conserves(s, t, 0) /\ Steps(s, t, {})
    BY <2>3, <2>5, <2>6 DEF Conserves, Steps
  <2> QED BY <1>2, <2>4, <2>7 DEF t
<1>3. CASE Accepts(s, p)
  <2> DEFINE a == Announce(s, p)
  <2>1. /\ Good(a) /\ Drained(a) /\ Skips(s, a) /\ Conserves(s, a, 0)
        /\ a.held = s.held /\ a.session = p.session
        /\ p.sequence + Messages(p) <= a.known
    BY <1>3, AnnounceCorrect DEF Accepts
  <2>2. t = IF Messages(p) = 0 THEN FinishIfEnded(a) ELSE Deliver(a, p)
    BY <1>3 DEF OnPacket, Accepts
  <2> HIDE DEF a, t
  <2>3. a \in States
    BY <2>1 DEF Good
  <2>4. CASE Messages(p) = 0
    <3> DEFINE u == FinishIfEnded(a)
    <3>1. /\ Good(u) /\ Moves(a, u, {}) /\ Conserves(a, u, 0)
          /\ Drained(u) /\ u.held = a.held
      BY <2>1, FinishCorrect
    <3>2. t = u
      BY <2>2, <2>4
    <3> HIDE DEF u
    <3>3. u \in States
      BY <3>1 DEF Good
    <3>4. NumbersOf(p) = {}
      <4> DEFINE q == p.sequence
      <4>1. q \in Int /\ NumbersOf(p) = q..(q + 0 - 1)
        BY <2>4 DEF NumbersOf, PacketsOf
      <4> HIDE DEF q
      <4>2. q..(q + 0 - 1) = {}
        BY <4>1
      <4> QED BY <4>1, <4>2
    <3>5. Conserves(s, u, 0 + 0)
      BY <1>1, <2>1, <2>3, <3>1, <3>3, ConservesCompose
    <3>6. 0 + 0 = 0
      OBVIOUS
    <3>7. Conserves(s, u, 0) /\ Steps(s, u, {})
      BY <2>1, <2>3, <3>1, <3>5, <3>6 DEF Steps
    <3> QED BY <1>3, <2>1, <2>4, <3>1, <3>2, <3>4, <3>7 DEF t
  <2>5. CASE Messages(p) # 0
    <3> DEFINE u == Deliver(a, p)
    <3>1. t = u
      BY <2>2, <2>5
    <3>2. p \in DataPackets /\ Messages(p) = p.count /\ p.count \in Nat
      <4>1. Messages(p) = p.count /\ p.count \in Nat \ {0, kEndOfSession}
        BY <2>5 DEF Messages, PacketsOf
      <4>2. p.sequence + p.count <= MaxNumber
        <5> DEFINE q == p.sequence  c == p.count
        <5>1. q \in Nat /\ c \in Nat /\ q <= MaxNumber - c
          BY <4>1 DEF Decodes, PacketsOf
        <5> HIDE DEF q, c
        <5>2. q + c <= MaxNumber
          BY <5>1
        <5> QED BY <5>2 DEF q, c
      <4> QED BY <4>1, <4>2 DEF DataPackets
    <3>3. /\ Good(u) /\ Drained(u) /\ Len(u.held) <= MaxHeld
          /\ Conserves(a, u, p.count) /\ Steps(a, u, NumbersOf(p))
      BY <2>1, <3>2, DeliverCorrect
    <3> HIDE DEF u
    <3>4. u \in States
      BY <3>3 DEF Good
    <3>5. Conserves(s, u, 0 + p.count)
      BY <1>1, <2>1, <2>3, <3>2, <3>3, <3>4, ConservesCompose
    <3>6. \A c \in Nat : 0 + c = c
      OBVIOUS
    <3>7. Conserves(s, u, Messages(p))
      BY <3>2, <3>5, <3>6
    <3>8. PICK r \in States : Skips(a, r) /\ Moves(r, u, NumbersOf(p))
      BY <3>3 DEF Steps
    <3>9. Skips(s, r)
      <4> DEFINE x == s.next  y == a.next  z == r.next  k == s.lost  l == a.lost  m == r.lost
      <4>1. /\ x \in Nat /\ y \in Nat /\ z \in Nat /\ k \in Nat /\ l \in Nat /\ m \in Nat
            /\ y >= x /\ z >= y /\ l = k + (y - x) /\ m = l + (z - y)
        BY <1>1, <2>1, <2>3, <3>8, StateFields DEF Skips
      <4> HIDE DEF x, y, z, k, l, m
      <4>2. z >= x /\ m = k + (z - x)
        BY <4>1
      <4>3. /\ \A i \in Nat : i \in InHand(r) <=> i \in InHand(s)
            /\ \A i \in Nat : i \in InHand(s) => i >= r.next
            /\ r.delivered = s.delivered
        BY <2>1, <3>8 DEF Skips
      <4> QED BY <4>2, <4>3 DEF Skips, x, z, k, m
    <3>10. Steps(s, u, NumbersOf(p))
      BY <3>8, <3>9 DEF Steps
    <3> QED BY <1>3, <3>1, <3>3, <3>7, <3>10 DEF t
  <2> QED BY <2>4, <2>5
<1> QED BY <1>2, <1>3

-----------------------------------------------------------------------------
(* The end of the session.                                                 *)

\* What only the packet that ends the session and finishIfEnded() change.
KeepsEnd(s, t) == t.endOfSession = s.endOfSession /\ t.ended = s.ended

\* Delivery goes on, never past what is known, and the session ends only when
\* its end is known and all before it is done with.
Advances(s, t) ==
  /\ t.next >= s.next /\ (t.next = s.next \/ t.next <= s.known)
  /\ t.known = s.known /\ t.endOfSession = s.endOfSession
  /\ t.ended => s.ended \/ (s.endOfSession /\ t.next >= t.known)

LEMMA AdvancesCompose ==
  ASSUME NEW r \in States, NEW s \in States, NEW t \in States, Advances(r, s), Advances(s, t)
  PROVE  Advances(r, t)
<1> DEFINE a == r.next  b == s.next  c == t.next  k == r.known
<1>1. a \in Nat /\ b \in Nat /\ c \in Nat /\ k \in Nat
  BY StateFields
<1>2. /\ b >= a /\ (b = a \/ b <= k) /\ c >= b /\ (c = b \/ c <= k)
      /\ s.known = k /\ t.known = k
      /\ s.endOfSession = r.endOfSession /\ t.endOfSession = r.endOfSession
      /\ s.ended => r.ended \/ (r.endOfSession /\ b >= k)
      /\ t.ended => s.ended \/ (r.endOfSession /\ c >= k)
  BY DEF Advances
<1> HIDE DEF a, b, c, k
<1>3. c >= a /\ (c = a \/ c <= k) /\ (b >= k => c >= k)
  BY <1>1, <1>2
<1>4. t.ended => r.ended \/ (r.endOfSession /\ c >= k)
  BY <1>2, <1>3
<1> QED BY <1>2, <1>3, <1>4 DEF Advances, a, c, k

LEMMA AdvancesStay ==
  ASSUME NEW s \in States
  PROVE  Advances(s, s)
<1>1. \A n \in Nat : n >= n
  OBVIOUS
<1>2. s.next \in Nat
  BY StateFields
<1> QED BY <1>1, <1>2 DEF Advances

\* Delivery of what is in hand, or is no further than what is known.
LEMMA MovesAdvance ==
  ASSUME NEW s, Good(s), NEW t \in States, NEW new, Moves(s, t, new), KeepsEnd(s, t),
         \A m \in new : m \in Nat /\ m < s.known
  PROVE  Advances(s, t)
<1> DEFINE a == s.next  c == t.next  k == s.known
<1>1. /\ s \in States /\ a \in Nat \ {0} /\ c \in Nat /\ k \in Nat /\ c >= a
      /\ \A m \in Nat : a <= m /\ m < c => m \in InHand(s) \/ m \in new
  BY StateFields DEF Good, Moves
<1>2. ASSUME NEW m \in InHand(s) PROVE m < k
  <2>1. PICK i \in 1..Len(s.held) : m \in NumbersOf(s.held[i])
    BY <1>2 DEF InHand
  <2> DEFINE q == s.held[i].sequence  n == s.held[i].count
  <2>2. s.held[i] \in DataPackets
    BY <1>1, StateFields, ElementIs
  <2>3. q \in Nat /\ n \in Nat /\ NumbersOf(s.held[i]) = q..(q + n - 1)
    BY <2>2, NumbersOfData
  <2>4. q + n <= k
    BY DEF Good
  <2>5. m \in q..(q + n - 1)
    BY <2>1, <2>3
  <2> HIDE DEF q, n, k
  <2> QED BY <1>1, <2>3, <2>4, <2>5
<1>3. c = a \/ c <= k
  <2> DEFINE m == c - 1
  <2>1. CASE c > a
    <3>1. m \in Nat /\ a <= m /\ m < c /\ c = m + 1
      <4> HIDE DEF a, c
      <4> QED BY <1>1, <2>1
    <3> HIDE DEF m
    <3>2. m < k
      BY <1>1, <1>2, <3>1
    <3> HIDE DEF a, c, k
    <3> QED BY <1>1, <3>1, <3>2
  <2>2. CASE ~(c > a)
    <3> HIDE DEF a, c
    <3> QED BY <1>1, <2>2
  <2> QED BY <2>1, <2>2
<1>4. t.known = s.known
  BY DEF Moves
<1> QED BY <1>1, <1>3, <1>4 DEF Advances, KeepsEnd

LEMMA DeliverNewKeepsEnd ==
  ASSUME NEW s \in States, NEW p
  PROVE  KeepsEnd(s, DeliverNew(s, p))
<1> DEFINE stale == Stale(s, p)
           fresh == p.count - stale
           run == [i \in 1..fresh |-> [session |-> p.session, number |-> p.sequence + stale + i - 1]]
           t == [s EXCEPT !.next = s.next + fresh, !.duplicates = s.duplicates + stale,
                          !.delivered = s.delivered \o run]
<1>1. DeliverNew(s, p) = t
  BY DEF DeliverNew, States
<1> HIDE DEF stale, fresh, run
<1>2. t.endOfSession = s.endOfSession /\ t.ended = s.ended
  BY DEF States
<1> HIDE DEF t
<1> QED BY <1>1, <1>2 DEF KeepsEnd

LEMMA DrainFrontKeepsEnd ==
  ASSUME NEW s, Good(s)
  PROVE  Good(DrainFront(s)) /\ KeepsEnd(s, DrainFront(s))
<1>1. s \in States
  BY DEF Good
<1>2. CASE Drained(s)
  <2>1. DrainFront(s) = s
    <3>1. SUFFICES ASSUME s.held # <<>> PROVE ~(Head(s.held).sequence <= s.next)
      BY DEF DrainFront
    <3> DEFINE q == Head(s.held).sequence  n == s.next
    <3>2. Head(s.held) \in DataPackets /\ n \in Nat /\ q > n
      BY <1>1, <1>2, <3>1, StateFields, TailIs DEF Drained
    <3>3. q \in Nat
      BY <3>2, NumbersOfData
    <3> HIDE DEF q, n
    <3>4. ~(q <= n)
      BY <3>2, <3>3
    <3> QED BY <3>4 DEF q, n
  <2> QED BY <2>1 DEF KeepsEnd
<1>3. CASE ~Drained(s)
  <2>1. Good(DrainFront(s))
    BY <1>3, DrainFrontCorrect
  <2> DEFINE r == [s EXCEPT !.held = Tail(s.held)]
  <2>2. s.held \in Seq(DataPackets) /\ s.held # <<>>
    BY <1>1, <1>3, StateFields DEF Drained
  <2>3. r \in States /\ r.endOfSession = s.endOfSession /\ r.ended = s.ended
    <3>1. Tail(s.held) \in Seq(DataPackets)
      BY <2>2, TailIs
    <3> QED BY <1>1, <3>1 DEF States
  <2>4. DrainFront(s) = DeliverNew(r, Head(s.held)) \/ DrainFront(s) = s
    BY <1>1 DEF DrainFront, States
  <2> HIDE DEF r
  <2>5. KeepsEnd(r, DeliverNew(r, Head(s.held)))
    BY <2>3, DeliverNewKeepsEnd
  <2> QED BY <2>1, <2>3, <2>4, <2>5 DEF KeepsEnd
<1> QED BY <1>2, <1>3

LEMMA DrainHeldKeepsEnd ==
  ASSUME NEW s, Good(s)
  PROVE  KeepsEnd(s, DrainHeld(s))
<1> DEFINE after == DrainTurns(s)
           all == Len(s.held)
           T == {k \in Nat : k <= all => Good(after[k]) /\ KeepsEnd(s, after[k])}
<1>1. all \in Nat
  BY StateFields DEF Good
<1>2. after[0] = s /\ \A k \in 1..all : after[k] = DrainFront(after[k - 1])
  BY <1>1, DrainTurnsAre
<1> HIDE DEF after, all
<1>3. 0 \in T
  BY <1>2 DEF KeepsEnd
<1>4. ASSUME NEW k \in Nat, k \in T PROVE k + 1 \in T
  <2> SUFFICES ASSUME k + 1 <= all PROVE Good(after[k + 1]) /\ KeepsEnd(s, after[k + 1])
    OBVIOUS
  <2>1. k <= all /\ k + 1 \in 1..all /\ (k + 1) - 1 = k
    BY <1>1
  <2>2. after[k + 1] = DrainFront(after[k])
    BY <1>2, <2>1
  <2>3. Good(after[k]) /\ KeepsEnd(s, after[k])
    BY <1>4, <2>1
  <2> QED BY <2>2, <2>3, DrainFrontKeepsEnd DEF KeepsEnd
<1> HIDE DEF T
<1>5. all \in T
  BY <1>1, <1>3, <1>4, Induction
<1>6. KeepsEnd(s, after[all])
  BY <1>1, <1>5 DEF T
<1> QED BY <1>6 DEF DrainHeld, after, all

LEMMA FinishAdvances ==
  ASSUME NEW s, Good(s)
  PROVE  Advances(s, FinishIfEnded(s))
<1> DEFINE t == FinishIfEnded(s)  a == s.next  k == s.known
<1>1. s \in States /\ a \in Nat /\ k \in Nat
  BY StateFields DEF Good
<1>2. /\ t.next = a /\ t.known = k /\ t.endOfSession = s.endOfSession
      /\ t.ended = (s.ended \/ (s.endOfSession /\ ~(k > a)))
  BY <1>1 DEF FinishIfEnded, GapOpen, States
<1> HIDE DEF t, a, k
<1>3. a >= a /\ (~(k > a) => a >= k)
  BY <1>1
<1>4. t.ended => s.ended \/ (s.endOfSession /\ t.next >= t.known)
  BY <1>2, <1>3
<1> QED BY <1>2, <1>3, <1>4 DEF Advances, t, a, k

LEMMA SettleAdvances ==
  ASSUME NEW s, Good(s)
  PROVE  Advances(s, FinishIfEnded(DrainHeld(s)))
<1> DEFINE r == DrainHeld(s)  t == FinishIfEnded(r)
<1>1. Good(r) /\ Moves(s, r, {}) /\ KeepsEnd(s, r)
  BY DrainHeldCorrect, DrainHeldKeepsEnd
<1> HIDE DEF r
<1>2. Good(t) /\ Advances(r, t)
  BY <1>1, FinishCorrect, FinishAdvances
<1> HIDE DEF t
<1>3. s \in States /\ r \in States /\ t \in States
  BY <1>1, <1>2 DEF Good
<1>4. Advances(s, r)
  BY <1>1, <1>3, MovesAdvance
<1>5. Advances(s, t)
  BY <1>2, <1>3, <1>4, AdvancesCompose
<1> QED BY <1>5 DEF r, t

LEMMA SkipAdvances ==
  ASSUME NEW s, Good(s), Drained(s)
  PROVE  Advances(s, Skip(s))
<1> DEFINE r == Skip(s)
           a == s.next
           k == s.known
           target == Target(s)
<1>1. s \in States /\ a \in Nat /\ k \in Nat /\ s.held \in Seq(DataPackets)
  BY StateFields DEF Good
<1>2. target \in Nat /\ target <= k
  <2>1. CASE s.held = <<>>
    <3> HIDE DEF k
    <3>1. k <= k
      BY <1>1
    <3> QED BY <1>1, <2>1, <3>1 DEF Target, k
  <2>2. CASE s.held # <<>>
    <3> DEFINE q == Head(s.held).sequence  c == Head(s.held).count
    <3>1. Head(s.held) = s.held[1] /\ Head(s.held) \in DataPackets /\ 1 \in 1..Len(s.held)
      BY <1>1, <2>2, TailIs
    <3>2. q \in Nat /\ c \in Nat
      BY <3>1, NumbersOfData
    <3>3. q + c <= k
      BY <3>1 DEF Good
    <3>4. target = q
      BY <2>2 DEF Target
    <3> HIDE DEF q, c, k, target
    <3> QED BY <1>1, <3>2, <3>3, <3>4
  <2> QED BY <2>1, <2>2
<1>3. CASE target > a
  <2>1. r = [s EXCEPT !.gaps = s.gaps + 1, !.lost = s.lost + (target - a), !.next = target]
    BY <1>1, <1>3 DEF Skip, States
  <2> HIDE DEF r, target
  <2>2. r.next = target /\ r.known = k /\ r.endOfSession = s.endOfSession /\ r.ended = s.ended
    BY <1>1, <2>1 DEF States
  <2> HIDE DEF a, k
  <2>3. target >= a
    BY <1>1, <1>2, <1>3
  <2>4. r.next >= a /\ r.next <= k
    BY <1>2, <2>2, <2>3
  <2> QED BY <2>2, <2>4 DEF Advances, a, k, r
<1>4. CASE ~(target > a)
  <2>1. r = s
    BY <1>4 DEF Skip
  <2> QED BY <1>1, <2>1, AdvancesStay
<1> QED BY <1>3, <1>4

LEMMA GiveUpGapAdvances ==
  ASSUME NEW s, Good(s), Drained(s)
  PROVE  Advances(s, GiveUpGap(s))
<1> DEFINE r == Skip(s)  t == GiveUpGap(s)
<1>1. Good(r) /\ Advances(s, r)
  BY SkipCorrect, SkipAdvances
<1>2. Good(t)
  BY GiveUpGapCorrect
<1>3. Advances(r, t)
  BY <1>1, SettleAdvances DEF GiveUpGap
<1> HIDE DEF r, t
<1>4. s \in States /\ r \in States /\ t \in States
  BY <1>1, <1>2 DEF Good
<1>5. Advances(s, t)
  BY <1>1, <1>3, <1>4, AdvancesCompose
<1> QED BY <1>5 DEF t

LEMMA HoldKeepsEnd ==
  ASSUME NEW s \in States, NEW p
  PROVE  KeepsEnd(s, Hold(s, p))
<1> DEFINE at == HoldAt(s, p)
           t == [s EXCEPT !.duplicates = s.duplicates + p.count]
           u == [s EXCEPT !.held = InsertAt(s.held, at, p)]
<1>1. Hold(s, p) = t \/ Hold(s, p) = u
  BY DEF Hold, States
<1> HIDE DEF at
<1>2. /\ t.endOfSession = s.endOfSession /\ t.ended = s.ended
      /\ u.endOfSession = s.endOfSession /\ u.ended = s.ended
  BY DEF States
<1> HIDE DEF t, u
<1> QED BY <1>1, <1>2 DEF KeepsEnd

LEMMA DeliverAdvances ==
  ASSUME NEW s, Good(s), Drained(s), Len(s.held) <= MaxHeld, NEW p \in DataPackets,
         p.session = s.session, p.sequence + p.count <= s.known
  PROVE  Advances(s, Deliver(s, p))
<1> DEFINE beyond == p.sequence > s.next
           room == IF beyond /\ Len(s.held) >= MaxHeld THEN GiveUpGap(s) ELSE s
           t == Deliver(s, p)
<1>1. t = IF p.sequence > room.next THEN Hold(room, p)
          ELSE FinishIfEnded(DrainHeld(DeliverNew(room, p)))
  BY DEF Deliver
<1>2. s \in States /\ p.sequence \in Nat /\ p.count \in Nat /\ s.known \in Nat
  BY NumbersOfData, StateFields DEF Good
<1>3. Good(room) /\ Drained(room) /\ Advances(s, room) /\ room.session = s.session
  <2>1. CASE beyond /\ Len(s.held) >= MaxHeld
    <3>1. room = GiveUpGap(s)
      BY <2>1
    <3> QED BY <3>1, GiveUpGapCorrect, GiveUpGapAdvances
  <2>2. CASE ~(beyond /\ Len(s.held) >= MaxHeld)
    <3>1. room = s
      BY <2>2
    <3> QED BY <1>2, <3>1, AdvancesStay
  <2> QED BY <2>1, <2>2
<1>4. Good(t)
  BY DeliverCorrect
<1> HIDE DEF room, t
<1>5. /\ room \in States /\ t \in States /\ room.next \in Nat /\ room.known = s.known
      /\ room.session \in Sessions
  BY <1>3, <1>4, NumbersOfData, StateFields DEF Good, Advances
<1>6. \A m \in NumbersOf(p) : m \in Nat /\ m < room.known
  <2> DEFINE q == p.sequence  c == p.count  k == s.known
  <2>1. q \in Nat /\ c \in Nat /\ k \in Nat /\ q + c <= k /\ NumbersOf(p) = q..(q + c - 1)
    BY <1>2, NumbersOfData
  <2> HIDE DEF q, c, k
  <2>2. \A m \in q..(q + c - 1) : m \in Nat /\ m < k
    BY <2>1
  <2> QED BY <1>5, <2>1, <2>2 DEF k
<1>7. CASE p.sequence > room.next
  <2>1. t = Hold(room, p)
    BY <1>1, <1>7
  <2>2. Moves(room, t, NumbersOf(p)) /\ KeepsEnd(room, t)
    BY <1>3, <1>5, <1>7, <2>1, HoldCorrect, HoldKeepsEnd
  <2>3. Advances(room, t)
    BY <1>3, <1>5, <1>6, <2>2, MovesAdvance
  <2> QED BY <1>2, <1>3, <1>5, <2>3, AdvancesCompose DEF t
<1>8. CASE ~(p.sequence > room.next)
  <2> DEFINE d == DeliverNew(room, p)
  <2>1. t = FinishIfEnded(DrainHeld(d))
    BY <1>1, <1>8
  <2>2. p.sequence <= room.next
    BY <1>2, <1>5, <1>8
  <2>3. d \in States /\ d.held = room.held /\ Moves(room, d, NumbersOf(p)) /\ KeepsEnd(room, d)
    BY <1>3, <1>5, <2>2, DeliverNewCorrect, DeliverNewKeepsEnd
  <2> HIDE DEF d
  <2>4. /\ Sorted(d.held)
        /\ \A i \in 1..Len(d.held) :
             /\ d.held[i].session = room.session
             /\ d.held[i].sequence + d.held[i].count <= room.known
    BY <1>3, <2>3 DEF Good
  <2>5. Good(d)
    BY <1>3, <1>5, <2>3, <2>4, GoodAfter
  <2>6. Advances(room, d)
    BY <1>3, <1>6, <2>3, MovesAdvance
  <2>7. Advances(d, t)
    BY <2>1, <2>5, SettleAdvances
  <2>8. Advances(room, t)
    BY <1>5, <2>3, <2>6, <2>7, AdvancesCompose
  <2> QED BY <1>2, <1>3, <1>5, <2>8, AdvancesCompose DEF t
<1> QED BY <1>7, <1>8

\* onPacket() of a packet of the session takes in what it announces, and then
\* delivery goes on.
LEMMA OnPacketAdvances ==
  ASSUME NEW s, Good(s), Drained(s), Len(s.held) <= MaxHeld,
         NEW p \in PacketsOf(Sessions), Decodes(p), Accepts(s, p)
  PROVE  \E a \in States :
           /\ a.next = s.next /\ a.ended = s.ended
           /\ a.known = (IF EndOf(p) > s.known THEN EndOf(p) ELSE s.known)
           /\ a.endOfSession = (s.endOfSession \/ p.count = kEndOfSession)
           /\ Advances(a, OnPacket(s, p))
<1> DEFINE a == Announce(s, p)  t == OnPacket(s, p)
<1>1. /\ Good(a) /\ Drained(a) /\ a.held = s.held /\ a.session = p.session
      /\ p.sequence + Messages(p) <= a.known
  BY AnnounceCorrect DEF Accepts
<1>2. t = IF Messages(p) = 0 THEN FinishIfEnded(a) ELSE Deliver(a, p)
  BY DEF OnPacket, Accepts
<1>3. /\ a.next = s.next /\ a.ended = s.ended
      /\ a.known = (IF EndOf(p) > s.known THEN EndOf(p) ELSE s.known)
      /\ a.endOfSession = (s.endOfSession \/ p.count = kEndOfSession)
  <2>1. s \in States
    BY DEF Good
  <2> QED BY <2>1 DEF Announce, States
<1> HIDE DEF a
<1>4. Advances(a, t)
  <2>1. CASE Messages(p) = 0
    BY <1>1, <1>2, <2>1, FinishAdvances
  <2>2. CASE Messages(p) # 0
    <3>1. Messages(p) = p.count /\ p.count \in Nat \ {0, kEndOfSession}
      BY <2>2 DEF Messages, PacketsOf
    <3>2. p.sequence + p.count <= MaxNumber
      <4> DEFINE q == p.sequence  c == p.count
      <4>1. q \in Nat /\ c \in Nat /\ q <= MaxNumber - c
        BY <3>1 DEF Decodes, PacketsOf
      <4> HIDE DEF q, c
      <4>2. q + c <= MaxNumber
        BY <4>1
      <4> QED BY <4>2 DEF q, c
    <3>3. p \in DataPackets
      BY <3>1, <3>2 DEF DataPackets
    <3> QED BY <1>1, <1>2, <2>2, <3>1, <3>3, DeliverAdvances
  <2> QED BY <2>1, <2>2
<1>5. a \in States
  BY <1>1 DEF Good
<1> QED BY <1>3, <1>4, <1>5

-----------------------------------------------------------------------------
(* Only a packet that finds no room to wait in makes onPacket() give up.     *)

LEMMA OnPacketKeepsLost ==
  ASSUME NEW s, Good(s), Drained(s), Len(s.held) <= MaxHeld,
         NEW p \in PacketsOf(Sessions), Decodes(p), Accepts(s, p),
         Messages(p) = 0 \/ Len(s.held) < MaxHeld \/ ~(p.sequence > s.next)
  PROVE  OnPacket(s, p).lost = s.lost
<1> DEFINE a == Announce(s, p)  t == OnPacket(s, p)
<1>1. /\ Good(a) /\ Drained(a) /\ a.held = s.held /\ a.session = p.session
      /\ p.sequence + Messages(p) <= a.known
  BY AnnounceCorrect DEF Accepts
<1>2. t = IF Messages(p) = 0 THEN FinishIfEnded(a) ELSE Deliver(a, p)
  BY DEF OnPacket, Accepts
<1>3. a.lost = s.lost /\ a.next = s.next
  <2>1. s \in States
    BY DEF Good
  <2> QED BY <2>1 DEF Announce, States
<1> HIDE DEF a
<1>4. CASE Messages(p) = 0
  <2>1. Moves(a, FinishIfEnded(a), {})
    BY <1>1, FinishCorrect
  <2> QED BY <1>2, <1>3, <1>4, <2>1 DEF Moves
<1>5. CASE Messages(p) # 0
  <2>1. /\ p \in DataPackets /\ p.sequence \in Nat
        /\ p.sequence + p.count <= a.known /\ Messages(p) = p.count
    <3>1. Messages(p) = p.count /\ p.count \in Nat \ {0, kEndOfSession}
      BY <1>5 DEF Messages, PacketsOf
    <3>2. p.sequence + p.count <= MaxNumber
      <4> DEFINE q == p.sequence  c == p.count
      <4>1. q \in Nat /\ c \in Nat /\ q <= MaxNumber - c
        BY <3>1 DEF PacketsOf, Decodes
      <4> HIDE DEF q, c
      <4>2. q + c <= MaxNumber
        BY <4>1
      <4> QED BY <4>2 DEF q, c
    <3>3. p \in DataPackets
      BY <3>1, <3>2 DEF DataPackets
    <3> QED BY <1>1, <3>1, <3>3, NumbersOfData
  <2> DEFINE beyond == p.sequence > a.next
             u == DeliverNew(a, p)
  <2>2. ~(beyond /\ Len(a.held) >= MaxHeld)
    <3> DEFINE l == Len(a.held)
    <3>1. l \in Nat /\ MaxHeld \in Nat /\ (l < MaxHeld \/ ~beyond)
      BY <1>1, <1>3, <1>5, StateFields DEF Good
    <3> HIDE DEF l, beyond
    <3>2. ~(beyond /\ l >= MaxHeld)
      BY <3>1
    <3> QED BY <3>2 DEF l
  <2>3. t = IF beyond THEN Hold(a, p) ELSE FinishIfEnded(DrainHeld(u))
    BY <1>2, <1>5, <2>2 DEF Deliver
  <2>4. CASE beyond
    <3>1. Moves(a, Hold(a, p), NumbersOf(p))
      BY <1>1, <2>1, <2>4, HoldCorrect
    <3>2. Hold(a, p).lost = a.lost
      BY <3>1 DEF Moves
    <3> HIDE DEF t
    <3> QED BY <1>3, <2>3, <2>4, <3>2 DEF t
  <2>5. CASE ~beyond
    <3>1. a \in States /\ p.sequence <= a.next
      <4> DEFINE q == p.sequence  n == a.next
      <4>1. a \in States /\ q \in Nat /\ n \in Nat /\ ~(q > n)
        BY <1>1, <2>1, <2>5, StateFields DEF Good
      <4> HIDE DEF q, n
      <4>2. q <= n
        BY <4>1
      <4> QED BY <4>1, <4>2 DEF q, n
    <3>2. u \in States /\ u.held = a.held /\ u.known = a.known
          /\ Moves(a, u, NumbersOf(p))
      BY <1>1, <2>1, <3>1, NumbersOfData, DeliverNewCorrect
    <3>3. Good(u)
      <4>1. /\ Sorted(u.held)
            /\ \A i \in 1..Len(u.held) :
                 /\ u.held[i].session = a.session
                 /\ u.held[i].sequence + u.held[i].count <= a.known
        BY <1>1, <3>2 DEF Good
      <4> HIDE DEF u
      <4> QED BY <1>1, <2>1, <3>2, <4>1, NumbersOfData, GoodAfter
    <3> HIDE DEF u
    <3>4. Moves(u, FinishIfEnded(DrainHeld(u)), {})
      BY <3>3, SettleCorrect
    <3>5. FinishIfEnded(DrainHeld(u)).lost = a.lost
      BY <3>2, <3>4 DEF Moves
    <3> HIDE DEF t
    <3> QED BY <1>3, <2>3, <2>5, <3>5 DEF t
  <2> QED BY <2>4, <2>5
<1> QED BY <1>4, <1>5

-----------------------------------------------------------------------------
(* The inductive invariant.                                                *)

\* Where every message that came in is, and what every number past is.
Accounted(s, numbers, messages) ==
  /\ s.lost + Len(s.delivered) = s.next - 1
  /\ messages = Len(s.delivered) + s.duplicates + MessagesIn(s.held)
  /\ \A i \in 1..Len(s.delivered) : s.delivered[i].number \in numbers
  /\ \A m \in Nat : m \in InHand(s) => m \in numbers
  /\ \A m \in numbers : m >= s.next => m \in InHand(s)

IInv ==
  /\ Good(sequencer) /\ Drained(sequencer) /\ Len(sequencer.held) <= MaxHeld
  /\ Accounted(sequencer, arrived, carried)
  /\ calls \in 0..MaxCalls
  /\ arrived \subseteq 0..MaxNumber /\ carried \in Nat

LEMMA AccountedStep ==
  ASSUME NEW s \in States, NEW t \in States, NEW numbers \in SUBSET Nat,
         NEW messages \in Nat, NEW new \in SUBSET Nat, NEW count \in Nat,
         Accounted(s, numbers, messages), Steps(s, t, new), Conserves(s, t, count)
  PROVE  Accounted(t, numbers \cup new, messages + count)
<1>1. PICK r \in States : Skips(s, r) /\ Moves(r, t, new)
  BY DEF Steps
<1> DEFINE a == s.next  b == r.next  c == t.next
           k == s.lost  l == Len(s.delivered)
<1>2. /\ a \in Nat /\ b \in Nat /\ c \in Nat /\ k \in Nat /\ l \in Nat
      /\ a <= b /\ b <= c
      /\ t.lost = k + (b - a) /\ Len(t.delivered) = l + (c - b)
      /\ k + l = a - 1
  BY <1>1, StateFields DEF Skips, Moves, Accounted
<1>3. /\ \A m \in Nat : m \in InHand(r) <=> m \in InHand(s)
      /\ \A m \in Nat : b <= m /\ m < c => m \in InHand(r) \/ m \in new
      /\ \A m \in Nat : m \in InHand(t) <=> m >= c /\ (m \in InHand(r) \/ m \in new)
      /\ \A i \in 1..l : t.delivered[i] = s.delivered[i]
      /\ \A i \in 1..(c - b) :
           t.delivered[l + i] = [session |-> r.session, number |-> b + i - 1]
  BY <1>1 DEF Skips, Moves
<1>4. /\ \A i \in 1..l : s.delivered[i].number \in numbers
      /\ \A m \in Nat : m \in InHand(s) => m \in numbers
      /\ \A m \in numbers : m >= a => m \in InHand(s)
  BY DEF Accounted
<1> HIDE DEF a, b, c, k, l
<1>5. t.lost + Len(t.delivered) = c - 1
  BY <1>2
<1>6. messages + count = Len(t.delivered) + t.duplicates + MessagesIn(t.held)
  BY DEF Accounted, Conserves
<1>7. ASSUME NEW i \in 1..Len(t.delivered)
      PROVE  t.delivered[i].number \in numbers \cup new
  <2>1. CASE i <= l
    <3>1. i \in 1..l
      BY <1>2, <2>1
    <3> QED BY <1>3, <1>4, <3>1
  <2>2. CASE ~(i <= l)
    <3> DEFINE j == i - l
    <3>1. j \in 1..(c - b) /\ l + j = i /\ b + j - 1 \in Nat /\ b <= b + j - 1 /\ b + j - 1 < c
      BY <1>2, <2>2
    <3> HIDE DEF j
    <3>2. t.delivered[i].number = b + j - 1
      <4>1. t.delivered[l + j] = [session |-> r.session, number |-> b + j - 1]
        BY <1>3, <3>1
      <4> QED BY <3>1, <4>1
    <3> DEFINE m == b + j - 1
    <3>3. m \in InHand(s) \/ m \in new
      <4>1. m \in Nat /\ b <= m /\ m < c
        BY <3>1
      <4> HIDE DEF m
      <4> QED BY <1>3, <4>1
    <3>4. m \in Nat
      BY <3>1
    <3> HIDE DEF m
    <3>5. m \in numbers \cup new
      BY <1>4, <3>3, <3>4
    <3> QED BY <3>2, <3>5 DEF m
  <2> QED BY <2>1, <2>2
<1>8. \A m \in Nat : m \in InHand(t) => m \in numbers \cup new
  BY <1>3, <1>4
<1>9. ASSUME NEW m \in numbers \cup new, m >= c PROVE m \in InHand(t)
  <2>1. m \in Nat /\ m >= a
    BY <1>2, <1>9
  <2> QED BY <1>3, <1>4, <1>9, <2>1
<1> QED BY <1>5, <1>6, <1>7, <1>8, <1>9 DEF Accounted, c

LEMMA InitIInv == Init => IInv
<1> SUFFICES ASSUME Init PROVE IInv
  OBVIOUS
<1> DEFINE s == InitialSequencer
<1>1. /\ s.next = 1 /\ s.known = 0 /\ s.held = <<>> /\ s.session = NoSession
      /\ s.duplicates = 0 /\ s.lost = 0 /\ s.delivered = <<>>
  BY DEF InitialSequencer
<1>2. <<>> \in Seq(DataPackets) /\ <<>> \in Seq(Delivered) /\ Len(<<>>) = 0
  OBVIOUS
<1>3. 1 \in 1..MaxNumber /\ 0 \in 0..MaxNumber
  OBVIOUS
<1>4. s \in States
  BY <1>2, <1>3 DEF InitialSequencer, States
<1>5. MessagesIn(<<>>) = 0
  BY <1>2, CountsUpToAre DEF MessagesIn
<1>6. Good(s) /\ Drained(s)
  <2> HIDE DEF s
  <2> QED BY <1>1, <1>2, <1>4 DEF Good, Drained, Sorted
<1>7. \A m \in Nat : m \notin InHand(s)
  <2> HIDE DEF s
  <2> QED BY <1>1, <1>2 DEF InHand
<1> HIDE DEF s
<1>8. Accounted(s, {}, 0)
  BY <1>1, <1>2, <1>5, <1>7 DEF Accounted
<1>9. sequencer = s /\ calls = 0 /\ arrived = {} /\ carried = 0
  BY DEF Init, s
<1>10. Len(s.held) <= MaxHeld
  BY <1>1, <1>2
<1> QED BY <1>6, <1>8, <1>9, <1>10 DEF IInv

\* What a call does to the sequencer, with the numbers and messages it brings.
Calls(new, count) ==
  /\ Good(sequencer') /\ Drained(sequencer') /\ Len(sequencer'.held) <= MaxHeld
  /\ Conserves(sequencer, sequencer', count)
  /\ Steps(sequencer, sequencer', new)
  /\ arrived' = arrived \cup new /\ carried' = carried + count
  /\ calls' \in 0..MaxCalls

LEMMA ReceiveCalls ==
  ASSUME IInv, NEW p \in PacketsOf(Sessions), Decodes(p), Receive(p)
  PROVE  \E new \in {NumbersOf(p), {}} : \E count \in {Messages(p), 0} : Calls(new, count)
<1>1. /\ Good(sequencer) /\ Drained(sequencer) /\ Len(sequencer.held) <= MaxHeld
      /\ calls \in 0..MaxCalls /\ carried \in Nat
  BY DEF IInv
<1>2. sequencer' = OnPacket(sequencer, p)
  BY DEF Receive
<1>3. /\ Good(sequencer') /\ Drained(sequencer') /\ Len(sequencer'.held) <= MaxHeld
      /\ Accepts(sequencer, p) =>
           /\ Conserves(sequencer, sequencer', Messages(p))
           /\ Steps(sequencer, sequencer', NumbersOf(p))
      /\ ~Accepts(sequencer, p) =>
           Conserves(sequencer, sequencer', 0) /\ Steps(sequencer, sequencer', {})
  BY <1>1, <1>2, OnPacketCorrect
<1>4. calls' \in 0..MaxCalls
  BY <1>1 DEF Receive
<1>5. CASE Accepts(sequencer, p)
  <2>1. arrived' = arrived \cup NumbersOf(p) /\ carried' = carried + Messages(p)
    BY <1>5 DEF Receive, Accepts
  <2>2. Calls(NumbersOf(p), Messages(p))
    BY <1>3, <1>4, <1>5, <2>1 DEF Calls
  <2> QED BY <2>2
<1>6. CASE ~Accepts(sequencer, p)
  <2>1. arrived' = arrived /\ carried' = carried
    BY <1>6 DEF Receive, Accepts
  <2>2. arrived' = arrived \cup {} /\ carried' = carried + 0
    BY <1>1, <2>1
  <2>3. Calls({}, 0)
    BY <1>3, <1>4, <1>6, <2>2 DEF Calls
  <2> QED BY <2>3
<1> QED BY <1>5, <1>6

LEMMA GiveUpCalls ==
  ASSUME IInv, GiveUp
  PROVE  Calls({}, 0)
<1>1. /\ Good(sequencer) /\ Drained(sequencer) /\ Len(sequencer.held) <= MaxHeld
      /\ calls \in 0..MaxCalls /\ carried \in Nat
  BY DEF IInv
<1>2. sequencer' = GiveUpGap(sequencer)
  BY DEF GiveUp
<1>3. /\ Good(sequencer') /\ Drained(sequencer')
      /\ Conserves(sequencer, sequencer', 0)
      /\ Len(sequencer'.held) <= Len(sequencer.held)
      /\ \E r \in States : Skips(sequencer, r) /\ Moves(r, sequencer', {})
  BY <1>1, <1>2, GiveUpGapCorrect
<1>4. Len(sequencer'.held) <= MaxHeld
  <2> DEFINE l == Len(sequencer.held)  m == Len(sequencer'.held)
  <2>1. l \in Nat /\ m \in Nat /\ m <= l /\ l <= MaxHeld
    BY <1>1, <1>3, StateFields DEF Good
  <2> HIDE DEF l, m
  <2>2. m <= MaxHeld
    BY <2>1
  <2> QED BY <2>2 DEF m
<1>5. calls' \in 0..MaxCalls
  BY <1>1 DEF GiveUp
<1>6. arrived' = arrived \cup {} /\ carried' = carried + 0
  BY <1>1 DEF GiveUp
<1> QED BY <1>3, <1>4, <1>5, <1>6 DEF Calls, Steps

\* What a packet brings.
LEMMA NumbersOfIs ==
  ASSUME NEW p \in PacketsOf(Sessions), Decodes(p)
  PROVE  /\ Messages(p) \in Nat
         /\ \E q \in Nat, c \in Nat : q + c <= MaxNumber /\ NumbersOf(p) = q..(q + c - 1)
<1> DEFINE q == p.sequence  c == Messages(p)
<1>1. q \in Nat /\ c \in Nat /\ q <= MaxNumber - c /\ NumbersOf(p) = q..(q + c - 1)
  BY DEF PacketsOf, Messages, Decodes, NumbersOf
<1> HIDE DEF q, c
<1>2. q + c <= MaxNumber
  BY <1>1
<1>3. c \in Nat
  BY <1>1
<1>4. \E x \in Nat, y \in Nat : x + y <= MaxNumber /\ NumbersOf(p) = x..(x + y - 1)
  BY <1>1, <1>2
<1> QED BY <1>3, <1>4 DEF c

LEMMA CallsKeepIInv ==
  ASSUME IInv, NEW new \in SUBSET (0..MaxNumber), NEW count \in Nat, Calls(new, count)
  PROVE  IInv'
<1>1. /\ sequencer \in States /\ sequencer' \in States
      /\ arrived \in SUBSET Nat /\ new \in SUBSET Nat /\ carried \in Nat
  BY DEF IInv, Calls, Good
<1>2. Accounted(sequencer', arrived \cup new, carried + count)
  BY <1>1, AccountedStep DEF IInv, Calls
<1>3. /\ arrived' \subseteq 0..MaxNumber /\ carried' \in Nat
      /\ Accounted(sequencer', arrived', carried')
  BY <1>1, <1>2 DEF Calls, IInv
<1> QED BY <1>3 DEF IInv, Calls

LEMMA NextIInv == IInv /\ [Next]_vars => IInv'
<1> SUFFICES ASSUME IInv, [Next]_vars PROVE IInv'
  OBVIOUS
<1>1. ASSUME NEW p \in PacketsOf(Sessions), Decodes(p), Receive(p) PROVE IInv'
  <2>1. Messages(p) \in Nat /\ NumbersOf(p) \subseteq 0..MaxNumber
    <3>1. PICK q \in Nat, c \in Nat : q + c <= MaxNumber /\ NumbersOf(p) = q..(q + c - 1)
      BY <1>1, NumbersOfIs
    <3>2. q..(q + c - 1) \subseteq 0..MaxNumber
      BY <3>1
    <3> QED BY <1>1, <3>1, <3>2, NumbersOfIs
  <2>2. PICK new \in {NumbersOf(p), {}} : \E count \in {Messages(p), 0} : Calls(new, count)
    BY <1>1, ReceiveCalls
  <2>3. PICK count \in {Messages(p), 0} : Calls(new, count)
    BY <2>2
  <2>4. new \in SUBSET (0..MaxNumber) /\ count \in Nat
    BY <2>1
  <2> QED BY <2>3, <2>4, CallsKeepIInv
<1>2. ASSUME GiveUp PROVE IInv'
  <2>1. Calls({}, 0)
    BY <1>2, GiveUpCalls
  <2>2. {} \in SUBSET (0..MaxNumber) /\ 0 \in Nat
    OBVIOUS
  <2> QED BY <2>1, <2>2, CallsKeepIInv
<1>3. ASSUME UNCHANGED vars PROVE IInv'
  BY <1>3 DEF vars, IInv
<1>4. CASE Stopped
  BY <1>3, <1>4 DEF Stopped
<1> QED BY <1>1, <1>2, <1>3, <1>4 DEF Next

\* The inductive invariant holds: between calls of onPacket() and giveUpGap()
\* nothing that could be delivered is held, no more than MaxHeld packets are
\* held, and every number and message that came is accounted for.
THEOREM AlwaysIInv == Spec => []IInv
<1> QED BY InitIInv, NextIInv, PTL DEF Spec

-----------------------------------------------------------------------------
(* What the invariant says in the words of the properties.                 *)

\* Type correctness: the Sequencer's fields, and what its caller counted.
THEOREM TypeCorrect == Spec => []TypeOK
<1>1. IInv => TypeOK
  <2> SUFFICES ASSUME IInv PROVE TypeOK
    OBVIOUS
  <2>1. sequencer \in States
    BY DEF IInv, Good
  <2>2. \A packets \in Seq(DataPackets) : packets \in Seq(PacketsOf(Sessions))
    BY DEF DataPackets
  <2>3. \A run \in Seq(Delivered) : run \in Seq([session : Sessions, number : 0..MaxNumber])
    <3> DEFINE SessionMessages == [session : Sessions, number : 0..MaxNumber]
    <3>1. Delivered \subseteq SessionMessages
      BY DEF Delivered
    <3> HIDE DEF SessionMessages
    <3>2. \A run \in Seq(Delivered) : run \in Seq(SessionMessages)
      BY <3>1
    <3> QED BY <3>2 DEF SessionMessages
  <2>4. sequencer.next \in 0..MaxNumber
    <3>1. sequencer.next \in 1..MaxNumber
      BY <2>1, StateFields
    <3> QED BY <3>1
  <2>5. /\ sequencer.known \in 0..MaxNumber
        /\ sequencer.held \in Seq(DataPackets)
        /\ sequencer.delivered \in Seq(Delivered)
    BY <2>1, StateFields
  <2>6. /\ sequencer.held \in Seq(PacketsOf(Sessions))
        /\ sequencer.delivered \in Seq([session : Sessions, number : 0..MaxNumber])
    BY <2>2, <2>3, <2>5
  <2> QED BY <2>1, <2>4, <2>6 DEF TypeOK, States, IInv
<1> QED BY <1>1, AlwaysIInv, PTL

\* No message that came in disappears, whatever MaxHeld and the calls are: each
\* was delivered, counted as a duplicate, or is held.
THEOREM NeverVanishes == Spec => []NothingVanishes
<1>1. IInv => NothingVanishes
  BY DEF IInv, Accounted, NothingVanishes
<1> QED BY <1>1, AlwaysIInv, PTL

\* The held packets are sorted, at most MaxHeld, and begin beyond a gap that is
\* open: giveUpGap() always moves on.
THEOREM AlwaysHeldBeyondGap == Spec => []HeldBeyondGap
<1>1. IInv => HeldBeyondGap
  <2> SUFFICES ASSUME IInv PROVE HeldBeyondGap
    OBVIOUS
  <2> DEFINE s == sequencer  packets == s.held
  <2>1. /\ s \in States /\ Sorted(packets) /\ packets \in Seq(DataPackets)
        /\ Len(packets) <= MaxHeld
    BY StateFields DEF IInv, Good
  <2>2. DOMAIN packets = 1..Len(packets)
    BY <2>1
  <2>3. \A i, j \in DOMAIN packets : i < j => packets[i].sequence <= packets[j].sequence
    BY <2>1, <2>2 DEF Sorted
  <2>4. ASSUME packets # <<>>
        PROVE  Head(packets).sequence > s.next /\ GapOpen(s)
    <3>1. Head(packets) = packets[1] /\ packets[1] \in DataPackets /\ 1 \in 1..Len(packets)
      BY <2>1, <2>4, TailIs
    <3> DEFINE q == packets[1].sequence  c == packets[1].count  a == s.next  k == s.known
    <3>2. q \in Nat /\ c \in Nat \ {0} /\ a \in Nat /\ k \in Nat
      BY <2>1, <3>1, NumbersOfData, StateFields
    <3>3. q > a
      BY <2>4, <3>1 DEF IInv, Drained
    <3>4. q + c <= k
      BY <3>1 DEF IInv, Good
    <3> HIDE DEF q, c, a, k
    <3>5. k > a
      BY <3>2, <3>3, <3>4
    <3> QED BY <3>1, <3>3, <3>5 DEF GapOpen, q, a, k
  <2> QED BY <2>1, <2>3, <2>4 DEF HeldBeyondGap
<1> QED BY <1>1, AlwaysIInv, PTL

\* The numbers of what s has delivered, and those it is past without.
NumbersIn(s) == [i \in DOMAIN s.delivered |-> s.delivered[i].number]
SkippedIn(s) == (FirstSequence..(s.next - 1)) \ Range(NumbersIn(s))

LEMMA NumbersInAre ==
  ASSUME NEW s, Good(s)
  PROVE  /\ DOMAIN NumbersIn(s) = 1..Len(s.delivered)
         /\ \A i \in 1..Len(s.delivered) : NumbersIn(s)[i] = s.delivered[i].number
         /\ \A i \in 1..Len(s.delivered) : NumbersIn(s)[i] \in 1..(s.next - 1)
         /\ \A i, j \in 1..Len(s.delivered) : i < j => NumbersIn(s)[i] < NumbersIn(s)[j]
         /\ \A m : m \in Range(NumbersIn(s)) <=>
              \E i \in 1..Len(s.delivered) : m = s.delivered[i].number
<1> DEFINE l == Len(s.delivered)  numbers == NumbersIn(s)  a == s.next
<1>1. s \in States /\ s.delivered \in Seq(Delivered) /\ l \in Nat /\ a \in Nat
  BY StateFields DEF Good
<1>2. DOMAIN s.delivered = 1..l /\ \A i \in 1..l : s.delivered[i] \in Delivered
  BY <1>1, ElementIs
<1>3. DOMAIN numbers = 1..l /\ \A i \in 1..l : numbers[i] = s.delivered[i].number
  BY <1>2 DEF NumbersIn
<1>4. \A i \in 1..l : s.delivered[i].number \in 1..MaxNumber
  BY <1>2 DEF Delivered
<1>5. \A i \in 1..l : s.delivered[i].number < a
  BY DEF Good
<1>6. \A i, j \in 1..l : i < j => s.delivered[i].number < s.delivered[j].number
  BY DEF Good
<1> HIDE DEF l, numbers, a
<1>7. ASSUME NEW i \in 1..l PROVE numbers[i] \in 1..(a - 1)
  <2>1. numbers[i] \in 1..MaxNumber /\ numbers[i] < a
    BY <1>3, <1>4, <1>5
  <2> QED BY <1>1, <2>1
<1>8. \A i, j \in 1..l : i < j => numbers[i] < numbers[j]
  BY <1>3, <1>6
<1>9. \A m : m \in Range(numbers) <=> \E i \in 1..l : m = s.delivered[i].number
  BY <1>3 DEF Range
<1> QED BY <1>3, <1>7, <1>8, <1>9 DEF l, numbers, a

\* Each message exactly once and in order, from one session, for every packet
\* sequence, MaxHeld and giving up.
THEOREM AlwaysExactlyOnceInOrder == Spec => []ExactlyOnceInOrder
<1>1. IInv => ExactlyOnceInOrder
  <2> SUFFICES ASSUME IInv PROVE ExactlyOnceInOrder
    OBVIOUS
  <2> DEFINE s == sequencer  l == Len(s.delivered)
  <2>1. Good(s) /\ s.delivered \in Seq(Delivered)
    BY StateFields DEF IInv, Good
  <2>2. /\ DOMAIN NumbersIn(s) = 1..l
        /\ \A i, j \in 1..l : i < j => NumbersIn(s)[i] < NumbersIn(s)[j]
        /\ \A m : m \in Range(NumbersIn(s)) <=> \E i \in 1..l : m = s.delivered[i].number
    BY <2>1, NumbersInAre
  <2>3. NumbersDelivered = NumbersIn(s)
    BY DEF NumbersDelivered, NumbersIn
  <2>4. \A i \in 1..l : s.delivered[i].number \in arrived
    BY DEF IInv, Accounted
  <2>5. Range(NumbersIn(s)) \subseteq arrived
    BY <2>2, <2>4
  <2>6. \A m \in Range(s.delivered) : m.session = s.session
    <3>1. DOMAIN s.delivered = 1..l
      BY <2>1
    <3>2. \A i \in 1..l : s.delivered[i].session = s.session
      BY <2>1 DEF Good
    <3> QED BY <3>1, <3>2 DEF Range
  <2> QED BY <2>2, <2>3, <2>5, <2>6 DEF ExactlyOnceInOrder
<1> QED BY <1>1, AlwaysIInv, PTL

\* Stats::lost is exactly the number of messages missing below nextExpected().
THEOREM AlwaysLostIsWhatIsMissing == Spec => []LostIsWhatIsMissing
<1>1. IInv => LostIsWhatIsMissing
  <2> SUFFICES ASSUME IInv PROVE LostIsWhatIsMissing
    OBVIOUS
  <2> DEFINE s == sequencer  l == Len(s.delivered)  a == s.next
             numbers == NumbersIn(s)
             given == Range(numbers)
             past == 1..(a - 1)
  <2>1. Good(s) /\ s \in States /\ l \in Nat /\ a \in Nat \ {0} /\ s.lost \in Nat
    BY StateFields DEF IInv, Good
  <2>2. /\ DOMAIN numbers = 1..l
        /\ \A i \in 1..l : numbers[i] \in past
        /\ \A i, j \in 1..l : i < j => numbers[i] < numbers[j]
    BY <2>1, NumbersInAre
  <2>3. numbers = [i \in 1..l |-> numbers[i]]
    BY <2>2 DEF NumbersIn
  <2>4. s.lost + l = a - 1
    BY DEF IInv, Accounted
  <2>5. Skipped = past \ given
    BY DEF Skipped, NumbersDelivered, NumbersIn
  <2> HIDE DEF numbers, l, a
  <2>6. numbers \in Bijection(1..l, given)
    <3>1. given = {numbers[i] : i \in 1..l}
      BY <2>2 DEF Range
    <3>2. \A i, j \in 1..l : numbers[i] = numbers[j] => i = j
      <4>1. \A i \in 1..l : numbers[i] \in Nat
        BY <2>1, <2>2
      <4>2. ASSUME NEW i \in 1..l, NEW j \in 1..l, numbers[i] = numbers[j] PROVE i = j
        <5>1. ~(i < j) /\ ~(j < i)
          BY <2>2, <4>1, <4>2
        <5> QED BY <2>1, <5>1
      <4> QED BY <4>2
    <3>3. numbers \in [1..l -> given]
      BY <2>3, <3>1
    <3> QED BY <2>2, <3>1, <3>2, <3>3 DEF Bijection, Injection, Surjection, IsInjective
  <2>7. IsFiniteSet(1..l) /\ Cardinality(1..l) = l
    BY <2>1, FS_Interval
  <2>8. IsFiniteSet(given) /\ Cardinality(given) = l
    BY <2>6, <2>7, FS_Bijection DEF ExistsBijection
  <2>9. IsFiniteSet(past) /\ Cardinality(past) = a - 1
    BY <2>1, FS_Interval
  <2>10. past \cap given = given
    BY <2>2 DEF Range
  <2> HIDE DEF past, given
  <2>11. Cardinality(past \ given) = (a - 1) - l
    BY <2>8, <2>9, <2>10, FS_Difference
  <2> DEFINE k == s.lost
  <2>12. k = (a - 1) - l
    <3>1. k \in Nat /\ k + l = a - 1
      BY <2>1, <2>4
    <3> HIDE DEF k
    <3> QED BY <2>1, <3>1
  <2> QED BY <2>5, <2>11, <2>12 DEF LostIsWhatIsMissing
<1> QED BY <1>1, AlwaysIInv, PTL

\* What a call does to the numbers delivered and skipped, and to those in hand:
\* the gap up to number b is given up.
StepsBy(s, t, new, b) ==
  /\ s.next <= b /\ b <= t.next
  /\ \A m \in InHand(s) : m >= b
  /\ \A m \in Nat : b <= m /\ m < t.next => m \in InHand(s) \/ m \in new
  /\ \A m \in Nat : m \in InHand(t) <=> m >= t.next /\ (m \in InHand(s) \/ m \in new)
  /\ t.next \notin InHand(s) /\ t.next \notin new
  /\ NumbersIn(t) = NumbersIn(s) \o [i \in 1..(t.next - b) |-> b + i - 1]
  /\ \A m : m \in Range(NumbersIn(t)) <=>
       m \in Range(NumbersIn(s)) \/ m \in b..(t.next - 1)
  /\ SkippedIn(t) = SkippedIn(s) \cup s.next..(b - 1)

LEMMA StepsAre ==
  ASSUME NEW s, Good(s), NEW t, Good(t), Drained(t), NEW new \in SUBSET Nat,
         Steps(s, t, new)
  PROVE  \E b \in 1..MaxNumber : StepsBy(s, t, new, b)
<1>1. PICK r \in States : Skips(s, r) /\ Moves(r, t, new)
  BY DEF Steps
<1> DEFINE a == s.next  b == r.next  c == t.next
           l == Len(s.delivered)  n == Len(t.delivered)
           old == NumbersIn(s)  numbers == NumbersIn(t)
           run == [i \in 1..(c - b) |-> b + i - 1]
<1>2. s \in States /\ t \in States
  BY DEF Good
<1>3. /\ a \in 1..MaxNumber /\ b \in 1..MaxNumber /\ c \in 1..MaxNumber
      /\ l \in Nat /\ a <= b /\ b <= c /\ n = l + (c - b)
  BY <1>1, <1>2, StateFields DEF Skips, Moves
<1>4. /\ \A m \in Nat : m \in InHand(r) <=> m \in InHand(s)
      /\ \A m \in Nat : m \in InHand(s) => m >= b
      /\ \A m \in Nat : b <= m /\ m < c => m \in InHand(r) \/ m \in new
      /\ \A m \in Nat : m \in InHand(t) <=> m >= c /\ (m \in InHand(r) \/ m \in new)
      /\ \A i \in 1..l : t.delivered[i] = s.delivered[i]
      /\ \A i \in 1..(c - b) :
           t.delivered[l + i] = [session |-> r.session, number |-> b + i - 1]
  BY <1>1 DEF Skips, Moves
<1>5. InHand(s) \subseteq Nat
  BY DEF InHand
<1>6. c \notin InHand(t)
  <2>1. ASSUME c \in Nat, c \in InHand(t) PROVE FALSE
    <3>1. t.held # <<>> /\ c >= Head(t.held).sequence
      BY <1>2, <2>1, InHandBeyondHead DEF Good
    <3>2. Head(t.held) \in DataPackets
      BY <1>2, <3>1, TailIs, StateFields
    <3> DEFINE q == Head(t.held).sequence
    <3>3. q > c /\ c >= q /\ q \in Nat
      BY <3>1, <3>2, NumbersOfData DEF Drained
    <3> HIDE DEF q, c
    <3> QED BY <2>1, <3>3
  <2> QED BY <1>3, <2>1
<1>7. /\ DOMAIN old = 1..l /\ \A i \in 1..l : old[i] = s.delivered[i].number
      /\ \A i \in 1..l : old[i] \in 1..(a - 1)
      /\ DOMAIN numbers = 1..n /\ \A i \in 1..n : numbers[i] = t.delivered[i].number
  BY NumbersInAre
<1>8. numbers = [i \in 1..n |-> numbers[i]] /\ old = [i \in 1..l |-> old[i]]
  BY <1>7 DEF NumbersIn
<1> HIDE DEF a, b, c, l, n, old, numbers
<1>9. c \notin InHand(s) /\ c \notin new
  <2>1. c \in Nat /\ c >= c
    BY <1>3
  <2> QED BY <1>4, <1>6, <2>1
<1>10. \A m \in Nat : m \in InHand(t) <=> m >= c /\ (m \in InHand(s) \/ m \in new)
  BY <1>4
<1>11. \A m \in Nat : b <= m /\ m < c => m \in InHand(s) \/ m \in new
  BY <1>4
<1>12. /\ \A i \in 1..l : i \in 1..n /\ numbers[i] = old[i]
       /\ \A i \in 1..(c - b) : l + i \in 1..n /\ numbers[l + i] = b + i - 1
       /\ \A i \in 1..n : i \in 1..l \/ \E j \in 1..(c - b) : i = l + j
  <2>1. \A i \in 1..l : i \in 1..n
    BY <1>3
  <2>2. \A i \in 1..(c - b) : l + i \in 1..n
    BY <1>3
  <2>3. \A i \in 1..l : numbers[i] = old[i]
    BY <1>4, <1>7, <2>1
  <2>4. ASSUME NEW i \in 1..(c - b) PROVE numbers[l + i] = b + i - 1
    <3>1. numbers[l + i] = t.delivered[l + i].number
      BY <1>7, <2>2
    <3>2. t.delivered[l + i] = [session |-> r.session, number |-> b + i - 1]
      BY <1>4
    <3> QED BY <3>1, <3>2
  <2>5. ASSUME NEW i \in 1..n, i \notin 1..l PROVE \E j \in 1..(c - b) : i = l + j
    <3>1. i - l \in 1..(c - b) /\ i = l + (i - l)
      BY <1>3, <2>5
    <3> QED BY <3>1
  <2> QED BY <2>1, <2>2, <2>3, <2>4, <2>5
<1>13. /\ run \in Seq(Nat) /\ Len(run) = c - b
       /\ \A i \in 1..(c - b) : run[i] = b + i - 1
  <2>1. c - b \in Nat
    BY <1>3
  <2>2. run \in [1..(c - b) -> Nat]
    BY <1>3
  <2>3. run \in Seq(Nat) /\ Len(run) = c - b
    <3> HIDE DEF run
    <3> QED BY <2>1, <2>2, FunctionIsSequence
  <2> QED BY <2>3
<1> HIDE DEF run
<1>14. /\ old \in Seq(Nat) /\ Len(old) = l
       /\ numbers \in Seq(Nat) /\ Len(numbers) = n
  <2>1. \A i \in 1..l : old[i] \in Nat
    BY <1>3, <1>7
  <2>2. \A i \in 1..n : numbers[i] \in Nat
    <3>1. \A j \in 1..(c - b) : b + j - 1 \in Nat
      BY <1>3
    <3> QED BY <1>12, <2>1, <3>1
  <2>3. old \in [1..l -> Nat] /\ numbers \in [1..n -> Nat]
    BY <1>8, <2>1, <2>2
  <2>4. n \in Nat
    BY <1>3
  <2> QED BY <1>3, <2>3, <2>4, FunctionIsSequence
<1>15. numbers = old \o run
  <2>1. old \o run \in Seq(Nat) /\ Len(old \o run) = n
    BY <1>3, <1>13, <1>14
  <2>2. /\ \A i \in 1..l : (old \o run)[i] = old[i]
        /\ \A i \in 1..(c - b) : (old \o run)[l + i] = run[i]
    <3>1. old \in Seq(Nat) /\ run \in Seq(Nat) /\ Len(old) = l /\ Len(run) = c - b
      BY <1>13, <1>14
    <3>2. \A i \in 1..Len(old) : (old \o run)[i] = old[i]
      BY <3>1
    <3>3. \A i \in 1..Len(run) : (old \o run)[Len(old) + i] = run[i]
      BY <3>1
    <3> QED BY <3>1, <3>2, <3>3
  <2> DEFINE both == old \o run
  <2> HIDE DEF both
  <2>a. /\ \A i \in 1..l : both[i] = old[i]
        /\ \A i \in 1..(c - b) : both[l + i] = b + i - 1
    BY <1>13, <2>2 DEF both
  <2>3. \A i \in 1..n : numbers[i] = both[i]
    <3>1. \A i \in 1..l : numbers[i] = both[i]
      BY <1>12, <2>a
    <3>2. \A i \in 1..(c - b) : numbers[l + i] = both[l + i]
      BY <1>12, <2>a
    <3> QED BY <1>12, <3>1, <3>2
  <2>4. n \in Int /\ both \in Seq(Nat) /\ Len(both) = n
    BY <1>3, <2>1 DEF both
  <2>5. numbers = both
    BY <1>14, <2>3, <2>4, SameSequence
  <2> QED BY <2>5 DEF both
<1>16. \A m : m \in Range(numbers) <=> m \in Range(old) \/ m \in b..(c - 1)
  <2>1. \A m : m \in Range(numbers) <=> \E i \in 1..n : m = numbers[i]
    BY <1>7 DEF Range
  <2>2. \A m : m \in Range(old) <=> \E i \in 1..l : m = old[i]
    BY <1>7 DEF Range
  <2>3. ASSUME NEW m, m \in b..(c - 1) PROVE \E i \in 1..n : m = numbers[i]
    <3>1. m - b + 1 \in 1..(c - b) /\ b + (m - b + 1) - 1 = m
      BY <1>3, <2>3
    <3>2. l + (m - b + 1) \in 1..n /\ numbers[l + (m - b + 1)] = m
      BY <1>12, <3>1
    <3> QED BY <3>2
  <2>4. \A j \in 1..(c - b) : b + j - 1 \in b..(c - 1)
    BY <1>3
  <2> QED BY <1>12, <2>1, <2>2, <2>3, <2>4
<1>17. \A m \in Range(old) : m \in 1..(a - 1)
  BY <1>7 DEF Range
<1>18. (1..(c - 1)) \ Range(numbers) = ((1..(a - 1)) \ Range(old)) \cup a..(b - 1)
  <2>1. \A m : m \in 1..(c - 1) /\ m \notin b..(c - 1) <=> m \in 1..(b - 1)
    BY <1>3
  <2>2. \A m : m \in 1..(b - 1) <=> m \in 1..(a - 1) \/ m \in a..(b - 1)
    BY <1>3
  <2>3. \A m : m \in a..(b - 1) => m \notin 1..(a - 1)
    BY <1>3
  <2>4. \A m : m \in (1..(c - 1)) \ Range(numbers) <=> m \in 1..(b - 1) /\ m \notin Range(old)
    BY <1>16, <2>1
  <2>5. \A m : m \in a..(b - 1) => m \notin Range(old)
    BY <1>17, <2>3
  <2> QED BY <2>2, <2>4, <2>5
<1>19. SkippedIn(t) = SkippedIn(s) \cup a..(b - 1)
  BY <1>18 DEF SkippedIn, a, c, old, numbers
<1>20. \A m \in InHand(s) : m >= b
  BY <1>4, <1>5
<1>21. StepsBy(s, t, new, b)
  BY <1>3, <1>9, <1>10, <1>11, <1>15, <1>16, <1>19, <1>20 DEF StepsBy, a, c, old, numbers, run
<1> QED BY <1>3, <1>21

\* Giving up a gap loses only messages that never came.
THEOREM AlwaysGiveUpLosesOnlyMissing == Spec => GiveUpLosesOnlyMissing
<1>1. IInv /\ IInv' /\ [Next]_vars => [GiveUp => (Skipped' \ Skipped) \cap arrived = {}]_vars
  <2> SUFFICES ASSUME IInv, IInv', GiveUp
               PROVE  (Skipped' \ Skipped) \cap arrived = {}
    OBVIOUS
  <2>1. Calls({}, 0)
    BY GiveUpCalls
  <2>2. /\ Good(sequencer) /\ Good(sequencer') /\ Drained(sequencer')
        /\ Steps(sequencer, sequencer', {})
    BY <2>1 DEF IInv, Calls
  <2>s. PICK b \in 1..MaxNumber : StepsBy(sequencer, sequencer', {}, b)
    <3>1. {} \in SUBSET Nat
      OBVIOUS
    <3> QED BY <2>2, <3>1, StepsAre
  <2>3. /\ \A m \in InHand(sequencer) : m >= b
        /\ SkippedIn(sequencer') = SkippedIn(sequencer) \cup sequencer.next..(b - 1)
    BY <2>s DEF StepsBy
  <2>4. Skipped = SkippedIn(sequencer) /\ Skipped' = SkippedIn(sequencer')
    BY DEF Skipped, SkippedIn, NumbersDelivered, NumbersIn
  <2>5. ASSUME NEW m \in arrived, m \in Skipped', m \notin Skipped PROVE FALSE
    <3> DEFINE a == sequencer.next
    <3>1. m \in a..(b - 1) /\ a \in Nat
      BY <2>2, <2>3, <2>4, <2>5, StateFields DEF Good
    <3>2. m >= a /\ ~(m >= b) /\ m \in Nat
      <4> HIDE DEF a
      <4> QED BY <3>1
    <3>3. m \in InHand(sequencer)
      BY <2>5, <3>2 DEF IInv, Accounted
    <3> QED BY <2>3, <3>2, <3>3
  <2> QED BY <2>5
<1> QED BY <1>1, AlwaysIInv, NextIInv, PTL DEF Spec, GiveUpLosesOnlyMissing

-----------------------------------------------------------------------------
(* The Sequencer implements in-order delivery.                             *)

LEMMA HeldIsInHand ==
  ASSUME NEW s, Good(s), Drained(s)
  PROVE  UNION {NumbersOf(p) : p \in Range(s.held)} = InHand(s)
<1> DEFINE packets == s.held  n == Len(packets)  a == s.next
<1>1. /\ s \in States /\ packets \in Seq(DataPackets) /\ n \in Nat /\ a \in Nat
      /\ Sorted(packets)
  BY StateFields DEF Good
<1>2. DOMAIN packets = 1..n /\ \A i \in 1..n : packets[i] \in DataPackets
  BY <1>1, ElementIs
<1>3. ASSUME NEW i \in 1..n, NEW m \in NumbersOf(packets[i])
      PROVE  m \in Nat /\ m >= a
  <2>1. packets # <<>> /\ Head(packets) = packets[1] /\ 1 \in 1..n
    BY <1>1, <1>3
  <2> DEFINE q == packets[1].sequence  r == packets[i].sequence  c == packets[i].count
  <2>2. q \in Nat /\ r \in Nat /\ c \in Nat /\ m \in r..(r + c - 1)
    <3>1. packets[1] \in DataPackets /\ packets[i] \in DataPackets
      BY <1>2, <1>3, <2>1
    <3>2. q \in Nat /\ r \in Nat /\ c \in Nat
      BY <3>1, NumbersOfData
    <3>3. NumbersOf(packets[i]) = r..(r + c - 1)
      BY <3>1, NumbersOfData
    <3> QED BY <1>3, <3>2, <3>3
  <2>3. q > a
    BY <2>1 DEF Drained
  <2>4. 1 < i => q <= r
    BY <1>1, <2>1 DEF Sorted
  <2>5. i = 1 \/ 1 < i
    BY <1>1
  <2>6. i = 1 => q = r
    OBVIOUS
  <2> HIDE DEF q, r, c, a
  <2> QED BY <1>1, <2>2, <2>3, <2>4, <2>5, <2>6
<1> HIDE DEF a
<1>4. \A m : m \in UNION {NumbersOf(p) : p \in Range(packets)} <=>
               \E i \in 1..n : m \in NumbersOf(packets[i])
  BY <1>2 DEF Range
<1>5. \A m : m \in InHand(s) <=>
               m \in Nat /\ m >= a /\ \E i \in 1..n : m \in NumbersOf(packets[i])
  BY DEF InHand, a
<1> HIDE DEF packets, n
<1>6. \A m : m \in UNION {NumbersOf(p) : p \in Range(packets)} <=> m \in InHand(s)
  BY <1>3, <1>4, <1>5
<1> QED BY <1>6 DEF packets

LEMMA InitDelivery == Init => Delivery!Init
<1> SUFFICES ASSUME Init PROVE Delivery!Init
  OBVIOUS
<1>1. sequencer.next = 1 /\ sequencer.held = <<>> /\ sequencer.delivered = <<>>
  BY DEF Init, InitialSequencer
<1>2. NumbersDelivered = <<>>
  BY <1>1 DEF NumbersDelivered
<1>3. Good(sequencer) /\ Drained(sequencer)
  BY InitIInv DEF IInv
<1>4. HeldNumbers = InHand(sequencer)
  BY <1>3, HeldIsInHand DEF HeldNumbers
<1>5. InHand(sequencer) = {}
  <2>1. Len(<<>>) = 0
    OBVIOUS
  <2>2. \A m \in Nat : m \notin InHand(sequencer)
    BY <1>1, <2>1 DEF InHand
  <2> QED BY <2>2 DEF InHand
<1>6. Skipped = {}
  <2>1. 1..(1 - 1) = {}
    OBVIOUS
  <2> QED BY <1>1, <2>1 DEF Skipped
<1> QED BY <1>1, <1>2, <1>4, <1>5, <1>6 DEF Delivery!Init, Delivery!FirstSequence

\* The numbers a packet brings are, from 1 on, those from a first to a last one.
LEMMA FirstAndLast ==
  ASSUME NEW q \in Nat, NEW c \in Nat, q + c <= MaxNumber
  PROVE  \/ \E first, last \in 1..MaxNumber :
              \A m \in Nat \ {0} : m \in q..(q + c - 1) <=> m \in first..last
         \/ MaxNumber = 1 /\ \A m \in Nat \ {0} : m \notin q..(q + c - 1)
<1>1. CASE q > 0 /\ c > 0
  <2>1. q \in 1..MaxNumber /\ q + c - 1 \in 1..MaxNumber
    BY <1>1
  <2> QED BY <2>1
<1>2. CASE q = 0 /\ c > 1
  <2>1. 1 \in 1..MaxNumber /\ c - 1 \in 1..MaxNumber
    BY <1>2
  <2>2. \A m \in Nat \ {0} : m \in q..(q + c - 1) <=> m \in 1..(c - 1)
    BY <1>2
  <2> QED BY <2>1, <2>2
<1>3. CASE c = 0 \/ (q = 0 /\ c = 1)
  <2>1. \A m \in Nat \ {0} : m \notin q..(q + c - 1)
    BY <1>3
  <2>2. CASE MaxNumber = 1
    BY <2>1, <2>2
  <2>3. CASE MaxNumber # 1
    <3>1. 2 \in 1..MaxNumber /\ 1 \in 1..MaxNumber
      BY <2>3
    <3>2. \A m \in Nat : m \notin 2..1
      OBVIOUS
    <3> QED BY <2>1, <3>1, <3>2
  <2> QED BY <2>2, <2>3
<1> QED BY <1>1, <1>2, <1>3

\* A call is a step of the delivery, or none.
LEMMA CallsDeliver ==
  ASSUME IInv, NEW q \in Nat, NEW c \in Nat, q + c <= MaxNumber,
         NEW count \in Nat, Calls(q..(q + c - 1), count)
  PROVE  [Delivery!Next]_(Delivery!deliveryVars)
<1> DEFINE s == sequencer  t == sequencer'
           new == q..(q + c - 1)
           from == sequencer.next  to == sequencer'.next
           hand == InHand(s)  handAfter == InHand(t)
<1>1. Good(s) /\ Drained(s) /\ Good(t) /\ Drained(t) /\ Steps(s, t, new)
  BY DEF IInv, Calls
<1>s. PICK b \in 1..MaxNumber : StepsBy(s, t, new, b)
  <2>1. new \in SUBSET Nat
    OBVIOUS
  <2> HIDE DEF new, s, t
  <2> QED BY <1>1, <2>1, StepsAre
<1>2. /\ from <= b /\ b <= to
      /\ \A m \in hand : m >= b
      /\ \A m \in Nat : b <= m /\ m < to => m \in hand \/ m \in new
      /\ \A m \in Nat : m \in handAfter <=> m >= to /\ (m \in hand \/ m \in new)
      /\ to \notin hand /\ to \notin new
      /\ NumbersIn(t) = NumbersIn(s) \o [i \in 1..(to - b) |-> b + i - 1]
      /\ SkippedIn(t) = SkippedIn(s) \cup from..(b - 1)
  BY <1>s DEF StepsBy
<1>3. from \in 1..MaxNumber /\ to \in 1..MaxNumber
  BY <1>1, StateFields DEF Good
<1>4. hand \subseteq Nat /\ handAfter \subseteq Nat
  BY DEF InHand
<1>5. /\ HeldNumbers = hand /\ HeldNumbers' = handAfter
      /\ NumbersDelivered = NumbersIn(s) /\ NumbersDelivered' = NumbersIn(t)
      /\ Skipped = SkippedIn(s) /\ Skipped' = SkippedIn(t)
  <2>1. HeldNumbers = hand
    BY <1>1, HeldIsInHand DEF HeldNumbers
  <2>2. HeldNumbers' = UNION {NumbersOf(p) : p \in Range(t.held)}
    BY DEF HeldNumbers
  <2>3. HeldNumbers' = handAfter
    BY <1>1, <2>2, HeldIsInHand
  <2> QED BY <2>1, <2>3 DEF NumbersDelivered, NumbersIn, Skipped, SkippedIn
<1> HIDE DEF s, t, from, to, hand, handAfter
<1>6. /\ sequencer.next = from /\ sequencer'.next = to
  BY DEF from, to
<1>7. CASE MaxNumber = 1 /\ \A m \in Nat \ {0} : m \notin new
  <2>1. from = to /\ b = to /\ from = 1
    BY <1>2, <1>3, <1>7
  <2>2. \A m \in Nat : m \in handAfter <=> m \in hand
    <3>1. \A m \in hand : m >= to /\ m # 0
      BY <1>2, <1>3, <1>4, <2>1
    <3>2. \A m \in Nat : m >= to => m # 0
      BY <1>3
    <3> QED BY <1>2, <1>7, <3>1, <3>2
  <2>3. handAfter = hand
    BY <1>4, <2>2
  <2>4. from..(b - 1) = {} /\ 1..(to - b) = {}
    BY <2>1
  <2>5. SkippedIn(t) = SkippedIn(s)
    BY <1>2, <2>4
  <2>6. NumbersIn(t) = NumbersIn(s)
    <3>1. [i \in 1..(to - b) |-> b + i - 1] = <<>>
      BY <2>4
    <3>2. NumbersIn(s) \in Seq(Nat)
      <4> DEFINE l == Len(s.delivered)
      <4>1. /\ DOMAIN NumbersIn(s) = 1..l
            /\ \A i \in 1..l : NumbersIn(s)[i] \in 1..(s.next - 1)
        BY <1>1, NumbersInAre
      <4>2. l \in Nat /\ NumbersIn(s) = [i \in 1..l |-> NumbersIn(s)[i]]
        BY <1>1, <4>1, StateFields DEF Good, NumbersIn
      <4> DEFINE numbers == NumbersIn(s)
      <4> HIDE DEF l, numbers
      <4>3. \A i \in 1..l : numbers[i] \in Nat
        BY <4>1 DEF numbers
      <4>4. numbers \in [1..l -> Nat]
        BY <4>2, <4>3 DEF numbers
      <4> QED BY <4>2, <4>4, FunctionIsSequence DEF numbers
    <3>3. NumbersIn(s) \o <<>> = NumbersIn(s)
      BY <3>2
    <3> QED BY <1>2, <3>1, <3>3
  <2> QED BY <1>5, <1>6, <2>1, <2>3, <2>5, <2>6 DEF Delivery!deliveryVars
<1>8. ASSUME NEW first \in 1..MaxNumber, NEW last \in 1..MaxNumber,
             \A m \in Nat \ {0} : m \in new <=> m \in first..last
      PROVE  Delivery!Next
  <2> DEFINE coming == {m \in hand \cup first..last : m >= b}
  <2>1. b..(to - 1) \subseteq coming /\ to \notin coming
    <3>1. ASSUME NEW m \in b..(to - 1) PROVE m \in coming
      <4>1. m \in Nat \ {0} /\ b <= m /\ m < to
        BY <1>3, <3>1
      <4> QED BY <1>2, <1>8, <4>1
    <3>2. to \notin coming
      <4>1. to \in Nat \ {0} /\ to \notin new /\ to \notin hand
        BY <1>2, <1>3
      <4>2. to \notin first..last
        BY <1>8, <4>1
      <4> QED BY <4>1, <4>2
    <3> QED BY <3>1, <3>2
  <2>2. handAfter = {m \in coming : m >= to}
    <3>1. ASSUME NEW m \in handAfter PROVE m \in coming /\ m >= to
      <4>1. m \in Nat /\ m >= to /\ (m \in hand \/ m \in new)
        BY <1>2, <1>4, <3>1
      <4>2. m \in Nat \ {0} /\ m >= b
        BY <1>2, <1>3, <4>1
      <4> QED BY <1>8, <4>1, <4>2
    <3>2. ASSUME NEW m \in coming, m >= to PROVE m \in handAfter
      <4>1. m \in Nat \ {0}
        BY <1>3, <1>4, <3>2
      <4> QED BY <1>2, <1>8, <3>2, <4>1
    <3> QED BY <3>1, <3>2
  <2>3. Delivery!Deliver(b, to, coming)
    BY <1>2, <1>5, <1>6, <2>1, <2>2 DEF Delivery!Deliver, Delivery!Run
  <2>4. coming = Delivery!InHand(b, first, last)
    BY <1>5 DEF Delivery!InHand
  <2> HIDE DEF coming
  <2>5. Delivery!Deliver(b, to, Delivery!InHand(b, first, last))
    BY <2>3, <2>4
  <2>6. first \in Delivery!Numbers /\ last \in Delivery!Numbers /\ b \in Delivery!Numbers
    BY DEF Delivery!Numbers, Delivery!FirstSequence
  <2>7. CASE b = from
    <3>1. to \in from..MaxNumber
      BY <1>2, <1>3
    <3>2. from..(b - 1) = {}
      BY <1>3, <2>7
    <3>3. Skipped' = Skipped
      BY <1>2, <1>5, <3>2
    <3>4. Delivery!Arrive(first, last)
      BY <1>6, <2>5, <2>7, <3>1, <3>3 DEF Delivery!Arrive
    <3> QED BY <2>6, <3>4 DEF Delivery!Next
  <2>8. CASE b # from
    <3>1. b > from /\ to \in b..MaxNumber
      BY <1>2, <1>3, <2>8
    <3>2. \A m \in HeldNumbers : m >= b
      BY <1>2, <1>5
    <3>3. Skipped' = Skipped \cup Delivery!Gap(from, b)
      BY <1>2, <1>5 DEF Delivery!Gap
    <3>4. Delivery!GiveUp(b, first, last)
      BY <1>6, <2>5, <3>1, <3>2, <3>3 DEF Delivery!GiveUp
    <3> QED BY <2>6, <3>4 DEF Delivery!Next
  <2> QED BY <2>7, <2>8
<1> QED BY <1>7, <1>8, FirstAndLast

\* mold::Sequencer, with its held packets and the two handlers, is the in-order
\* delivery that InOrderDelivery promises.
THEOREM Implements == Spec => ImplementsDelivery
<1>1. IInv /\ [Next]_vars => [Delivery!Next]_(Delivery!deliveryVars)
  <2> SUFFICES ASSUME IInv, [Next]_vars PROVE [Delivery!Next]_(Delivery!deliveryVars)
    OBVIOUS
  <2>1. \E c \in Nat : 0 + c <= MaxNumber /\ {} = 0..(0 + c - 1)
    <3>1. {} = 0..(0 + 0 - 1)
      OBVIOUS
    <3> QED BY <3>1
  <2>2. ASSUME NEW p \in PacketsOf(Sessions), Decodes(p), Receive(p)
        PROVE  [Delivery!Next]_(Delivery!deliveryVars)
    <3>1. PICK new \in {NumbersOf(p), {}} : \E count \in {Messages(p), 0} : Calls(new, count)
      BY <2>2, ReceiveCalls
    <3>2. PICK count \in {Messages(p), 0} : Calls(new, count)
      BY <3>1
    <3>3. PICK q \in Nat, c \in Nat : q + c <= MaxNumber /\ new = q..(q + c - 1)
      <4>1. CASE new = {}
        BY <2>1, <4>1
      <4>2. CASE new = NumbersOf(p)
        BY <2>2, <4>2, NumbersOfIs
      <4> QED BY <4>1, <4>2
    <3>4. count \in Nat
      BY <2>2, NumbersOfIs
    <3>5. Calls(q..(q + c - 1), count)
      BY <3>2, <3>3
    <3> QED BY <3>3, <3>4, <3>5, CallsDeliver
  <2>3. ASSUME GiveUp PROVE [Delivery!Next]_(Delivery!deliveryVars)
    <3>1. PICK c \in Nat : 0 + c <= MaxNumber /\ {} = 0..(0 + c - 1)
      BY <2>1
    <3>2. Calls(0..(0 + c - 1), 0)
      BY <2>3, <3>1, GiveUpCalls
    <3> QED BY <3>1, <3>2, CallsDeliver
  <2>4. ASSUME UNCHANGED vars PROVE [Delivery!Next]_(Delivery!deliveryVars)
    BY <2>4 DEF vars, Delivery!deliveryVars, HeldNumbers, NumbersDelivered, Skipped
  <2>5. CASE Stopped
    BY <2>4, <2>5 DEF Stopped
  <2> QED BY <2>2, <2>3, <2>4, <2>5 DEF Next
<1> QED BY <1>1, InitDelivery, AlwaysIInv, PTL DEF Spec, ImplementsDelivery, Delivery!Spec
-----------------------------------------------------------------------------
(* What the delivery promises, then, the sequencer keeps.                  *)

LEMMA DeliveryAre ==
  ASSUME IInv
  PROVE  LET s == sequencer
         IN /\ Good(s) /\ Drained(s) /\ s \in States /\ s.next \in 1..MaxNumber
            /\ Len(s.delivered) \in Nat
            /\ NumbersDelivered = NumbersIn(s) /\ Skipped = SkippedIn(s)
            /\ HeldNumbers = InHand(s)
            /\ NumbersIn(s) \in Seq(1..MaxNumber) /\ Len(NumbersIn(s)) = Len(s.delivered)
            /\ \A i \in 1..Len(s.delivered) : NumbersIn(s)[i] \in 1..(s.next - 1)
            /\ \A i, j \in 1..Len(s.delivered) : i < j => NumbersIn(s)[i] < NumbersIn(s)[j]
            /\ \A m : m \in Range(NumbersIn(s)) <=>
                 \E i \in 1..Len(s.delivered) : m = NumbersIn(s)[i]
<1> DEFINE s == sequencer  numbers == NumbersIn(s)  l == Len(s.delivered)  a == s.next
<1>1. Good(s) /\ Drained(s) /\ s \in States /\ a \in 1..MaxNumber /\ l \in Nat
  BY StateFields DEF IInv, Good
<1>2. NumbersDelivered = numbers /\ Skipped = SkippedIn(s)
  BY DEF NumbersDelivered, NumbersIn, Skipped, SkippedIn
<1>3. HeldNumbers = InHand(s)
  BY <1>1, HeldIsInHand DEF HeldNumbers
<1>4. /\ DOMAIN numbers = 1..l
      /\ \A i \in 1..l : numbers[i] = s.delivered[i].number
      /\ \A i \in 1..l : numbers[i] \in 1..(a - 1)
      /\ \A i, j \in 1..l : i < j => numbers[i] < numbers[j]
      /\ \A m : m \in Range(numbers) <=> \E i \in 1..l : m = s.delivered[i].number
  BY <1>1, NumbersInAre
<1>5. numbers = [i \in 1..l |-> numbers[i]]
  BY <1>4 DEF NumbersIn
<1> HIDE DEF numbers, l, a
<1>6. \A i \in 1..l : numbers[i] \in 1..MaxNumber
  BY <1>1, <1>4
<1>7. numbers \in [1..l -> 1..MaxNumber]
  BY <1>5, <1>6
<1>8. numbers \in Seq(1..MaxNumber) /\ Len(numbers) = l
  BY <1>1, <1>7, FunctionIsSequence
<1>9. \A m : m \in Range(numbers) <=> \E i \in 1..l : m = numbers[i]
  BY <1>4
<1> QED BY <1>1, <1>2, <1>3, <1>4, <1>8, <1>9 DEF numbers, l, a

\* "Each message exactly once, in order", in the words of the delivery: nothing
\* is delivered twice or after a later message.
THEOREM DeliveredInOrder == Spec => []Delivery!InOrder
<1>1. IInv => Delivery!InOrder
  BY DeliveryAre DEF Delivery!InOrder
<1> QED BY <1>1, AlwaysIInv, PTL

\* Nothing is lost silently: every number delivery is past was delivered or
\* lies in a gap given up, and never both.
THEOREM NothingLostSilently == Spec => []Delivery!PastIsAccounted
<1>1. IInv => Delivery!PastIsAccounted
  <2> SUFFICES ASSUME IInv, NEW n \in 1..MaxNumber
               PROVE  LET was == \E i \in 1..Len(NumbersDelivered) : NumbersDelivered[i] = n
                      IN /\ n < sequencer.next => (was <=> n \notin Skipped)
                         /\ n >= sequencer.next => ~was /\ n \notin Skipped
    BY DEF Delivery!PastIsAccounted, Delivery!Numbers, Delivery!FirstSequence
  <2> DEFINE a == sequencer.next  l == Len(sequencer.delivered)
             numbers == NumbersIn(sequencer)
             was == \E i \in 1..l : numbers[i] = n
  <2>1. /\ a \in 1..MaxNumber /\ l \in Nat
        /\ NumbersDelivered = numbers /\ Len(numbers) = l
        /\ Skipped = SkippedIn(sequencer)
        /\ \A i \in 1..l : numbers[i] \in 1..(a - 1)
        /\ was <=> n \in Range(numbers)
    BY DeliveryAre
  <2>2. n \in Skipped <=> n \in 1..(a - 1) /\ n \notin Range(numbers)
    BY <2>1 DEF SkippedIn
  <2> HIDE DEF a, l, numbers
  <2>3. n \in 1..(a - 1) <=> n < a
    BY <2>1
  <2>4. n >= a => ~was
    BY <2>1
  <2>5. n >= a => ~(n < a)
    BY <2>1
  <2>6. /\ n < a => (was <=> n \notin Skipped)
        /\ n >= a => ~was /\ n \notin Skipped
    BY <2>1, <2>2, <2>3, <2>4, <2>5
  <2> QED BY <2>1, <2>6 DEF a
<1> QED BY <1>1, AlwaysIInv, PTL

\* Delivery never stops before a message that is in hand.
THEOREM NothingWaitsNeedlessly == Spec => []Delivery!WaitingBeyondGap
<1>1. IInv => Delivery!WaitingBeyondGap
  <2> SUFFICES ASSUME IInv, NEW m \in InHand(sequencer) PROVE m > sequencer.next
    BY DeliveryAre DEF Delivery!WaitingBeyondGap
  <2> DEFINE s == sequencer  a == s.next
  <2>1. /\ Good(s) /\ Drained(s) /\ s \in States /\ Sorted(s.held)
        /\ s.held \in Seq(DataPackets) /\ a \in Nat
    BY DeliveryAre, StateFields DEF Good
  <2>2. PICK i \in 1..Len(s.held) : m \in NumbersOf(s.held[i])
    BY DEF InHand
  <2>3. /\ s.held # <<>> /\ m \in Nat
        /\ Head(s.held) \in DataPackets
    BY <2>1, <2>2, TailIs DEF InHand
  <2>4. m >= Head(s.held).sequence
    BY <2>1, <2>3, InHandBeyondHead
  <2>5. Head(s.held).sequence > a
    BY <2>1, <2>3 DEF Drained
  <2> DEFINE q == Head(s.held).sequence
  <2>6. q \in Nat
    BY <2>3, NumbersOfData
  <2> HIDE DEF q, a
  <2>7. m > a
    BY <2>1, <2>3, <2>4, <2>5, <2>6 DEF q
  <2> QED BY <2>7 DEF a
<1> QED BY <1>1, AlwaysIInv, PTL
=============================================================================
