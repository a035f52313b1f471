-------------------------- MODULE MoldReceiverProofs ------------------------
(***************************************************************************)
(* Proofs about MoldReceiver, for every session of messages about orders,  *)
(* any size of datagrams and hold buffer, one feed or two, and whatever    *)
(* the network does: its type invariant, that every gap is counted by the  *)
(* time of the exit, that the end is reported only when all is accounted   *)
(* for, that only an overflow of the hold buffer gives up what lies unread *)
(* in a socket, and that an exit is clean if and only if the books are     *)
(* those of the whole session.                                             *)
(*                                                                         *)
(* The argument.  What is sent are runs of consecutive numbers within the  *)
(* session, and ends (SentForIs).  On such packets every call of the       *)
(* Sequencer accounts for the numbers it goes past, as delivered or lost   *)
(* (StepsAccount), and never goes past the last one (SequencerOf); its     *)
(* methods are those MoldSequencerProofs is about.  That the loop gives up *)
(* nothing unread rests on what a pass knows of the queues it has polled   *)
(* (PolledInv): got is FALSE only if each was found empty.  PollReceive    *)
(* can give up a gap too, but only for a packet the hold buffer has no     *)
(* room for (ReceivedIs).  For the books: what was delivered without loss  *)
(* is 1..n in order (AllNumbers); the builder went through the session as  *)
(* a fold does (BuilderIs); and each handler does to the orders shown, and *)
(* to the two counters the exit looks at, what the message means           *)
(* (HandleShows).                                                          *)
(***************************************************************************)
EXTENDS MoldReceiver, NumberLemmas, FunctionTheorems, FiniteSetTheorems

\* The lemmas on the methods of the Sequencer, for the one session there is.
S == INSTANCE MoldSequencerProofs WITH
  Sessions <- {Session}, MaxCalls <- 0, calls <- 0, arrived <- {}, carried <- 0

USE NumberAssumption, CountAssumption, HeldAssumption, SessionAssumption
  DEF FirstSequence

-----------------------------------------------------------------------------
(* The Sequencer of those lemmas is the receiver's.                        *)

LEMMA SameFinish ==
  \A s : S!FinishIfEnded(s) = FinishIfEnded(s)
  BY DEF S!FinishIfEnded, FinishIfEnded, S!GapOpen, GapOpen

LEMMA SamePacket ==
  \A p : S!Messages(p) = Messages(p) /\ S!EndOf(p) = EndOf(p) /\ (S!Decodes(p) <=> Decodes(p))
  BY DEF S!Messages, Messages, S!EndOf, EndOf, S!Decodes, Decodes

LEMMA SameDeliverNew ==
  \A s, p : S!DeliverNew(s, p) = DeliverNew(s, p)
<1>1. \A s, p : S!Stale(s, p) = Stale(s, p)
  BY SamePacket DEF S!Stale, Stale
<1> QED BY <1>1 DEF S!DeliverNew, DeliverNew

LEMMA SameDrain ==
  \A s : S!DrainHeld(s) = DrainHeld(s)
<1>1. \A s : S!DrainFront(s) = DrainFront(s)
  BY SameDeliverNew DEF S!DrainFront, DrainFront
<1>2. \A s : S!DrainTurns(s) = DrainTurns(s)
  BY <1>1 DEF S!DrainTurns, DrainTurns
<1> QED BY <1>2 DEF S!DrainHeld, DrainHeld

LEMMA SameGiveUpGap ==
  \A s : S!GiveUpGap(s) = GiveUpGap(s)
<1>1. \A s : S!Target(s) = Target(s)
  BY DEF S!Target, Target
<1>2. \A s : S!Skip(s) = Skip(s)
  BY <1>1 DEF S!Skip, Skip
<1> QED BY <1>2, SameDrain, SameFinish DEF S!GiveUpGap, GiveUpGap

LEMMA SameHold ==
  \A s, p : S!Hold(s, p) = Hold(s, p)
<1>1. \A s, p : S!HoldAt(s, p) = HoldAt(s, p)
  BY DEF S!HoldAt, HoldAt
<1>2. \A s, n, p : S!InsertAt(s, n, p) = InsertAt(s, n, p)
  BY DEF S!InsertAt, InsertAt
<1> QED BY <1>1, <1>2 DEF S!Hold, Hold

LEMMA SameOnPacket ==
  \A s, p : S!OnPacket(s, p) = OnPacket(s, p)
<1>1. \A s, p : S!Announce(s, p) = Announce(s, p)
  BY SamePacket DEF S!Announce, Announce
<1>2. \A s, p : S!Deliver(s, p) = Deliver(s, p)
  BY SameGiveUpGap, SameHold, SameFinish, SameDrain, SameDeliverNew DEF S!Deliver, Deliver
<1> QED BY <1>1, <1>2, SamePacket, SameFinish DEF S!OnPacket, OnPacket

-----------------------------------------------------------------------------
(* The sender.                                                             *)

Datas == [session : {Session}, sequence : Nat \ {0}, count : 1..(kEndOfSession - 1)]

Senders ==
  [writer : [sequence : Nat \ {0}, count : Nat, size : Nat], nextSequence : Nat \ {0},
   sent : Seq(Datas)]

\* The packets end before number `next`.
EndBefore(sent, next) ==
  \A i \in 1..Len(sent) : sent[i].sequence + sent[i].count <= next

\* A sender that has been given n messages.
HasTaken(s, n) ==
  /\ s \in Senders
  /\ s.writer.sequence = s.nextSequence /\ s.writer.count < kEndOfSession
  /\ s.nextSequence + s.writer.count = n + 1
  /\ EndBefore(s.sent, s.nextSequence)

LEMMA InitialHasTaken == HasTaken(InitialSender, 0)
<1>1. kEndOfSession \in Nat /\ 0 < kEndOfSession
  OBVIOUS
<1>2. InitialSender \in Senders
  BY DEF InitialSender, Senders, Begin, kHeaderBytes
<1> QED BY <1>1, <1>2 DEF HasTaken, InitialSender, Begin, EndBefore

LEMMA AppendIs ==
  ASSUME NEW T, NEW a \in Seq(T), NEW e \in T
  PROVE  /\ Append(a, e) \in Seq(T) /\ Len(Append(a, e)) = Len(a) + 1 /\ Len(a) \in Nat
         /\ \A i \in 1..Len(a) : Append(a, e)[i] = a[i]
         /\ Append(a, e)[Len(a) + 1] = e
  OBVIOUS

LEMMA FlushKeeps ==
  ASSUME NEW n \in Nat, NEW s, HasTaken(s, n)
  PROVE  HasTaken(Flush(s), n) /\ Flush(s).writer.count = 0
<1> DEFINE a == s.nextSequence  c == s.writer.count  m == Len(s.sent)
           p == FinishWithCount(s.writer, c)
           more == Append(s.sent, p)
           t == [writer |-> Begin(a + c), nextSequence |-> a + c, sent |-> more]
<1>1. /\ s \in Senders /\ a \in Nat \ {0} /\ c \in Nat /\ s.writer.sequence = a
      /\ c < kEndOfSession /\ a + c = n + 1 /\ EndBefore(s.sent, a)
      /\ s.sent \in Seq(Datas)
  BY DEF HasTaken, Senders
<1>2. CASE c = 0
  BY <1>2 DEF Flush
<1>3. CASE c # 0
  <2>1. Flush(s) = t
    BY <1>3 DEF Flush
  <2>2. p \in Datas /\ p.sequence = a /\ p.count = c
    <3>1. c \in 1..(kEndOfSession - 1)
      BY <1>1, <1>3
    <3> HIDE DEF a, c
    <3> QED BY <1>1, <3>1 DEF Datas, FinishWithCount
  <2> HIDE DEF p
  <2>3. /\ more \in Seq(Datas) /\ Len(more) = m + 1 /\ m \in Nat
        /\ \A i \in 1..m : more[i] = s.sent[i]
        /\ more[m + 1] = p
    BY <1>1, <2>2, AppendIs
  <2>4. \A i \in 1..m : s.sent[i] \in Datas
    BY <1>1
  <2>5. \A i \in 1..m : s.sent[i].sequence \in Nat /\ s.sent[i].count \in Nat
    BY <2>4 DEF Datas
  <2> HIDE DEF more, a, c
  <2>6. t.writer = [sequence |-> a + c, count |-> 0, size |-> kHeaderBytes]
    BY DEF Begin
  <2>7. a + c \in Nat \ {0}
    BY <1>1
  <2>8. t \in Senders
    BY <2>3, <2>6, <2>7 DEF Senders, kHeaderBytes
  <2>9. \A i \in 1..m : more[i].sequence + more[i].count <= a
    BY <1>1, <2>3 DEF EndBefore, m
  <2> HIDE DEF m
  <2>10. EndBefore(more, a + c)
    <3>1. ASSUME NEW i \in 1..Len(more)
          PROVE  more[i].sequence + more[i].count <= a + c
      <4>1. CASE i <= m
        BY <1>1, <2>3, <2>5, <2>9, <4>1, SMTT(30)
      <4>2. CASE i = m + 1
        BY <1>1, <2>2, <2>3, <4>2
      <4> QED BY <2>3, <4>1, <4>2
    <3> QED BY <3>1 DEF EndBefore
  <2>11. (a + c) + 0 = n + 1 /\ 0 < kEndOfSession
    BY <1>1
  <2> QED BY <2>1, <2>6, <2>8, <2>10, <2>11 DEF HasTaken
<1> QED BY <1>2, <1>3

LEMMA SendMessageTakes ==
  ASSUME NEW n \in Nat, NEW s, HasTaken(s, n), NEW length \in Nat
  PROVE  HasTaken(SendMessage(s, length), n + 1)
<1> DEFINE t == IF Fits(s.writer, length) THEN s ELSE Flush(s)
           u == [t EXCEPT !.writer = Add(t.writer, length)]
<1>1. HasTaken(t, n) /\ t.writer.count < kEndOfSession - 1
  <2>1. CASE Fits(s.writer, length)
    <3>1. s.writer.count \in Nat /\ s.writer.count < kEndOfSession
      BY DEF HasTaken, Senders
    <3>2. s.writer.count # kEndOfSession - 1
      BY <2>1 DEF Fits
    <3> DEFINE c == s.writer.count
    <3> HIDE DEF c
    <3>3. c < kEndOfSession - 1
      BY <3>1, <3>2 DEF c
    <3> QED BY <2>1, <3>3 DEF c
  <2>2. CASE ~Fits(s.writer, length)
    BY <2>2, FlushKeeps, RoomAssumption
  <2> QED BY <2>1, <2>2
<1>2. SendMessage(s, length) = u
  BY <1>1 DEF SendMessage, HasTaken, Senders
<1> HIDE DEF t
<1> DEFINE a == t.nextSequence  c == t.writer.count  b == t.writer.size
<1>3. /\ t \in Senders /\ a \in Nat \ {0} /\ c \in Nat /\ b \in Nat
      /\ t.writer \in [sequence : Nat \ {0}, count : Nat, size : Nat]
      /\ t.writer.sequence = a /\ c < kEndOfSession - 1
      /\ a + c = n + 1 /\ EndBefore(t.sent, a)
  BY <1>1 DEF HasTaken, Senders
<1>4. /\ Add(t.writer, length) \in [sequence : Nat \ {0}, count : Nat, size : Nat]
      /\ Add(t.writer, length).sequence = a /\ Add(t.writer, length).count = c + 1
  <2> DEFINE w == t.writer
  <2>1. w \in [sequence : Nat \ {0}, count : Nat, size : Nat]
    BY <1>3
  <2>2. c + 1 \in Nat /\ b + kLengthBytes + length \in Nat
    BY <1>3 DEF kLengthBytes
  <2>3. w.sequence = a /\ w.count = c /\ w.size = b
    BY <1>3
  <2> HIDE DEF w, a, b, c
  <2>4. Add(w, length) = [w EXCEPT !.count = c + 1, !.size = b + kLengthBytes + length]
    BY <2>3 DEF Add
  <2> QED BY <2>1, <2>2, <2>3, <2>4 DEF w
<1>5. u.writer = Add(t.writer, length) /\ u.nextSequence = a /\ u.sent = t.sent
  BY <1>3 DEF Senders
<1>6. c + 1 \in Nat /\ c + 1 < kEndOfSession /\ a + (c + 1) = (n + 1) + 1
  BY <1>3
<1> HIDE DEF a, b, c
<1>7. u \in Senders
  <2> DEFINE w == Add(t.writer, length)
  <2> HIDE DEF w
  <2>1. t \in Senders /\ w \in [sequence : Nat \ {0}, count : Nat, size : Nat]
    BY <1>3, <1>4 DEF w
  <2>2. [t EXCEPT !.writer = w] \in Senders
    BY <2>1 DEF Senders
  <2> QED BY <2>2 DEF w
<1> HIDE DEF u
<1> QED BY <1>2, <1>3, <1>4, <1>5, <1>6, <1>7 DEF HasTaken

\* What the sender has done after each message.
AreSenders(after, lengths, n) ==
  after = [k \in 0..n |-> IF k = 0 THEN InitialSender
                          ELSE SendMessage(after[k - 1], lengths[k])]

LEMMA MoreSenders ==
  ASSUME NEW lengths, NEW n \in Nat, NEW after, AreSenders(after, lengths, n)
  PROVE  \E more : AreSenders(more, lengths, n + 1)
<1> DEFINE last == SendMessage(after[n], lengths[n + 1])
           more == [k \in 0..(n + 1) |-> IF k = n + 1 THEN last ELSE after[k]]
<1>1. \A k \in 0..n : after[k] = IF k = 0 THEN InitialSender
                                 ELSE SendMessage(after[k - 1], lengths[k])
  BY DEF AreSenders
<1>2. ASSUME NEW k \in 0..(n + 1)
      PROVE  more[k] = IF k = 0 THEN InitialSender
                       ELSE SendMessage(more[k - 1], lengths[k])
  <2>1. CASE k = n + 1
    BY <2>1
  <2>2. CASE k # n + 1
    BY <1>1, <2>2
  <2> QED BY <2>1, <2>2
<1>3. more = [k \in 0..(n + 1) |-> more[k]]
  OBVIOUS
<1> HIDE DEF more
<1>4. more = [k \in 0..(n + 1) |-> IF k = 0 THEN InitialSender
                                   ELSE SendMessage(more[k - 1], lengths[k])]
  BY <1>2, <1>3
<1> QED BY <1>4 DEF AreSenders

LEMMA SendersExist ==
  ASSUME NEW lengths, NEW n \in Nat
  PROVE  \E after : AreSenders(after, lengths, n)
<1> DEFINE T == {k \in Nat : \E after : AreSenders(after, lengths, k)}
<1>1. 0 \in T
  <2>1. AreSenders([k \in 0..0 |-> InitialSender], lengths, 0)
    BY DEF AreSenders
  <2> QED BY <2>1
<1>2. \A k \in Nat : k \in T => k + 1 \in T
  BY MoreSenders
<1> HIDE DEF T
<1>3. n \in T
  BY <1>1, <1>2, Induction
<1> QED BY <1>3 DEF T

LEMMA SenderTurnsAre ==
  ASSUME NEW lengths, Len(lengths) \in Nat
  PROVE  /\ SenderTurns(lengths)[0] = InitialSender
         /\ \A k \in 1..Len(lengths) :
              SenderTurns(lengths)[k] = SendMessage(SenderTurns(lengths)[k - 1], lengths[k])
<1>1. PICK after : AreSenders(after, lengths, Len(lengths))
  BY SendersExist
<1>2. AreSenders(SenderTurns(lengths), lengths, Len(lengths))
  BY <1>1 DEF SenderTurns, AreSenders
<1> DEFINE turns == SenderTurns(lengths)
<1> HIDE DEF turns
<1>3. turns = [k \in 0..Len(lengths) |-> IF k = 0 THEN InitialSender
                                         ELSE SendMessage(turns[k - 1], lengths[k])]
  BY <1>2 DEF AreSenders, turns
<1>4. \A k \in 0..Len(lengths) : turns[k] = IF k = 0 THEN InitialSender
                                            ELSE SendMessage(turns[k - 1], lengths[k])
  BY <1>3
<1>5. /\ turns[0] = InitialSender
      /\ \A k \in 1..Len(lengths) : turns[k] = SendMessage(turns[k - 1], lengths[k])
  BY <1>4
<1> QED BY <1>5 DEF turns

LEMMA TakesAll ==
  ASSUME NEW lengths \in Seq(Nat)
  PROVE  HasTaken(SenderTurns(lengths)[Len(lengths)], Len(lengths))
<1> DEFINE n == Len(lengths)  turns == SenderTurns(lengths)
           T == {k \in Nat : k <= n => HasTaken(turns[k], k)}
<1>1. /\ n \in Nat /\ turns[0] = InitialSender
      /\ \A k \in 1..n : turns[k] = SendMessage(turns[k - 1], lengths[k])
      /\ \A k \in 1..n : lengths[k] \in Nat
  BY SenderTurnsAre
<1> HIDE DEF n, turns
<1>2. 0 \in T
  BY <1>1, InitialHasTaken
<1>3. ASSUME NEW k \in Nat, k \in T PROVE k + 1 \in T
  <2> SUFFICES ASSUME k + 1 <= n PROVE HasTaken(turns[k + 1], k + 1)
    OBVIOUS
  <2>1. HasTaken(turns[k], k) /\ k + 1 \in 1..n /\ (k + 1) - 1 = k
    BY <1>1, <1>3
  <2>2. turns[k + 1] = SendMessage(turns[k], lengths[k + 1]) /\ lengths[k + 1] \in Nat
    BY <1>1, <2>1
  <2> QED BY <2>1, <2>2, SendMessageTakes
<1> HIDE DEF T
<1>4. n \in T
  BY <1>1, <1>2, <1>3, Induction
<1> QED BY <1>1, <1>4 DEF T, n, turns

\* The packets that carry the messages 1..n of a session, and its end.
SentPackets(n) ==
  {p \in PacketsOf({Session}) :
     /\ p.sequence >= 1 /\ p.sequence + Messages(p) <= n + 1
     /\ p.count = kEndOfSession => p.sequence = n + 1
     /\ p.count # kEndOfSession => p.count >= 1}

LEMMA ConcatIs ==
  ASSUME NEW T, NEW a \in Seq(T), NEW b \in Seq(T)
  PROVE  /\ Len(a) \in Nat /\ Len(b) \in Nat /\ DOMAIN (a \o b) = 1..(Len(a) + Len(b))
         /\ \A i \in 1..(Len(a) + Len(b)) :
              (a \o b)[i] = IF i <= Len(a) THEN a[i] ELSE b[i - Len(a)]
  OBVIOUS

LEMMA SentForIs ==
  ASSUME NEW lengths \in Seq(Nat), Len(lengths) < MaxNumber
  PROVE  LET sent == SentFor(lengths)
             packets == {sent[i] : i \in DOMAIN sent}
         IN /\ packets \subseteq SentPackets(Len(lengths))
            /\ DOMAIN sent \subseteq Nat
<1> DEFINE n == Len(lengths)
           s == SenderTurns(lengths)[n]
           t == Flush(s)
           end == FinishWithCount(Begin(t.nextSequence), kEndOfSession)
           ends == [i \in 1..Ends |-> end]
           sent == t.sent \o ends
           packets == {sent[i] : i \in DOMAIN sent}
           m == Len(t.sent)
<1>1. n \in Nat /\ n < MaxNumber /\ HasTaken(s, n)
  BY TakesAll
<1> HIDE DEF n, s
<1>2. HasTaken(t, n) /\ t.writer.count = 0
  BY <1>1, FlushKeeps
<1>3. SentFor(lengths) = sent
  BY <1>2 DEF SentFor, SendEnd, HasTaken, Senders, n, s
<1> HIDE DEF t
<1>4. /\ t.nextSequence = n + 1 /\ t.sent \in Seq(Datas) /\ m \in Nat
      /\ EndBefore(t.sent, n + 1) /\ \A i \in 1..m : t.sent[i] \in Datas
  <2>1. t \in Senders /\ t.nextSequence + t.writer.count = n + 1
        /\ EndBefore(t.sent, t.nextSequence)
    BY <1>2 DEF HasTaken
  <2>2. t.nextSequence \in Nat /\ t.sent \in Seq(Datas)
    BY <2>1 DEF Senders
  <2>3. t.nextSequence = n + 1
    <3> DEFINE a == t.nextSequence
    <3>1. a \in Nat /\ a + 0 = n + 1
      BY <1>2, <2>1, <2>2
    <3> HIDE DEF a
    <3> QED BY <3>1 DEF a
  <2> QED BY <2>1, <2>2, <2>3
<1>5. end = [session |-> Session, sequence |-> n + 1, count |-> kEndOfSession]
  BY <1>4 DEF FinishWithCount, Begin
<1>6. /\ DOMAIN sent = 1..(m + Ends) /\ DOMAIN sent \subseteq Nat
      /\ \A i \in 1..(m + Ends) : sent[i] = IF i <= m THEN t.sent[i] ELSE end
  <2> DEFINE T == Datas \cup {end}
  <2>1. end \in T /\ t.sent \in Seq(T)
    BY <1>4
  <2> HIDE DEF T
  <2>2. ends \in Seq(T) /\ Len(ends) = Ends /\ \A i \in 1..Ends : ends[i] = end
    BY <2>1, EndsAssumption
  <2> HIDE DEF ends, end
  <2> DEFINE a == t.sent
  <2>3. /\ DOMAIN sent = 1..(m + Ends)
        /\ \A i \in 1..(m + Ends) : sent[i] = IF i <= m THEN t.sent[i] ELSE ends[i - m]
    <3>1. a \in Seq(T) /\ m = Len(a) /\ sent = a \o ends
      BY <2>1
    <3> HIDE DEF sent, m, a
    <3>2. /\ DOMAIN sent = 1..(m + Ends)
          /\ \A i \in 1..(m + Ends) : sent[i] = IF i <= m THEN a[i] ELSE ends[i - m]
      BY <2>2, <3>1, ConcatIs
    <3> QED BY <3>2 DEF a
  <2>4. \A i \in 1..(m + Ends) : i > m => i - m \in 1..Ends
    BY <1>4, EndsAssumption
  <2> HIDE DEF sent
  <2>5. \A i \in 1..(m + Ends) : sent[i] = IF i <= m THEN t.sent[i] ELSE end
    BY <1>4, <2>2, <2>3, <2>4, EndsAssumption
  <2>6. 1..(m + Ends) \subseteq Nat
    BY <1>4, EndsAssumption
  <2> HIDE DEF m
  <2>7. DOMAIN sent = 1..(m + Ends)
    BY <2>3
  <2> QED BY <2>5, <2>6, <2>7
<1>13. ASSUME NEW p \in packets
       PROVE  p = end \/ \E i \in 1..m : p = t.sent[i]
  <2> HIDE DEF end
  <2>1. PICK i \in 1..(m + Ends) : p = sent[i]
    BY <1>6
  <2> HIDE DEF sent, packets, m
  <2>2. p = IF i <= m THEN t.sent[i] ELSE end
    BY <1>6, <2>1
  <2>3. i <= m => i \in 1..m
    BY <1>4, <2>1, EndsAssumption
  <2> QED BY <2>2, <2>3
<1> HIDE DEF packets
<1>7. \A i \in 1..m : /\ t.sent[i] \in PacketsOf({Session})
                      /\ t.sent[i].sequence \in Nat \ {0}
                      /\ t.sent[i].count \in 1..(kEndOfSession - 1)
                      /\ t.sent[i].sequence + t.sent[i].count <= n + 1
  <2> SUFFICES ASSUME NEW i \in 1..m
               PROVE  /\ t.sent[i] \in PacketsOf({Session})
                      /\ t.sent[i].sequence \in Nat \ {0}
                      /\ t.sent[i].count \in 1..(kEndOfSession - 1)
                      /\ t.sent[i].sequence + t.sent[i].count <= n + 1
    OBVIOUS
  <2> DEFINE p == t.sent[i]  a == p.sequence  c == p.count
  <2>1. /\ p \in Datas /\ a \in Nat \ {0} /\ c \in 1..(kEndOfSession - 1)
        /\ p.session = Session /\ a + c <= n + 1
    BY <1>4 DEF Datas, EndBefore
  <2>2. p = [session |-> Session, sequence |-> a, count |-> c]
    BY <2>1 DEF Datas
  <2> HIDE DEF p, a, c
  <2>3. a \in 0..MaxNumber /\ c \in 0..kEndOfSession
    BY <1>1, <2>1
  <2>4. p \in PacketsOf({Session})
    BY <2>2, <2>3 DEF PacketsOf
  <2> QED BY <2>1, <2>4 DEF p, a, c
<1>8. end \in SentPackets(n)
  <2>1. end \in PacketsOf({Session})
    BY <1>1, <1>5 DEF PacketsOf
  <2>2. end.sequence = n + 1 /\ end.count = kEndOfSession
    BY <1>5
  <2> HIDE DEF end
  <2>3. Messages(end) = 0 /\ (n + 1) + 0 <= n + 1 /\ n + 1 >= 1
    BY <1>1, <2>2 DEF Messages
  <2> QED BY <2>1, <2>2, <2>3 DEF SentPackets
<1>9. \A i \in 1..m : t.sent[i] \in SentPackets(n) /\ t.sent[i].count # kEndOfSession
  <2> SUFFICES ASSUME NEW i \in 1..m
               PROVE  t.sent[i] \in SentPackets(n) /\ t.sent[i].count # kEndOfSession
    OBVIOUS
  <2> DEFINE p == t.sent[i]
  <2>1. /\ p \in PacketsOf({Session}) /\ p.sequence \in Nat \ {0}
        /\ p.count \in 1..(kEndOfSession - 1) /\ p.sequence + p.count <= n + 1
    BY <1>7
  <2> HIDE DEF p
  <2>2. p.count # kEndOfSession /\ Messages(p) = p.count
    BY <2>1 DEF Messages
  <2>3. p.sequence >= 1 /\ p.count >= 1
    BY <2>1
  <2>4. p \in SentPackets(n)
    BY <2>1, <2>2, <2>3 DEF SentPackets
  <2> QED BY <2>2, <2>4 DEF p
<1>10. packets \subseteq SentPackets(n)
  BY <1>13, <1>8, <1>9
<1> QED BY <1>3, <1>6, <1>10 DEF packets, n

-----------------------------------------------------------------------------
(* The receiver's sequencer, in a session of n messages.                   *)

\* What the instance assumes.
LEMMA Instance == NoSession \notin {Session} /\ 0 \in Nat
  OBVIOUS

SequencerOf(n, s) ==
  /\ S!Good(s) /\ S!Drained(s) /\ Len(s.held) <= MaxHeld
  /\ s.lost + Len(s.delivered) = s.next - 1
  /\ s.known <= n + 1 /\ (s.endOfSession => s.known = n + 1)
  /\ s.next = 1 \/ s.next <= s.known
  /\ s.ended => s.endOfSession /\ s.next >= s.known

LEMMA Fields ==
  ASSUME NEW s, S!Good(s)
  PROVE  /\ s \in S!States /\ s.next \in 1..MaxNumber /\ s.next \in Nat /\ s.known \in Nat
         /\ s.lost \in Nat /\ Len(s.delivered) \in Nat /\ Len(s.held) \in Nat
         /\ s.session \in {Session, NoSession}
         /\ s.endOfSession \in BOOLEAN /\ s.ended \in BOOLEAN
<1>1. s \in S!States
  BY DEF S!Good
<1>2. /\ s.next \in 1..MaxNumber /\ s.next \in Nat /\ s.known \in 0..MaxNumber
      /\ s.session \in {Session} \cup {NoSession} /\ s.lost \in Nat
      /\ s.endOfSession \in BOOLEAN /\ s.ended \in BOOLEAN
      /\ Len(s.held) \in Nat /\ Len(s.delivered) \in Nat
  BY <1>1, Instance, S!StateFields
<1> QED BY <1>1, <1>2

LEMMA SentDecodes ==
  ASSUME NEW n \in Nat, n < MaxNumber, NEW p \in SentPackets(n)
  PROVE  /\ p \in PacketsOf({Session}) /\ p \in S!PacketsOf({Session})
         /\ Decodes(p) /\ S!Decodes(p) /\ p.session = Session
         /\ Messages(p) \in Nat /\ p.sequence \in Nat /\ EndOf(p) \in Nat
         /\ EndOf(p) = p.sequence + Messages(p) /\ EndOf(p) <= n + 1
         /\ p.count = kEndOfSession => EndOf(p) = n + 1
<1>1. p \in PacketsOf({Session}) /\ p \in S!PacketsOf({Session})
  BY DEF SentPackets, PacketsOf, S!PacketsOf
<1>2. /\ p.sequence \in 0..MaxNumber /\ p.count \in Nat /\ p.session = Session
      /\ Messages(p) \in Nat /\ p.sequence + Messages(p) <= n + 1
      /\ p.count = kEndOfSession => p.sequence = n + 1 /\ Messages(p) = 0
  BY <1>1 DEF PacketsOf, SentPackets, Messages
<1>3. Decodes(p)
  <2> DEFINE a == p.sequence  c == Messages(p)
  <2>1. a \in Nat /\ c \in Nat /\ a + c <= n + 1
    BY <1>2
  <2> HIDE DEF a, c
  <2>2. a <= MaxNumber - c
    BY <2>1
  <2> QED BY <2>2 DEF Decodes, a, c
<1>4. S!Decodes(p)
  BY <1>3, SamePacket
<1>5. EndOf(p) = p.sequence + Messages(p)
  BY <1>1, <1>4, Instance, S!EndOfIs, SamePacket
<1> QED BY <1>1, <1>2, <1>3, <1>4, <1>5

\* A call accounts for every number it goes past.
LEMMA StepsAccount ==
  ASSUME NEW s, S!Good(s), NEW t, S!Good(t), NEW new, S!Steps(s, t, new),
         s.lost + Len(s.delivered) = s.next - 1
  PROVE  t.lost + Len(t.delivered) = t.next - 1
<1>1. PICK r \in S!States : S!Skips(s, r) /\ S!Moves(r, t, new)
  BY DEF S!Steps
<1> DEFINE a == s.next  b == r.next  c == t.next
           k == s.lost  l == Len(s.delivered)
<1>2. a \in Nat /\ c \in Nat /\ k \in Nat /\ l \in Nat /\ k + l = a - 1
  BY Fields
<1>3. b \in Nat
  BY <1>1, Instance, S!StateFields
<1>4. t.lost = k + (b - a) /\ Len(t.delivered) = l + (c - b)
  BY <1>1 DEF S!Skips, S!Moves
<1> HIDE DEF a, b, c, k, l
<1>5. (k + (b - a)) + (l + (c - b)) = c - 1
  BY <1>2, <1>3
<1> QED BY <1>4, <1>5 DEF c

LEMMA InitialSequencerOf ==
  ASSUME NEW n \in Nat
  PROVE  SequencerOf(n, InitialSequencer)
<1> DEFINE s == InitialSequencer
<1>1. /\ s.next = 1 /\ s.known = 0 /\ s.held = <<>> /\ s.session = NoSession
      /\ s.lost = 0 /\ s.delivered = <<>> /\ s.endOfSession = FALSE /\ s.ended = FALSE
  BY DEF InitialSequencer
<1>2. <<>> \in Seq(S!DataPackets) /\ <<>> \in Seq(S!Delivered) /\ Len(<<>>) = 0
  OBVIOUS
<1>3. 1 \in 1..MaxNumber /\ 0 \in 0..MaxNumber
  OBVIOUS
<1>4. s \in S!States
  BY <1>2, <1>3 DEF InitialSequencer, S!States
<1> HIDE DEF s
<1>5. S!Good(s) /\ S!Drained(s)
  BY <1>1, <1>2, <1>4 DEF S!Good, S!Drained, S!Sorted
<1>6. 0 <= MaxHeld /\ 0 + 0 = 1 - 1 /\ 0 <= n + 1
  OBVIOUS
<1> QED BY <1>1, <1>2, <1>5, <1>6 DEF SequencerOf, s

LEMMA GiveUpGapKeeps ==
  ASSUME NEW n \in Nat, NEW s, SequencerOf(n, s)
  PROVE  SequencerOf(n, GiveUpGap(s))
<1> DEFINE t == GiveUpGap(s)
<1>1. /\ S!Good(s) /\ S!Drained(s) /\ Len(s.held) <= MaxHeld
      /\ s.lost + Len(s.delivered) = s.next - 1
      /\ s.known <= n + 1 /\ (s.endOfSession => s.known = n + 1)
      /\ s.next = 1 \/ s.next <= s.known
      /\ s.ended => s.endOfSession /\ s.next >= s.known
  BY DEF SequencerOf
<1>2. /\ S!Good(t) /\ S!Drained(t) /\ Len(t.held) <= Len(s.held)
      /\ S!Steps(s, t, {})
  BY <1>1, Instance, SameGiveUpGap, S!GiveUpGapCorrect DEF S!Steps
<1>3. S!Advances(s, t)
  BY <1>1, Instance, SameGiveUpGap, S!GiveUpGapAdvances
<1> HIDE DEF t
<1>4. t.lost + Len(t.delivered) = t.next - 1
  BY <1>1, <1>2, StepsAccount
<1> DEFINE a == s.next  b == t.next  k == s.known  h == Len(s.held)  i == Len(t.held)
<1>5. a \in Nat /\ b \in Nat /\ k \in Nat /\ h \in Nat /\ i \in Nat /\ i <= h /\ h <= MaxHeld
      /\ (a = 1 \/ a <= k)
  BY <1>1, <1>2, Fields
<1>6. /\ b >= a /\ (b = a \/ b <= k) /\ t.known = k /\ t.endOfSession = s.endOfSession
      /\ t.ended => s.ended \/ (s.endOfSession /\ b >= k)
      /\ s.ended => s.endOfSession /\ a >= k
  BY <1>1, <1>3 DEF S!Advances
<1> HIDE DEF a, b, k, h, i
<1>7. i <= MaxHeld /\ (b = 1 \/ b <= k) /\ (a >= k => b >= k)
  BY <1>5, <1>6
<1>8. t.ended => t.endOfSession /\ b >= k
  BY <1>6, <1>7
<1> QED BY <1>1, <1>2, <1>4, <1>6, <1>7, <1>8 DEF SequencerOf, b, k, i, t

LEMMA OnPacketKeeps ==
  ASSUME NEW n \in Nat, n < MaxNumber, NEW s, SequencerOf(n, s), NEW p \in SentPackets(n)
  PROVE  SequencerOf(n, OnPacket(s, p))
<1> DEFINE t == OnPacket(s, p)
<1>1. /\ S!Good(s) /\ S!Drained(s) /\ Len(s.held) <= MaxHeld
      /\ s.lost + Len(s.delivered) = s.next - 1
      /\ s.known <= n + 1 /\ (s.endOfSession => s.known = n + 1)
      /\ s.next = 1 \/ s.next <= s.known
      /\ s.ended => s.endOfSession /\ s.next >= s.known
  BY DEF SequencerOf
<1>2. /\ p \in S!PacketsOf({Session}) /\ S!Decodes(p) /\ p.session = Session
      /\ EndOf(p) \in Nat /\ EndOf(p) <= n + 1
      /\ p.count = kEndOfSession => EndOf(p) = n + 1
  BY SentDecodes
<1>3. S!Accepts(s, p)
  BY <1>1, <1>2, Fields DEF S!Accepts
<1>4. /\ S!Good(t) /\ S!Drained(t) /\ Len(t.held) <= MaxHeld
      /\ S!Steps(s, t, S!NumbersOf(p))
  BY <1>1, <1>2, <1>3, Instance, SameOnPacket, S!OnPacketCorrect
<1>5. PICK a \in S!States :
        /\ a.next = s.next /\ a.ended = s.ended
        /\ a.known = (IF EndOf(p) > s.known THEN EndOf(p) ELSE s.known)
        /\ a.endOfSession = (s.endOfSession \/ p.count = kEndOfSession)
        /\ S!Advances(a, t)
  BY <1>1, <1>2, <1>3, Instance, SameOnPacket, SamePacket, S!OnPacketAdvances
<1> HIDE DEF t
<1>6. t.lost + Len(t.delivered) = t.next - 1
  BY <1>1, <1>4, StepsAccount
<1> DEFINE b == s.next  c == t.next  k == s.known  l == a.known  e == EndOf(p)
<1>7. b \in Nat /\ c \in Nat /\ k \in Nat /\ (b = 1 \/ b <= k)
  BY <1>1, <1>4, Fields
<1>8. /\ c >= b /\ (c = b \/ c <= l) /\ t.known = l /\ t.endOfSession = a.endOfSession
      /\ t.ended => s.ended \/ (a.endOfSession /\ c >= l)
  BY <1>5 DEF S!Advances
<1>9. /\ l = (IF e > k THEN e ELSE k) /\ e \in Nat /\ e <= n + 1 /\ k <= n + 1
      /\ p.count = kEndOfSession => e = n + 1
      /\ s.endOfSession => k = n + 1
      /\ s.ended => s.endOfSession /\ b >= k
      /\ a.endOfSession <=> s.endOfSession \/ p.count = kEndOfSession
  BY <1>1, <1>2, <1>5, Fields
<1> HIDE DEF b, c, k, l, e
<1>10. /\ l \in Nat /\ l >= k /\ l <= n + 1
       /\ e = n + 1 => l = n + 1
       /\ k = n + 1 => l = k
  BY <1>7, <1>9
<1>11. c = 1 \/ c <= l
  BY <1>7, <1>8, <1>10
<1>12. t.endOfSession => l = n + 1
  BY <1>8, <1>9, <1>10
<1>13. t.ended => t.endOfSession /\ c >= l
  <2>1. ASSUME s.ended PROVE a.endOfSession /\ c >= l
    <3>1. s.endOfSession /\ b >= k /\ l = k
      BY <1>9, <1>10, <2>1
    <3> QED BY <1>7, <1>8, <1>9, <3>1
  <2> QED BY <1>8, <2>1
<1> QED BY <1>4, <1>6, <1>8, <1>10, <1>11, <1>12, <1>13 DEF SequencerOf, t, c, l

-----------------------------------------------------------------------------
(* The receiver.                                                           *)

\* The packets that are sent.
Sent ==
  LET sent == SentFor([i \in 1..LastMessage |-> LengthOf(feed[i])])
  IN {sent[i] : i \in DOMAIN sent}

TypeInv ==
  /\ feed \in Feeds
  /\ network \in [Sockets -> SUBSET [packet : Sent \cup {Garbage}, place : Nat]]
  /\ queue \in [Sockets -> Seq(Sent \cup {Garbage})]
  /\ pc \in {"poll", "timers", "closing", "exited"}
  /\ socket \in Sockets /\ got \in BOOLEAN /\ firstArrival \in BOOLEAN
  /\ malformed \in Nat /\ idleFor \in Nat /\ gapSince \in Nat \cup {Unset}
  /\ left \in [Sockets -> Nat]

\* What a pass without an arrival knows of the queues it has polled.
PolledInv ==
  /\ pc # "poll" => socket = 1
  /\ pc = "poll" /\ ~got => \A s \in Sockets : s < socket => left[s] = 0
  /\ pc = "timers" /\ ~got => \A s \in Sockets : left[s] = 0
  /\ pc = "closing" /\ GapOpen(sequencer) => \A s \in Sockets : left[s] = 0

Inv ==
  /\ TypeInv
  /\ SequencerOf(LastMessage, sequencer)
  /\ PolledInv
  /\ pc = "exited" => ~GapOpen(sequencer)

LEMMA SocketsAre ==
  /\ Sockets \subseteq Nat /\ 1 \in Sockets
  /\ \A s \in Sockets : s >= 1
  /\ \A r, s \in Sockets : s + 1 \notin Sockets => r <= s
  BY SocketsAssumption

LEMMA SentIs ==
  ASSUME feed \in Feeds
  PROVE  LET sent == SentFor([i \in 1..LastMessage |-> LengthOf(feed[i])])
         IN /\ LastMessage \in Nat /\ LastMessage < MaxNumber
            /\ Sent \subseteq SentPackets(LastMessage)
            /\ DOMAIN sent \subseteq Nat /\ \A i \in DOMAIN sent : sent[i] \in Sent
<1> DEFINE lengths == [i \in 1..LastMessage |-> LengthOf(feed[i])]
           sent == SentFor(lengths)
<1>1. LastMessage \in 0..(MaxNumber - 1)
  BY FeedsAssumption DEF LastMessage
<1>2. \A i \in 1..LastMessage : LengthOf(feed[i]) \in Nat
  BY FeedsAssumption, BytesAssumption DEF LastMessage, Sendable
<1>3. lengths \in Seq(Nat) /\ Len(lengths) = LastMessage
  <2>1. LastMessage \in Nat
    BY <1>1
  <2> HIDE DEF LastMessage
  <2> QED BY <1>2, <2>1
<1>4. LastMessage \in Nat /\ LastMessage < MaxNumber
  BY <1>1
<1> HIDE DEF lengths
<1>5. LET packets == {sent[i] : i \in DOMAIN sent}
      IN /\ packets \subseteq SentPackets(LastMessage)
         /\ DOMAIN sent \subseteq Nat
  BY <1>3, <1>4, SentForIs
<1>6. Sent = {sent[i] : i \in DOMAIN sent}
  BY DEF Sent, lengths
<1> HIDE DEF sent
<1> QED BY <1>4, <1>5, <1>6 DEF sent, lengths

LEMMA InitInv == Init => Inv
<1> SUFFICES ASSUME Init PROVE Inv
  OBVIOUS
<1> DEFINE sent == SentFor([i \in 1..LastMessage |-> LengthOf(feed[i])])
<1>1. /\ feed \in Feeds /\ pc = "poll" /\ socket = 1 /\ got = FALSE /\ firstArrival = FALSE
      /\ sequencer = InitialSequencer /\ malformed = 0 /\ idleFor = 0 /\ gapSince = Unset
      /\ network = [s \in Sockets |-> Datagrams(s, sent)]
      /\ queue = [s \in Sockets |-> <<>>] /\ left = [s \in Sockets |-> 0]
  BY DEF Init
<1>2. /\ LastMessage \in Nat
      /\ DOMAIN sent \subseteq Nat /\ \A i \in DOMAIN sent : sent[i] \in Sent
  BY <1>1, SentIs
<1> HIDE DEF sent
<1>3. \A s \in Sockets :
        Datagrams(s, sent) \subseteq [packet : Sent \cup {Garbage}, place : Nat]
  BY <1>2 DEF Datagrams
<1>4. <<>> \in Seq(Sent \cup {Garbage})
  OBVIOUS
<1>5. TypeInv
  BY <1>1, <1>3, <1>4, SocketsAre DEF TypeInv
<1>6. SequencerOf(LastMessage, sequencer)
  BY <1>1, <1>2, InitialSequencerOf
<1>7. PolledInv
  BY <1>1 DEF PolledInv
<1> QED BY <1>1, <1>5, <1>6, <1>7 DEF Inv

\* A datagram taken off a queue.
LEMMA QueueIs ==
  ASSUME NEW T, NEW a \in Seq(T)
  PROVE  /\ a # <<>> => Head(a) \in T /\ Tail(a) \in Seq(T)
         /\ \A e \in T : Append(a, e) \in Seq(T)
         /\ Len(a) \in Nat
  OBVIOUS

LEMMA NextTypeInv ==
  ASSUME TypeInv, [Next]_vars
  PROVE  TypeInv' /\ LastMessage' = LastMessage /\ Sent' = Sent
<1> DEFINE T == Sent \cup {Garbage}
<1>1. feed' = feed
  BY DEF Next, vars, loopVars, timeVars, Arrive, Tick, Loop, PollEmpty, PollReceive, Timers,
         CloseGap, Exit, Exited
<1>2. LastMessage' = LastMessage /\ Sent' = Sent
  BY <1>1 DEF LastMessage, Sent
<1> HIDE DEF T
<1>3. ASSUME NEW s \in Sockets, NEW d \in network[s], Arrive(s, d)
      PROVE  TypeInv'
  <2>1. d.packet \in T
    BY DEF TypeInv, T
  <2>2. Append(queue[s], d.packet) \in Seq(T)
    BY <2>1, QueueIs DEF TypeInv, T
  <2> QED BY <1>2, <1>3, <2>2 DEF TypeInv, Arrive, loopVars, timeVars, T
<1>4. CASE Tick
  <2>1. \A t \in Nat : \A w \in Nat : Later(t, w) \in Nat
    BY DEF Later
  <2>2. idleFor' \in Nat
    BY <1>4, <2>1, WaitsAssumption DEF Tick, TypeInv
  <2>3. gapSince' \in Nat \cup {Unset}
    BY <1>4, <2>1, WaitsAssumption DEF Tick, TypeInv
  <2> QED BY <1>2, <1>4, <2>2, <2>3 DEF TypeInv, Tick, loopVars
<1>5. ASSUME NextSocket
      PROVE  socket' \in Sockets /\ pc' \in {pc, "timers"}
  BY <1>5, SocketsAre DEF NextSocket
<1>6. CASE PollEmpty
  <2>1. left' \in [Sockets -> Nat]
    BY <1>6 DEF PollEmpty, TypeInv
  <2> QED BY <1>2, <1>5, <1>6, <2>1 DEF TypeInv, PollEmpty, timeVars
<1>7. CASE PollReceive
  <2>1. queue[socket] \in Seq(T) /\ queue[socket] # <<>> /\ queue \in [Sockets -> Seq(T)]
    BY <1>7 DEF PollReceive, Waiting, TypeInv, T
  <2>2. queue' \in [Sockets -> Seq(T)]
    BY <1>7, <2>1, QueueIs DEF PollReceive
  <2>3. left' \in [Sockets -> Nat]
    BY <1>7, <2>2, QueueIs DEF PollReceive, TypeInv
  <2>4. malformed' \in Nat
    BY <1>7 DEF PollReceive, TypeInv
  <2>5. got' \in BOOLEAN
    BY <1>7 DEF PollReceive
  <2> QED BY <1>2, <1>5, <1>7, <2>2, <2>3, <2>4, <2>5 DEF TypeInv, PollReceive, timeVars, T
<1>8. CASE Timers
  <2>1. gapSince' \in Nat \cup {Unset}
    BY <1>8 DEF Timers, GapTimer, TypeInv
  <2>2. idleFor' \in Nat /\ firstArrival' \in BOOLEAN
    <3>1. (idleFor' = 0 /\ firstArrival' = TRUE)
            \/ (idleFor' = idleFor /\ firstArrival' = firstArrival)
      BY <1>8 DEF Timers
    <3>2. idleFor \in Nat /\ firstArrival \in BOOLEAN
      BY DEF TypeInv
    <3>3. idleFor' \in Nat
      BY <3>1, <3>2
    <3>4. firstArrival' \in BOOLEAN
      BY <3>1, <3>2, Zenon
    <3> QED BY <3>3, <3>4
  <2>3. pc' \in {"poll", "closing"} /\ got' \in BOOLEAN
    BY <1>8 DEF Timers
  <2> QED BY <1>2, <1>8, <2>1, <2>2, <2>3 DEF Timers, TypeInv
<1>9. CASE CloseGap
  BY <1>2, <1>9 DEF CloseGap, TypeInv, timeVars
<1>10. CASE Exit
  BY <1>2, <1>10 DEF Exit, TypeInv, timeVars
<1>11. CASE UNCHANGED vars
  BY <1>2, <1>11 DEF vars, loopVars, timeVars, TypeInv
<1> QED BY <1>2, <1>3, <1>4, <1>6, <1>7, <1>8, <1>9, <1>10, <1>11 DEF Next, Loop, Exited

\* What a call makes of the sequencer, in a state of the receiver.
LEMMA Receives ==
  ASSUME TypeInv, NEW s \in Sockets, queue[s] # <<>>, Head(queue[s]) # Garbage
  PROVE  Head(queue[s]) \in SentPackets(LastMessage) /\ Head(queue[s]) \in Sent
<1>1. Head(queue[s]) \in Sent \cup {Garbage}
  BY QueueIs DEF TypeInv
<1>2. Sent \subseteq SentPackets(LastMessage)
  BY SentIs DEF TypeInv
<1> QED BY <1>1, <1>2

LEMMA NextSequencerOf ==
  ASSUME TypeInv, SequencerOf(LastMessage, sequencer), [Next]_vars
  PROVE  SequencerOf(LastMessage, sequencer)'
<1> DEFINE n == LastMessage
<1>1. n \in Nat /\ n < MaxNumber
  BY SentIs DEF TypeInv
<1>2. n' = n
  BY NextTypeInv
<1>3. SequencerOf(n, sequencer')
  <2> HIDE DEF n
  <2>1. ASSUME sequencer' = sequencer PROVE SequencerOf(n, sequencer')
    BY <2>1 DEF n
  <2>2. SequencerOf(n, GiveUpGap(sequencer))
    BY <1>1, GiveUpGapKeeps DEF n
  <2>3. CASE PollReceive
    <3>1. CASE Head(queue[socket]) = Garbage
      BY <2>1, <2>3, <3>1 DEF PollReceive
    <3>2. CASE Head(queue[socket]) # Garbage
      <4>1. Head(queue[socket]) \in SentPackets(n)
        BY <2>3, <3>2, Receives DEF PollReceive, Waiting, TypeInv, n
      <4>2. sequencer' = OnPacket(sequencer, Head(queue[socket]))
        BY <2>3, <3>2 DEF PollReceive
      <4> QED BY <1>1, <4>1, <4>2, OnPacketKeeps DEF n
    <3> QED BY <3>1, <3>2
  <2>4. CASE Timers
    <3>1. sequencer' = sequencer \/ sequencer' = GiveUpGap(sequencer)
      BY <2>4 DEF Timers, GapTimer
    <3> QED BY <2>1, <2>2, <3>1
  <2>5. CASE CloseGap
    BY <2>2, <2>5 DEF CloseGap
  <2>6. ASSUME NEW s \in Sockets, NEW d \in network[s], Arrive(s, d)
        PROVE  sequencer' = sequencer
    BY <2>6 DEF Arrive, loopVars
  <2>7. Tick \/ PollEmpty \/ Exit \/ UNCHANGED vars => sequencer' = sequencer
    BY DEF Tick, PollEmpty, Exit, vars, loopVars
  <2> QED BY <2>1, <2>3, <2>4, <2>5, <2>6, <2>7 DEF Next, Loop, Exited
<1> HIDE DEF n
<1>4. SequencerOf(n', sequencer')
  BY <1>2, <1>3
<1> QED BY <1>4 DEF n

LEMMA NextPolledInv ==
  ASSUME Inv, [Next]_vars
  PROVE  PolledInv'
<1>1. TypeInv /\ PolledInv /\ SequencerOf(LastMessage, sequencer)
  BY DEF Inv
<1>2. SequencerOf(LastMessage, sequencer)' /\ TypeInv'
  BY <1>1, NextSequencerOf, NextTypeInv
<1>3. \A t : SequencerOf(LastMessage', t) /\ t.ended => ~GapOpen(t)
  <2> SUFFICES ASSUME NEW t, SequencerOf(LastMessage', t), t.ended PROVE ~GapOpen(t)
    OBVIOUS
  <2>1. t.next >= t.known /\ t.next \in Nat /\ t.known \in Nat
    BY Fields DEF SequencerOf
  <2> DEFINE a == t.next  b == t.known
  <2> HIDE DEF a, b
  <2>2. ~(b > a)
    BY <2>1 DEF a, b
  <2> QED BY <2>2 DEF GapOpen, a, b
<1>4. socket \in Sockets /\ got \in BOOLEAN /\ left \in [Sockets -> Nat]
  BY <1>1 DEF TypeInv
<1>5. ASSUME NEW s \in Sockets, NEW d \in network[s], Arrive(s, d)
      PROVE  PolledInv'
  BY <1>1, <1>5 DEF PolledInv, Arrive, loopVars
<1>6. CASE Tick
  BY <1>1, <1>6 DEF PolledInv, Tick, loopVars
<1>7. CASE PollEmpty
  <2>1. /\ pc = "poll" /\ NextSocket /\ left' = [left EXCEPT ![socket] = 0]
        /\ got' = got /\ sequencer' = sequencer
    BY <1>7 DEF PollEmpty
  <2>2. /\ left'[socket] = 0
        /\ \A s \in Sockets : s # socket => left'[s] = left[s]
    BY <1>4, <2>1
  <2>3. ~got => \A s \in Sockets : s < socket => left[s] = 0
    BY <1>1, <2>1 DEF PolledInv
  <2>4. ~got => \A s \in Sockets : s <= socket => left'[s] = 0
    BY <1>4, <2>2, <2>3, SocketsAre
  <2>5. CASE socket + 1 \in Sockets
    <3>1. socket' = socket + 1 /\ pc' = "poll"
      BY <2>1, <2>5 DEF NextSocket
    <3>2. \A s \in Sockets : s < socket + 1 => s <= socket
      BY <1>4, SocketsAre
    <3> QED BY <2>1, <2>4, <3>1, <3>2 DEF PolledInv
  <2>6. CASE socket + 1 \notin Sockets
    <3>1. socket' = 1 /\ pc' = "timers"
      BY <2>1, <2>6 DEF NextSocket
    <3>2. \A s \in Sockets : s <= socket
      BY <1>4, <2>6, SocketsAre
    <3> QED BY <2>1, <2>4, <3>1, <3>2 DEF PolledInv
  <2> QED BY <2>5, <2>6
<1>8. CASE PollReceive
  <2>1. pc = "poll" /\ NextSocket /\ got' = TRUE
    BY <1>8 DEF PollReceive
  <2>2. pc' # "poll" => pc' = "timers" /\ socket' = 1
    BY <2>1 DEF NextSocket
  <2> QED BY <2>1, <2>2 DEF PolledInv
<1>9. CASE Timers
  <2>1. /\ pc = "timers" /\ got' = FALSE /\ socket' = socket /\ left' = left
        /\ pc' = IF IdleStop \/ sequencer'.ended THEN "closing" ELSE "poll"
    BY <1>9 DEF Timers
  <2>2. socket = 1 /\ (~got => \A s \in Sockets : left[s] = 0)
    BY <1>1, <2>1 DEF PolledInv
  <2>3. \A s \in Sockets : ~(s < 1)
    BY SocketsAre
  <2>4. ASSUME pc' = "closing", GapOpen(sequencer')
        PROVE  \A s \in Sockets : left'[s] = 0
    <3>1. ~sequencer'.ended
      BY <1>2, <1>3, <2>4
    <3>2. ~got
      BY <2>1, <2>4, <3>1 DEF IdleStop
    <3> QED BY <2>1, <2>2, <3>2
  <2>5. pc' \in {"poll", "closing"}
    BY <2>1
  <2> QED BY <2>1, <2>2, <2>3, <2>4, <2>5 DEF PolledInv, GapOpen
<1>10. CASE CloseGap
  BY <1>1, <1>10 DEF CloseGap, StillOpen, PolledInv
<1>11. CASE Exit
  BY <1>1, <1>11 DEF Exit, PolledInv
<1>12. CASE UNCHANGED vars
  BY <1>1, <1>12 DEF vars, loopVars, PolledInv, GapOpen
<1> QED BY <1>5, <1>6, <1>7, <1>8, <1>9, <1>10, <1>11, <1>12 DEF Next, Loop, Exited

LEMMA NextInv == Inv /\ [Next]_vars => Inv'
<1> SUFFICES ASSUME Inv, [Next]_vars PROVE Inv'
  OBVIOUS
<1>1. TypeInv' /\ SequencerOf(LastMessage, sequencer)' /\ PolledInv'
  BY NextTypeInv, NextSequencerOf, NextPolledInv DEF Inv
<1>2. (pc = "exited" => ~GapOpen(sequencer))'
  <2> SUFFICES ASSUME pc' = "exited" PROVE ~GapOpen(sequencer')
    BY DEF GapOpen
  <2>1. Exit \/ UNCHANGED vars
    BY DEF Next, Loop, Exited, Arrive, Tick, PollEmpty, PollReceive, NextSocket, Timers,
           CloseGap, loopVars
  <2>2. CASE Exit
    BY <2>2 DEF Exit, StillOpen
  <2>3. CASE UNCHANGED vars
    BY <2>3 DEF vars, loopVars, Inv
  <2> QED BY <2>1, <2>2, <2>3
<1> QED BY <1>1, <1>2 DEF Inv

LEMMA Invariant == Spec => []Inv
<1> QED BY InitInv, NextInv, PTL DEF Spec

(***************************************************************************)
(* The theorems.                                                           *)
(***************************************************************************)

\* Every variable keeps its type: what is sent, waits or is read is a packet of
\* the sender or garbage.
THEOREM TypeCorrect == Spec => []TypeInv
<1>1. Inv => TypeInv
  BY DEF Inv
<1> QED BY <1>1, Invariant, PTL

\* mold_recv's "A gap still open when the program stops is counted as lost", for
\* every session, whatever the network does to its packets.
THEOREM GapsCounted == Spec => []ExitCountsEveryGap
<1>1. Inv => ExitCountsEveryGap
  <2> SUFFICES ASSUME Inv, pc = "exited" PROVE ExitCountsEveryGap
    BY DEF ExitCountsEveryGap
  <2> DEFINE a == sequencer.next  k == sequencer.known
             l == Len(sequencer.delivered)  c == sequencer.lost
  <2>1. /\ a \in Nat /\ k \in Nat /\ l \in Nat /\ c \in Nat
        /\ c + l = a - 1 /\ ~(k > a)
    BY Fields DEF Inv, SequencerOf, GapOpen
  <2> HIDE DEF a, k, l, c
  <2>2. a - 1 = l + c /\ a >= k
    BY <2>1
  <2> QED BY <2>2 DEF ExitCountsEveryGap, a, k, l, c
<1> QED BY <1>1, Invariant, PTL

\* The end of the session is not reported before every message of the sender
\* was delivered or given up.
THEOREM EndedWhenAllDone == Spec => []EndedMeansAllAccounted
<1>1. Inv => EndedMeansAllAccounted
  <2> SUFFICES ASSUME Inv, sequencer.ended PROVE sequencer.next = LastMessage + 1
    BY DEF EndedMeansAllAccounted
  <2> DEFINE a == sequencer.next  k == sequencer.known  n == LastMessage
  <2>1. n \in Nat
    BY SentIs DEF Inv, TypeInv
  <2>2. /\ a \in 1..MaxNumber /\ k \in Nat /\ (a = 1 \/ a <= k)
        /\ k = n + 1 /\ a >= k
    BY Fields DEF Inv, SequencerOf
  <2> HIDE DEF a, k, n
  <2>3. a = n + 1
    BY <2>1, <2>2
  <2> QED BY <2>3 DEF a, n
<1> QED BY <1>1, Invariant, PTL

-----------------------------------------------------------------------------
(* What is given up.                                                       *)

\* What is lost is counted from what was delivered.
LostOf(s) == (1..(s.next - 1)) \ {s.delivered[i].number : i \in 1..Len(s.delivered)}

LEMMA LostNumbersAre ==
  ASSUME S!Good(sequencer)
  PROVE  LostNumbers = LostOf(sequencer)
<1> DEFINE d == sequencer.delivered
<1>1. d \in Seq(S!Delivered)
  BY DEF S!Good, S!States
<1>2. DOMAIN d = 1..Len(d)
  BY <1>1
<1> HIDE DEF d
<1>3. Range([i \in DOMAIN d |-> d[i].number]) = {d[i].number : i \in 1..Len(d)}
  BY <1>2 DEF Range
<1> QED BY <1>3 DEF LostNumbers, NumbersDelivered, LostOf, d

\* A call that counts nothing as lost goes past nothing that it does not deliver.
LEMMA NoneGoneUncounted ==
  ASSUME NEW s, S!Good(s), NEW t, S!Good(t), NEW new, S!Steps(s, t, new),
         t.lost = s.lost
  PROVE  LostOf(t) \subseteq LostOf(s)
<1> SUFFICES ASSUME NEW m \in LostOf(t) PROVE m \in LostOf(s)
  OBVIOUS
<1>1. PICK r \in S!States : S!Skips(s, r) /\ S!Moves(r, t, new)
  BY DEF S!Steps
<1> DEFINE a == s.next  b == r.next  c == t.next  k == s.lost  l == Len(s.delivered)
<1>2. /\ a \in Nat /\ a >= 1 /\ c \in Nat /\ k \in Nat /\ l \in Nat /\ b \in Nat
      /\ Len(t.delivered) \in Nat
  <2>1. b \in Nat
    BY <1>1, Instance, S!StateFields
  <2>2. a \in 1..MaxNumber
    BY Fields
  <2>3. a >= 1
    BY <2>2
  <2> QED BY <2>1, <2>3, Fields
<1>3. /\ b >= a /\ t.lost = k + (b - a) /\ r.delivered = s.delivered
      /\ c >= b /\ Len(t.delivered) = l + (c - b)
      /\ \A i \in 1..l : t.delivered[i] = s.delivered[i]
      /\ \A i \in 1..(c - b) :
           t.delivered[l + i] = [session |-> r.session, number |-> b + i - 1]
  BY <1>1 DEF S!Skips, S!Moves
<1>4. /\ m \in 1..(c - 1)
      /\ \A i \in 1..Len(t.delivered) : m # t.delivered[i].number
  BY DEF LostOf
<1> HIDE DEF a, b, c, k, l
<1>5. a = b
  <2>1. k = k + (b - a)
    BY <1>3 DEF k
  <2> QED BY <1>2, <2>1
<1>6. m < a
  <2> SUFFICES ASSUME m >= a PROVE FALSE
    BY <1>2, <1>4
  <2> DEFINE i == m - b + 1
  <2>1. i \in 1..(c - b) /\ l + i \in 1..Len(t.delivered) /\ b + i - 1 = m
    BY <1>2, <1>3, <1>4, <1>5
  <2> HIDE DEF i
  <2>2. t.delivered[l + i] = [session |-> r.session, number |-> b + i - 1]
    BY <1>3, <2>1
  <2>3. t.delivered[l + i].number = b + i - 1
    BY <2>2
  <2> QED BY <1>4, <2>1, <2>3
<1>7. \A i \in 1..l : m # s.delivered[i].number
  <2>1. \A i \in 1..l : i \in 1..Len(t.delivered)
    BY <1>2, <1>3
  <2> QED BY <1>3, <1>4, <2>1
<1>8. m \in 1..(a - 1)
  BY <1>2, <1>4, <1>6
<1> QED BY <1>7, <1>8 DEF LostOf, a, l

\* What a packet does that the receiver reads.
LEMMA ReceivedIs ==
  ASSUME Inv, PollReceive, Head(queue[socket]) # Garbage
  PROVE  LET p == Head(queue[socket])
         IN /\ S!Steps(sequencer, sequencer', S!NumbersOf(p))
            /\ ~Overflow => sequencer'.lost = sequencer.lost
<1> DEFINE p == Head(queue[socket])  s == sequencer  t == OnPacket(s, p)
<1>1. p \in SentPackets(LastMessage) /\ TypeInv
  BY Receives DEF PollReceive, Waiting, Inv, TypeInv
<1>2. LastMessage \in Nat /\ LastMessage < MaxNumber
  BY <1>1, SentIs DEF TypeInv
<1>3. sequencer' = t
  BY DEF PollReceive
<1>4. S!Good(s) /\ S!Drained(s) /\ Len(s.held) <= MaxHeld
  BY DEF Inv, SequencerOf
<1>5. p \in S!PacketsOf({Session}) /\ S!Decodes(p) /\ p.session = Session
  BY <1>1, <1>2, SentDecodes
<1>6. S!Accepts(s, p)
  BY <1>4, <1>5, Fields DEF S!Accepts
<1>7. S!Steps(s, t, S!NumbersOf(p))
  BY <1>4, <1>5, <1>6, Instance, SameOnPacket, S!OnPacketCorrect
<1>8. ASSUME ~Overflow PROVE t.lost = s.lost
  <2>1. S!Messages(p) = 0 \/ Len(s.held) < MaxHeld \/ ~(p.sequence > s.next)
    <3> DEFINE l == Len(s.held)
    <3>1. l \in Nat /\ MaxHeld \in Nat
      BY <1>4, Fields
    <3>2. S!Messages(p) = 0 \/ ~(l >= MaxHeld) \/ ~(p.sequence > s.next)
      BY <1>8, SamePacket DEF Overflow
    <3> HIDE DEF l
    <3>3. l < MaxHeld \/ l >= MaxHeld
      BY <3>1
    <3> QED BY <3>2, <3>3 DEF l
  <2> HIDE DEF p, s
  <2> QED BY <1>4, <1>5, <1>6, <2>1, Instance, SameOnPacket, S!OnPacketKeepsLost, ZenonT(60)
<1> HIDE DEF p, t
<1> QED BY <1>3, <1>7, <1>8 DEF p

\* Only when no queue holds anything does the loop give up a gap; a packet that
\* finds the hold buffer full may have one given up too.
LEMMA LosesIs ==
  ASSUME Inv, Inv', [Next]_vars
  PROVE  \/ \A s \in Sockets : left[s] = 0
         \/ LostNumbers' \subseteq LostNumbers
         \/ Overflow
<1>1. LostNumbers = LostOf(sequencer) /\ LostNumbers' = LostOf(sequencer')
  <2>1. S!Good(sequencer) /\ S!Good(sequencer)'
    BY DEF Inv, SequencerOf
  <2>2. LostNumbers = LostOf(sequencer)
    BY <2>1, LostNumbersAre
  <2>3. (S!Good(sequencer) => LostNumbers = LostOf(sequencer))'
    BY LostNumbersAre, PTL
  <2> QED BY <2>1, <2>2, <2>3 DEF LostOf
<1>2. sequencer' = sequencer => LostNumbers' \subseteq LostNumbers
  BY <1>1
<1>3. CASE PollReceive /\ ~Overflow
  <2>1. CASE Head(queue[socket]) = Garbage
    BY <1>2, <1>3, <2>1 DEF PollReceive
  <2>2. CASE Head(queue[socket]) # Garbage
    <3> DEFINE s == sequencer  t == sequencer'  new == S!NumbersOf(Head(queue[socket]))
    <3>1. S!Steps(s, t, new) /\ t.lost = s.lost
      BY <1>3, <2>2, ReceivedIs
    <3>2. S!Good(s) /\ S!Good(t)
      BY DEF Inv, SequencerOf
    <3> HIDE DEF s, t, new
    <3>3. LostOf(t) \subseteq LostOf(s)
      BY <3>1, <3>2, NoneGoneUncounted
    <3> QED BY <1>1, <3>3 DEF s, t
  <2> QED BY <2>1, <2>2
<1>4. CASE Timers
  <2>1. sequencer' = sequencer \/ GiveUpDue
    BY <1>4 DEF Timers, GapTimer
  <2>2. GiveUpDue => \A s \in Sockets : left[s] = 0
    BY <1>4 DEF GiveUpDue, Timers, Inv, PolledInv
  <2> QED BY <1>2, <2>1, <2>2
<1>5. CASE CloseGap
  BY <1>5 DEF CloseGap, StillOpen, Inv, PolledInv
<1>6. ASSUME NEW s \in Sockets, NEW d \in network[s], Arrive(s, d)
      PROVE  sequencer' = sequencer
  BY <1>6 DEF Arrive, loopVars
<1>7. Tick \/ PollEmpty \/ Exit \/ UNCHANGED vars => sequencer' = sequencer
  BY DEF Tick, PollEmpty, Exit, vars, loopVars
<1> QED BY <1>2, <1>3, <1>4, <1>5, <1>6, <1>7 DEF Next, Loop, Exited

LEMMA KeepsUnread ==
  ASSUME \/ \A s \in Sockets : left[s] = 0
         \/ LostNumbers' \subseteq LostNumbers
  PROVE  LosesNoneUnread
<1>1. CASE \A s \in Sockets : left[s] = 0
  BY <1>1 DEF LosesNoneUnread
<1>2. CASE LostNumbers' \subseteq LostNumbers
  <2>1. LostNumbers' \ LostNumbers = {}
    BY <1>2
  <2> HIDE DEF LostNumbers
  <2> QED BY <2>1 DEF LosesNoneUnread
<1> QED BY <1>1, <1>2

\* The one step of mold_recv that counts a message as lost that lies unread in a
\* socket is a packet that the hold buffer has no room for: never a packet that
\* fits, nor a timer, nor the end.
THEOREM OnlyOverflowLosesUnread == Spec => [][LosesNoneUnread \/ Overflow]_vars
<1>1. Inv /\ Inv' /\ [Next]_vars => [LosesNoneUnread \/ Overflow]_vars
  BY LosesIs, KeepsUnread
<1> QED BY <1>1, Invariant, PTL DEF Spec

\* "Only with every socket drained": whatever the loop itself gives up, on the
\* timer or as it closes, lies unread in no socket.
THEOREM LoopDrainsFirst == Spec => NoneLostUnread
<1>1. Inv /\ Inv' /\ [Next]_vars => [Timers \/ CloseGap => LosesNoneUnread]_vars
  <2> SUFFICES ASSUME Inv, Inv', [Next]_vars, Timers \/ CloseGap
               PROVE  LosesNoneUnread
    OBVIOUS
  <2>1. ~Overflow
    BY DEF Timers, CloseGap, Overflow, PollReceive
  <2> QED BY <2>1, LosesIs, KeepsUnread
<1> QED BY <1>1, Invariant, PTL DEF Spec, NoneLostUnread

-----------------------------------------------------------------------------
(* What an exit without losses says of the messages.                       *)

\* n increasing numbers from 1 to n are all of them.
LEMMA AllNumbers ==
  ASSUME NEW n \in Nat, NEW d, \A i \in 1..n : d[i] \in 1..n,
         \A i, j \in 1..n : i < j => d[i] < d[j]
  PROVE  \A i \in 1..n : d[i] = i
<1> DEFINE Low == {k \in Nat : k \in 1..n => d[k] >= k}
           High == {k \in Nat : k < n => d[n - k] <= n - k}
<1>1. \A k \in Nat : k \in Low
  <2>1. 0 \in Low
    OBVIOUS
  <2>2. ASSUME NEW k \in Nat, k \in Low PROVE k + 1 \in Low
    <3> SUFFICES ASSUME k + 1 \in 1..n PROVE d[k + 1] >= k + 1
      OBVIOUS
    <3>1. d[k + 1] \in 1..n
      OBVIOUS
    <3>2. CASE k = 0
      BY <3>1, <3>2
    <3>3. CASE k # 0
      <4>1. k \in 1..n /\ d[k] \in 1..n /\ d[k] >= k /\ d[k] < d[k + 1]
        BY <2>2, <3>3
      <4> QED BY <3>1, <4>1
    <3> QED BY <3>2, <3>3
  <2> HIDE DEF Low
  <2> QED BY <2>1, <2>2, Induction
<1>2. \A k \in Nat : k \in High
  <2>1. 0 \in High
    OBVIOUS
  <2>2. ASSUME NEW k \in Nat, k \in High PROVE k + 1 \in High
    <3> SUFFICES ASSUME k + 1 < n PROVE d[n - (k + 1)] <= n - (k + 1)
      OBVIOUS
    <3>1. /\ n - (k + 1) \in 1..n /\ n - k \in 1..n /\ n - (k + 1) < n - k
          /\ d[n - k] <= n - k
      BY <2>2
    <3>2. d[n - (k + 1)] < d[n - k] /\ d[n - k] \in 1..n /\ d[n - (k + 1)] \in 1..n
      BY <3>1
    <3> DEFINE a == d[n - (k + 1)]  b == d[n - k]
    <3> HIDE DEF a, b
    <3>3. a \in Nat /\ b \in Nat /\ a < b /\ b <= n - k
      BY <3>1, <3>2 DEF a, b
    <3>4. a <= n - (k + 1)
      BY <3>3
    <3> QED BY <3>4 DEF a
  <2> HIDE DEF High
  <2> QED BY <2>1, <2>2, Induction
<1> TAKE i \in 1..n
<1>3. i \in Low /\ n - i \in Nat /\ n - i \in High
  BY <1>1, <1>2
<1>4. n - i < n /\ n - (n - i) = i
  OBVIOUS
<1>5. d[i] >= i /\ d[i] <= i /\ d[i] \in 1..n
  BY <1>3, <1>4
<1> QED BY <1>5

\* Of a session that ended nothing is lost if and only if all was delivered.
LEMMA NoneLostIsAll ==
  ASSUME Inv, sequencer.ended
  PROVE  sequencer.lost = 0 <=> NumbersDelivered = [i \in 1..LastMessage |-> i]
<1> DEFINE n == LastMessage  d == sequencer.delivered  k == sequencer.lost
           a == sequencer.next
<1>1. n \in Nat /\ k \in Nat /\ Len(d) \in Nat /\ d \in Seq(S!Delivered)
  BY SentIs, Fields DEF Inv, TypeInv, SequencerOf, S!Good, S!States
<1>2. a = n + 1 /\ k + Len(d) = a - 1
  <2>1. /\ a \in 1..MaxNumber /\ sequencer.known \in Nat /\ (a = 1 \/ a <= sequencer.known)
        /\ sequencer.known = n + 1 /\ a >= sequencer.known /\ k + Len(d) = a - 1
    BY Fields DEF Inv, SequencerOf
  <2> DEFINE b == sequencer.known
  <2> HIDE DEF a, b, n
  <2>2. a = n + 1
    BY <1>1, <2>1 DEF b
  <2> QED BY <2>1, <2>2 DEF a
<1>3. \A i \in 1..Len(d) : d[i].number \in Nat /\ d[i].number >= 1 /\ d[i].number < a
  <2> SUFFICES ASSUME NEW i \in 1..Len(d)
               PROVE  d[i].number \in Nat /\ d[i].number >= 1 /\ d[i].number < a
    OBVIOUS
  <2>1. d[i] \in S!Delivered
    BY <1>1
  <2>2. d[i].number \in 1..MaxNumber
    BY <2>1 DEF S!Delivered
  <2>3. d[i].number < a
    BY DEF Inv, SequencerOf, S!Good
  <2> QED BY <2>2, <2>3
<1>4. \A i, j \in 1..Len(d) : i < j => d[i].number < d[j].number
  BY DEF Inv, SequencerOf, S!Good
<1>5. DOMAIN d = 1..Len(d) /\ NumbersDelivered = [i \in 1..Len(d) |-> d[i].number]
  BY <1>1 DEF NumbersDelivered
<1> HIDE DEF n, d, k, a
<1>6. k + Len(d) = n
  BY <1>1, <1>2
<1>7. ASSUME k = 0 PROVE [i \in 1..Len(d) |-> d[i].number] = [i \in 1..n |-> i]
  <2>1. Len(d) = n
    BY <1>1, <1>6, <1>7
  <2> DEFINE e == [i \in 1..n |-> d[i].number]
  <2>2. \A i \in 1..n : e[i] \in 1..n
    BY <1>1, <1>2, <1>3, <2>1
  <2>3. \A i, j \in 1..n : i < j => e[i] < e[j]
    BY <1>4, <2>1
  <2>4. \A i \in 1..n : e[i] = i
    <3> HIDE DEF e
    <3> QED BY <1>1, <2>2, <2>3, AllNumbers
  <2> QED BY <2>1, <2>4
<1>8. ASSUME [i \in 1..Len(d) |-> d[i].number] = [i \in 1..n |-> i] PROVE k = 0
  <2>1. 1..Len(d) = 1..n
    BY <1>8
  <2>2. Len(d) = n
    BY <1>1, <2>1
  <2> QED BY <1>1, <1>6, <2>2
<1> QED BY <1>5, <1>7, <1>8 DEF n, k

-----------------------------------------------------------------------------
(* The books.  Of the builder only orders, slots, index and two counters   *)
(* matter here, whatever the levels and links.                             *)

BuilderFields ==
  {"books", "orders", "acquired", "index", "liveOrders", "marketOpen",
   "tradingState", "lastPrice", "symbols", "crossedByLocate", "told", "stats"}

OrderFields == {"ref", "price", "shares", "locate", "side", "prev", "next"}

CounterNames ==
  {"unknownRefs", "duplicateRefs", "overExecutions",
   "crossedDuringMarket", "crossedWhileTrading"}

AreOrders(memory) ==
  /\ DOMAIN memory = 1..Room
  /\ \A s \in 1..Room : DOMAIN memory[s] = OrderFields

Shaped(b) ==
  /\ DOMAIN b = BuilderFields /\ DOMAIN b.stats = CounterNames
  /\ AreOrders(b.orders)
  /\ b.stats.unknownRefs \in Nat /\ b.stats.overExecutions \in Nat

\* The index finds the slot of each live order, and no other slot is handed out.
Tracked(b) ==
  /\ b.acquired \subseteq 1..Room /\ DOMAIN b.index \subseteq Refs
  /\ \A ref \in DOMAIN b.index :
       /\ b.index[ref] \in b.acquired /\ b.orders[b.index[ref]].ref = ref
       /\ b.orders[b.index[ref]].shares \in Nat
       /\ b.orders[b.index[ref]].side \in {"Bid", "Ask"}
  /\ \A s \in b.acquired :
       b.orders[s].ref \in DOMAIN b.index /\ b.index[b.orders[s].ref] = s

Sound(b) == Shaped(b) /\ Tracked(b)

\* Two states of the builder that differ in neither orders nor those counters.
Alike(a, b) ==
  /\ DOMAIN b = BuilderFields /\ DOMAIN b.stats = CounterNames
  /\ a.orders = b.orders /\ a.acquired = b.acquired /\ a.index = b.index
  /\ a.stats.unknownRefs = b.stats.unknownRefs
  /\ a.stats.overExecutions = b.stats.overExecutions

SameCounts(a, b) ==
  /\ a.stats.unknownRefs = b.stats.unknownRefs
  /\ a.stats.overExecutions = b.stats.overExecutions

LEMMA AlikeSound ==
  ASSUME NEW a, NEW b, Alike(a, b), Sound(a)
  PROVE  Sound(b) /\ Books!OrdersIn(b) = Books!OrdersIn(a) /\ SameCounts(a, b)
<1>1. Shaped(b)
  BY DEF Alike, Sound, Shaped
<1>2. Tracked(b)
  BY DEF Alike, Sound, Tracked
<1>3. Books!OrdersIn(b) = Books!OrdersIn(a)
  BY DEF Alike, Books!OrdersIn
<1> QED BY <1>1, <1>2, <1>3 DEF Sound, Alike, SameCounts

LEMMA ChangeBookAlike ==
  ASSUME NEW before, NEW after, NEW l, Sound(after)
  PROVE  Alike(after, Books!ChangeBook(before, after, l))
  BY DEF Books!ChangeBook, Alike, Sound, Shaped, BuilderFields

LEMMA CountCrossingAlike ==
  ASSUME NEW before, NEW after, NEW l, Shaped(after)
  PROVE  Alike(after, Books!CountCrossing(before, after, l))
<1> DEFINE counted == [after EXCEPT
          !.crossedByLocate[l] = @ + 1,
          !.stats.crossedDuringMarket = @ + 1,
          !.stats.crossedWhileTrading =
            @ + (IF before.tradingState[l] = "T" THEN 1 ELSE 0)]
<1>1. Alike(after, counted)
  BY DEF Alike, Shaped, BuilderFields, CounterNames
<1>2. Alike(after, after)
  BY DEF Alike, Shaped
<1> HIDE DEF counted
<1>3. \/ Books!CountCrossing(before, after, l) = counted
      \/ Books!CountCrossing(before, after, l) = after
  BY DEF Books!CountCrossing, counted
<1> QED BY <1>1, <1>2, <1>3

SameOrders(m, n) ==
  /\ AreOrders(n)
  /\ \A s \in 1..Room :
       n[s].ref = m[s].ref /\ n[s].side = m[s].side /\ n[s].price = m[s].price

LEMMA EnqueueKeepsOrders ==
  ASSUME NEW m, AreOrders(m), NEW levels, NEW o \in 1..Room
  PROVE  LET n == Books!Enqueue(levels, m, o).orders
         IN SameOrders(m, n) /\ \A s \in 1..Room : n[s].shares = m[s].shares
  BY DEF AreOrders, OrderFields, SameOrders, Books!Enqueue

LEMMA UnlinkKeepsOrders ==
  ASSUME NEW m, AreOrders(m), NEW levels, NEW o \in 1..Room
  PROVE  LET n == Books!Unlink(levels, m, o).orders
         IN SameOrders(m, n) /\ \A s \in 1..Room : n[s].shares = m[s].shares
  BY DEF AreOrders, OrderFields, SameOrders, Books!Unlink

LEMMA ReduceKeepsOrders ==
  ASSUME NEW m, AreOrders(m), NEW levels, NEW o \in 1..Room, NEW shares
  PROVE  LET n == Books!Reduce(levels, m, o, shares).orders
         IN /\ SameOrders(m, n) /\ n[o].shares = m[o].shares - shares
            /\ \A s \in 1..Room : s # o => n[s].shares = m[s].shares
  BY DEF AreOrders, OrderFields, SameOrders, Books!Reduce

LEMMA BlankIsAnOrder == DOMAIN Books!Blank = OrderFields
  BY DEF Books!Blank, OrderFields

\* One order changes altogether.
LEMMA OneOrderChanges ==
  ASSUME NEW m, AreOrders(m), NEW o \in 1..Room, NEW order, DOMAIN order = OrderFields
  PROVE  /\ AreOrders([m EXCEPT ![o] = order])
         /\ [m EXCEPT ![o] = order][o] = order
         /\ \A s \in 1..Room : s # o => [m EXCEPT ![o] = order][s] = m[s]
  BY DEF AreOrders

\* Live orders have references of their own: there is a slot for one more.
LEMMA SlotIsFree ==
  ASSUME NEW b, Sound(b)
  PROVE  \E s \in 1..Room : s \notin b.acquired
<1> DEFINE f == [s \in b.acquired |-> b.orders[s].ref]
<1>1. f \in Injection(b.acquired, Refs)
  <2>1. f \in [b.acquired -> Refs]
    BY DEF Sound, Tracked
  <2>2. \A s, t \in b.acquired : f[s] = f[t] => s = t
    BY DEF Sound, Tracked
  <2> QED BY <2>1, <2>2, Fun_IsInj
<1>2. Cardinality(b.acquired) <= Cardinality(Refs)
  BY <1>1, RoomForAll, FS_Injection
<1>3. Cardinality(1..Room) = Room /\ Room \in Nat /\ Cardinality(Refs) \in Nat
  <2>1. Cardinality(1..Room) = IF 1 > Room THEN 0 ELSE Room - 1 + 1
    BY RoomForAll, FS_Interval
  <2> QED BY <2>1, RoomForAll, FS_CardinalityType
<1>4. Cardinality(b.acquired) \in Nat
  <2>1. IsFiniteSet(1..Room)
    BY RoomForAll, FS_Interval
  <2>2. IsFiniteSet(b.acquired)
    BY <2>1, FS_Subset DEF Sound, Tracked
  <2> QED BY <2>2, FS_CardinalityType
<1>5. b.acquired # 1..Room
  BY <1>2, <1>3, <1>4, RoomForAll
<1> QED BY <1>5 DEF Sound, Tracked

\* What the books show of an order.
Shown(order) ==
  [side |-> IF order.side = "Bid" THEN "B" ELSE "S", price |-> order.price,
   shares |-> order.shares]

LEMMA OrdersInIs ==
  ASSUME NEW b
  PROVE  /\ DOMAIN Books!OrdersIn(b) = DOMAIN b.index
         /\ \A ref \in DOMAIN b.index :
              Books!OrdersIn(b)[ref] = Shown(b.orders[b.index[ref]])
  BY DEF Books!OrdersIn, Shown

\* An order entered is shown with the others, unless its reference is live.
LEMMA AddOrderIs ==
  ASSUME NEW b, Sound(b), NEW l, NEW side \in {"Bid", "Ask"}, NEW ref \in Refs,
         NEW shares \in Nat, NEW price
  PROVE  LET r == Books!AddOrder(b, l, side, ref, shares, price)
             entry == [side |-> IF side = "Bid" THEN "B" ELSE "S", price |-> price,
                       shares |-> shares]
         IN /\ Sound(r) /\ SameCounts(b, r)
            /\ Books!OrdersIn(r) = IF ref \in DOMAIN b.index THEN Books!OrdersIn(b)
                                   ELSE With(Books!OrdersIn(b), ref, entry)
<1> DEFINE slot == CHOOSE s \in Books!FreeSlots(b) : TRUE
           new == [Books!Blank EXCEPT !.ref = ref, !.price = price, !.shares = shares,
                                      !.locate = l, !.side = side]
           memory == [b.orders EXCEPT ![slot] = new]
           placed == Books!Enqueue(b.books[l][side], memory, slot)
           added == [b EXCEPT !.books[l][side] = placed.levels,
                              !.orders = placed.orders,
                              !.acquired = @ \cup {slot},
                              !.index = Books!WithEntry(@, ref, slot),
                              !.liveOrders = @ + 1]
           refused == [b EXCEPT !.stats.duplicateRefs = @ + 1]
           r == Books!AddOrder(b, l, side, ref, shares, price)
           entry == [side |-> IF side = "Bid" THEN "B" ELSE "S", price |-> price,
                     shares |-> shares]
<1>1. CASE ref \in DOMAIN b.index
  <2>1. r = refused
    BY <1>1 DEF Books!AddOrder, Books!Refused, Books!IsLive
  <2>2. Alike(b, refused)
    BY DEF Alike, Sound, Shaped, BuilderFields, CounterNames
  <2> HIDE DEF refused, r
  <2>3. Sound(r) /\ Books!OrdersIn(r) = Books!OrdersIn(b) /\ SameCounts(b, r)
    BY <2>1, <2>2, AlikeSound
  <2> QED BY <1>1, <2>3 DEF r
<1>2. CASE ref \notin DOMAIN b.index
  <2>1. r = Books!CountCrossing(b, added, l)
    BY <1>2, RoomForAll DEF Books!AddOrder, Books!Refused, Books!IsLive
  <2>2. slot \in 1..Room /\ slot \notin b.acquired
    BY SlotIsFree DEF Books!FreeSlots
  <2>3. /\ DOMAIN new = OrderFields /\ new.ref = ref /\ new.side = side
        /\ new.price = price /\ new.shares = shares
    BY DEF Books!Blank, OrderFields
  <2>4. /\ AreOrders(memory) /\ memory[slot] = new
        /\ \A s \in 1..Room : s # slot => memory[s] = b.orders[s]
    <3> HIDE DEF slot, new
    <3> QED BY <2>2, <2>3, OneOrderChanges DEF Sound, Shaped
  <2> HIDE DEF slot, new, memory
  <2>5. /\ SameOrders(memory, placed.orders)
        /\ \A s \in 1..Room : placed.orders[s].shares = memory[s].shares
    BY <2>2, <2>4, EnqueueKeepsOrders
  <2> HIDE DEF placed
  <2>6. /\ DOMAIN added = BuilderFields /\ added.stats = b.stats
        /\ added.orders = placed.orders
        /\ added.acquired = b.acquired \cup {slot}
        /\ added.index = Books!WithEntry(b.index, ref, slot)
    BY DEF Sound, Shaped, BuilderFields
  <2> HIDE DEF added
  <2>7. Shaped(added) /\ SameCounts(b, added)
    BY <2>5, <2>6 DEF Shaped, Sound, SameOrders, SameCounts
  <2>8. /\ DOMAIN added.index = DOMAIN b.index \cup {ref} /\ added.index[ref] = slot
        /\ \A n \in DOMAIN b.index : added.index[n] = b.index[n]
    BY <1>2, <2>6 DEF Books!WithEntry
  <2>9. /\ added.orders[slot].ref = ref /\ added.orders[slot].side = side
        /\ added.orders[slot].price = price /\ added.orders[slot].shares = shares
    BY <2>2, <2>3, <2>4, <2>5, <2>6 DEF SameOrders
  <2>10. \A s \in b.acquired : /\ added.orders[s].ref = b.orders[s].ref
                               /\ added.orders[s].side = b.orders[s].side
                               /\ added.orders[s].price = b.orders[s].price
                               /\ added.orders[s].shares = b.orders[s].shares
    BY <2>2, <2>4, <2>5, <2>6 DEF SameOrders, Sound, Tracked
  <2>11. Tracked(added)
    <3>1. added.acquired \subseteq 1..Room /\ DOMAIN added.index \subseteq Refs
      BY <2>2, <2>6, <2>8 DEF Sound, Tracked
    <3>2. \A n \in DOMAIN added.index :
            /\ added.index[n] \in added.acquired /\ added.orders[added.index[n]].ref = n
            /\ added.orders[added.index[n]].shares \in Nat
            /\ added.orders[added.index[n]].side \in {"Bid", "Ask"}
      BY <2>6, <2>8, <2>9, <2>10 DEF Sound, Tracked
    <3>3. \A s \in added.acquired : /\ added.orders[s].ref \in DOMAIN added.index
                                    /\ added.index[added.orders[s].ref] = s
      BY <2>6, <2>8, <2>9, <2>10 DEF Sound, Tracked
    <3> QED BY <3>1, <3>2, <3>3 DEF Tracked
  <2>12. Books!OrdersIn(added) = With(Books!OrdersIn(b), ref, entry)
    <3>1. \A n \in DOMAIN b.index :
            Shown(added.orders[added.index[n]]) = Shown(b.orders[b.index[n]])
      BY <2>8, <2>10 DEF Shown, Sound, Tracked
    <3>2. Shown(added.orders[added.index[ref]]) = entry
      BY <2>8, <2>9 DEF Shown
    <3>3. Books!OrdersIn(added) =
            [n \in DOMAIN added.index |-> Shown(added.orders[added.index[n]])]
      BY DEF Books!OrdersIn, Shown
    <3>4. Books!OrdersIn(b) = [n \in DOMAIN b.index |-> Shown(b.orders[b.index[n]])]
      BY DEF Books!OrdersIn, Shown
    <3> HIDE DEF entry
    <3> QED BY <1>2, <2>8, <3>1, <3>2, <3>3, <3>4 DEF With
  <2>13. Alike(added, r)
    BY <2>1, <2>7, CountCrossingAlike
  <2> HIDE DEF r, entry
  <2>14. Sound(r) /\ Books!OrdersIn(r) = Books!OrdersIn(added) /\ SameCounts(added, r)
    BY <2>7, <2>11, <2>13, AlikeSound DEF Sound
  <2>15. SameCounts(b, r)
    BY <2>7, <2>14 DEF SameCounts
  <2> QED BY <1>2, <2>12, <2>14, <2>15 DEF r, entry
<1> QED BY <1>1, <1>2

\* An order removed is shown no longer.
LEMMA RemoveOrderIs ==
  ASSUME NEW b, Sound(b), NEW o \in b.acquired
  PROVE  LET r == Books!RemoveOrder(b, o)
             ref == b.orders[o].ref
         IN /\ Sound(r) /\ SameCounts(b, r) /\ DOMAIN r.index = DOMAIN b.index \ {ref}
            /\ Books!OrdersIn(r) = Restrict(Books!OrdersIn(b), DOMAIN b.index \ {ref})
<1> DEFINE order == b.orders[o]
           ref == order.ref
           rest == Books!Unlink(b.books[order.locate][order.side], b.orders, o)
           memory == [rest.orders EXCEPT ![o] = Books!Blank]
           r == Books!RemoveOrder(b, o)
<1>1. o \in 1..Room /\ ref \in DOMAIN b.index /\ b.index[ref] = o
  BY DEF Sound, Tracked
<1>2. /\ SameOrders(b.orders, rest.orders)
      /\ \A s \in 1..Room : rest.orders[s].shares = b.orders[s].shares
  <2> DEFINE m == b.orders  levels == b.books[order.locate][order.side]
  <2>1. AreOrders(m)
    BY DEF Sound, Shaped
  <2>2. rest.orders = Books!Unlink(levels, m, o).orders
    OBVIOUS
  <2> HIDE DEF m, levels, rest
  <2>3. LET n == Books!Unlink(levels, m, o).orders
        IN SameOrders(m, n) /\ \A s \in 1..Room : n[s].shares = m[s].shares
    BY <1>1, <2>1, UnlinkKeepsOrders
  <2> QED BY <2>2, <2>3 DEF m
<1> HIDE DEF rest
<1>3. AreOrders(memory) /\ \A s \in 1..Room : s # o => memory[s] = rest.orders[s]
  BY <1>1, <1>2, BlankIsAnOrder, OneOrderChanges DEF SameOrders
<1>4. /\ DOMAIN r = BuilderFields /\ r.stats = b.stats
      /\ r.orders = memory /\ r.acquired = b.acquired \ {o}
      /\ r.index = Restrict(b.index, DOMAIN b.index \ {order.ref})
  BY DEF Books!RemoveOrder, Books!Release, Books!Restrict, Restrict,
         Sound, Shaped, BuilderFields, rest
<1> HIDE DEF r, memory
<1>5. Shaped(r) /\ SameCounts(b, r)
  BY <1>3, <1>4 DEF Shaped, Sound, SameCounts
<1>6. /\ DOMAIN r.index = DOMAIN b.index \ {ref}
      /\ \A n \in DOMAIN r.index : r.index[n] = b.index[n]
  BY <1>1, <1>4 DEF Restrict
<1>7. \A s \in r.acquired : /\ s \in b.acquired /\ s # o
                            /\ r.orders[s].ref = b.orders[s].ref
                            /\ r.orders[s].side = b.orders[s].side
                            /\ r.orders[s].price = b.orders[s].price
                            /\ r.orders[s].shares = b.orders[s].shares
  BY <1>2, <1>3, <1>4 DEF SameOrders, Sound, Tracked
<1>8. \A n \in DOMAIN r.index : /\ n \in DOMAIN b.index /\ n # ref
                                /\ r.index[n] = b.index[n] /\ b.index[n] \in b.acquired
                                /\ b.orders[b.index[n]].ref = n /\ b.index[n] # o
                                /\ b.index[n] \in r.acquired
  BY <1>1, <1>4, <1>6 DEF Sound, Tracked
<1>9. Tracked(r)
  <2>1. r.acquired \subseteq 1..Room /\ DOMAIN r.index \subseteq Refs
    BY <1>4, <1>6 DEF Sound, Tracked
  <2>2. \A n \in DOMAIN r.index :
          /\ r.index[n] \in r.acquired /\ r.orders[r.index[n]].ref = n
          /\ r.orders[r.index[n]].shares \in Nat
          /\ r.orders[r.index[n]].side \in {"Bid", "Ask"}
    BY <1>7, <1>8 DEF Sound, Tracked
  <2>3. \A s \in r.acquired : /\ r.orders[s].ref \in DOMAIN r.index
                              /\ r.index[r.orders[s].ref] = s
    BY <1>1, <1>6, <1>7 DEF Sound, Tracked
  <2> QED BY <2>1, <2>2, <2>3 DEF Tracked
<1>10. Books!OrdersIn(r) = Restrict(Books!OrdersIn(b), DOMAIN b.index \ {ref})
  <2>1. \A n \in DOMAIN r.index :
          Shown(r.orders[r.index[n]]) = Shown(b.orders[b.index[n]])
    BY <1>7, <1>8 DEF Shown
  <2>2. Books!OrdersIn(r) = [n \in DOMAIN r.index |-> Shown(r.orders[r.index[n]])]
    BY DEF Books!OrdersIn, Shown
  <2>3. Books!OrdersIn(b) = [n \in DOMAIN b.index |-> Shown(b.orders[b.index[n]])]
    BY DEF Books!OrdersIn, Shown
  <2> QED BY <1>6, <2>1, <2>2, <2>3 DEF Restrict
<1> QED BY <1>5, <1>6, <1>9, <1>10 DEF Sound, r

\* Of an order that shrinks the rest is shown, if there is any.
LEMMA TakeIs ==
  ASSUME NEW b, Sound(b), NEW o \in b.acquired, NEW shares \in Nat
  PROVE  LET r == Books!Take(b, o, shares)
             ref == b.orders[o].ref
             over == IF shares > b.orders[o].shares THEN 1 ELSE 0
         IN /\ Sound(r)
            /\ r.stats.unknownRefs = b.stats.unknownRefs
            /\ r.stats.overExecutions = b.stats.overExecutions + over
            /\ Books!OrdersIn(r) =
                 IF shares >= b.orders[o].shares
                 THEN Restrict(Books!OrdersIn(b), DOMAIN b.index \ {ref})
                 ELSE [Books!OrdersIn(b) EXCEPT ![ref].shares = @ - shares]
<1> DEFINE order == b.orders[o]
           ref == order.ref
           over == IF shares > order.shares THEN 1 ELSE 0
           counted == [b EXCEPT !.stats.overExecutions = @ + over]
           levels == b.books[order.locate][order.side]
           rest == Books!Reduce(levels, b.orders, o, shares)
           reduced == [b EXCEPT !.books[order.locate][order.side] = rest.levels,
                                !.orders = rest.orders]
           r == Books!Take(b, o, shares)
<1>1. /\ o \in 1..Room /\ ref \in DOMAIN b.index /\ b.index[ref] = o
      /\ order.shares \in Nat
  BY DEF Sound, Tracked
<1>2. CASE shares >= order.shares
  <2>1. r = Books!RemoveOrder(counted, o)
    BY <1>2 DEF Books!Take
  <2>2. /\ DOMAIN counted = BuilderFields /\ DOMAIN counted.stats = CounterNames
        /\ counted.orders = b.orders /\ counted.acquired = b.acquired
        /\ counted.index = b.index
        /\ counted.stats.unknownRefs = b.stats.unknownRefs
        /\ counted.stats.overExecutions = b.stats.overExecutions + over
    BY DEF Sound, Shaped, BuilderFields, CounterNames
  <2>3. over \in Nat
    OBVIOUS
  <2> HIDE DEF counted, over, r
  <2>4. Sound(counted)
    BY <2>2, <2>3 DEF Sound, Shaped, Tracked
  <2>5. Books!OrdersIn(counted) = Books!OrdersIn(b)
    BY <2>2 DEF Books!OrdersIn
  <2>6. /\ Sound(r) /\ SameCounts(counted, r)
        /\ Books!OrdersIn(r) = Restrict(Books!OrdersIn(counted), DOMAIN b.index \ {ref})
    BY <2>1, <2>2, <2>4, RemoveOrderIs
  <2>7. Books!OrdersIn(r) = Restrict(Books!OrdersIn(b), DOMAIN b.index \ {ref})
    BY <2>5, <2>6
  <2> QED BY <1>2, <2>2, <2>6, <2>7 DEF SameCounts, r, over
<1>3. CASE ~(shares >= order.shares)
  <2>1. r = reduced /\ over = 0
    <3>1. over = 0
      BY <1>1, <1>3
    <3>2. r = reduced
      BY <1>3, ZenonT(60) DEF Books!Take
    <3> QED BY <3>1, <3>2
  <2>2. /\ SameOrders(b.orders, rest.orders)
        /\ rest.orders[o].shares = b.orders[o].shares - shares
        /\ \A s \in 1..Room : s # o => rest.orders[s].shares = b.orders[s].shares
    <3>1. AreOrders(b.orders)
      BY DEF Sound, Shaped
    <3> HIDE DEF levels
    <3> QED BY <1>1, <3>1, ReduceKeepsOrders
  <2> HIDE DEF rest
  <2>3. /\ DOMAIN reduced = BuilderFields /\ reduced.stats = b.stats
        /\ reduced.orders = rest.orders
        /\ reduced.acquired = b.acquired /\ reduced.index = b.index
    BY DEF Sound, Shaped, BuilderFields
  <2> HIDE DEF reduced, r, over
  <2>4. b.orders[o].shares - shares \in Nat
    BY <1>1, <1>3
  <2>5. \A n \in DOMAIN b.index :
          /\ b.index[n] \in 1..Room /\ (n # ref => b.index[n] # o)
          /\ rest.orders[b.index[n]].shares \in Nat
    BY <1>1, <2>2, <2>4 DEF Sound, Tracked
  <2>6. Sound(reduced)
    <3>1. Shaped(reduced)
      BY <2>2, <2>3 DEF Sound, Shaped, SameOrders
    <3>2. Tracked(reduced)
      BY <2>2, <2>3, <2>5 DEF Sound, Tracked, SameOrders
    <3> QED BY <3>1, <3>2 DEF Sound
  <2>7. Books!OrdersIn(reduced) = [Books!OrdersIn(b) EXCEPT ![ref].shares = @ - shares]
    <3>1. Books!OrdersIn(reduced) =
            [n \in DOMAIN b.index |-> Shown(rest.orders[b.index[n]])]
      BY <2>3 DEF Books!OrdersIn, Shown
    <3>2. Books!OrdersIn(b) = [n \in DOMAIN b.index |-> Shown(b.orders[b.index[n]])]
      BY DEF Books!OrdersIn, Shown
    <3>3. \A n \in DOMAIN b.index : n # ref =>
            Shown(rest.orders[b.index[n]]) = Shown(b.orders[b.index[n]])
      BY <2>2, <2>5 DEF SameOrders, Shown
    <3>4. Shown(rest.orders[o]) = [Shown(b.orders[o]) EXCEPT !.shares = @ - shares]
      BY <1>1, <2>2 DEF SameOrders, Shown
    <3> HIDE DEF ref, order
    <3> QED BY <1>1, <3>1, <3>2, <3>3, <3>4
  <2>8. b.stats.overExecutions + 0 = b.stats.overExecutions
    BY DEF Sound, Shaped
  <2> QED BY <1>3, <2>1, <2>3, <2>6, <2>7, <2>8 DEF r, over
<1> QED BY <1>2, <1>3

-----------------------------------------------------------------------------
(* The handlers do to the books what the messages mean.                    *)

\* The books show the orders that the messages leave, and the two counters tell
\* whether each message fitted those before it.
Shows(b, live) ==
  /\ Sound(b) /\ DOMAIN live = {"orders", "unmatched", "reused"}
  /\ live.orders = Books!OrdersIn(b) /\ live.unmatched \in BOOLEAN
  /\ live.unmatched <=> ~(b.stats.unknownRefs = 0 /\ b.stats.overExecutions = 0)

LEMMA AlikeShows ==
  ASSUME NEW a, NEW b, NEW live, Shows(a, live), Alike(a, b)
  PROVE  Shows(b, live)
  BY AlikeSound DEF Shows, SameCounts

LEMMA LiveIsShown ==
  ASSUME NEW b, NEW live, Shows(b, live)
  PROVE  /\ DOMAIN live.orders = DOMAIN b.index
         /\ \A ref \in DOMAIN b.index :
              /\ live.orders[ref] = Shown(b.orders[b.index[ref]])
              /\ b.index[ref] \in b.acquired /\ b.orders[b.index[ref]].ref = ref
              /\ b.orders[b.index[ref]].shares \in Nat
              /\ b.orders[b.index[ref]].side \in {"Bid", "Ask"}
  BY OrdersInIs DEF Shows, Sound, Tracked

LEMMA UnknownShows ==
  ASSUME NEW b, NEW live, Shows(b, live)
  PROVE  Shows(Books!Unknown(b), [live EXCEPT !.unmatched = TRUE])
<1> DEFINE r == Books!Unknown(b)
<1>1. /\ DOMAIN r = BuilderFields /\ DOMAIN r.stats = CounterNames
      /\ r.orders = b.orders /\ r.acquired = b.acquired /\ r.index = b.index
      /\ r.stats.unknownRefs = b.stats.unknownRefs + 1
      /\ r.stats.overExecutions = b.stats.overExecutions
  BY DEF Books!Unknown, Shows, Sound, Shaped, BuilderFields, CounterNames
<1> HIDE DEF r
<1>2. Sound(r)
  BY <1>1 DEF Shows, Sound, Shaped, Tracked
<1>3. Books!OrdersIn(r) = Books!OrdersIn(b)
  BY <1>1 DEF Books!OrdersIn
<1>4. r.stats.unknownRefs # 0
  BY <1>1 DEF Shows, Sound, Shaped
<1> QED BY <1>2, <1>3, <1>4 DEF Shows, r

LEMMA AddShows ==
  ASSUME NEW b, NEW live, Shows(b, live), NEW l, NEW side \in {"Bid", "Ask"},
         NEW m, NEW ref \in Refs, m.shares \in Nat
  PROVE  Shows(Books!AddOrder(b, l, side, ref, m.shares, m.price),
               Entered(live, m, ref, IF side = "Bid" THEN "B" ELSE "S"))
<1> DEFINE entry == [side |-> IF side = "Bid" THEN "B" ELSE "S", price |-> m.price,
                     shares |-> m.shares]
           r == Books!AddOrder(b, l, side, ref, m.shares, m.price)
           after == Entered(live, m, ref, IF side = "Bid" THEN "B" ELSE "S")
<1>1. /\ Sound(r) /\ SameCounts(b, r)
      /\ Books!OrdersIn(r) = IF ref \in DOMAIN b.index THEN Books!OrdersIn(b)
                             ELSE With(Books!OrdersIn(b), ref, entry)
  BY AddOrderIs DEF Shows
<1>2. live.orders = Books!OrdersIn(b) /\ DOMAIN live.orders = DOMAIN b.index
  BY LiveIsShown DEF Shows
<1>3. after = IF ref \in DOMAIN live.orders THEN [live EXCEPT !.reused = TRUE]
              ELSE [live EXCEPT !.orders = With(live.orders, ref, entry)]
  BY DEF Entered
<1> HIDE DEF r, after, entry
<1>4. /\ DOMAIN after = {"orders", "unmatched", "reused"}
      /\ after.unmatched = live.unmatched
      /\ after.orders = Books!OrdersIn(r)
  BY <1>1, <1>2, <1>3 DEF Shows
<1>5. Shows(r, after)
  BY <1>1, <1>4 DEF Shows, SameCounts
<1> QED BY <1>5 DEF r, after

LEMMA ShownSound ==
  ASSUME NEW before, NEW after, NEW l, NEW live, Shows(after, live)
  PROVE  Shows(Books!ChangeBook(before, after, l), live)
  BY ChangeBookAlike, AlikeShows DEF Shows

LEMMA OnAddShows ==
  ASSUME NEW b, NEW live, Shows(b, live), NEW l, NEW m, m.ref \in Refs,
         m.side \in {"B", "S"}, m.shares \in Nat
  PROVE  Shows(Books!OnAdd(b, l, m), Entered(live, m, m.ref, m.side))
<1> DEFINE side == IF m.side = "B" THEN "Bid" ELSE "Ask"
<1>1. side \in {"Bid", "Ask"} /\ m.side = IF side = "Bid" THEN "B" ELSE "S"
  OBVIOUS
<1> HIDE DEF side
<1>2. Shows(Books!AddOrder(b, l, side, m.ref, m.shares, m.price),
            Entered(live, m, m.ref, m.side))
  BY <1>1, AddShows
<1> QED BY <1>2, ShownSound DEF Books!OnAdd, side

LEMMA RemoveShows ==
  ASSUME NEW b, NEW live, Shows(b, live), NEW ref \in DOMAIN b.index
  PROVE  Shows(Books!RemoveOrder(b, b.index[ref]), Removed(live, ref))
<1> DEFINE r == Books!RemoveOrder(b, b.index[ref])
<1>1. /\ b.index[ref] \in b.acquired /\ b.orders[b.index[ref]].ref = ref
      /\ live.orders = Books!OrdersIn(b) /\ DOMAIN live.orders = DOMAIN b.index
  BY LiveIsShown DEF Shows
<1>2. /\ Sound(r) /\ SameCounts(b, r)
      /\ Books!OrdersIn(r) = Restrict(Books!OrdersIn(b), DOMAIN b.index \ {ref})
  BY <1>1, RemoveOrderIs DEF Shows
<1> HIDE DEF r
<1>3. Shows(r, Removed(live, ref))
  BY <1>1, <1>2 DEF Shows, Removed, SameCounts
<1> QED BY <1>3 DEF r

LEMMA OnDeleteShows ==
  ASSUME NEW b, NEW live, Shows(b, live), NEW m
  PROVE  Shows(Books!OnDelete(b, m),
               IF m.ref \notin DOMAIN live.orders THEN [live EXCEPT !.unmatched = TRUE]
               ELSE Removed(live, m.ref))
<1>1. DOMAIN live.orders = DOMAIN b.index
  BY LiveIsShown
<1>2. CASE m.ref \notin DOMAIN b.index
  BY <1>1, <1>2, UnknownShows DEF Books!OnDelete, Books!IsLive
<1>3. CASE m.ref \in DOMAIN b.index
  <2>1. Books!OnDelete(b, m) =
          Books!ChangeBook(b, Books!RemoveOrder(b, b.index[m.ref]), Books!LocateOf(b, m.ref))
    BY <1>3 DEF Books!OnDelete, Books!IsLive
  <2> QED BY <1>1, <1>3, <2>1, RemoveShows, ShownSound
<1> QED BY <1>2, <1>3

LEMMA ShrinkShows ==
  ASSUME NEW b, NEW live, Shows(b, live), NEW m, m.ref \in DOMAIN b.index,
         m.shares \in Nat
  PROVE  Shows(Books!Shrink(b, m), Lowered(live, m.ref, m.shares))
<1> DEFINE o == b.index[m.ref]
           r == Books!Take(b, o, m.shares)
           had == b.orders[o].shares
           over == IF m.shares > had THEN 1 ELSE 0
           after == Lowered(live, m.ref, m.shares)
<1>1. /\ o \in b.acquired /\ b.orders[o].ref = m.ref /\ had \in Nat
      /\ live.orders = Books!OrdersIn(b) /\ DOMAIN live.orders = DOMAIN b.index
      /\ live.orders[m.ref] = Shown(b.orders[o])
  BY LiveIsShown DEF Shows
<1>2. /\ Sound(r)
      /\ r.stats.unknownRefs = b.stats.unknownRefs
      /\ r.stats.overExecutions = b.stats.overExecutions + over
      /\ Books!OrdersIn(r) =
           IF m.shares >= had
           THEN Restrict(Books!OrdersIn(b), DOMAIN b.index \ {m.ref})
           ELSE [Books!OrdersIn(b) EXCEPT ![m.ref].shares = @ - m.shares]
  <2>1. Sound(b) /\ o \in b.acquired /\ m.shares \in Nat
    BY <1>1 DEF Shows
  <2> DEFINE n == m.shares
  <2> HIDE DEF o, n
  <2>2. /\ Sound(Books!Take(b, o, n))
        /\ Books!Take(b, o, n).stats.unknownRefs = b.stats.unknownRefs
        /\ Books!Take(b, o, n).stats.overExecutions =
             b.stats.overExecutions + IF n > b.orders[o].shares THEN 1 ELSE 0
        /\ Books!OrdersIn(Books!Take(b, o, n)) =
             IF n >= b.orders[o].shares
             THEN Restrict(Books!OrdersIn(b), DOMAIN b.index \ {b.orders[o].ref})
             ELSE [Books!OrdersIn(b) EXCEPT ![b.orders[o].ref].shares = @ - n]
    BY <2>1, TakeIs DEF n
  <2> QED BY <1>1, <2>2 DEF n
<1>3. live.orders[m.ref].shares = had
  BY <1>1 DEF Shown
<1>4. b.stats.unknownRefs \in Nat /\ b.stats.overExecutions \in Nat
  BY DEF Shows, Sound, Shaped
<1> HIDE DEF r, had, o
<1>5. Shows(r, after)
  <2>1. CASE had > m.shares
    <3>1. after = [live EXCEPT !.orders[m.ref].shares = @ - m.shares]
      BY <1>3, <2>1 DEF Lowered
    <3>2. ~(m.shares >= had) /\ over = 0
      BY <1>1, <2>1
    <3>3. b.stats.overExecutions + 0 = b.stats.overExecutions
      BY <1>4
    <3> HIDE DEF after, over
    <3>4. /\ DOMAIN after = {"orders", "unmatched", "reused"}
          /\ after.unmatched = live.unmatched
          /\ after.orders = [live.orders EXCEPT ![m.ref].shares = @ - m.shares]
      BY <3>1 DEF Shows
    <3> QED BY <1>1, <1>2, <3>2, <3>3, <3>4 DEF Shows
  <2>2. CASE had = m.shares
    <3>1. after = Removed(live, m.ref)
      BY <1>3, <2>2, <1>1 DEF Lowered
    <3>2. m.shares >= had /\ over = 0
      BY <1>1, <2>2
    <3>3. b.stats.overExecutions + 0 = b.stats.overExecutions
      BY <1>4
    <3> HIDE DEF after, over
    <3>4. /\ DOMAIN after = {"orders", "unmatched", "reused"}
          /\ after.unmatched = live.unmatched
          /\ after.orders = Restrict(live.orders, DOMAIN live.orders \ {m.ref})
      BY <3>1 DEF Shows, Removed
    <3> QED BY <1>1, <1>2, <3>2, <3>3, <3>4 DEF Shows
  <2>3. CASE had < m.shares
    <3>1. after = [Removed(live, m.ref) EXCEPT !.unmatched = TRUE]
      BY <1>3, <2>3, <1>1 DEF Lowered
    <3>2. m.shares >= had /\ over = 1
      BY <1>1, <2>3
    <3>3. b.stats.overExecutions + 1 \in Nat /\ b.stats.overExecutions + 1 # 0
      BY <1>4
    <3> HIDE DEF after, over
    <3>4. /\ DOMAIN after = {"orders", "unmatched", "reused"}
          /\ after.unmatched = TRUE
          /\ after.orders = Restrict(live.orders, DOMAIN live.orders \ {m.ref})
      BY <3>1 DEF Shows, Removed
    <3> QED BY <1>1, <1>2, <3>2, <3>3, <3>4 DEF Shows
  <2> QED BY <1>1, <2>1, <2>2, <2>3
<1> HIDE DEF after
<1> QED BY <1>5, ShownSound DEF Books!Shrink, r, after, o

LEMMA OnReplaceShows ==
  ASSUME NEW b, NEW live, Shows(b, live), NEW m, m.newRef \in Refs, m.shares \in Nat
  PROVE  Shows(Books!OnReplace(b, m),
               IF m.oldRef \notin DOMAIN live.orders THEN [live EXCEPT !.unmatched = TRUE]
               ELSE Entered(Removed(live, m.oldRef), m, m.newRef,
                            live.orders[m.oldRef].side))
<1>1. DOMAIN live.orders = DOMAIN b.index
  BY LiveIsShown
<1>2. CASE m.oldRef \notin DOMAIN b.index
  BY <1>1, <1>2, UnknownShows DEF Books!OnReplace, Books!IsLive
<1>3. CASE m.oldRef \in DOMAIN b.index
  <2> DEFINE old == b.orders[b.index[m.oldRef]]
             removed == Books!RemoveOrder(b, b.index[m.oldRef])
             r == Books!AddOrder(removed, old.locate, old.side, m.newRef, m.shares, m.price)
  <2>1. Books!OnReplace(b, m) = Books!ChangeBook(b, r, old.locate)
    BY <1>3 DEF Books!OnReplace, Books!IsLive
  <2>2. /\ live.orders[m.oldRef] = Shown(old) /\ old.side \in {"Bid", "Ask"}
    BY <1>3, LiveIsShown
  <2>3. live.orders[m.oldRef].side = IF old.side = "Bid" THEN "B" ELSE "S"
    BY <2>2 DEF Shown
  <2>4. Shows(removed, Removed(live, m.oldRef))
    BY <1>3, RemoveShows
  <2> HIDE DEF old, removed
  <2>5. Shows(r, Entered(Removed(live, m.oldRef), m, m.newRef,
                         live.orders[m.oldRef].side))
    BY <2>2, <2>3, <2>4, AddShows
  <2> HIDE DEF r
  <2> QED BY <1>1, <1>3, <2>1, <2>5, ShownSound
<1> QED BY <1>2, <1>3

\* An execution, a partial cancel.
LEMMA OnLessShows ==
  ASSUME NEW b, NEW live, Shows(b, live), NEW m, m.shares \in Nat
  PROVE  LET after == IF m.ref \notin DOMAIN live.orders
                      THEN [live EXCEPT !.unmatched = TRUE]
                      ELSE Lowered(live, m.ref, m.shares)
         IN /\ Shows(Books!OnExecuted(b, m), after)
            /\ Shows(Books!OnExecutedWithPrice(b, m), after)
            /\ Shows(Books!OnCancel(b, m), after)
<1>1. DOMAIN live.orders = DOMAIN b.index
  BY LiveIsShown
<1>2. CASE m.ref \notin DOMAIN b.index
  BY <1>1, <1>2, UnknownShows
    DEF Books!OnExecuted, Books!OnExecutedWithPrice, Books!OnCancel, Books!IsLive
<1>3. CASE m.ref \in DOMAIN b.index
  <2>1. ASSUME NEW l, NEW price
        PROVE  Shows(Books!Shrink([b EXCEPT !.lastPrice[l] = price], m),
                     Lowered(live, m.ref, m.shares))
    <3> DEFINE a == [b EXCEPT !.lastPrice[l] = price]
    <3>1. Alike(b, a)
      BY DEF Alike, Shows, Sound, Shaped, BuilderFields
    <3> HIDE DEF a
    <3>2. Shows(a, live) /\ m.ref \in DOMAIN a.index
      BY <1>3, <3>1, AlikeShows DEF Alike
    <3>3. Shows(Books!Shrink(a, m), Lowered(live, m.ref, m.shares))
      BY <3>2, ShrinkShows
    <3> QED BY <3>3 DEF a
  <2>2. Shows(Books!OnExecuted(b, m), Lowered(live, m.ref, m.shares))
    BY <1>3, <2>1 DEF Books!OnExecuted, Books!IsLive
  <2>3. Shows(Books!OnExecutedWithPrice(b, m), Lowered(live, m.ref, m.shares))
    BY <1>3, <2>1 DEF Books!OnExecutedWithPrice, Books!IsLive
  <2>4. Shows(Books!OnCancel(b, m), Lowered(live, m.ref, m.shares))
    BY <1>3, ShrinkShows DEF Books!OnCancel, Books!IsLive
  <2> QED BY <1>1, <1>3, <2>2, <2>3, <2>4
<1> QED BY <1>2, <1>3

LEMMA OthersAlike ==
  ASSUME NEW b, Sound(b), NEW m
  PROVE  /\ Alike(b, b)
         /\ Alike(b, Books!OnTrade(b, m.locate, m))
         /\ Alike(b, Books!OnStockDirectory(b, m.locate, m))
         /\ Alike(b, Books!OnSystemEvent(b, m))
         /\ Alike(b, Books!OnTradingAction(b, m.locate, m))
<1>1. DOMAIN b = BuilderFields /\ DOMAIN b.stats = CounterNames
  BY DEF Sound, Shaped
<1>2. Alike(b, b)
  BY <1>1 DEF Alike
<1>3. Alike(b, Books!OnTrade(b, m.locate, m))
  BY <1>1 DEF Alike, Books!OnTrade, BuilderFields
<1>4. Alike(b, Books!OnStockDirectory(b, m.locate, m))
  <2> DEFINE symbol == Books!Symbol(m.stock)
  <2> HIDE DEF symbol
  <2>1. Books!OnStockDirectory(b, m.locate, m) = [b EXCEPT !.symbols[m.locate] = symbol]
    BY DEF Books!OnStockDirectory, symbol
  <2> QED BY <1>1, <2>1 DEF Alike, BuilderFields
<1>5. Alike(b, Books!OnSystemEvent(b, m))
  BY <1>1 DEF Alike, Books!OnSystemEvent, BuilderFields
<1>6. Alike(b, Books!OnTradingAction(b, m.locate, m))
  BY <1>1 DEF Alike, Books!OnTradingAction, BuilderFields
<1> QED BY <1>2, <1>3, <1>4, <1>5, <1>6

LEMMA HandleShows ==
  ASSUME NEW b, NEW live, Shows(b, live), NEW m, Sendable(m)
  PROVE  Shows(Books!Handle(b, m), Follow(live, m))
<1> DEFINE unmatched == [live EXCEPT !.unmatched = TRUE]
<1>1. CASE m.type \in {"A", "F"}
  <2>1. m.ref \in Refs /\ m.side \in {"B", "S"} /\ m.shares \in Nat
    BY <1>1 DEF Sendable
  <2>2. Books!Handle(b, m) = Books!OnAdd(b, m.locate, m)
    BY <1>1 DEF Books!Handle
  <2>3. Follow(live, m) = Entered(live, m, m.ref, m.side)
    BY <1>1 DEF Follow
  <2> QED BY <2>1, <2>2, <2>3, OnAddShows
<1>2. CASE m.type \in {"E", "C", "X"}
  <2>1. m.shares \in Nat
    BY <1>2 DEF Sendable
  <2>2. Books!Handle(b, m) \in {Books!OnExecuted(b, m), Books!OnExecutedWithPrice(b, m),
                                Books!OnCancel(b, m)}
    BY <1>2 DEF Books!Handle
  <2>3. Follow(live, m) = IF m.ref \notin DOMAIN live.orders THEN unmatched
                          ELSE Lowered(live, m.ref, m.shares)
    BY <1>2 DEF Follow
  <2> QED BY <2>1, <2>2, <2>3, OnLessShows
<1>3. CASE m.type = "D"
  <2>1. Books!Handle(b, m) = Books!OnDelete(b, m)
    BY <1>3 DEF Books!Handle
  <2>2. Follow(live, m) = IF m.ref \notin DOMAIN live.orders THEN unmatched
                          ELSE Removed(live, m.ref)
    BY <1>3 DEF Follow
  <2> QED BY <2>1, <2>2, OnDeleteShows
<1>4. CASE m.type = "U"
  <2>1. m.newRef \in Refs /\ m.shares \in Nat
    BY <1>4 DEF Sendable
  <2>2. Books!Handle(b, m) = Books!OnReplace(b, m)
    BY <1>4 DEF Books!Handle
  <2>3. Follow(live, m) =
          IF m.oldRef \notin DOMAIN live.orders THEN unmatched
          ELSE Entered(Removed(live, m.oldRef), m, m.newRef, live.orders[m.oldRef].side)
    BY <1>4 DEF Follow
  <2> QED BY <2>1, <2>2, <2>3, OnReplaceShows
<1>5. CASE m.type \notin {"A", "F", "E", "C", "X", "D", "U"}
  <2>1. Follow(live, m) = live
    BY <1>5 DEF Follow
  <2>2. Books!Handle(b, m) \in
          {b, Books!OnTrade(b, m.locate, m), Books!OnStockDirectory(b, m.locate, m),
           Books!OnSystemEvent(b, m), Books!OnTradingAction(b, m.locate, m)}
    BY <1>5 DEF Books!Handle
  <2>3. Alike(b, Books!Handle(b, m))
    BY <2>2, OthersAlike DEF Shows
  <2> QED BY <2>1, <2>3, AlikeShows
<1> QED BY <1>1, <1>2, <1>3, <1>4, <1>5

LEMMA NewShows == Shows(Books!NewBuilder, Start)
<1> DEFINE b == Books!NewBuilder
<1>1. /\ DOMAIN b = BuilderFields /\ b.stats = Books!NoneCounted
      /\ b.orders = [s \in 1..Room |-> Books!Blank] /\ b.acquired = {} /\ b.index = <<>>
  BY DEF Books!NewBuilder, BuilderFields
<1> HIDE DEF b
<1>2. /\ DOMAIN b.stats = CounterNames
      /\ b.stats.unknownRefs = 0 /\ b.stats.overExecutions = 0
  BY <1>1 DEF Books!NoneCounted, CounterNames
<1>3. AreOrders(b.orders)
  BY <1>1, BlankIsAnOrder DEF AreOrders
<1>4. DOMAIN b.index = {}
  BY <1>1
<1>5. Sound(b)
  BY <1>1, <1>2, <1>3, <1>4 DEF Sound, Shaped, Tracked
<1>6. Books!OrdersIn(b) = <<>>
  BY <1>4 DEF Books!OrdersIn
<1> QED BY <1>2, <1>5, <1>6 DEF Shows, Start, b

-----------------------------------------------------------------------------
(* A fold goes through a sequence from its first element to its last: its  *)
(* recursion takes the largest index off the set of those still to come.   *)

LEMMA MaxIs ==
  ASSUME NEW k \in Nat, NEW T \in SUBSET (1..(k + 1)), k + 1 \in T
  PROVE  Max(T) = k + 1 /\ T \ {k + 1} \in SUBSET (1..k)
<1>1. \A x \in T : k + 1 >= x
  OBVIOUS
<1>2. \A x \in T : x = k + 1 \/ ~(x >= k + 1)
  OBVIOUS
<1>3. Max(T) = k + 1
  BY <1>1, <1>2 DEF Max
<1>4. \A x \in T : x # k + 1 => x \in 1..k
  OBVIOUS
<1> QED BY <1>3, <1>4

AreLeft(it, f, n) ==
  it = [T \in SUBSET (1..n) |->
          IF T = {} THEN Start ELSE Follow(it[T \ {Max(T)}], f[Max(T)])]

LEMMA LeftExists ==
  ASSUME NEW f, NEW n \in Nat
  PROVE  \E it : AreLeft(it, f, n)
<1> DEFINE K == {k \in Nat : \E it : AreLeft(it, f, k)}
<1>1. 0 \in K
  <2>1. AreLeft([T \in {{}} |-> Start], f, 0)
    <3>1. SUBSET (1..0) = {{}}
      OBVIOUS
    <3> QED BY <3>1 DEF AreLeft
  <2> QED BY <2>1
<1>2. ASSUME NEW k \in Nat, k \in K PROVE k + 1 \in K
  <2>1. PICK it : AreLeft(it, f, k)
    BY <1>2
  <2> DEFINE more == [T \in SUBSET (1..(k + 1)) |->
                        IF k + 1 \in T THEN Follow(it[T \ {k + 1}], f[k + 1]) ELSE it[T]]
  <2>2. ASSUME NEW T \in SUBSET (1..(k + 1))
        PROVE  more[T] = IF T = {} THEN Start ELSE Follow(more[T \ {Max(T)}], f[Max(T)])
    <3>1. CASE k + 1 \in T
      <4>1. Max(T) = k + 1 /\ T \ {k + 1} \in SUBSET (1..k)
        BY <3>1, MaxIs
      <4>2. T \ {k + 1} \in SUBSET (1..(k + 1))
        OBVIOUS
      <4>3. more[T \ {k + 1}] = it[T \ {k + 1}]
        BY <4>2
      <4> QED BY <3>1, <4>1, <4>3
    <3>2. CASE k + 1 \notin T
      <4>1. T \in SUBSET (1..k)
        BY <3>2
      <4> DEFINE x == Max(T)
      <4> HIDE DEF x
      <4>2. T \ {x} \in SUBSET (1..(k + 1)) /\ k + 1 \notin T \ {x}
        BY <3>2
      <4>3. more[T] = it[T] /\ more[T \ {x}] = it[T \ {x}]
        BY <3>2, <4>2
      <4>4. it[T] = IF T = {} THEN Start ELSE Follow(it[T \ {x}], f[x])
        BY <2>1, <4>1 DEF AreLeft, x
      <4> HIDE DEF more
      <4> QED BY <4>3, <4>4 DEF x
    <3> QED BY <3>1, <3>2
  <2>3. more = [T \in SUBSET (1..(k + 1)) |-> more[T]]
    OBVIOUS
  <2> HIDE DEF more
  <2>4. AreLeft(more, f, k + 1)
    BY <2>2, <2>3 DEF AreLeft
  <2> QED BY <2>4
<1> HIDE DEF K
<1>3. n \in K
  BY <1>1, <1>2, Induction
<1> QED BY <1>3 DEF K

LEMMA LeavesAre ==
  ASSUME NEW f, NEW n \in Nat, DOMAIN f = 1..n
  PROVE  \E it : /\ it[0] = Start /\ it[n] = Leaves(f)
                 /\ \A k \in Nat : k < n => it[k + 1] = Follow(it[k], f[k + 1])
<1> DEFINE g == CHOOSE it : AreLeft(it, f, n)
           it == [k \in 0..n |-> g[1..k]]
<1>1. AreLeft(g, f, n)
  BY LeftExists
<1>2. Leaves(f) = g[1..n]
  BY DEF Leaves, FoldLeft, MapThenFoldSet, AreLeft
<1> HIDE DEF g
<1>3. \A T \in SUBSET (1..n) :
        g[T] = IF T = {} THEN Start ELSE Follow(g[T \ {Max(T)}], f[Max(T)])
  BY <1>1 DEF AreLeft
<1>4. it[0] = Start
  <2>1. 1..0 = {} /\ {} \in SUBSET (1..n) /\ 0 \in 0..n
    OBVIOUS
  <2> QED BY <1>3, <2>1
<1>5. it[n] = Leaves(f)
  BY <1>2
<1>6. ASSUME NEW k \in Nat, k < n PROVE it[k + 1] = Follow(it[k], f[k + 1])
  <2>1. /\ 1..(k + 1) \in SUBSET (1..n) /\ k + 1 \in 1..(k + 1)
        /\ (1..(k + 1)) \ {k + 1} = 1..k /\ k \in 0..n /\ k + 1 \in 0..n
    BY <1>6
  <2>2. Max(1..(k + 1)) = k + 1
    <3> DEFINE T == 1..(k + 1)
    <3>1. T \in SUBSET (1..(k + 1)) /\ k + 1 \in T
      OBVIOUS
    <3> HIDE DEF T
    <3>2. Max(T) = k + 1
      BY <3>1, MaxIs
    <3> QED BY <3>2 DEF T
  <2>3. g[1..(k + 1)] = Follow(g[1..k], f[k + 1])
    BY <1>3, <2>1, <2>2
  <2> QED BY <2>1, <2>3
<1> HIDE DEF it
<1> QED BY <1>4, <1>5, <1>6

AreBuilt(it, f, d, n) ==
  it = [T \in SUBSET (1..n) |->
          IF T = {} THEN Books!NewBuilder
          ELSE Books!Handle(it[T \ {Max(T)}], f[d[Max(T)].number])]

LEMMA BuiltExists ==
  ASSUME NEW f, NEW d, NEW n \in Nat
  PROVE  \E it : AreBuilt(it, f, d, n)
<1> DEFINE K == {k \in Nat : \E it : AreBuilt(it, f, d, k)}
<1>1. 0 \in K
  <2>1. AreBuilt([T \in {{}} |-> Books!NewBuilder], f, d, 0)
    <3>1. SUBSET (1..0) = {{}}
      OBVIOUS
    <3> QED BY <3>1 DEF AreBuilt
  <2> QED BY <2>1
<1>2. ASSUME NEW k \in Nat, k \in K PROVE k + 1 \in K
  <2>1. PICK it : AreBuilt(it, f, d, k)
    BY <1>2
  <2> DEFINE more == [T \in SUBSET (1..(k + 1)) |->
                        IF k + 1 \in T
                        THEN Books!Handle(it[T \ {k + 1}], f[d[k + 1].number]) ELSE it[T]]
  <2>2. ASSUME NEW T \in SUBSET (1..(k + 1))
        PROVE  more[T] = IF T = {} THEN Books!NewBuilder
                         ELSE Books!Handle(more[T \ {Max(T)}], f[d[Max(T)].number])
    <3>1. CASE k + 1 \in T
      <4>1. Max(T) = k + 1 /\ T \ {k + 1} \in SUBSET (1..k)
        BY <3>1, MaxIs
      <4>2. T \ {k + 1} \in SUBSET (1..(k + 1))
        OBVIOUS
      <4>3. more[T \ {k + 1}] = it[T \ {k + 1}]
        BY <4>2
      <4> QED BY <3>1, <4>1, <4>3
    <3>2. CASE k + 1 \notin T
      <4>1. T \in SUBSET (1..k)
        BY <3>2
      <4> DEFINE x == Max(T)
      <4> HIDE DEF x
      <4>2. T \ {x} \in SUBSET (1..(k + 1)) /\ k + 1 \notin T \ {x}
        BY <3>2
      <4>3. more[T] = it[T] /\ more[T \ {x}] = it[T \ {x}]
        BY <3>2, <4>2
      <4>4. it[T] = IF T = {} THEN Books!NewBuilder
                    ELSE Books!Handle(it[T \ {x}], f[d[x].number])
        BY <2>1, <4>1 DEF AreBuilt, x
      <4> HIDE DEF more
      <4> QED BY <4>3, <4>4 DEF x
    <3> QED BY <3>1, <3>2
  <2>3. more = [T \in SUBSET (1..(k + 1)) |-> more[T]]
    OBVIOUS
  <2> HIDE DEF more
  <2>4. AreBuilt(more, f, d, k + 1)
    BY <2>2, <2>3 DEF AreBuilt
  <2> QED BY <2>4
<1> HIDE DEF K
<1>3. n \in K
  BY <1>1, <1>2, Induction
<1> QED BY <1>3 DEF K

LEMMA BuilderIs ==
  ASSUME NEW n \in Nat, DOMAIN sequencer.delivered = 1..n
  PROVE  \E it : /\ it[0] = Books!NewBuilder /\ it[n] = builder
                 /\ \A k \in Nat : k < n => 
                      it[k + 1] = Books!Handle(it[k], feed[sequencer.delivered[k + 1].number])
<1> DEFINE f == feed
           d == sequencer.delivered
           g == CHOOSE it : AreBuilt(it, f, d, n)
           it == [k \in 0..n |-> g[1..k]]
<1>1. AreBuilt(g, f, d, n)
  BY BuiltExists
<1>2. builder = g[1..n]
  BY DEF builder, FoldLeft, MapThenFoldSet, AreBuilt
<1> HIDE DEF g
<1>3. \A T \in SUBSET (1..n) :
        g[T] = IF T = {} THEN Books!NewBuilder
               ELSE Books!Handle(g[T \ {Max(T)}], f[d[Max(T)].number])
  BY <1>1 DEF AreBuilt
<1>4. it[0] = Books!NewBuilder
  <2>1. 1..0 = {} /\ {} \in SUBSET (1..n) /\ 0 \in 0..n
    OBVIOUS
  <2> QED BY <1>3, <2>1
<1>5. it[n] = builder
  BY <1>2
<1>6. ASSUME NEW k \in Nat, k < n PROVE it[k + 1] = Books!Handle(it[k], f[d[k + 1].number])
  <2>1. /\ 1..(k + 1) \in SUBSET (1..n) /\ k + 1 \in 1..(k + 1)
        /\ (1..(k + 1)) \ {k + 1} = 1..k /\ k \in 0..n /\ k + 1 \in 0..n
    BY <1>6
  <2>2. Max(1..(k + 1)) = k + 1
    <3> DEFINE T == 1..(k + 1)
    <3>1. T \in SUBSET (1..(k + 1)) /\ k + 1 \in T
      OBVIOUS
    <3> HIDE DEF T
    <3>2. Max(T) = k + 1
      BY <3>1, MaxIs
    <3> QED BY <3>2 DEF T
  <2>3. g[1..(k + 1)] = Books!Handle(g[1..k], f[d[k + 1].number])
    BY <1>3, <2>1, <2>2
  <2> QED BY <2>1, <2>3
<1> HIDE DEF it
<1> QED BY <1>4, <1>5, <1>6

\* The books show what the feed leaves, if all of it was delivered.
LEMMA CompleteShows ==
  ASSUME Inv, NumbersDelivered = [i \in 1..LastMessage |-> i]
  PROVE  Shows(builder, Leaves(feed))
<1> DEFINE n == LastMessage  d == sequencer.delivered
<1>1. n \in Nat /\ DOMAIN feed = 1..n /\ \A k \in 1..n : Sendable(feed[k])
  BY SentIs, FeedsAssumption DEF Inv, TypeInv, LastMessage
<1>2. DOMAIN d = 1..n /\ \A k \in 1..n : d[k].number = k
  <2> HIDE DEF n
  <2>1. /\ DOMAIN NumbersDelivered = DOMAIN d
        /\ \A k \in DOMAIN d : NumbersDelivered[k] = d[k].number
    BY DEF NumbersDelivered
  <2>2. DOMAIN NumbersDelivered = 1..n /\ \A k \in 1..n : NumbersDelivered[k] = k
    BY DEF n
  <2> QED BY <2>1, <2>2
<1> HIDE DEF n, d
<1>3. PICK live : /\ live[0] = Start /\ live[n] = Leaves(feed)
                  /\ \A k \in Nat : k < n => live[k + 1] = Follow(live[k], feed[k + 1])
  BY <1>1, LeavesAre
<1>4. PICK b : /\ b[0] = Books!NewBuilder /\ b[n] = builder
               /\ \A k \in Nat : k < n =>
                    b[k + 1] = Books!Handle(b[k], feed[d[k + 1].number])
  BY <1>1, <1>2, BuilderIs DEF d
<1> DEFINE K == {k \in Nat : k <= n => Shows(b[k], live[k])}
<1>5. 0 \in K
  BY <1>3, <1>4, NewShows
<1>6. ASSUME NEW k \in Nat, k \in K PROVE k + 1 \in K
  <2> SUFFICES ASSUME k + 1 <= n PROVE Shows(b[k + 1], live[k + 1])
    OBVIOUS
  <2>1. k < n /\ k <= n /\ k + 1 \in 1..n
    BY <1>1
  <2>2. Shows(b[k], live[k]) /\ Sendable(feed[k + 1]) /\ d[k + 1].number = k + 1
    BY <1>1, <1>2, <1>6, <2>1
  <2>3. /\ b[k + 1] = Books!Handle(b[k], feed[k + 1])
        /\ live[k + 1] = Follow(live[k], feed[k + 1])
    BY <1>3, <1>4, <2>1, <2>2
  <2> QED BY <2>2, <2>3, HandleShows
<1> HIDE DEF K
<1>7. n \in K
  BY <1>1, <1>5, <1>6, Induction
<1>8. Shows(b[n], live[n])
  BY <1>1, <1>7 DEF K
<1> QED BY <1>3, <1>4, <1>8

\* mold_recv's "Exit code 0 only if the session ended with nothing lost, nothing
\* malformed, and the books consistent", and the converse: for every session of
\* messages about orders, whatever the network does to its packets.
THEOREM CleanIsComplete == Spec => []CleanMeansComplete
<1>1. Inv => CleanMeansComplete
  <2> SUFFICES ASSUME Inv PROVE CleanMeansComplete
    OBVIOUS
  <2> DEFINE complete == NumbersDelivered = [i \in 1..LastMessage |-> i]
  <2>1. complete => /\ Books!OrdersIn(builder) = Leaves(feed).orders
                    /\ ~Leaves(feed).unmatched <=> builder.stats.unknownRefs = 0
                                                   /\ builder.stats.overExecutions = 0
    BY CompleteShows DEF Shows
  <2>2. sequencer.ended => (sequencer.lost = 0 <=> complete)
    BY NoneLostIsAll
  <2> HIDE DEF complete
  <2>3. Clean <=> complete /\ sequencer.ended /\ malformed = 0 /\ ~Leaves(feed).unmatched
    BY <2>1, <2>2 DEF Clean
  <2> QED BY <2>1, <2>3 DEF CleanMeansComplete, complete
<1> QED BY <1>1, Invariant, PTL
=============================================================================
