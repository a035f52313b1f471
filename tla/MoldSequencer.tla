---------------------------- MODULE MoldSequencer ---------------------------
(***************************************************************************)
(* A mold::Sequencer (include/MoldUdp64.hpp) under every sequence of calls *)
(* its caller can make: any packets that passed decode(), of any session,  *)
(* overlapping, repeated, in any order, and giveUpGap() at any time.       *)
(***************************************************************************)
EXTENDS Sequencer, FiniteSets, FiniteSetsExt

CONSTANTS
  Sessions,  \* the sessions whose packets arrive
  MaxCalls   \* calls made: bounds the model

ASSUME SessionsAssumption == NoSession \notin Sessions
ASSUME CallsAssumption == MaxCalls \in Nat

VARIABLES
  sequencer,
  calls,    \* calls made so far
  arrived,  \* numbers that packets of the session have carried
  carried   \* messages those packets carried, repeats counted

vars == <<sequencer, calls, arrived, carried>>

Init ==
  /\ sequencer = InitialSequencer
  /\ calls = 0 /\ arrived = {} /\ carried = 0

NumbersOf(p) == p.sequence..(p.sequence + Messages(p) - 1)

Receive(p) ==
  /\ calls < MaxCalls
  /\ calls' = calls + 1
  /\ sequencer' = OnPacket(sequencer, p)
  /\ IF sequencer.session \in {NoSession, p.session}
     THEN /\ arrived' = arrived \cup NumbersOf(p)
          /\ carried' = carried + Messages(p)
     ELSE UNCHANGED <<arrived, carried>>

GiveUp ==
  /\ calls < MaxCalls
  /\ calls' = calls + 1
  /\ sequencer' = GiveUpGap(sequencer)
  /\ UNCHANGED <<arrived, carried>>

Stopped == calls = MaxCalls /\ UNCHANGED vars

Next ==
  \/ \E p \in {q \in PacketsOf(Sessions) : Decodes(q)} : Receive(p)
  \/ GiveUp
  \/ Stopped

Spec == Init /\ [][Next]_vars
-----------------------------------------------------------------------------
(* Properties.                                                             *)

NumbersDelivered == [i \in DOMAIN sequencer.delivered |->
                       sequencer.delivered[i].number]

\* The numbers delivery has gone past without delivering them.
Skipped == (FirstSequence..(sequencer.next - 1)) \ Range(NumbersDelivered)

HeldNumbers == UNION {NumbersOf(p) : p \in Range(sequencer.held)}

CountsUpTo(packets) ==
  LET sum[n \in 0..Len(packets)] ==
        IF n = 0 THEN 0 ELSE sum[n - 1] + packets[n].count
  IN sum
MessagesIn(packets) == CountsUpTo(packets)[Len(packets)]

TypeOK ==
  /\ sequencer \in
       [next : 0..MaxNumber, known : 0..MaxNumber,
        held : Seq(PacketsOf(Sessions)),
        session : Sessions \cup {NoSession},
        endOfSession : BOOLEAN, ended : BOOLEAN,
        duplicates : Nat, gaps : Nat, lost : Nat, otherSession : Nat,
        delivered : Seq([session : Sessions, number : 0..MaxNumber])]
  /\ calls \in 0..MaxCalls
  /\ arrived \subseteq 0..MaxNumber /\ carried \in Nat

\* "Each message exactly once, in order": numbers only grow, none is delivered
\* that delivery is already past, and all come from the session that the first
\* packet fixed.
ExactlyOnceInOrder ==
  /\ \A i, j \in DOMAIN NumbersDelivered :
       i < j => NumbersDelivered[i] < NumbersDelivered[j]
  /\ Range(NumbersDelivered) \subseteq arrived
  /\ \A m \in Range(sequencer.delivered) : m.session = sequencer.session

\* Stats::lost is exactly what is missing below nextExpected(): nothing is
\* skipped silently, nothing counted twice.
LostIsWhatIsMissing == sequencer.lost = Cardinality(Skipped)

\* No message that came in disappears: each was delivered, counted as a
\* duplicate, or is held.
NothingVanishes ==
  carried = Len(sequencer.delivered) + sequencer.duplicates
              + MessagesIn(sequencer.held)

\* What is in hand and could be delivered has been: the held packets are sorted,
\* no more than MaxHeld, and begin beyond a gap that is still open.  So
\* giveUpGap() always moves on, and mold_recv's last loop over the gaps ends.
HeldBeyondGap ==
  /\ \A i, j \in DOMAIN sequencer.held :
       i < j => sequencer.held[i].sequence <= sequencer.held[j].sequence
  /\ Len(sequencer.held) <= MaxHeld
  /\ sequencer.held # <<>> =>
       /\ Head(sequencer.held).sequence > sequencer.next
       /\ GapOpen(sequencer)

\* The caller giving up a gap loses only messages that never came: whatever
\* came beyond the gap is still delivered.
GiveUpLosesOnlyMissing ==
  [][GiveUp => (Skipped' \ Skipped) \cap arrived = {}]_vars

\* The sequencer is the in-order delivery it promises.
Delivery == INSTANCE InOrderDelivery WITH
  next <- sequencer.next, waiting <- HeldNumbers,
  delivered <- NumbersDelivered, lost <- Skipped

ImplementsDelivery == Delivery!Spec
=============================================================================
