------------------------------ MODULE Sequencer -----------------------------
(***************************************************************************)
(* mold::Sequencer (include/MoldUdp64.hpp) as operators on its state: the  *)
(* packets of one or two feeds become each message once, in order.  One    *)
(* operator per method; OnPacket and GiveUpGap are the public handlers.    *)
(*                                                                         *)
(* A message is its session and its sequence number.  A packet is a run of *)
(* consecutive messages, or a heartbeat, or the end of the session.  The   *)
(* counters packets, heartbeats, held and delivered of Stats, which        *)
(* nothing but the final printout reads, are left out.                     *)
(***************************************************************************)
EXTENDS SequenceNumbers, Sequences, SequencesExt

CONSTANTS
  kEndOfSession,  \* the count that marks the end: 0xFFFF in the code
  MaxHeld,        \* maxHeld of the constructor
  NoSession       \* no packet has fixed the session yet

ASSUME CountAssumption == kEndOfSession \in Nat \ {0}
ASSUME HeldAssumption == MaxHeld \in Nat


-----------------------------------------------------------------------------
(* Packets.                                                                *)

PacketsOf(sessions) ==
  [session : sessions, sequence : 0..MaxNumber, count : 0..kEndOfSession]

Messages(p) == IF p.count = kEndOfSession THEN 0 ELSE p.count

\* decode() on a packet whose blocks are well formed.
Decodes(p) == p.sequence <= MaxNumber - Messages(p)

\* onPacket's end, one past the packet's last message.
EndOf(p) == (p.sequence + Messages(p)) % (MaxNumber + 1)

-----------------------------------------------------------------------------
(* The state of a Sequencer, and what its deliver callback was given.      *)

InitialSequencer ==
  [next |-> FirstSequence, known |-> 0, held |-> <<>>,
   session |-> NoSession, endOfSession |-> FALSE, ended |-> FALSE,
   duplicates |-> 0, gaps |-> 0, lost |-> 0, otherSession |-> 0,
   delivered |-> <<>>]

GapOpen(s) == s.known > s.next

\* Mutant: the session has ended as soon as its end is announced.
FinishAtOnce(s) == [s EXCEPT !.ended = @ \/ s.endOfSession]
FinishIfEnded(s) ==
  [s EXCEPT !.ended = @ \/ (s.endOfSession /\ ~GapOpen(s))]

\* How many of p's messages have a number that delivery is already past.
Stale(s, p) ==
  IF p.sequence >= s.next THEN 0
  ELSE IF EndOf(p) <= s.next THEN p.count ELSE s.next - p.sequence

\* Mutant: what is stale is delivered again.
DeliverAll(s, p) ==
  [s EXCEPT !.next = IF EndOf(p) > @ THEN EndOf(p) ELSE @,
            !.delivered = @ \o [i \in 1..p.count |->
               [session |-> p.session, number |-> p.sequence + i - 1]]]
DeliverNew(s, p) ==
  LET stale == Stale(s, p)
      fresh == p.count - stale
  IN [s EXCEPT !.next = @ + fresh,
               !.duplicates = @ + stale,
               !.delivered = @ \o [i \in 1..fresh |->
                  [session |-> p.session, number |-> p.sequence + stale + i - 1]]]

\* One turn of drainHeld's loop.
DrainFront(s) ==
  IF s.held # <<>> /\ Head(s.held).sequence <= s.next
  THEN DeliverNew([s EXCEPT !.held = Tail(@)], Head(s.held))
  ELSE s

\* Mutant: only one held packet is taken.
DrainOne(s) == DrainFront(s)
\* The state after each turn.  The loop takes a packet off in every turn, so
\* Len(held) turns are all of it.
DrainTurns(s) ==
  LET after[n \in 0..Len(s.held)] ==
        IF n = 0 THEN s ELSE DrainFront(after[n - 1])
  IN after
DrainHeld(s) == DrainTurns(s)[Len(s.held)]

\* Where hold() puts p: before the first packet that does not start earlier.
HoldAt(s, p) ==
  CHOOSE at \in 1..(Len(s.held) + 1) :
    /\ \A i \in 1..(at - 1) : s.held[i].sequence < p.sequence
    /\ at <= Len(s.held) => s.held[at].sequence >= p.sequence

\* Mutants: a held packet that starts where p does always makes p a duplicate,
\* even when p is the longer one; a duplicate is not counted.
HoldFirstSeen(s, p) ==
  LET at == HoldAt(s, p)
  IN IF at <= Len(s.held) /\ s.held[at].sequence = p.sequence
     THEN [s EXCEPT !.duplicates = @ + p.count]
     ELSE [s EXCEPT !.held = InsertAt(@, at, p)]
HoldSilently(s, p) ==
  LET at == HoldAt(s, p)
  IN IF at <= Len(s.held) /\ s.held[at].sequence = p.sequence
                          /\ s.held[at].count >= p.count
     THEN s ELSE [s EXCEPT !.held = InsertAt(@, at, p)]
Hold(s, p) ==
  LET at == HoldAt(s, p)
      alreadyHeld == /\ at <= Len(s.held)
                     /\ s.held[at].sequence = p.sequence
                     /\ s.held[at].count >= p.count
  IN IF alreadyHeld THEN [s EXCEPT !.duplicates = @ + p.count]
     ELSE [s EXCEPT !.held = InsertAt(@, at, p)]

-----------------------------------------------------------------------------
(* The public handlers.                                                    *)

\* Mutant: giving up skips to the end of what is known, over held packets.
TargetKnown(s) == s.known
Target(s) == IF s.held = <<>> THEN s.known ELSE Head(s.held).sequence

\* Mutant: the messages of a gap are not counted.
SkipUncounted(s) == [s EXCEPT !.gaps = @ + 1, !.next = Target(s)]
Skip(s) ==
  IF Target(s) > s.next
  THEN [s EXCEPT !.gaps = @ + 1, !.lost = @ + (Target(s) - s.next),
                 !.next = Target(s)]
  ELSE s

GiveUpGap(s) == FinishIfEnded(DrainHeld(Skip(s)))

\* What every packet of the session does, whether it carries messages or not.
Announce(s, p) ==
  [s EXCEPT !.session = p.session,
            !.known = IF EndOf(p) > @ THEN EndOf(p) ELSE @,
            !.endOfSession = @ \/ p.count = kEndOfSession]

\* A packet that carries messages.
Deliver(s, p) ==
  LET beyond == p.sequence > s.next
      room == IF beyond /\ Len(s.held) >= MaxHeld THEN GiveUpGap(s) ELSE s
  IN IF p.sequence > room.next THEN Hold(room, p)
     ELSE FinishIfEnded(DrainHeld(DeliverNew(room, p)))

OnPacket(s, p) ==
  IF s.session \notin {NoSession, p.session}
  THEN [s EXCEPT !.otherSession = @ + 1]
  ELSE LET opened == Announce(s, p)
       IN IF Messages(p) = 0 THEN FinishIfEnded(opened) ELSE Deliver(opened, p)
=============================================================================
