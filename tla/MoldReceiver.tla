---------------------------- MODULE MoldReceiver ----------------------------
(***************************************************************************)
(* mold_recv (src/mold_recv.cpp): the loop that polls the sockets of feeds *)
(* A and B, sequences their packets (Sequencer), applies the messages to   *)
(* the books (ItchBuilder), decides when a gap is given up and when to     *)
(* stop, and reports whether the session was clean.                        *)
(*                                                                         *)
(* The network is external: of the datagrams mold_send sends to each feed  *)
(* (MoldSender), any may arrive, late and in any order, or never; a        *)
(* datagram that is not MoldUDP64 may come too.  A message of mold_send is *)
(* one dispatch() accepts, as both ask for the length of its type, so      *)
(* `undispatched` stays 0 and is left out.  What the loop asks of the      *)
(* clock is only whether a wait has run out, so time is a count of ticks   *)
(* since the event waited on, stopped one tick past the wait.              *)
(***************************************************************************)
EXTENDS MoldSender, OrdersOfFeed

Itch == INSTANCE ItchMessages

LengthOf(m) == Itch!messageLength[m.type]

CONSTANTS
  Sockets,      \* 1..2 with a B feed, 1..1 without
  Feeds,        \* the sessions that may be sent, each a sequence of messages
  Malformed(_), \* the sockets on which, in a session, a malformed datagram may come
  Refs,         \* order reference numbers in the sessions
  Room,         \* slots of the pool
  GapWait,      \* --gap-wait-us in ticks
  IdleWait      \* --idle-ms in ticks

\* A message that one datagram carries, about orders of one instrument.
Sendable(m) ==
  /\ LengthOf(m) \in MessageBytes
  /\ m.type \in {"A", "F"} => m.ref \in Refs /\ m.locate = 1 /\ m.side \in {"B", "S"}
  /\ m.type = "U" => m.newRef \in Refs
  /\ m.type \in {"A", "F", "E", "C", "X", "U"} => m.shares \in Nat

ASSUME FeedsAssumption ==
  \A f \in Feeds : /\ DOMAIN f = 1..Len(f) /\ Len(f) \in 0..(MaxNumber - 1)
                   /\ \A i \in 1..Len(f) : Sendable(f[i])
\* The pool takes another slab when it is full: a slot is always free.
ASSUME RoomForAll ==
  IsFiniteSet(Refs) /\ 0 \notin Refs /\ Room \in Nat /\ Cardinality(Refs) < Room
ASSUME SocketsAssumption == Sockets = 1..1 \/ Sockets = 1..2
ASSUME MalformedAssumption == \A f \in Feeds : Malformed(f) \subseteq Sockets
ASSUME WaitsAssumption == GapWait \in Nat /\ IdleWait \in Nat

\* Of one instrument, with a pool of Room orders.
Books == INSTANCE ItchBuilder WITH
  Null <- 0, Locates <- {1}, kEmpty <- 0, Slots <- 1..Room

VARIABLES
  feed,          \* the session's messages, 1..LastMessage
  network,       \* datagrams sent to each feed that may still arrive
  queue,         \* each socket's receive queue
  pc,            \* where the loop is
  socket,        \* the socket it polls next
  got,           \* this pass has received something
  firstArrival,  \* something was received
  sequencer,
  malformed,     \* datagrams decode() refused
  idleFor,       \* ticks since lastArrival
  gapSince,      \* ticks since the gap timer was set, or Unset
  left           \* datagrams this pass left in each queue when it polled it

loopVars == <<pc, socket, got, firstArrival, sequencer, malformed, left>>
timeVars == <<idleFor, gapSince>>
vars == <<feed, network, queue, loopVars, timeVars>>

LastMessage == Len(feed)

Unset == -1

\* What fails decode(): too short, an overrun, a wrong count, ...
Garbage == [session |-> NoSession, sequence |-> 0, count |-> 0]

-----------------------------------------------------------------------------
(* The network.  sendTo() is given every packet once for each feed.        *)

\* Copies of one datagram are told apart by their place in the session.
Datagrams(s, sent) ==
  {[packet |-> sent[i], place |-> i] : i \in DOMAIN sent}
    \cup {[packet |-> Garbage, place |-> 0] : i \in {s} \cap Malformed(feed)}

-----------------------------------------------------------------------------
Init ==
  /\ feed \in Feeds
  /\ LET sent == SentFor([i \in 1..LastMessage |-> LengthOf(feed[i])])
     IN network = [s \in Sockets |-> Datagrams(s, sent)]
  /\ queue = [s \in Sockets |-> <<>>]
  /\ pc = "poll" /\ socket = 1 /\ got = FALSE /\ firstArrival = FALSE
  /\ sequencer = InitialSequencer /\ malformed = 0
  /\ idleFor = 0 /\ gapSince = Unset
  /\ left = [s \in Sockets |-> 0]

\* A socket is looked at when it is polled: when before that a datagram came
\* makes no difference.
Arrive(s, d) ==
  /\ pc = "poll" /\ socket = s
  /\ d \in network[s]
  /\ network' = [network EXCEPT ![s] = @ \ {d}]
  /\ queue' = [queue EXCEPT ![s] = Append(@, d.packet)]
  /\ UNCHANGED <<feed, loopVars, timeVars>>

Later(ticks, wait) == IF ticks > wait THEN ticks ELSE ticks + 1

\* The clock is read once a pass, for the timers.
Tick ==
  /\ pc = "timers"
  /\ idleFor' = Later(idleFor, IdleWait)
  /\ gapSince' = IF gapSince = Unset THEN Unset ELSE Later(gapSince, GapWait)
  /\ UNCHANGED <<feed, network, queue, loopVars>>

-----------------------------------------------------------------------------
(* The loop: one datagram of each socket, then the timers.                 *)

\* UdpSocket::receive() does not wait: it returns the next datagram or nothing.
Waiting(s) == queue[s] # <<>>

NextSocket ==
  IF socket + 1 \in Sockets
  THEN socket' = socket + 1 /\ UNCHANGED pc
  ELSE socket' = 1 /\ pc' = "timers"

PollEmpty ==
  /\ pc = "poll" /\ ~Waiting(socket)
  /\ NextSocket
  /\ left' = [left EXCEPT ![socket] = 0]
  /\ UNCHANGED <<feed, network, queue, got, firstArrival, sequencer>>
  /\ UNCHANGED <<malformed, timeVars>>

PollReceive ==
  /\ pc = "poll" /\ Waiting(socket)
  /\ NextSocket
  /\ got' = TRUE
  /\ queue' = [queue EXCEPT ![socket] = Tail(@)]
  /\ left' = [left EXCEPT ![socket] = Len(queue'[socket])]
  /\ LET p == Head(queue[socket])
     IN IF p = Garbage
        THEN malformed' = malformed + 1 /\ UNCHANGED sequencer
        ELSE sequencer' = OnPacket(sequencer, p) /\ UNCHANGED malformed
  /\ UNCHANGED <<feed, network, firstArrival, timeVars>>

\* Mutant: a gap is given up while datagrams may still be unread.
GiveUpDueUndrained == gapSince > GapWait
GiveUpDue == ~got /\ gapSince > GapWait

GapTimer ==
  IF ~GapOpen(sequencer)
  THEN gapSince' = Unset /\ UNCHANGED sequencer
  ELSE IF gapSince = Unset
  THEN gapSince' = 0 /\ UNCHANGED sequencer
  ELSE IF GiveUpDue
  THEN gapSince' = Unset /\ sequencer' = GiveUpGap(sequencer)
  ELSE UNCHANGED <<gapSince, sequencer>>

\* Mutant: the idle timer waits for the end of the session.
IdleStopNever == FALSE
IdleStop == ~got /\ firstArrival /\ idleFor > IdleWait

Timers ==
  /\ pc = "timers"
  /\ GapTimer
  /\ IF got THEN idleFor' = 0 /\ firstArrival' = TRUE
     ELSE UNCHANGED <<idleFor, firstArrival>>
  /\ pc' = IF IdleStop \/ sequencer'.ended THEN "closing" ELSE "poll"
  /\ got' = FALSE
  /\ UNCHANGED <<feed, network, queue, socket, malformed, left>>

\* Mutant: one gap is closed at exit, not all of them.
StillOpenOnce == GapOpen(sequencer) /\ sequencer.gaps = 0
StillOpen == GapOpen(sequencer)

CloseGap ==
  /\ pc = "closing" /\ StillOpen
  /\ sequencer' = GiveUpGap(sequencer)
  /\ UNCHANGED <<feed, network, queue, timeVars, left>>
  /\ UNCHANGED <<pc, socket, got, firstArrival, malformed>>

Exit ==
  /\ pc = "closing" /\ ~StillOpen
  /\ pc' = "exited"
  /\ UNCHANGED <<feed, network, queue, timeVars, left>>
  /\ UNCHANGED <<sequencer, socket, got, firstArrival, malformed>>

\* toBooks() gives the books each message as it is delivered, and nothing else
\* touches them: what was delivered, in its order, tells how they stand.
builder ==
  FoldLeft(LAMBDA b, d : Books!Handle(b, feed[d.number]), Books!NewBuilder,
           sequencer.delivered)

\* Mutant: a clean exit does not ask for the books' checks.
CleanWithoutBooks == sequencer.ended /\ sequencer.lost = 0 /\ malformed = 0
\* Exit code 0.
Clean ==
  /\ sequencer.ended /\ sequencer.lost = 0 /\ malformed = 0
  /\ builder.stats.unknownRefs = 0 /\ builder.stats.overExecutions = 0

Exited == pc = "exited" /\ UNCHANGED vars

Loop == PollEmpty \/ PollReceive \/ Timers \/ CloseGap \/ Exit

Next ==
  \/ \E s \in Sockets : \E d \in network[s] : Arrive(s, d)
  \/ Tick \/ Loop \/ Exited

\* The loop busy-polls: this is WF_vars(Loop), written out, as Loop is possible
\* in every state but an exit.
LoopGoesOn == []<>(pc = "exited") \/ []<><<Loop>>_vars

\* Time passes, though between the two timers of one pass and of the next it
\* need not: hence strong fairness.  The network promises nothing.
Spec == Init /\ [][Next]_vars /\ LoopGoesOn /\ SF_vars(Tick)
-----------------------------------------------------------------------------
(* Properties.                                                             *)

NumbersDelivered == [i \in DOMAIN sequencer.delivered |->
                       sequencer.delivered[i].number]

LostNumbers == (1..(sequencer.next - 1)) \ Range(NumbersDelivered)

\* mold_recv's "Exit code 0 only if the session ended with nothing lost, nothing
\* malformed, and the books consistent", and the converse: an exit is clean if
\* and only if every message of the sender was handed to the books, once and in
\* order, the end was seen, nothing malformed came, and each execution, cancel,
\* delete and replace fitted an order; the books are then those the feed leaves.
\* A reference given twice does not count (see ItchReplay, where it does).
CleanMeansComplete ==
  pc = "exited" =>
    LET complete == NumbersDelivered = [i \in 1..LastMessage |-> i]
        leaves == Leaves(feed)
    IN /\ Clean <=> /\ complete /\ sequencer.ended /\ malformed = 0
                    /\ ~leaves.unmatched
       /\ complete => Books!OrdersIn(builder) = leaves.orders

\* "A gap still open when the program stops is counted as lost": at exit every
\* message that any packet announced was delivered or is counted in lost.
ExitCountsEveryGap ==
  pc = "exited" =>
    /\ sequencer.next - 1 = Len(sequencer.delivered) + sequencer.lost
    /\ sequencer.next >= sequencer.known

\* The session is reported ended only when no message before its end is still
\* to come: each was delivered or given up.
EndedMeansAllAccounted == sequencer.ended => sequencer.next = LastMessage + 1

\* No message is given up while a packet with it lies in a socket queue where
\* this pass could have read it.
LosesNoneUnread ==
  \A s \in Sockets : \A i \in 1..left[s] :
    LET p == queue[s][i]
    IN (LostNumbers' \ LostNumbers) \cap p.sequence..(p.sequence + Messages(p) - 1) = {}

\* "Only with every socket drained": what the loop itself gives up, on the gap
\* timer or as it closes, lies unread in no socket.  The other step that gives
\* up a gap, Overflow, looks at no socket.
NoneLostUnread == [][Timers \/ CloseGap => LosesNoneUnread]_vars

\* A packet beyond a gap finds the hold buffer full: onPacket() gives up the
\* oldest gap "without waiting".
Overflow ==
  /\ PollReceive /\ Messages(Head(queue[socket])) # 0
  /\ Head(queue[socket]).sequence > sequencer.next
  /\ Len(sequencer.held) >= MaxHeld

\* Once something has arrived the program comes to an end, even if every
\* end-of-session packet is lost and gaps are open.
Stops == firstArrival ~> pc = "exited"
=============================================================================
