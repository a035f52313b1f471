----------------------------- MODULE MoldSender -----------------------------
(***************************************************************************)
(* mold_send (src/mold_send.cpp) and the PacketWriter it fills             *)
(* (include/MoldUdp64.hpp), as operators on the sender's state: a file's   *)
(* ITCH messages become packets, a packet is sent when the next message    *)
(* does not fit, and the end of the session is sent Ends times.  Of a      *)
(* message only its length matters here.                                   *)
(***************************************************************************)
EXTENDS Sequencer

CONSTANTS
  Session,       \* --session
  MaxBytes,      \* --max-bytes: the size of a datagram
  MessageBytes,  \* lengths of the file's messages
  Ends           \* copies of the end-of-session packet: 3 in the code

kHeaderBytes == 20
kLengthBytes == 2

\* An empty packet takes any message, so main's error return is not reached:
\* --max-bytes is at least 86, and no ITCH message is longer than 50 bytes.
ASSUME BytesAssumption ==
  /\ MaxBytes \in Nat /\ MessageBytes \subseteq Nat \ {0}
  /\ \A length \in MessageBytes :
       kHeaderBytes + kLengthBytes + length <= MaxBytes
ASSUME EndsAssumption == Ends \in Nat
\* A packet of one message is not taken for the end of the session.
ASSUME RoomAssumption == kEndOfSession > 1
ASSUME SessionAssumption == Session # NoSession

-----------------------------------------------------------------------------
(* PacketWriter: the packet under construction.                            *)

Begin(sequence) == [sequence |-> sequence, count |-> 0, size |-> kHeaderBytes]

Fits(w, length) ==
  /\ w.count # kEndOfSession - 1
  /\ MaxBytes - w.size >= kLengthBytes + length

Add(w, length) ==
  [w EXCEPT !.count = @ + 1, !.size = @ + kLengthBytes + length]

FinishWithCount(w, count) ==
  [session |-> Session, sequence |-> w.sequence, count |-> count]

-----------------------------------------------------------------------------
(* main(): the writer, the next packet's sequence number, what was sent.   *)

InitialSender ==
  [writer |-> Begin(FirstSequence), nextSequence |-> FirstSequence, sent |-> <<>>]

Flush(s) ==
  LET next == s.nextSequence + s.writer.count
  IN IF s.writer.count = 0 THEN s
     ELSE [writer |-> Begin(next), nextSequence |-> next,
           sent |-> Append(s.sent, FinishWithCount(s.writer, s.writer.count))]

SendMessage(s, length) ==
  LET t == IF Fits(s.writer, length) THEN s ELSE Flush(s)
  IN [t EXCEPT !.writer = Add(@, length)]

SendEnd(s) ==
  LET end == FinishWithCount(Begin(s.nextSequence), kEndOfSession)
  IN [s EXCEPT !.sent = @ \o [i \in 1..Ends |-> end]]

\* The sender after each message of a file whose messages have these lengths,
\* and what it has sent in the end.
SenderTurns(lengths) ==
  LET after[n \in 0..Len(lengths)] ==
        IF n = 0 THEN InitialSender ELSE SendMessage(after[n - 1], lengths[n])
  IN after
SentFor(lengths) == SendEnd(Flush(SenderTurns(lengths)[Len(lengths)])).sent
=============================================================================
