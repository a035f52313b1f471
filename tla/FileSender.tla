----------------------------- MODULE FileSender -----------------------------
(***************************************************************************)
(* mold_send (src/mold_send.cpp) from its input to its last packet: an     *)
(* ItchReader gives it the messages of a file, whole or cut off anywhere,  *)
(* and the sender of MoldSender puts them into packets.                    *)
(***************************************************************************)
EXTENDS MoldSender, ItchReader

CONSTANTS
  Frames,       \* contents of a file's messages, well formed or not
  MaxMessages,  \* messages in a file: bounds the model
  BufferSizes   \* sizes the reader's buffer can start with: 2^20 in the code

ASSUME FramesAssumption == \A f \in Frames : f = <<>> \/ Len(f) \in 1..64
ASSUME LimitAssumption == MaxMessages \in Nat
ASSUME BuffersAssumption == BufferSizes \subseteq Nat

VARIABLES
  input,   \* the messages in the file, the last one perhaps cut off
  file,    \* its bytes
  reader,
  sender,
  given,   \* the messages next() has returned
  done

vars == <<input, file, reader, sender, given, done>>

Framed(message) == <<Len(message) \div 256, Len(message) % 256>> \o message

Bytes(messages) ==
  FoldLeft(LAMBDA bytes, m : bytes \o Framed(m), <<>>, messages)

Init ==
  /\ input \in UNION {[1..n -> Frames] : n \in 0..MaxMessages}
  /\ \E length \in 0..Len(Bytes(input)) : file = SubSeq(Bytes(input), 1, length)
  /\ \E size \in BufferSizes : reader = NewReader(size)
  /\ sender = InitialSender
  /\ given = <<>> /\ done = FALSE

\* A turn of next()'s loop that comes to a message; main() sends it if next()
\* returns it.
ReadMessage ==
  /\ ~done /\ HasMessage(reader, file)
  /\ LET r == WithMessage(reader, file)
         message == MessageIn(r)
     IN /\ reader' = Past(r, message)
        /\ IF WellFormed(message)
           THEN /\ sender' = SendMessage(sender, Len(message))
                /\ given' = Append(given, message)
           ELSE UNCHANGED <<sender, given>>
  /\ UNCHANGED <<input, file, done>>

Finish(s) == SendEnd(Flush(s))

EndOfInput ==
  /\ ~done /\ ~HasMessage(reader, file)
  /\ reader' = AtEnd(reader, file)
  /\ sender' = Finish(sender)
  /\ done' = TRUE
  /\ UNCHANGED <<input, file, given>>

Exited == done /\ UNCHANGED vars

Next == ReadMessage \/ EndOfInput \/ Exited

Spec == Init /\ [][Next]_vars
-----------------------------------------------------------------------------
(* Properties.                                                             *)

\* The messages of the file that are all there, and whether it ends in another.
WholeMessages ==
  CHOOSE n \in 0..Len(input) :
    /\ Len(Bytes(SubSeq(input, 1, n))) <= Len(file)
    /\ n < Len(input) => Len(Bytes(SubSeq(input, 1, n + 1))) > Len(file)
Whole == SubSeq(input, 1, WholeMessages)

\* Every well-formed message of the file, and no other, is sent: in order, the
\* numbers of the packets following on one another from 1 and no packet taken
\* for the end of the session, whose number is the first one not sent.
SendsTheWholeFile ==
  done =>
    /\ given = SelectSeq(Whole, WellFormed)
    /\ LET sent == sender.sent
           NextOf(i) == sent[i].sequence + Messages(sent[i])
       IN \A i \in DOMAIN sent :
            /\ sent[i].sequence = IF i = 1 THEN FirstSequence ELSE NextOf(i - 1)
            /\ sent[i].count = kEndOfSession <=> i > Len(sent) - Ends
            /\ i = Len(sent) => NextOf(i) = Len(given) + 1

\* What the reader reports is what the file holds: messages it skipped are
\* counted, and an input cut off inside a message is found truncated.
ReportsTheFile ==
  done =>
    /\ reader.messages = WholeMessages
    /\ reader.unknownTypes + reader.lengthMismatches = WholeMessages - Len(given)
    /\ reader.truncated <=> Bytes(Whole) # file
=============================================================================
