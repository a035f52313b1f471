----------------------------- MODULE ItchReader -----------------------------
(***************************************************************************)
(* ItchReader (include/ItchParser.hpp): cuts a file into its messages,     *)
(* each behind two bytes of length, through a buffer that slides over the  *)
(* file.  Operators on the reader's state; the file is a sequence of       *)
(* bytes, and what was read of it is what lies before `position`.          *)
(***************************************************************************)
EXTENDS Integers, Sequences, SequencesExt

CONSTANT MessageLength  \* messageLength() of each known type byte

ASSUME LengthsAssumption == MessageLength \in [DOMAIN MessageLength -> 1..64]

be16(hi, lo) == 256 * hi + lo

NewReader(bufferBytes) ==
  [buffer |-> [i \in 1..bufferBytes |-> 0], begin |-> 0, end |-> 0,
   position |-> 0, eof |-> FALSE, truncated |-> FALSE, messages |-> 0,
   unknownTypes |-> 0, lengthMismatches |-> 0]

Available(r) == r.end - r.begin

-----------------------------------------------------------------------------
(* ensure(): at least `need` bytes from begin on.                          *)

Grow(r, need) ==
  IF need <= Len(r.buffer) THEN r
  ELSE [r EXCEPT !.buffer = @ \o [i \in 1..(need - Len(@)) |-> 0]]

\* Mutant: the last unread byte is not moved.
SlideShort(r) ==
  [r EXCEPT !.buffer = [i \in DOMAIN @ |->
                          IF i < Available(r) THEN @[i + r.begin] ELSE @[i]],
            !.begin = 0, !.end = Available(r)]
\* What is unread goes to the front.
Slide(r) ==
  [r EXCEPT !.buffer = [i \in DOMAIN @ |->
                          IF i <= Available(r) THEN @[i + r.begin] ELSE @[i]],
            !.begin = 0, !.end = Available(r)]

\* fread() fills the buffer or comes to the end of the file, which the loop
\* finds out by reading once more when it has not got enough.
Refill(r, file, need) ==
  LET room == Len(r.buffer) - r.end
      unread == Len(file) - r.position
      n == IF r.eof \/ r.end >= need THEN 0
           ELSE IF room < unread THEN room ELSE unread
  IN [r EXCEPT !.buffer = [i \in DOMAIN @ |->
                             IF i \in (r.end + 1)..(r.end + n)
                             THEN file[r.position + i - r.end] ELSE @[i]],
               !.end = @ + n,
               !.position = @ + n,
               !.eof = @ \/ r.end + n < need]

Ensure(r, file, need) ==
  IF Available(r) >= need THEN r ELSE Refill(Slide(Grow(r, need)), file, need)

-----------------------------------------------------------------------------
(* One turn of next()'s loop.                                              *)

\* The reader once the length is there, and the length.
WithLength(r, file) == Ensure(r, file, 2)
LengthIn(r) == be16(r.buffer[r.begin + 1], r.buffer[r.begin + 2])

\* The reader once the whole message is there; in front of it is its length.
WithMessage(r, file) ==
  LET s == WithLength(r, file) IN Ensure(s, file, 2 + LengthIn(s))
MessageIn(r) == SubSeq(r.buffer, r.begin + 3, r.begin + 2 + LengthIn(r))

HasLength(r, file) == Available(WithLength(r, file)) >= 2
HasMessage(r, file) ==
  /\ HasLength(r, file)
  /\ Available(WithMessage(r, file)) >= 2 + LengthIn(WithLength(r, file))

KnownType(message) == message[1] \in DOMAIN MessageLength

WellFormed(message) ==
  message # <<>> /\ KnownType(message)
    /\ Len(message) = MessageLength[message[1]]

\* The reader past a message, which is counted if it is not well formed.
Past(r, message) ==
  LET unknown == message # <<>> /\ ~KnownType(message)
      mismatch == ~WellFormed(message) /\ ~unknown
  IN [r EXCEPT !.begin = @ + 2 + Len(message),
               !.messages = @ + 1,
               !.unknownTypes = @ + (IF unknown THEN 1 ELSE 0),
               !.lengthMismatches = @ + (IF mismatch THEN 1 ELSE 0)]

\* Mutant: an input that ends inside a length is not found truncated.
AtEndInMessage(r, file) ==
  IF HasLength(r, file) THEN [WithMessage(r, file) EXCEPT !.truncated = TRUE]
  ELSE WithLength(r, file)
\* The reader when the file has ended.
AtEnd(r, file) ==
  IF HasLength(r, file) THEN [WithMessage(r, file) EXCEPT !.truncated = TRUE]
  ELSE LET s == WithLength(r, file)
       IN [s EXCEPT !.truncated = Available(s) > 0]
=============================================================================
