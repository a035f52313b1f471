----------------------------- MODULE ItchReplay -----------------------------
(***************************************************************************)
(* itch_replay (bench/itch_replay.cpp) on a file of gen_itch: the bytes of *)
(* the file go through ItchReader, dispatch() and its decoders to the      *)
(* books, and the counters of all of them decide how the program exits.    *)
(*                                                                         *)
(* The file is as gen_itch wrote it or with one thing changed: a message   *)
(* dropped, repeated, or put in, one that is a byte short, one that is not *)
(* for the books, or the end cut off.  Left out: the latencies and the     *)
(* listener, and of a snapshot all but which book it shows.                *)
(***************************************************************************)
EXTENDS ItchBuilder, GenItch, OrdersOfFeed

CONSTANTS
  BufferBytes,  \* 4 << 20: small, for the buffer to slide
  Extras,       \* messages that may be put in
  Foreign       \* messages of other types, as bytes

ASSUME BufferAssumption == BufferBytes \in Nat

VARIABLES
  input,         \* the file
  reader,
  builder,
  heard,         \* the calls dispatch() made
  nextSnapshot,
  snapshots,     \* the times printed, with the best quotes shown
  done

vars == <<input, reader, builder, heard, nextSnapshot, snapshots, done>>

Reader == INSTANCE ItchReader WITH
  MessageLength <- [byte \in {Byte(c) : c \in DOMAIN messageLength} |->
                      messageLength[Char(byte)]]

-----------------------------------------------------------------------------
(* The files.                                                              *)

Places == 1..Len(Feed)

Bytes(messages) == [i \in DOMAIN messages |-> Encode(messages[i])]

\* A file, the messages in it that a handler should hear, and whether it is
\* made of well-formed messages only.
Input(frames, feed, intact) ==
  [file |-> FileOf(frames), feed |-> feed, intact |-> intact]

Whole == {Input(Bytes(feed), feed, TRUE) :
            feed \in {Feed} \cup {RemoveAt(Feed, k) : k \in Places}
                       \cup {InsertAt(Feed, k, m) : k \in Places, m \in Extras}
                       \cup {InsertAt(Feed, k, Feed[k]) : k \in Places}}

Short == {Input([Bytes(Feed) EXCEPT ![k] = Front(@)], RemoveAt(Feed, k), FALSE) : k \in Places}

Other == {Input(InsertAt(Bytes(Feed), k, m), Feed, Dispatched(m)) : k \in Places, m \in Foreign}

\* The file ends n bytes into its k-th message and that one's length.
CutOff ==
  UNION {{LET before == SubSeq(Bytes(Feed), 1, k - 1)
          IN [Input(before, SubSeq(Feed, 1, k - 1), FALSE) EXCEPT
                !.file = @ \o SubSeq(Emit(Encode(Feed[k])), 1, n)] :
            n \in {1, 2, 12}} : k \in Places}

Init ==
  /\ input \in Whole \cup Short \cup Other \cup CutOff
  /\ reader = Reader!NewReader(BufferBytes)
  /\ builder = NewBuilder
  /\ heard = <<>> /\ nextSnapshot = 1 /\ snapshots = <<>> /\ done = FALSE

-----------------------------------------------------------------------------
(* replay()                                                                *)

kMinute == kHour \div 60
snapshotTimes ==
  <<9 * kHour + 30 * kMinute, 10 * kHour, 12 * kHour, 15 * kHour + 59 * kMinute,
    16 * kHour + kMinute>>

\* printSnapshot(): the quotes of each instrument the directory names.
Snapshot(n) ==
  [at |-> snapshotTimes[n],
   shown |-> [l \in {l \in Locates : builder.symbols[l] # <<>>} |->
                [top |-> TopOf(builder.books[l]), last |-> builder.lastPrice[l]]]]

SnapshotDue(m) ==
  nextSnapshot <= Len(snapshotTimes) /\ be48(m, 5) >= snapshotTimes[nextSnapshot]

\* A message the reader skips.
Skip ==
  /\ ~done /\ Reader!HasMessage(reader, input.file)
  /\ LET r == Reader!WithMessage(reader, input.file)
         m == Reader!MessageIn(r)
     IN /\ ~Reader!WellFormed(m)
        /\ reader' = Reader!Past(r, m)
  /\ UNCHANGED <<input, builder, heard, nextSnapshot, snapshots, done>>

\* One that it returns: a snapshot at most, and then the books.
Replay ==
  /\ ~done /\ Reader!HasMessage(reader, input.file)
  /\ LET r == Reader!WithMessage(reader, input.file)
         m == Reader!MessageIn(r)
     IN /\ Reader!WellFormed(m)
        /\ reader' = Reader!Past(r, m)
        /\ IF SnapshotDue(m)
           THEN /\ snapshots' = Append(snapshots, Snapshot(nextSnapshot))
                /\ nextSnapshot' = nextSnapshot + 1
           ELSE UNCHANGED <<snapshots, nextSnapshot>>
        /\ IF Dispatched(m) /\ TypeOf(m) \in Handled
           THEN builder' = Handle(builder, Call(m)) /\ heard' = Append(heard, Call(m))
           ELSE UNCHANGED <<builder, heard>>
  /\ UNCHANGED <<input, done>>

EndOfInput ==
  /\ ~done /\ ~Reader!HasMessage(reader, input.file)
  /\ reader' = Reader!AtEnd(reader, input.file)
  /\ snapshots' = snapshots \o [i \in 1..(Len(snapshotTimes) + 1 - nextSnapshot) |->
                                  Snapshot(nextSnapshot + i - 1)]
  /\ nextSnapshot' = Len(snapshotTimes) + 1
  /\ done' = TRUE
  /\ UNCHANGED <<input, builder, heard>>

\* Mutant: a reused reference does not matter.
OkReused ==
  /\ reader.lengthMismatches = 0 /\ reader.unknownTypes = 0 /\ ~reader.truncated
  /\ builder.stats.unknownRefs = 0 /\ builder.stats.overExecutions = 0
\* Exit code 0.
Ok ==
  /\ reader.lengthMismatches = 0 /\ reader.unknownTypes = 0 /\ ~reader.truncated
  /\ builder.stats.unknownRefs = 0 /\ builder.stats.overExecutions = 0
  /\ builder.stats.duplicateRefs = 0

Exited == done /\ UNCHANGED vars

Next == Skip \/ Replay \/ EndOfInput \/ Exited

Spec == Init /\ [][Next]_vars
-----------------------------------------------------------------------------
(* Properties.                                                             *)

\* Through encoder, file, buffer and decoder: the handlers are called with every
\* message of the file that is whole and for them, field by field what its
\* writer put in, in order, and with no other.
HearsWhatWasSent ==
  /\ heard = SubSeq(input.feed, 1, Len(heard))
  /\ done => heard = input.feed

Fits(left) == ~left.unmatched /\ ~left.reused

\* "Exit code 1 if any consistency check fails", and only then: exit code 0 if
\* and only if the file was whole and each message fitted those before it; the
\* books then hold just the orders the feed leaves.  The files gen_itch writes
\* are consistent, as it says.
ExitTellsTheFile ==
  done =>
    /\ Ok <=> input.intact /\ Fits(Leaves(input.feed))
    /\ Ok => OrdersIn(builder) = Leaves(input.feed).orders
    /\ input.file = FileOf(Bytes(Feed)) => Ok
=============================================================================
