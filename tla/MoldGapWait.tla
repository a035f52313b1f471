---------------------------- MODULE MoldGapWait -----------------------------
(***************************************************************************)
(* MoldReceiver with a history variable: for how long each message has     *)
(* been known to be missing.  It says what the gap timer of mold_recv      *)
(* (src/mold_recv.cpp) measures, and what it does not.                     *)
(***************************************************************************)
EXTENDS MoldReceiver

VARIABLE missingFor  \* ticks for which each message was known to be missing

HeldNumbers ==
  UNION {h.sequence..(h.sequence + h.count - 1) : h \in Range(sequencer.held)}

KnownMissing == (sequencer.next..(sequencer.known - 1)) \ HeldNumbers

WatchInit == Init /\ missingFor = [n \in 1..LastMessage |-> 0]

WatchTick ==
  /\ Tick
  /\ missingFor' = [n \in 1..LastMessage |->
       IF n \in KnownMissing THEN Later(missingFor[n], GapWait)
       ELSE missingFor[n]]

WatchNext ==
  \/ WatchTick
  \/ /\ Loop \/ Exited \/ \E s \in Sockets : \E d \in network[s] : Arrive(s, d)
     /\ UNCHANGED missingFor

WatchSpec == WatchInit /\ [][WatchNext]_<<vars, missingFor>>
-----------------------------------------------------------------------------
\* "--gap-wait-us is how long a gap may stay open before its messages are
\* counted as lost" (mold_recv.cpp): while the loop runs, each waits that long.
EveryGapGetsItsWait ==
  [][pc = "timers" => \A n \in LostNumbers' \ LostNumbers :
       missingFor[n] > GapWait]_<<vars, missingFor>>
=============================================================================
