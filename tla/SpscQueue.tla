------------------------------ MODULE SpscQueue -----------------------------
(***************************************************************************)
(* What RingBuffer (include/RingBuffer.hpp) promises its two threads: a    *)
(* queue of at most Capacity messages that hands over every message once,  *)
(* undamaged and in the order it was published, and in the end all of      *)
(* them.  The slots, the indices and the memory orders are SpscRing's.     *)
(***************************************************************************)
EXTENDS Naturals, Sequences

CONSTANTS Capacity, Total

VARIABLES
  inFlight,  \* messages published and not yet consumed, oldest first
  received   \* messages consumed, in order

queueVars == <<inFlight, received>>

Init == inFlight = <<>> /\ received = <<>>

\* Messages are numbered from 1 in the order they are published.
Send ==
  LET message == Len(received) + Len(inFlight) + 1
  IN /\ message <= Total
     /\ Len(inFlight) < Capacity
     /\ inFlight' = Append(inFlight, message)
     /\ UNCHANGED received

Receive ==
  /\ inFlight # <<>>
  /\ received' = Append(received, Head(inFlight))
  /\ inFlight' = Tail(inFlight)

Next == Send \/ Receive

Spec == Init /\ [][Next]_queueVars /\ WF_queueVars(Send) /\ WF_queueVars(Receive)
=============================================================================
