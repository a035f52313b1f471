-------------------------- MODULE SequenceNumbers ---------------------------
(* MoldUDP64's sequence numbers (include/MoldUdp64.hpp): a session's first *)
(* message has number 1, and numbers end with their 64 bits.               *)
EXTENDS Integers

CONSTANT MaxNumber  \* largest sequence number: 2^64 - 1 in the code

ASSUME NumberAssumption == MaxNumber \in Nat \ {0}

FirstSequence == 1
=============================================================================
