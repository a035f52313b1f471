---------------------------- MODULE MCRingHarness ---------------------------
(* Model checking of RingHarness: the two cores' counters agree, or the    *)
(* consumer's is a tick behind.                                            *)
EXTENDS RingHarness

SkewValues == {0, -1}
=============================================================================
