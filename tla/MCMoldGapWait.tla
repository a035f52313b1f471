---------------------------- MODULE MCMoldGapWait ---------------------------
(* Model checking of MoldGapWait: three orders, each in a packet of its    *)
(* own, so that two gaps may be open.                                      *)
EXTENDS MoldGapWait

ThreeOrders ==
  {[ref \in 1..3 |-> [type |-> "A", locate |-> 1, ref |-> ref, side |-> "B",
                      shares |-> 1, price |-> 1]]}

NoNoise(f) == {}
=============================================================================
