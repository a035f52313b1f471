---------------------------- MODULE MCMoldReceiver --------------------------
(* Model checking of MoldReceiver: sessions of three messages, which lie   *)
(* in three packets, in two, or in one; in some, a message fits no order.  *)
(* In the first a malformed datagram may come on feed A.                   *)
EXTENDS MoldReceiver

Enter(ref) == [type |-> "A", locate |-> 1, ref |-> ref, side |-> "B", shares |-> 2, price |-> 1]
Execute(ref, n) == [type |-> "E", locate |-> 1, ref |-> ref, shares |-> n]
Cancel(ref, n) == [type |-> "X", locate |-> 1, ref |-> ref, shares |-> n]
Delete(ref) == [type |-> "D", locate |-> 1, ref |-> ref]
Event(code) == [type |-> "S", locate |-> 0, code |-> code]

Sessions ==
  {<<Enter(1), Cancel(1, 1), Delete(1)>>,   \* {1, 2} {3}
   <<Enter(1), Execute(1, 1), Delete(1)>>,  \* {1} {2, 3}
   <<Enter(1), Enter(1), Execute(1, 2)>>,   \* {1} {2} {3}, a reference reused
   <<Enter(1), Execute(1, 3), Delete(1)>>,  \* more executed than there is
   <<Event("Q"), Delete(1), Event("M")>>}   \* {1, 2, 3}, no such order

NoiseIn(f) == IF f[2].type = "X" THEN {1} ELSE {}
=============================================================================
