---------------------------- MODULE MCItchReplay ----------------------------
(* Model checking of ItchReplay: messages of the types gen_itch does not   *)
(* write, fitting or not depending on where they are put.                  *)
EXTENDS ItchReplay

Name == <<71, 79, 79, 71, 76, 32, 32, 32>>

Later(fields) == [locate |-> 1, timestamp |-> Opening + 30] @@ fields

MoreMessages ==
  {Later([type |-> "H", stock |-> Name, state |-> "H", reason |-> <<84, 49, 32, 32>>]),
   Later([type |-> "C", ref |-> 1004, shares |-> 100, match |-> 7,
          printable |-> "N", price |-> 1499000]),
   Later([type |-> "E", ref |-> 1001, shares |-> 90, match |-> 8]),
   Later([type |-> "U", oldRef |-> 1004, newRef |-> 1005, shares |-> 65600,
          price |-> 1499500])}

\* A message dispatch() ignores, one of no type, and one that is empty.
NotForTheBooks ==
  {<<Byte("Y")>> \o [i \in 1..19 |-> IF i > 10 THEN 89 ELSE 0], <<33, 0, 0>>, <<>>}
=============================================================================
