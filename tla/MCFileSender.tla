---------------------------- MODULE MCFileSender ----------------------------
(* Model checking of FileSender: two known types, of one and three bytes,  *)
(* and messages that are well formed, empty, too long, or of no known type.*)
EXTENDS FileSender

Lengths == (10 :> 1) @@ (30 :> 3)

Contents == {<<10>>, <<30, 1, 2>>, <<>>, <<10, 30>>, <<99>>}
=============================================================================
