----------------------------- MODULE MCItchBook -----------------------------
(* Model checking of ItchBook: instruments and references are model values *)
(* that nothing tells apart.                                               *)
EXTENDS ItchBook, TLC

TwoPrices == {1, 2}

Symmetry == Permutations(Locates) \cup Permutations(Refs)
=============================================================================
