--------------------------- MODULE MCComputerService ---------------------------
(***************************************************************************)
(* Two words, typed in three deltas: a word with its space, a piece of a   *)
(* word that is longer than a delta, and the rest.                         *)
(***************************************************************************)
EXTENDS ComputerService, TLC

TwoWords == {<<"a", " ", "b", "c", "d">>}

Symmetry == Permutations(Calls)
=============================================================================
