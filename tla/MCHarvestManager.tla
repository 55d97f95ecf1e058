--------------------------- MODULE MCHarvestManager ---------------------------
(* Values of the constants of HarvestManager for model checking.           *)
EXTENDS HarvestManager

RequestSymmetry == Permutations(Request)
=============================================================================
