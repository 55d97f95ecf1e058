--------------------------- MODULE MCIndexCoherence --------------------------
(* Symmetry of IndexCoherence for model checking.                           *)
EXTENDS IndexCoherence, TLC

ThreadSymmetry == Permutations(Thread)
=============================================================================
