-------------------------- MODULE MCLuceneSearchers --------------------------
(* Values of the constants of LuceneSearchers for model checking.          *)
EXTENDS LuceneSearchers, TLC

SessionSymmetry == Permutations(Session)
=============================================================================
