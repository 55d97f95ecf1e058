-------------------------- MODULE MCSettingCoherence --------------------------
(* Values of the constants of SettingCoherence for model checking.           *)
EXTENDS SettingCoherence

\* "harvesting" and one node below it
MCBootParent == <<0, 1>>

\* one node
MCBootLeaf == <<0>>

TxSymmetry == Permutations(Tx)
=============================================================================
