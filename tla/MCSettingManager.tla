-------------------------- MODULE MCSettingManager --------------------------
(* Values of the constants of SettingManager for model checking.           *)
EXTENDS SettingManager

\* "harvesting" and one node below it
MCBootParent == <<0, 1>>

\* one node
MCBootLeaf == <<0>>

TxSymmetry == Permutations(Tx)
=============================================================================
