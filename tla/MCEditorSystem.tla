---------------------------- MODULE MCEditorSystem ---------------------------
(* Values of the constants of EditorSystem for model checking.             *)
EXTENDS EditorSystem, TLC

\* The windows, the slots and the sessions are interchangeable
EditorSymmetry == Permutations(Window) \cup Permutations(Slot)
                    \cup Permutations(Session)
=============================================================================
