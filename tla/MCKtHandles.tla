---------------------------- MODULE MCKtHandles ----------------------------
(* Small instances of KtHandles. *)
EXTENDS KtHandles, TLC

\* The log tells no name from another.
Symmetric == Permutations(Label)
=============================================================================
