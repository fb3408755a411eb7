------------------------------ MODULE MCKtLog ------------------------------
(* Small instances of KtLog. *)
EXTENDS KtLog

=============================================================================
