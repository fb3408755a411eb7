----------------------------- MODULE MCKtMirror -----------------------------
(* Small instances of KtMirror. *)
EXTENDS KtMirror
=============================================================================
