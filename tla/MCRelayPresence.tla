-------------------------- MODULE MCRelayPresence --------------------------
(* Instances of RelayPresence for TLC.                                     *)
EXTENDS RelayPresence, TLC

Symmetric == Permutations(Inst) \cup Permutations(Sock)
=============================================================================
