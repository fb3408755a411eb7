-------------------------- MODULE MCRelayDelivery --------------------------
(* Instances of RelayDelivery for TLC.                                     *)
EXTENDS RelayDelivery, TLC

Symmetric == Permutations(Inst) \cup Permutations(Sealed)
=============================================================================
