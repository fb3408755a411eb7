------------------------- MODULE MCRelayAdmission -------------------------
\* Small instances of RelayAdmission.
EXTENDS RelayAdmission, TLC

Symmetric == Permutations(Rid)
=============================================================================
