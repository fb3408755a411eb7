---------------------------- MODULE MCRelayMemory ----------------------------
(* A small instance of RelayMemory: b writes to a under its name, and        *)
(* somebody without one, under the same id and with a stamp.                 *)
EXTENDS RelayMemory, TLC

CONSTANTS a, b

Envelopes == {[id |-> 1, to |-> a, from |-> b, size |-> 1, bits |-> 0],
              [id |-> 1, to |-> a, from |-> None, size |-> 2, bits |-> 1]}
=============================================================================
