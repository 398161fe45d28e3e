-------------------------- MODULE MCHalProperties --------------------------
(***************************************************************************)
(* HalProperties for TLC, with powers of two for the powers of ten.        *)
(***************************************************************************)
EXTENDS HalProperties

MCPower10 == [db \in DbInputs |-> 2 ^ (db - VOL_MIN_DB + 1)]

=============================================================================
