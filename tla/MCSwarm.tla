------------------------------ MODULE MCSwarm ------------------------------
(***************************************************************************)
(* Swarm for TLC: two devices.                                             *)
(***************************************************************************)
EXTENDS Swarm, TLC

CONSTANTS d1, d2

MCDevice == {d1, d2}
=============================================================================
