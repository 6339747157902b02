--------------------------- MODULE MCActionBridge --------------------------
(***************************************************************************)
(* ActionBridge for TLC: two threads at a time, and an action that changes *)
(* while it is synchronised, listed and executed.                          *)
(***************************************************************************)
EXTENDS ActionBridge, TLC

CONSTANTS t1, t2, a1

MCCaller == {t1, t2}
MCAction == {a1}
MCVersion == {1, 2}
=============================================================================
