-------------------------- MODULE MCSessionHistory -------------------------
(***************************************************************************)
(* SessionHistory for TLC: a short history with the code's proportions     *)
(* (CompactCount + 2 <= Threshold < MaxHistory) and prompts that are       *)
(* interchangeable.                                                        *)
(***************************************************************************)
EXTENDS SessionHistory, TLC

CONSTANTS p1, p2, p3

MCTwo == {p1, p2}
MCThree == {p1, p2, p3}
MCSymmetry2 == Permutations(MCTwo)
MCSymmetry3 == Permutations(MCThree)
=============================================================================
