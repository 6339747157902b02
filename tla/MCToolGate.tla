----------------------------- MODULE MCToolGate ----------------------------
(***************************************************************************)
(* ToolGate for TLC: two prompts on one session and a limited tool.        *)
(***************************************************************************)
EXTENDS ToolGate, TLC

CONSTANTS p1, p2, s1, x1, b1, a1, r1, r2

MCPrompt == {p1, p2}
MCSession == {s1}
MCSessionOf == [p \in MCPrompt |-> s1]
MCTool == {x1, b1}
MCArg == {a1}
MCBlocked == {b1}
MCLimited == {x1}
MCRedirect == [n \in MCTool |-> x1]
MCResult == {r1, r2}
MCSymmetry == Permutations(MCPrompt) \cup Permutations(MCResult)
=============================================================================
