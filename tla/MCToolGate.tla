----------------------------- MODULE MCToolGate -----------------------------
(* Instances of ToolGate for TLC.                                            *)
EXTENDS ToolGateProps, TLC

Symmetry == Permutations(States)
=============================================================================
