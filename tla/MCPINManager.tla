---------------------------- MODULE MCPINManager ----------------------------
(* Model-checking instance of PINManager: three codes, so that a guess can   *)
(* be wrong in two ways.                                                     *)
EXTENDS PINManager, TLC

CONSTANTS p1, p2, p3

MCPins == {p1, p2, p3}
MCSymmetry == Permutations(MCPins)
=============================================================================
