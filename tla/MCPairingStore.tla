--------------------------- MODULE MCPairingStore ---------------------------
(* Model-checking instances of PairingStore: one caller, or several.         *)
EXTENDS PairingStore, TLC

CONSTANTS d1, d2, c1, c2

OneCaller == {c1}
TwoCallers == {c1, c2}
MCDevices == {d1, d2}
MCSymmetry == Permutations(MCDevices) \cup Permutations(TwoCallers)
=============================================================================
