------------------------------ MODULE MCGateway ------------------------------
(* Model-checking instances of Gateway.                                      *)
EXTENDS Gateway, TLC

CONSTANTS d1, d2, h1, h2, p1, p2

MCDevices == {d1, d2}
MCHandlers == {h1, h2}
MCPins == {p1, p2}
MCConfigs == {[RequireConfirmFirstConnect |-> TRUE, HasConfirmer |-> TRUE],
              [RequireConfirmFirstConnect |-> FALSE, HasConfirmer |-> TRUE],
              [RequireConfirmFirstConnect |-> TRUE, HasConfirmer |-> FALSE]}
MCConfirming == {[RequireConfirmFirstConnect |-> TRUE, HasConfirmer |-> TRUE]}
MCSymmetry == Permutations(MCDevices) \cup Permutations(MCHandlers)
                \cup Permutations(MCPins)
=============================================================================
