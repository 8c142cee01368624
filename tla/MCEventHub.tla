----------------------------- MODULE MCEventHub -----------------------------
(* Model-checking instances of EventHub: the stream of one of two            *)
(* controllers, which wants traffic and logs.                                *)
EXTENDS EventHub, TLC

CONSTANTS s1, d1, d2, n1, n2

OneRequest == s1 :> [dev |-> d1, topics |-> {"traffic", "logs"}, level |-> "warning"]
=============================================================================
