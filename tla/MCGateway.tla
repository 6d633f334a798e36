----------------------------- MODULE MCGateway -----------------------------
(* Gateway for TLC: one address, requests in two slots at a time. *)
EXTENDS Gateway, TLC

CONSTANTS n1, s1, s2

MCSlugs == {n1, "healthz"}
MCSymmetry == Permutations({s1, s2})
=============================================================================
