------------------------- MODULE MCGuardianRefinement -------------------------
(* Instances of GuardianRefinement for TLC. *)
EXTENDS GuardianRefinement

CONSTANTS s1, s2, p1, p2, p3, p4

MCServices == {s1, s2}
MCPids == {p1, p2, p3, p4}
NoFaults == {}
=============================================================================
