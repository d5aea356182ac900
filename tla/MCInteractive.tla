---------------------------- MODULE MCInteractive ----------------------------
(* Instances of Interactive for TLC. *)
EXTENDS Interactive, TLC

CONSTANTS s1, s2, p1, p2, p3, p4

MCServices == {s1, s2}
MCPids == {p1, p2, p3, p4}
ForkFault == {"fork"}
Symmetry == Permutations(MCServices) \cup Permutations(MCPids)
=============================================================================
