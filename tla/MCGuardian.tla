------------------------------ MODULE MCGuardian ------------------------------
(* Instances of Guardian for TLC. *)
EXTENDS Guardian, TLC

CONSTANTS s1, s2, p1, p2, p3, p4

MCServices == {s1, s2}
MCPids == {p1, p2, p3, p4}
NoFaults == {}
EveryFault == AllFaults
ForkFault == {"fork"}
PidReuseFault == {"pid_reuse"}
Symmetry == Permutations(MCServices) \cup Permutations(MCPids)
=============================================================================
