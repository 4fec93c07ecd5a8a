----------------------------- MODULE MCToolCalls -----------------------------
(* Instances of ToolCalls for TLC. *)
EXTENDS ToolCalls, TLC

CONSTANTS g1, g2, s1, s2

HubSymmetry == Permutations({s1, s2})

=============================================================================
