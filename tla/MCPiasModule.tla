---------------------------- MODULE MCPiasModule ----------------------------
(* PiasModule for TLC: two of the three flows are in the same list.          *)
EXTENDS PiasModule, TLC

CONSTANTS f1, f2, f3

MCHash == f1 :> 0 @@ f2 :> 0 @@ f3 :> 1

Symmetry == Permutations(Cpus) \cup Permutations(Nodes) \cup Permutations({f1, f2})
=============================================================================
