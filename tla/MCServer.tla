------------------------------ MODULE MCServer ------------------------------
(* Server for TLC: the connections are interchangeable.                    *)
EXTENDS Server, TLC

ConnSymmetry == Permutations(Conns)
=============================================================================
