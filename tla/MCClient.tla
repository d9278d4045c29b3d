------------------------------ MODULE MCClient ------------------------------
(* Client for TLC: the sockets are interchangeable.                        *)
EXTENDS Client, TLC

FdSymmetry == Permutations(Fds)
=============================================================================
