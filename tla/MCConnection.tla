---------------------------- MODULE MCConnection ----------------------------
(* Connection for TLC: the clients are interchangeable. *)
EXTENDS Connection

Symmetry == Permutations(Clients)
=============================================================================
