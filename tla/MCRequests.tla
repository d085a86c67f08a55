------------------------------ MODULE MCRequests ------------------------------
(* Small instances of Requests for TLC. *)
EXTENDS Requests, TLC

Symmetry == Permutations(Peers) \cup Permutations(Conns)
=============================================================================
