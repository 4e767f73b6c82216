-------------------------- MODULE MCGroundStation --------------------------
(* The small instances of GroundStation that TLC checks. *)
EXTENDS GroundStation, TLC

\* Sockets have no order, nor have connections.
Symmetry == Permutations(Sockets) \cup Permutations(Connections)
=============================================================================
