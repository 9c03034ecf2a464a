------------------------------ MODULE MCTunnel ------------------------------
(* Instances of Tunnel for TLC. *)
EXTENDS Tunnel, TLC

\* Connections are interchangeable (runs without liveness).
Symmetry == Permutations(Conns)
=============================================================================
