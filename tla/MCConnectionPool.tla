-------------------------- MODULE MCConnectionPool --------------------------
(* Instances of ConnectionPool for model checking. *)
EXTENDS ConnectionPool, TLC

Symmetry == Permutations(Consumers) \cup Permutations(Connections)
=============================================================================
