------------------------------ MODULE MCNodes -------------------------------
(* A small instance of Nodes for TLC. *)
EXTENDS Nodes, TLC

Symmetric == Permutations(Key) \cup Permutations(Node)
=============================================================================
