---------------------------- MODULE MCStateFiles ----------------------------
(* A small instance of StateFiles for TLC. *)
EXTENDS StateFiles, TLC

CONSTANTS p, q, m1, n1

Alike == Permutations({p, q})
=============================================================================
