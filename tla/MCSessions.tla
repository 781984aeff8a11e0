----------------------------- MODULE MCSessions -----------------------------
(* Values for the runs of Sessions. *)
EXTENDS Sessions, TLC

CONSTANTS a, b, s1, s2, s3

Symmetry == Permutations({s1, s2, s3})
=============================================================================
