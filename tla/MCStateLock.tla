---------------------------- MODULE MCStateLock ----------------------------
(* Small instances of StateLock for TLC: p1 may die holding the lock. *)
EXTENDS StateLock

CONSTANTS p1, p2, p3
=============================================================================
