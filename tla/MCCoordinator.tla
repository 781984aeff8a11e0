-------------------------- MODULE MCCoordinator ---------------------------
(* Values for the runs of Coordinator. *)
EXTENDS Coordinator, TLC

CONSTANTS pA, pB, h1, h2, k1, k2, k3

ManyPlans ==
  {{"create", "write", pA, pB}, {"create", "stop", pB}, {"acp", "endacp", pB},
   {"stop", "resume", pA, pB}, {"hello", "bad", "create", pB}}
=============================================================================
