------------------------- MODULE MCManagedDelivery -------------------------
(* Small instances of ManagedDelivery for TLC. *)
EXTENDS ManagedDelivery, TLC

CONSTANTS u,        \* a linked member that sends
          g1, h1,   \* sessions of managed agents
          a1,       \* an agent
          c1,       \* a channel
          k1, k2    \* controllers

SmallRoom == c1 :> <<u, g1>>
\* The operations that interfere with each other, with the faults that
\* matter to them.
OperatorPlans ==
  {{"emergency", "pause", "disk"},
   {"emergency", "stop", "acp"},
   {"stop", "restart", "link", "status", "unknown"},
   {"stop", "restart", "crash", "status", "acp"},
   {"sweep", "crash", "refuse", "disk", "unknown"},
   {"kick", "link", "sweep", "unknown", "acp"},
   {"kick", "link", "sweep", "emergency"}}

NoBudget == c1 :> 0
OneHome == a1 :> g1
=============================================================================
