-------------------------- MODULE MCAgentLifecycle --------------------------
(* Small instances of AgentLifecycle for TLC. *)
EXTENDS AgentLifecycle

CONSTANTS a1, a2,      \* agents
          h1, h2, h3,  \* host sessions
          n1, n2,      \* names
          o1,          \* an operation id
          x1, x2       \* open calls

\* Two requests share an operation id, two share a name, one is a lead's.
ThreeRequests ==
  {[name |-> n1, lead |-> FALSE, op |-> o1],
   [name |-> n2, lead |-> FALSE, op |-> o1],
   [name |-> n1, lead |-> TRUE, op |-> NoOp]}
=============================================================================
