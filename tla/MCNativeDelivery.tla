-------------------------- MODULE MCNativeDelivery --------------------------
(* Small instances of NativeDelivery for TLC. *)
EXTENDS NativeDelivery, TLC

CONSTANTS u,        \* a member that sends
          p, q,     \* pinned members
          h1, h2,   \* native sessions
          c1, c2,   \* channels
          k1, k2, j1, j2

NoBudget == [c \in Channel |-> 0]
Homes == [r \in Session |-> IF r = p THEN h1 ELSE NoNative]
HookPlans ==
  {{"hooks", "ends", "crowd", "bound"}, {"hooks", "crowd", "bound"},
   {"hooks", "named", "churn"},
   {"hooks", "ends", "bound", "churn"},
   {"hooks", "bound", "hook", "sweep"},
   {"bound", "spawn", "turn", "disk", "sweep"},
   {"bound", "spawn", "churn"},
   {"bound", "spawn", "hooks"},
   {"bound", "spawn", "sweep", "exit"}}
\* Where sessions end, q is not there yet: p is the only pinned member.
TwoRooms ==
  [s \in HookPlans |->
     (c1 :> IF "ends" \in s THEN <<u, p>> ELSE <<u, p, q>>) @@ (c2 :> <<u>>)]
OneNamed == (h1 :> NoMember) @@ (h2 :> q)
=============================================================================
