---------------------------- MODULE MCTaskLedger ----------------------------
(* Small instances of TaskLedger for TLC. *)
EXTENDS TaskLedger

CONSTANTS t1, t2,          \* tasks
          a1, a2,          \* agents
          o1, o2, o3, o4,  \* request ids
          k1,              \* a criterion
          c1, c2           \* channels, c2 of more than 200 characters

Ask(op, agent, channel, deps) ==
  [op |-> op, agent |-> agent, channel |-> channel, dependencies |-> deps,
   criteria |-> {k1}]

Give(op, agent, confirmed) ==
  [op |-> op, task |-> t1, agent |-> agent, confirmed |-> confirmed]

To(next, evidence, review) ==
  [next |-> next, evidence |-> evidence, review |-> review, criteria |-> {}]

Says(outcome, reviewer) == {[outcome |-> outcome, reviewer |-> reviewer]}

Bare(next) == To(next, {}, {})

\* A task and one that rests on it.
Dependent ==
  [requests |-> {Ask(o1, a1, c1, {}), Ask(o2, a2, c1, {t1})},
   handoffs |-> {}, old |-> {},
   reports |->
     {Bare("assigned"), Bare("running"), Bare("review"), Bare("cancelled"),
      To("running", {{<<k1, "passes">>}}, Says("accepted", a2)),
      To("review", {{<<k1, "artifact">>}}, {}),
      To("verified_complete", {{<<k1, "passes">>}}, Says("accepted", Operator)),
      To("verified_complete", {}, Says("accepted", a2)),
      To("verified_complete", {{<<k1, "passes">>}}, {})}]

\* A task handed to a2 and back, with and without the confirmation.
HandedOn ==
  [requests |-> {Ask(o1, a1, c1, {})},
   handoffs |-> {Give(o3, a2, FALSE), Give(o3, a2, TRUE), Give(o4, a1, TRUE)},
   old |-> {},
   reports |->
     {Bare("running"), Bare("blocked"), Bare("review"), Bare("cancelled"),
      To("running", {}, Says("changes_requested", Operator)),
      To("review", {{<<k1, "passes">>}}, Says("accepted", Operator)),
      Bare("verified_complete")}]

\* A task of an earlier version.
OldTask ==
  [requests |-> {},
   handoffs |-> {Give(o3, a2, TRUE)},
   old |-> {t1},
   reports |-> {Bare("running"), Bare("blocked"), Bare("cancelled")}]

\* A task, and an assignment to a channel with too long a name.
TooLong ==
  [requests |-> {Ask(o1, a1, c1, {}), Ask(o2, a2, c2, {})},
   handoffs |-> {}, old |-> {},
   reports |-> {Bare("running"), Bare("cancelled")}]

WorkPlans == {Dependent, HandedOn, OldTask, TooLong}
=============================================================================
