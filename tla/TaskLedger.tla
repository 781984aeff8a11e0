----------------------------- MODULE TaskLedger -----------------------------
(***************************************************************************)
(* The task ledger in .opencomms/orchestrator.json: assignTask,            *)
(* transitionTask and reassignTask of src/src/orchestrator/api.ts over the *)
(* records of orchestrator/tasks.ts and the envelopes of the channel       *)
(* engine.                                                                 *)
(*                                                                         *)
(* Each call is one section under the lock that both stores share, but it  *)
(* saves the two files one after the other and may die, or fail to write,  *)
(* between two saves: "far" says which save was its last.  Every section   *)
(* starts by reconciling the records with the envelopes (taskViews).       *)
(* A call that is refused for what is not modelled here (the agent has no  *)
(* session, its node no grant, its files an owner) changes nothing.        *)
(***************************************************************************)
EXTENDS Integers, FiniteSets, Sequences

CONSTANTS
  Task,         \* task ids; newTaskId never repeats one
  Agent,        \* the agents, each with the one session mail reaches it by
  Operator,     \* the local operator
  Op,           \* request ids
  NoOp,         \* an assignment without one
  Criterion,    \* acceptance criteria
  LongChannel,  \* channel names of more than 200 characters
  Channel,      \* channel names
  Plans,        \* the assignments, handoffs and reports made (a bound)
  Refusals,     \* how mail can end undelivered (a bound)
  MaxMsg,       \* envelopes ever enqueued (a bound)
  MaxRevision,  \* decisions per task (a bound)
  MaxTasks,     \* MAX_TASKS
  MaxHandoffs,  \* MAX_TASK_REASSIGNMENTS
  MaxRounds,    \* max_review_rounds
  MaxFaults     \* sections that die between two saves (a bound)

Msg == 1..MaxMsg
NoMsg == 0

ExecutionStates == {"ready", "assigned", "running", "blocked", "review",
                    "verified_complete", "failed", "cancelled"}
Terminal == {"verified_complete", "failed", "cancelled"}

DeliveryStates == {"unknown", "queued", "in_flight", "delivered",
                   "acknowledged", "failed", "stale"}

\* What an evidence entry says of its criterion: a passing check, behavior
\* or review; a passing artifact, which proves nothing; a failing check.
Verdict == {"passes", "artifact", "fails"}
Evidence == Criterion \X Verdict

\* A review, with the attempt and the round it was recorded in (history).
NoReview == [outcome |-> "none", reviewer |-> Operator, at |-> <<0, 0>>]
Review == {NoReview} \cup
  [outcome : {"accepted", "changes_requested"},
   reviewer : Agent \cup {Operator},
   at : (0..MaxHandoffs) \X (0..MaxRounds)]

\* An assignment and a handoff as asked for.  A fingerprint is the hash of
\* all that is asked for, so two are equal when the requests are.
Assignment == [op : Op \cup {NoOp}, agent : Agent, channel : Channel,
               dependencies : SUBSET Task, criteria : SUBSET Criterion]
Transfer == [op : Op, task : Task, agent : Agent, confirmed : BOOLEAN]

\* The next state a report asks for, and the evidence, review and criteria
\* it replaces; {} keeps them.
Report ==     [next : ExecutionStates,
               evidence : SUBSET (SUBSET Evidence),
               review : SUBSET [outcome : {"accepted", "changes_requested"},
                                reviewer : Agent \cup {Operator}],
               criteria : SUBSET (SUBSET Criterion)]

Plan == [requests : SUBSET Assignment, handoffs : SUBSET Transfer,
         reports : SUBSET Report, old : SUBSET Task]

ASSUME LedgerAssumption ==
  /\ Operator \notin Agent
  /\ NoOp \notin Op
  /\ NoOp \notin Channel
  /\ LongChannel \subseteq Channel
  /\ Plans \subseteq Plan
  /\ Refusals \subseteq {"rejected", "stale", "failed"}
  /\ {MaxMsg, MaxRevision, MaxTasks, MaxHandoffs, MaxRounds, MaxFaults}
       \subseteq Nat

VARIABLES
  tasks,  \* the task records in orchestrator.json
  mail,   \* the envelopes in state.json, and who they are for
  plan,   \* what is asked of the ledger in this behavior
  faults,
  dropped \* whether a record was saved that no load accepts (history)

vars == <<tasks, mail, plan, faults, dropped>>

Handoff == [op : Op, request : Transfer, from : Msg \cup {NoMsg},
            msg : Msg \cup {NoMsg},
            dispatch : {"dispatching", "sent", "failed"}]

NoRequest == [op |-> NoOp, agent |-> Operator, channel |-> NoOp,
              dependencies |-> {}, criteria |-> {}]

NoTask == [state |-> "none"]

TaskRecord ==
  [state : ExecutionStates, owner : Agent, request : Assignment \cup {NoRequest},
   msg : Msg \cup {NoMsg}, delivery : DeliveryStates,
   dispatch : {"dispatching", "sent", "failed", "legacy"},
   criteria : SUBSET Criterion, evidence : SUBSET Evidence, review : Review,
   rounds : 0..MaxRounds, revision : Nat \ {0}, handoffs : Seq(Handoff)]

NoMail == [status |-> "none"]

\* "gone" is an envelope pruned from the file; the task, the operation and
\* whether the recipient replied stay as history.
Envelope == [status : {"pending", "in_flight", "delivered", "failed",
                       "rejected", "stale", "gone"},
             task : Task, to : Agent, op : Op \cup {NoOp},
             replied : BOOLEAN]

TypeOK ==
  /\ tasks \in [Task -> TaskRecord \cup {NoTask}]
  /\ mail \in [Msg -> Envelope \cup {NoMail}]
  /\ plan \in Plans
  /\ faults \in 0..MaxFaults
  /\ dropped \in BOOLEAN

\* An envelope of an earlier version may carry the marker of a task the
\* ledger has no record of.
Init ==
  /\ plan \in Plans
  /\ tasks = [t \in Task |-> NoTask]
  /\ \E old \in IF plan.old = {} THEN {NoMail} ELSE
         {[status |-> "pending", task |-> t, to |-> a, op |-> NoOp,
           replied |-> FALSE] : t \in plan.old, a \in Agent} :
       mail = [m \in Msg |-> IF m = 1 THEN old ELSE NoMail]
  /\ faults = 0
  /\ dropped = FALSE

-----------------------------------------------------------------------------
(* Reading the ledger. *)

Known(ts) == {t \in Task : ts[t].state # "none"}

\* verified_complete only with its grounds.
Founded(rec) ==
  rec.state = "verified_complete" =>
    /\ rec.criteria # {}
    /\ rec.review.outcome = "accepted"
    /\ rec.review.reviewer # rec.owner
    /\ \A c \in rec.criteria :
         <<c, "passes">> \in rec.evidence /\ <<c, "fails">> \notin rec.evidence

\* What readStateFile accepts.
Valid(rec) == rec.request.channel \notin LongChannel /\ Founded(rec)

\* One record that is not valid, and the whole document is replaced by a
\* fresh one.
Load == IF \A t \in Known(tasks) : Valid(tasks[t])
          THEN tasks
          ELSE [t \in Task |-> NoTask]

Visible(m) == mail[m].status \notin {"none", "gone"}

About(t) == {m \in Msg : Visible(m) /\ mail[m].task = t}

First(ms) == CHOOSE m \in ms : \A n \in ms : m <= n

Legacy(t) ==
  LET m == First(About(t))
  IN  [state |-> "assigned", owner |-> mail[m].to, request |-> NoRequest,
       msg |-> m, delivery |-> "unknown", dispatch |-> "legacy",
       criteria |-> {}, evidence |-> {}, review |-> NoReview, rounds |-> 0,
       revision |-> 1, handoffs |-> <<>>]

\* The envelope a record stands for: its own, or the first one that carries
\* its marker to its owner.
Bound(t, rec) ==
  {m \in About(t) : mail[m].to = rec.owner /\
     IF rec.msg # NoMsg
       THEN m = rec.msg
       ELSE \A n \in About(t) : mail[n].to = rec.owner => m <= n}

DeliveryOf(rec, m) ==
  IF rec.delivery = "acknowledged" \/ mail[m].replied THEN "acknowledged"
  ELSE CASE mail[m].status = "pending"   -> "queued"
         [] mail[m].status = "rejected"  -> "failed"
         [] OTHER                        -> mail[m].status

\* Slip for the mutant runs: a handoff is not looked for.
AcknowledgeFirst(rec, m) ==
  [rec EXCEPT
     !.msg = m,
     !.dispatch = IF @ = "dispatching" THEN "sent" ELSE @,
     !.state = IF @ = "ready" /\ rec.dispatch = "dispatching"
                 THEN "assigned" ELSE @,
     !.delivery = DeliveryOf(rec, m)]

\* What the presence of its envelope m tells about a record.
Acknowledge(rec, m) ==
  [rec EXCEPT
     !.msg = m,
     !.dispatch = IF @ = "dispatching" THEN "sent" ELSE @,
     !.state = IF @ = "ready" /\ rec.dispatch = "dispatching"
                 THEN "assigned" ELSE @,
     !.handoffs = [i \in DOMAIN @ |->
        IF @[i].msg = m /\ @[i].dispatch = "dispatching"
          THEN [@[i] EXCEPT !.dispatch = "sent"]
          ELSE @[i]],
     !.delivery = DeliveryOf(rec, m)]

Reconcile(ts) ==
  [t \in Task |->
     IF ts[t] = NoTask /\ About(t) = {}
       THEN NoTask
       ELSE LET rec == IF ts[t] = NoTask THEN Legacy(t) ELSE ts[t]
                ms == Bound(t, rec)
            IN  IF ms = {} THEN rec ELSE Acknowledge(rec, First(ms))]

\* What a section sees, and what listTasks and getTask answer without the
\* lock.
View == Reconcile(Load)

Undecided(rec) ==
  \E i \in DOMAIN rec.handoffs : rec.handoffs[i].dispatch = "dispatching"

Blocked(ts, deps) == \E t \in deps : ts[t].state # "verified_complete"

\* The operations the journal knows.
Assigned(ts) == {ts[t].request.op : t \in Known(ts)} \ {NoOp}
Handed(ts) ==
  UNION {{ts[t].handoffs[i].op : i \in DOMAIN ts[t].handoffs} : t \in Known(ts)}

Related(rec) ==
  {rec.msg} \cup UNION {{rec.handoffs[i].from, rec.handoffs[i].msg} :
                          i \in DOMAIN rec.handoffs}

-----------------------------------------------------------------------------
(* Assigning. *)

NewTasks(ts) ==
  {t \in Task \ Known(ts) : \A m \in Msg : mail[m] = NoMail \/ mail[m].task # t}
NewTask(ts) == CHOOSE t \in NewTasks(ts) : TRUE

\* No envelope has these ids, nor has a handoff that died set one aside.
Unused == {m \in Msg : /\ mail[m] = NoMail
                       /\ \A t \in Known(tasks) : m \notin Related(tasks[t])}

NextMsg == First(Unused)

Enqueue(box, t, a, op) ==
  [box EXCEPT ![NextMsg] = [status |-> "pending", task |-> t, to |-> a,
                            op |-> op, replied |-> FALSE]]

Journalled(ts, t, r) ==
  [ts EXCEPT ![t] =
     [state |-> "ready", owner |-> r.agent, request |-> r, msg |-> NoMsg,
      delivery |-> "unknown", dispatch |-> "dispatching",
      criteria |-> r.criteria, evidence |-> {}, review |-> NoReview,
      rounds |-> 0, revision |-> 1, handoffs |-> <<>>]]

\* A repeated operation is answered from the journal and changes nothing.
Assignable(ts, r) ==
  /\ r.op \notin Assigned(ts) \cup Handed(ts)
  /\ Cardinality(Known(ts)) < MaxTasks
  /\ ~Blocked(ts, r.dependencies)

\* Assigning does not bound the channel's name, as the next load does.
Drops(r) == dropped' = (dropped \/ r.channel \in LongChannel)

\* The section ended before its last save.
Died == faults < MaxFaults /\ faults' = faults + 1

\* The journal is saved, then the queue, then the journal again.
Assign ==
  \E r \in plan.requests, far \in {"journal", "queue", "done"} :
    LET now == View
        t == NewTask(now)
        ts == Journalled(now, t, r)
    IN  /\ Assignable(now, r)
        /\ NewTasks(now) # {}
        /\ Unused # {}
        /\ far # "journal" => r.channel \notin LongChannel
        /\ mail' = IF far = "journal" THEN mail ELSE Enqueue(mail, t, r.agent, r.op)
        /\ tasks' = IF far = "done"
             THEN [ts EXCEPT ![t].dispatch = "sent", ![t].state = "assigned",
                             ![t].delivery = "queued", ![t].msg = NextMsg]
             ELSE ts
        /\ IF far = "done" THEN UNCHANGED faults ELSE Died
        /\ Drops(r)
        /\ UNCHANGED plan

\* The engine refuses the message: a pause, a budget, a channel it does
\* not know.
AssignRefused ==
  \E r \in plan.requests :
    LET now == View
        t == NewTask(now)
    IN  /\ Assignable(now, r)
        /\ NewTasks(now) # {}
        /\ tasks' = [Journalled(now, t, r) EXCEPT
             ![t].dispatch = "failed", ![t].delivery = "failed",
             ![t].state = "failed"]
        /\ Drops(r)
        /\ UNCHANGED <<mail, plan, faults>>

-----------------------------------------------------------------------------
(* Reporting. *)

Legal(from) ==
  CASE from = "ready"    -> {"assigned", "cancelled"}
    [] from = "assigned" -> {"running", "blocked", "failed", "cancelled"}
    [] from = "running"  -> {"blocked", "review", "failed", "cancelled"}
    [] from = "blocked"  -> {"running", "failed", "cancelled"}
    [] from = "review"   -> {"running", "verified_complete", "failed", "cancelled"}
    [] OTHER             -> {}

Given(new, old) == IF new = {} THEN old ELSE CHOOSE x \in new : TRUE

Attempt(rec) ==
  Cardinality({i \in DOMAIN rec.handoffs : rec.handoffs[i].dispatch = "sent"})

\* The review a report brings, or the one there was.
GivenReview(rec, report) ==
  IF report.review = {}
    THEN rec.review
    ELSE LET r == CHOOSE x \in report.review : TRUE
         IN  [outcome |-> r.outcome, reviewer |-> r.reviewer,
              at |-> <<Attempt(rec), rec.rounds>>]

Proven(criteria, evidence) ==
  \A c \in criteria : <<c, "passes">> \in evidence /\ <<c, "fails">> \notin evidence

\* Slip for the mutant runs: a review outlives the round it was given in.
RecordKeepingReview(rec, next, actor, criteria, evidence, review) ==
  [rec EXCEPT
     !.state = next, !.criteria = criteria, !.evidence = evidence,
     !.delivery = IF actor = rec.owner THEN "acknowledged" ELSE @,
     !.review = review,
     !.rounds = IF next = "review" THEN @ + 1 ELSE @,
     !.revision = @ + 1]

\* The end of transitionTaskRecord.
Recorded(rec, next, actor, criteria, evidence, review) ==
  [rec EXCEPT
     !.state = next, !.criteria = criteria, !.evidence = evidence,
     !.delivery = IF actor = rec.owner THEN "acknowledged" ELSE @,
     !.review = IF next = "review" THEN NoReview ELSE review,
     !.rounds = IF next = "review" THEN @ + 1 ELSE @,
     !.revision = @ + 1]

\* A report names the revision its author saw; any other than the current
\* one is refused, so only reports on the current record are modelled.
TransitionTaskRecord(t, actor, report) ==
  LET now == View
      rec == now[t]
      next == report.next
      criteria == Given(report.criteria, rec.criteria)
      evidence == Given(report.evidence, rec.evidence)
      review == GivenReview(rec, report)
  IN  /\ rec.revision < MaxRevision
      /\ ~Undecided(rec)
      /\ actor \in {rec.owner, Operator}
      /\ next \in Legal(rec.state)
      /\ report.criteria # {} => actor = Operator
      /\ next \in {"assigned", "running", "verified_complete"} =>
           ~Blocked(now, rec.request.dependencies)
      /\ next = "review" => rec.rounds < MaxRounds
      /\ rec.state = "review" /\ next = "running" =>
           review.outcome = "changes_requested"
      /\ next = "verified_complete" =>
           /\ actor = Operator
           /\ criteria # {}
           /\ review.outcome = "accepted"
           /\ review.reviewer # rec.owner
           /\ Proven(criteria, evidence)
      /\ tasks' = [now EXCEPT ![t] =
                     Recorded(rec, next, actor, criteria, evidence, review)]
      /\ UNCHANGED <<mail, plan, faults, dropped>>

\* The owner of a task, or the operator, reports on it.
Transition ==
  \E t \in Known(View), actor \in Agent \cup {Operator}, report \in plan.reports :
    TransitionTaskRecord(t, actor, report)

-----------------------------------------------------------------------------
(* Handing over. *)

\* Slip for the mutant runs: a task at its end is handed over.
TransferableAnyState(ts, h) ==
  LET rec == ts[h.task]
  IN  /\ h.op \notin Assigned(ts) \cup Handed(ts)
      /\ rec.owner # h.agent
      /\ Len(rec.handoffs) < MaxHandoffs
      /\ \A m \in Related(rec) \cap Msg : mail[m].status # "in_flight"

Transferable(ts, h) ==
  LET rec == ts[h.task]
  IN  /\ h.op \notin Assigned(ts) \cup Handed(ts)
      /\ ~Undecided(rec)
      /\ rec.state \in {"assigned", "blocked", "review"}
      /\ Len(rec.handoffs) < MaxHandoffs
      /\ rec.owner # h.agent
      /\ rec.delivery # "in_flight"
      /\ \A m \in Related(rec) \cap Msg : mail[m].status # "in_flight"
      /\ \/ rec.state = "assigned" /\ rec.delivery \in {"queued", "failed", "stale"}
         \/ h.confirmed
      /\ ~Blocked(ts, rec.request.dependencies)

WithHandoff(rec, h, dispatch) ==
  [rec EXCEPT !.handoffs =
     Append(@, [op |-> h.op, request |-> h, from |-> rec.msg, msg |-> NoMsg,
                dispatch |-> dispatch])]

\* The new owner, before the queue is saved.
Transferred(rec, h) ==
  LET n == Len(rec.handoffs)
  IN  [rec EXCEPT
         !.handoffs[n].msg = NextMsg, !.owner = h.agent, !.msg = NextMsg,
         !.state = "ready", !.delivery = "unknown", !.dispatch = "dispatching",
         !.review = NoReview, !.revision = @ + 1]

Settled(rec) ==
  LET n == Len(rec.handoffs)
  IN  [rec EXCEPT
         !.handoffs[n].dispatch = "sent", !.dispatch = "sent",
         !.state = "assigned", !.delivery = "queued"]

\* Slip: the envelope of the former owner stays queued.
RequeuedKeepingOld(rec, h) == Enqueue(mail, h.task, h.agent, h.op)

\* The former envelope is cancelled in the save that enqueues the new one.
Requeued(rec, h) ==
  LET box == Enqueue(mail, h.task, h.agent, h.op)
  IN  IF rec.msg # NoMsg /\ mail[rec.msg].status = "pending"
        THEN [box EXCEPT ![rec.msg].status = "rejected"]
        ELSE box

\* Four saves: the journal, the new owner, the queue, the outcome.
Reassign ==
  \E h \in plan.handoffs, far \in {"journal", "owner", "queue", "done"} :
    LET now == View
        rec == now[h.task]
        opened == WithHandoff(rec, h, "dispatching")
        moved == Transferred(opened, h)
    IN  /\ h.task \in Known(now)
        /\ rec.revision < MaxRevision
        /\ Transferable(now, h)
        /\ Unused # {}
        /\ tasks' = [now EXCEPT ![h.task] =
             CASE far = "journal" -> opened
               [] far = "done"    -> Settled(moved)
               [] OTHER           -> moved]
        /\ mail' = IF far \in {"queue", "done"} THEN Requeued(rec, h) ELSE mail
        /\ IF far = "done" THEN UNCHANGED faults ELSE Died
        /\ UNCHANGED <<plan, dropped>>

ReassignRefused ==
  \E h \in plan.handoffs :
    LET now == View
    IN  /\ h.task \in Known(now)
        /\ Transferable(now, h)
        /\ tasks' = [now EXCEPT ![h.task] = WithHandoff(@, h, "failed")]
        /\ UNCHANGED <<mail, plan, faults, dropped>>

-----------------------------------------------------------------------------
(* The rest of the system: the delivery of Mailbox, and its models. *)

Moves(from) ==
  CASE from = "pending"   -> {"in_flight"} \cup Refusals
    [] from = "in_flight" -> {"delivered", "pending"} \cup (Refusals \ {"stale"})
    [] from \in {"delivered", "failed", "rejected", "stale"} -> {"gone"}
    [] OTHER -> {}

MailMoves ==
  \E m \in Msg :
    \E next \in Moves(mail[m].status) :
      /\ mail' = [mail EXCEPT ![m].status = next]
      /\ UNCHANGED <<tasks, plan, faults, dropped>>

Replies ==
  \E m \in Msg :
    /\ mail[m].status \in {"in_flight", "delivered"}
    /\ mail' = [mail EXCEPT ![m].replied = TRUE]
    /\ UNCHANGED <<tasks, plan, faults, dropped>>

Next ==
  \/ Assign \/ AssignRefused
  \/ Transition
  \/ Reassign \/ ReassignRefused
  \/ MailMoves \/ Replies

Spec == Init /\ [][Next]_vars

-----------------------------------------------------------------------------
\* A request id puts at most one envelope in a queue, however often it is
\* repeated and wherever the section that served it died
\* (docs/TASK_EXECUTION.md: "refuses blind retries").
SentOnce ==
  \A o \in Op :
    Cardinality({m \in Msg : mail[m] # NoMail /\ mail[m].op = o}) <= 1

\* An envelope that was durably queued is found again: whatever save was
\* the last, a reader sees it sent to its owner, unless the task has been
\* handed on since.
EnvelopesRecovered ==
  LET now == View
  IN \A m \in Msg :
    Visible(m) =>
      LET rec == now[mail[m].task]
      IN  \/ /\ rec.msg = m
             /\ rec.owner = mail[m].to
             /\ rec.dispatch \in {"sent", "legacy"}
             /\ rec.state # "ready"
             /\ \A i \in DOMAIN rec.handoffs :
                  rec.handoffs[i].msg = m => rec.handoffs[i].dispatch = "sent"
          \/ \E i \in DOMAIN rec.handoffs : rec.handoffs[i].from = m

\* Together: every assignment has its one envelope, and knows it, unless
\* the journal that knew was dropped.
MailAccounted == TypeOK /\ (~dropped => SentOnce /\ EnvelopesRecovered)

\* At most one envelope of a task is under way to a worker, through every
\* handoff and every interrupted one, of which the journal has to know.
OneLiveEnvelope ==
  ~dropped =>
    \A t \in Task :
      Cardinality({m \in About(t) :
                     mail[m].status \in {"pending", "in_flight"}}) <= 1

\* A record was saved that the next load rejects, with all the others.
Overlong == \E t \in Known(tasks) : tasks[t].request.channel \in LongChannel

\* What was journalled is still there after any step, and a terminal outcome
\* is not reopened: reports, handoffs and interrupted sections, in any
\* order, save no record that the next load rejects.  Only an assignment to
\* an overlong channel does (assignTask); the ledger begun after that is
\* kept again.
LedgerKept ==
  [][~Overlong /\ ~Overlong' =>
       \A t \in Task : tasks[t] # NoTask =>
         /\ View'[t] # NoTask
         /\ tasks[t].state \in Terminal => View'[t].state = tasks[t].state]_vars

\* Completed work was reviewed by someone else in its last round, after its
\* last handoff, and rests on completed work.
CompletionEarned ==
  LET now == View
  IN \A t \in Known(now) :
    LET rec == now[t]
    IN  /\ rec.state = "verified_complete" =>
             /\ rec.review.at = <<Attempt(rec), rec.rounds>>
             /\ rec.review.reviewer # rec.owner
             /\ Proven(rec.criteria, rec.evidence)
        /\ rec.state \in ExecutionStates \ {"failed", "cancelled"} =>
             ~Blocked(now, rec.request.dependencies)
=============================================================================
