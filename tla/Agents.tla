------------------------------- MODULE Agents -------------------------------
(***************************************************************************)
(* The agent records of <project>/.opencomms/orchestrator.json and what    *)
(* src/src/orchestrator/api.ts and managed-delivery.ts do to them.  Each   *)
(* operator is the body of one withLock section: the records it loads, to  *)
(* the records it saves.  The modules of the callers keep the records in a *)
(* variable and say what happens between two sections.                     *)
(***************************************************************************)
EXTENDS Integers, FiniteSets

CONSTANTS
  Agent,        \* agent ids; newAgentId never repeats one
  Name,         \* agent names, up to case
  NoName,       \* the name of no agent
  Op,           \* operation_ids of creation requests
  NoOp,         \* a creation request without one
  Host,         \* host session ids
  NoHost,       \* host_session_id === null
  MaxAgents     \* the cap of 64 agents for a project

ASSUME AgentsAssumption ==
  /\ NoName \notin Name
  /\ NoOp \notin Op
  /\ NoHost \notin Host
  /\ MaxAgents \in Nat

\* Creation inputs.  The fingerprint of a request is the hash of all of
\* them, so two requests have the same one exactly when they are equal.
Request == [name : Name, lead : BOOLEAN, op : Op \cup {NoOp}]

NoRequest == [name |-> NoName, lead |-> FALSE, op |-> NoOp]

AgentStatus == {"none", "starting", "running", "idle", "stale", "stopped",
                "failed"}

AgentRecord == [status : AgentStatus, host : Host \cup {NoHost},
                req : Request \cup {NoRequest}]

\* No such record.
NoAgent == [status |-> "none", host |-> NoHost, req |-> NoRequest]

Known(as, a) == as[a].status # "none"

Prior(as, r) ==
  {a \in Agent : r.op # NoOp /\ Known(as, a) /\ as[a].req.op = r.op}

\* Slip for the mutant runs: the names are not looked at.
ReservableNamed(as, r) ==
  LET known == {a \in Agent : Known(as, a)}
  IN  /\ Prior(as, r) = {}
      /\ Cardinality(known) < MaxAgents
      /\ r.lead => \A a \in known : ~as[a].req.lead

\* The checks of the reserving section, after the journal of operations.
Reservable(as, r) ==
  LET known == {a \in Agent : Known(as, a)}
  IN  /\ Prior(as, r) = {}
      /\ \A a \in known : as[a].req.name # r.name
      /\ Cardinality(known) < MaxAgents
      /\ r.lead => \A a \in known : ~as[a].req.lead

\* The record is saved before anything is started.
Reserve(as, a, r) ==
  [as EXCEPT ![a] = [status |-> "starting", host |-> NoHost, req |-> r]]

SetStatus(as, a, status) == [as EXCEPT ![a].status = status]

\* A spawned or replaced session becomes the agent's identity.
SetHost(as, a, h) == [as EXCEPT ![a].host = h, ![a].status = "running"]

\* What stopAgent asks the host to confirm before it marks the record.
MayWork(rec) ==
  /\ rec.host # NoHost
  /\ rec.status \in {"running", "idle", "starting", "stale"}

\* A managed tick writes what it observed of host session h, unless the
\* record changed its identity or was stopped or failed since.
Observe(as, a, h, status) ==
  IF as[a].host = h /\ as[a].status \notin {"stopped", "failed"}
    THEN SetStatus(as, a, status)
    ELSE as
=============================================================================
