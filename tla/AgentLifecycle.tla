--------------------------- MODULE AgentLifecycle ---------------------------
(***************************************************************************)
(* Creating, stopping and restarting managed agents: createAgent,          *)
(* stopAgent and restartAgent of src/src/orchestrator/api.ts over the      *)
(* runtime of runtimes/opencode.ts.                                        *)
(*                                                                         *)
(* A call is a promise that alternates locked sections, which load and     *)
(* save the records, with unlocked requests to the host.  Between any two  *)
(* steps of one call the others run, the coordinator may crash, the host   *)
(* may lose a session, and a section may give up waiting for the lock.     *)
(***************************************************************************)
EXTENDS Agents

CONSTANTS
  Requests,     \* the creation requests that are made (a bound)
  Call,         \* calls that can be open at once
  MaxFaults     \* bound on crashes, lock timeouts and host failures

ASSUME LifecycleAssumption ==
  /\ Requests \subseteq Request
  /\ MaxFaults \in Nat

VARIABLES
  agents,   \* the agent records in the file
  calls,    \* the open calls
  alive,    \* the sessions the host knows
  working,  \* the sessions with a turn in progress
  opened,   \* the sessions ever opened
  openedBy, \* the operation of the creation that opened each (history)
  raced,    \* agents worked on by two at once (history)
  refused,  \* sessions the host once did not resume (history)
  faults

vars == <<agents, calls, alive, working, opened, openedBy, raced, refused,
          faults>>

world == <<alive, working, opened, openedBy>>

NoCall == [phase |-> "free"]

\* An open call: what it works on, the session in its hands, the request
\* of a creation, and whether a restart may replace the session.
CallState ==
  {NoCall} \cup
  [phase : {"spawn", "prompt", "confirm", "fail", "stopping", "mark",
            "resuming", "adopt"},
   agent : Agent, host : Host \cup {NoHost}, op : Op \cup {NoOp},
   replace : BOOLEAN]

TypeOK ==
  /\ agents \in [Agent -> AgentRecord]
  /\ calls \in [Call -> CallState]
  /\ alive \subseteq Host
  /\ working \subseteq Host
  /\ opened \subseteq Host
  /\ openedBy \in [Host -> Op \cup {NoOp}]
  /\ raced \subseteq Agent
  /\ refused \subseteq Host
  /\ faults \in 0..MaxFaults

Init ==
  /\ agents = [a \in Agent |-> NoAgent]
  /\ calls = [c \in Call |-> NoCall]
  /\ alive = {}
  /\ working = {}
  /\ opened = {}
  /\ openedBy = [h \in Host |-> NoOp]
  /\ raced = {}
  /\ refused = {}
  /\ faults = 0

-----------------------------------------------------------------------------
Busy(a) == \E c \in Call : calls[c] # NoCall /\ calls[c].agent = a

Enter(a) == raced' = IF Busy(a) THEN raced \cup {a} ELSE raced

Open(c, phase, a, h, op, replace) ==
  /\ calls[c] = NoCall
  /\ calls' = [calls EXCEPT ![c] =
       [phase |-> phase, agent |-> a, host |-> h, op |-> op,
        replace |-> replace]]
  /\ Enter(a)

At(c, phase) == calls[c] # NoCall /\ calls[c].phase = phase

Goto(c, phase) == calls' = [calls EXCEPT ![c].phase = phase]

Close(c) == calls' = [calls EXCEPT ![c] = NoCall]

MayFail == faults < MaxFaults

CountFault == MayFail /\ faults' = faults + 1

\* A creation replaces a check of the state outside the lock (state0) by
\* the same checks inside it; only the latter decide.  Requests that are
\* refused, or answered from the journal of operations, change nothing.
BeginCreate(c) ==
  \E a \in Agent, r \in Requests :
    /\ agents[a].status = "none"
    /\ Reservable(agents, r)
    /\ agents' = Reserve(agents, a, r)
    /\ Open(c, "spawn", a, NoHost, r.op, FALSE)
    /\ UNCHANGED <<world, refused, faults>>

\* runtime.create: a session is opened, then sent the role prompt.
OpenSession(c) ==
  \E h \in Host :
    /\ At(c, "spawn")
    /\ h \notin opened
    /\ opened' = opened \cup {h}
    /\ openedBy' = [openedBy EXCEPT ![h] = calls[c].op]
    /\ alive' = alive \cup {h}
    /\ calls' = [calls EXCEPT ![c].phase = "prompt", ![c].host = h]
    /\ UNCHANGED <<agents, working, raced, refused, faults>>

PromptAccepted(c) ==
  /\ At(c, "prompt")
  /\ calls[c].host \in alive
  /\ working' = working \cup {calls[c].host}
  /\ Goto(c, "confirm")
  /\ UNCHANGED <<agents, alive, opened, openedBy, raced, refused, faults>>

\* Slip for the mutant runs: a failed creation is not recorded.
SpawnVanishes(c) ==
  /\ At(c, "spawn") \/ At(c, "prompt")
  /\ Close(c)
  /\ UNCHANGED <<agents, world, raced, refused, faults>>

\* The worktree, the session or the prompt fails; a prompt that fails may
\* have been accepted, and its session stays behind at the host.
SpawnFails(c) ==
  \E took \in BOOLEAN :
    /\ At(c, "spawn") \/ At(c, "prompt")
    /\ took => At(c, "prompt") /\ calls[c].host \in alive
    /\ working' = IF took THEN working \cup {calls[c].host} ELSE working
    /\ Goto(c, "fail")
    /\ UNCHANGED <<agents, alive, opened, openedBy, raced, refused, faults>>

MarkFailed(c) ==
  /\ At(c, "fail")
  /\ agents' = SetStatus(agents, calls[c].agent, "failed")
  /\ Close(c)
  /\ UNCHANGED <<world, raced, refused, faults>>

\* The last section of a creation, and of a restart that replaced the
\* session.  Neither looks at what became of the agent meanwhile.
Confirm(c) ==
  /\ At(c, "confirm")
  /\ agents' = SetHost(agents, calls[c].agent, calls[c].host)
  /\ Close(c)
  /\ UNCHANGED <<world, raced, refused, faults>>

BeginStop(c) ==
  \E a \in Agent :
    LET rec == agents[a]
    IN  /\ rec.status \notin {"none", "stopped"}
        /\ ~rec.req.lead
        /\ Open(c, IF MayWork(rec) THEN "stopping" ELSE "mark",
                a, rec.host, NoOp, FALSE)
        /\ UNCHANGED <<agents, world, refused, faults>>

\* The host resumes the session and confirms the stop or the abort.
HostStops(c) ==
  /\ At(c, "stopping")
  /\ calls[c].host \in alive
  /\ working' = working \ {calls[c].host}
  /\ Goto(c, "mark")
  /\ UNCHANGED <<agents, alive, opened, openedBy, raced, refused, faults>>

\* Slip: the record is marked stopped all the same.
HostIsNotAsked(c) ==
  /\ At(c, "stopping")
  /\ Goto(c, "mark")
  /\ UNCHANGED <<agents, world, raced, refused, faults>>

\* No confirmation: the stop is refused, the record is left alone, and the
\* session may have stopped all the same.
HostDoesNotStop(c) ==
  \E done \in BOOLEAN :
    /\ At(c, "stopping")
    /\ IF calls[c].host \in alive THEN CountFault ELSE UNCHANGED faults
    /\ working' = IF done THEN working \ {calls[c].host} ELSE working
    /\ Close(c)
    /\ UNCHANGED <<agents, alive, opened, openedBy, raced, refused>>

MarkStopped(c) ==
  /\ At(c, "mark")
  /\ agents' = SetStatus(agents, calls[c].agent, "stopped")
  /\ Close(c)
  /\ UNCHANGED <<world, raced, refused, faults>>

\* Slip: allow_replacement replaces without trying to resume.
BeginRestartAnew(c) ==
  \E a \in Agent, replace \in BOOLEAN :
    LET rec == agents[a]
    IN  /\ Known(agents, a)
        /\ ~rec.req.lead
        /\ rec.host = NoHost => replace
        /\ Open(c, IF replace THEN "spawn" ELSE "resuming",
                a, rec.host, NoOp, replace)
        /\ UNCHANGED <<agents, world, refused, faults>>

BeginRestart(c) ==
  \E a \in Agent, replace \in BOOLEAN :
    LET rec == agents[a]
    IN  /\ Known(agents, a)
        /\ ~rec.req.lead
        /\ rec.host = NoHost => replace
        /\ Open(c, IF rec.host = NoHost THEN "spawn" ELSE "resuming",
                a, rec.host, NoOp, replace)
        /\ UNCHANGED <<agents, world, refused, faults>>

Resumes(c) ==
  /\ At(c, "resuming")
  /\ calls[c].host \in alive
  /\ Goto(c, "adopt")
  /\ UNCHANGED <<agents, world, raced, refused, faults>>

\* Without allow_replacement the restart ends and the identity is kept.
\* The host may fail to answer for a session it still has.
DoesNotResume(c) ==
  /\ At(c, "resuming")
  /\ IF calls[c].host \in alive THEN CountFault ELSE UNCHANGED faults
  /\ IF calls[c].replace THEN Goto(c, "spawn") ELSE Close(c)
  /\ refused' = refused \cup {calls[c].host}
  /\ UNCHANGED <<agents, world, raced>>

Adopt(c) ==
  /\ At(c, "adopt")
  /\ agents' = SetStatus(agents, calls[c].agent, "running")
  /\ Close(c)
  /\ UNCHANGED <<world, raced, refused, faults>>

-----------------------------------------------------------------------------
\* A locked section that waited five seconds for the lock throws: the call
\* ends there.
LockTimesOut(c) ==
  /\ \E phase \in {"confirm", "fail", "mark", "adopt"} : At(c, phase)
  /\ CountFault
  /\ Close(c)
  /\ UNCHANGED <<agents, world, raced, refused>>

\* The coordinator dies with all its calls; the host goes on.
Crash ==
  /\ \E c \in Call : calls[c] # NoCall
  /\ CountFault
  /\ calls' = [c \in Call |-> NoCall]
  /\ UNCHANGED <<agents, world, raced, refused>>

HostLosesSession ==
  \E h \in alive :
    /\ CountFault
    /\ alive' = alive \ {h}
    /\ working' = working \ {h}
    /\ UNCHANGED <<agents, calls, opened, openedBy, raced, refused>>

\* The managed tick, an operator in the host: work for an agent at work.
\* Nothing orders it after or before a stop that is under way.
Prompted ==
  \E a \in Agent :
    /\ agents[a].status = "running"
    /\ agents[a].host \in alive \ working
    /\ working' = working \cup {agents[a].host}
    /\ Enter(a)
    /\ UNCHANGED <<agents, calls, alive, opened, openedBy, refused, faults>>

TurnEnds ==
  \E h \in working :
    /\ working' = working \ {h}
    /\ UNCHANGED <<agents, calls, alive, opened, openedBy, raced, refused, faults>>

-----------------------------------------------------------------------------
\* What an open call does next.
Proceed(c) ==
  \/ OpenSession(c) \/ PromptAccepted(c) \/ SpawnFails(c)
  \/ MarkFailed(c) \/ Confirm(c)
  \/ HostStops(c) \/ HostDoesNotStop(c) \/ MarkStopped(c)
  \/ Resumes(c) \/ DoesNotResume(c) \/ Adopt(c)

Next ==
  \/ \E c \in Call : BeginCreate(c) \/ BeginStop(c) \/ BeginRestart(c)
  \/ \E c \in Call : Proceed(c) \/ LockTimesOut(c)
  \/ Crash \/ HostLosesSession \/ Prompted \/ TurnEnds

Spec == Init /\ [][Next]_vars

\* Requests to the host have timeouts and promises run: a call that can go
\* on does.
FairSpec == Spec /\ \A c \in Call : WF_vars(Proceed(c))

-----------------------------------------------------------------------------
\* An operation id opens at most one session by creation, however often
\* the request is repeated and wherever the coordinator crashed.
CreatedOnce ==
  \A o \in Op :
    Cardinality({h \in Host : openedBy[h] = o}) <= 1

\* Names and the lead are unique in what is saved, whatever
\* the requests read before they took the lock.
RosterConsistent ==
  \A a, b \in Agent :
    Known(agents, a) /\ Known(agents, b) /\ a # b =>
      LET r == agents[a].req
          q == agents[b].req
      IN  /\ r.name # q.name
          /\ ~(r.lead /\ q.lead)

\* An agent at work has a session to deliver to, and no two agents share
\* one.
WorkersHaveSessions ==
  \A a, b \in Agent :
    /\ agents[a].status \in {"running", "idle", "stale"} =>
         agents[a].host # NoHost
    /\ a # b /\ agents[a].host = agents[b].host => agents[a].host = NoHost

\* Together: what is saved of the agents makes sense at any time.
RosterSound ==
  TypeOK /\ CreatedOnce /\ RosterConsistent /\ WorkersHaveSessions

\* A recorded identity is given up only when the host did not resume it,
\* unless two calls worked on the agent at once.
IdentityKept ==
  [][\A a \in Agent :
       agents'[a].host = agents[a].host
         \/ agents[a].host \in refused \cup {NoHost}
         \/ a \in raced]_vars

\* A stopped agent's session is at rest, unless something else worked on
\* the agent during the stop or the host did not answer for the session.
StoppedIsQuiet ==
  \A a \in Agent :
    agents[a].status = "stopped" /\ agents[a].host \notin refused =>
      a \in raced \/ agents[a].host \notin working

\* A reserved agent does not stay "starting", except after a fault.
StartingEnds ==
  \A a \in Agent :
    agents[a].status = "starting" ~>
      agents[a].status # "starting" \/ faults > 0
=============================================================================
