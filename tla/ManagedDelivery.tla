-------------------------- MODULE ManagedDelivery --------------------------
(***************************************************************************)
(* Mail for managed agents: the coordinator (src/src/gui/server.ts) ticks  *)
(* createManagedDelivery (src/src/orchestrator/managed-delivery.ts), which *)
(* asks each agent's host for its status, drains the agent's queue, prompts*)
(* the host and settles the batch; the emergency stop pauses all of it.    *)
(*                                                                         *)
(* A tick is a loop over the agents it read at its start, with an await at *)
(* every request to a host and every locked section.  Agents are stopped   *)
(* and restarted, channels paused, members removed, the coordinator stopped*)
(* and resumed between any two of them, and a closed controller's tick     *)
(* runs on while the next controller ticks.  Mailbox says what an operation*)
(* on state.json does, Agents what one on orchestrator.json does.          *)
(***************************************************************************)
EXTENDS Mailbox, Agents

CONSTANTS
  Controller,     \* delivery controllers in use at once (a bound)
  NoController,
  HomeHost,       \* each agent's session in the initial state
  InitialMembers, \* the roster of each channel
  Senders,        \* members that send to the agents (a bound)
  Plans,          \* a behaviour has the operations, the faults and the
                  \* runtime named in one of these sets (a bound)
  MaxFaults,      \* bound on the faults of one behaviour
  MaxSwitches     \* bound on emergency stops and resumes

ASSUME ManagedAssumption ==
  /\ Host \subseteq Managed
  /\ NoController \notin Controller
  /\ Agent # {}
  /\ HomeHost \in [Agent -> Host]
  /\ InitialMembers \in [Channel -> Seq(Session)]
  /\ MaxFaults \in Nat
  /\ MaxSwitches \in Nat

VARIABLES
  file,      \* state.json
  agents,    \* the agents of orchestrator.json
  tick,      \* the tick of each controller: where it is in its loop
  closed,    \* controllers whose `stopped` flag is set
  current,   \* deliveryController
  acp,       \* the agents of the ACP runtime; the others are OpenCode's
  conn,      \* what each session's host would report of it; "down" is an
             \* ACP session without a connection
  acts,      \* the operation in progress on each agent
  switch,    \* emergency stop and resume calls in progress
  memory,    \* coordinationStopped and emergencyPaused
  disk,      \* coordination in orchestrator.json
  heard,     \* how often the host of a session accepted each envelope
  removed,   \* agents' sessions taken off a roster so far (history)
  byUser,    \* channels paused by their users (history)
  crossed,   \* an emergency stop and a resume overlapped, or a fault cut
             \* a stop short (history)
  plan,      \* the plan of this behaviour (fixed)
  faults,
  switches   \* emergency calls so far (bounded by MaxSwitches)

vars == <<file, agents, tick, closed, current, acp, conn, acts, switch,
          memory, disk, heard, removed, byUser, crossed, plan, faults,
          switches>>

history == <<heard, removed>>

hosts == <<acp, conn, history, plan>>
coordination == <<switch, memory, disk, byUser, crossed,
                 switches>>
loop == <<tick, closed, current>>

Phase == {"none", "next", "asking", "noting", "draining", "drained",
          "returning", "prompting", "heard", "settling"}

\* The locals of tick(): agents still to visit with the sessions they had
\* when the tick began, the agent at hand, what its host reported, and the
\* batch with the outcome of its prompt.
Tick ==
  [phase : Phase, todo : SUBSET (Agent \X Host), agent : Agent,
   host : Host, seen : {"idle", "running", "stale"}, ids : Seq(Msg),
   outcome : {"delivered", "failed", "uncertain"}]

Coordination == [stopped : BOOLEAN, paused : SUBSET Channel]

TypeOK ==
  /\ file \in State
  /\ agents \in [Agent -> AgentRecord]
  /\ tick \in [Controller -> Tick]
  /\ closed \subseteq Controller
  /\ current \in Controller \cup {NoController}
  /\ acp \subseteq Agent
  /\ conn \in [Host -> {"down", "idle", "running", "stale"}]
  /\ acts \in [Agent -> {"none", "stop", "stopped", "restart", "resumed"}]
  /\ switch \in [stop : {"none", "pausing"},
                 resume : {"none", "unpausing", "clearing"}]
  /\ memory \in Coordination
  /\ disk \in Coordination
  /\ heard \in [Msg -> Nat]
  /\ removed \subseteq Host
  /\ byUser \subseteq Channel
  /\ crossed \in BOOLEAN
  /\ plan \in Plans
  /\ faults \in 0..MaxFaults
  /\ switches \in 0..MaxSwitches

IdleTick ==
  [phase |-> "none", todo |-> {}, agent |-> CHOOSE a \in Agent : TRUE,
   host |-> CHOOSE h \in Host : TRUE, seen |-> "stale", ids |-> <<>>,
   outcome |-> "uncertain"]

Init ==
  /\ file = [life |-> [c \in Channel |-> "active"],
             paused |-> {},
             members |-> InitialMembers,
             stale |-> [c \in Channel |-> {}],
             total |-> [c \in Channel |-> 0],
             cooling |-> {}, overtime |-> {}, sent |-> 0, aged |-> 0,
             chan |-> [n \in Send |-> NoChannel],
             status |-> [m \in Msg |-> "unsent"],
             attempts |-> [m \in Msg |-> 0],
             queues |-> [r \in Session |-> <<>>]]
  /\ agents = [a \in Agent |-> [NoAgent EXCEPT !.status = "idle",
                                               !.host = HomeHost[a]]]
  /\ tick = [k \in Controller |-> IdleTick]
  /\ closed = Controller
  /\ current = NoController
  /\ conn = [h \in Host |-> "idle"]
  /\ acts = [a \in Agent |-> "none"]
  /\ switch = [stop |-> "none", resume |-> "none"]
  /\ memory = [stopped |-> FALSE, paused |-> {}]
  /\ disk = memory
  /\ heard = [m \in Msg |-> 0]
  /\ removed = {}
  /\ byUser = {}
  /\ crossed = FALSE
  /\ plan \in Plans
  /\ acp = IF "acp" \in plan THEN Agent ELSE {}
  /\ faults = 0
  /\ switches = 0

Fault(kind) ==
  /\ kind \in plan
  /\ faults < MaxFaults
  /\ faults' = faults + 1

-----------------------------------------------------------------------------
(***************************************************************************)
(* The tick.                                                               *)
(***************************************************************************)
In(k, phase) == tick[k].phase = phase

Step(k, phase) == tick' = [tick EXCEPT ![k].phase = phase]

End(k) == tick' = [tick EXCEPT ![k] = IdleTick]

\* On to the next agent; the locals of the loop body are gone.
Continue(k) ==
  tick' = [tick EXCEPT ![k] = [IdleTick EXCEPT !.phase = "next",
                                               !.todo = tick[k].todo]]

\* A new controller; the ids of finished ones are used again.
NewController == CHOOSE k \in Controller : tick[k] = IdleTick

\* The interval timer: a new controller when there is none, then tick().
\* A tick of a closed controller, or one while another runs, returns.
TimerFires(k) ==
  /\ ~memory.stopped
  /\ IF current = NoController THEN k = NewController ELSE k = current
  /\ tick[k] = IdleTick
  /\ current' = k
  /\ closed' = IF current = NoController THEN closed \ {k} ELSE closed
  /\ k \notin closed'
  /\ tick' = [tick EXCEPT ![k] =
       [IdleTick EXCEPT !.phase = "next",
          !.todo = {<<a, agents[a].host>> :
                      a \in {b \in Agent :
                               /\ agents[b].host # NoHost
                               /\ agents[b].status \notin
                                    {"none", "stopped", "failed"}}}]]
  /\ UNCHANGED <<file, agents, acts, hosts, coordination, faults>>

\* The loop head: the next agent, or the end, or a break after close().
Visit(k) ==
  /\ In(k, "next")
  /\ IF tick[k].todo = {} \/ k \in closed
       THEN End(k)
       ELSE \E v \in tick[k].todo :
              tick' = [tick EXCEPT ![k].phase = "asking",
                                   ![k].todo = @ \ {v},
                                   ![k].agent = v[1],
                                   ![k].host = v[2]]
  /\ UNCHANGED <<file, agents, closed, current, acts, hosts, coordination,
                 faults>>

\* Resuming an ACP session that is down connects and loads it again.
Reported(h) == IF conn[h] = "down" THEN "idle" ELSE conn[h]

Set(h, status) == conn' = [conn EXCEPT ![h] = status]

IsAcp(k) == tick[k].agent \in acp

HostReports(k) ==
  LET h == tick[k].host
  IN  /\ In(k, "asking")
      /\ tick' = [tick EXCEPT ![k].phase = "noting", ![k].seen = Reported(h)]
      /\ Set(h, Reported(h))
      /\ UNCHANGED <<file, agents, closed, current, acts, acp, history, plan,
                     coordination, faults>>

HostUnreachable(k) ==
  /\ In(k, "asking")
  /\ Fault("status")
  /\ tick' = [tick EXCEPT ![k].phase = "noting", ![k].seen = "stale"]
  /\ UNCHANGED <<file, agents, closed, current, acts, hosts, coordination>>

\* The observation is saved, then only an idle agent is drained.
Note(k) ==
  LET t == tick[k]
  IN  /\ In(k, "noting")
      /\ agents' = Observe(agents, t.agent, t.host, t.seen)
      /\ IF t.seen = "idle" /\ k \notin closed
           THEN Step(k, "draining") ELSE Continue(k)
      /\ UNCHANGED <<file, closed, current, acts, hosts, coordination,
                     faults>>

InFlightTo(h) ==
  \E m \in Msg : m[2] = h /\ file.status[m] = "in_flight"

\* canDeliver keeps the mail of channels the session is no member of; like
\* mail of a channel without budget it stays in the queue.
Elsewhere(s, h) == {c \in Channel : ~(Active(s, c) /\ h \in Members(s, c))}

Reaching(s, h) == [s EXCEPT !.overtime = @ \cup Elsewhere(s, h)]

\* Slip: what the coordinator hands over is not charged to its channel.
DrainManagedUncharged(s, h) ==
  [Drain(Reaching(s, h), h) EXCEPT !.overtime = s.overtime, !.total = s.total]

DrainManaged(s, h) ==
  [Drain(Reaching(s, h), h) EXCEPT !.overtime = s.overtime]

\* Slip for the mutant runs: the drain does not look at close().
ClearClosed(k) ==
  /\ agents[tick[k].agent].status = "idle"
  /\ agents[tick[k].agent].host = tick[k].host
  /\ ~InFlightTo(tick[k].host)

\* The agent may still be drained: it was not closed, stopped, made busy or
\* given another session meanwhile, and no earlier prompt is open.
Clear(k) ==
  LET t == tick[k]
  IN  /\ k \notin closed
      /\ agents[t.agent].status = "idle"
      /\ agents[t.agent].host = t.host
      /\ ~InFlightTo(t.host)

DrainForAgent(k) ==
  LET h == tick[k].host
      ids == Batch(Reaching(file, h), h)
  IN  /\ In(k, "draining")
      /\ IF Clear(k)
           THEN \E D \in Doomed(DrainManaged(file, h)) :
                  /\ file' = Purge(DrainManaged(file, h),
                                   IF ids = <<>> THEN {} ELSE D)
                  /\ IF ids = <<>>
                       THEN Continue(k)
                       ELSE tick' = [tick EXCEPT ![k].phase = "drained",
                                                 ![k].ids = ids]
           ELSE Continue(k) /\ UNCHANGED file
      /\ UNCHANGED <<agents, closed, current, acts, hosts, coordination,
                     faults>>

Settle(k, outcome) ==
  tick' = [tick EXCEPT ![k].phase = "settling", ![k].outcome = outcome]

\* An ACP connection is left in `status`; OpenCode goes on as it was.
Turned(k, status) ==
  Set(tick[k].host, IF IsAcp(k) THEN status ELSE conn[tick[k].host])

\* After the drain only close() is looked at, not the agent.  An ACP
\* connection takes one prompt at a time.
StartPrompt(k) ==
  LET h == tick[k].host
  IN  /\ In(k, "drained")
      /\ IF k \in closed
           THEN Step(k, "returning") /\ UNCHANGED conn
         ELSE IF IsAcp(k) /\ conn[h] \in {"down", "running"}
           THEN Settle(k, "failed") /\ UNCHANGED conn
         ELSE /\ Step(k, "prompting")
              /\ Set(h, IF IsAcp(k) THEN "running" ELSE conn[h])
      /\ UNCHANGED <<file, agents, closed, current, acts, acp, history, plan,
                     coordination, faults>>

GiveBack(k) ==
  /\ In(k, "returning")
  /\ file' = Requeue(file, tick[k].host, tick[k].ids)
  /\ End(k)
  /\ UNCHANGED <<agents, closed, current, acts, hosts, coordination, faults>>

\* The host takes the prompt, with what of the batch is still stored.
HostHears(k) ==
  LET h == tick[k].host
  IN  /\ In(k, "prompting")
      /\ heard' = [m \in Msg |->
           IF m \in Elems(tick[k].ids) THEN heard[m] + 1 ELSE heard[m]]
      /\ Set(h, "running")
      /\ Step(k, "heard")
      /\ UNCHANGED <<file, agents, closed, current, acts, acp, removed, plan,
                     coordination, faults>>

\* OpenCode answers once it has the prompt, ACP at the end of the turn.
HostAnswers(k) ==
  /\ In(k, "heard")
  /\ Settle(k, "delivered")
  /\ Turned(k, "idle")
  /\ UNCHANGED <<file, agents, closed, current, acts, acp, history, plan,
                 coordination, faults>>

\* Only an explicit rejection is known to have no effect.
HostRejects(k) ==
  /\ In(k, "prompting")
  /\ Fault("refuse")
  /\ Settle(k, "failed")
  /\ Turned(k, "stale")
  /\ UNCHANGED <<file, agents, closed, current, acts, acp, history, plan,
                 coordination>>

\* A timeout, a broken connection, an exit: the host may have the prompt.
\* A late answer finds its request gone and changes nothing.
OutcomeUnknown(k) ==
  /\ In(k, "prompting") \/ In(k, "heard")
  /\ Fault("unknown")
  /\ Settle(k, "uncertain")
  /\ \E status \in {"stale", "down"} : Turned(k, status)
  /\ UNCHANGED <<file, agents, closed, current, acts, acp, history, plan,
                 coordination>>

\* Slip: uncertain mail is retried.
SettleRetries(k) ==
  LET t == tick[k]
  IN  /\ In(k, "settling")
      /\ file' = IF t.outcome = "delivered" THEN Commit(file, t.host, t.ids)
                  ELSE Requeue(file, t.host, t.ids)
      /\ End(k)
      /\ UNCHANGED <<agents, closed, current, acts, hosts, coordination,
                     faults>>

\* Delivered mail is committed, refused mail requeued; uncertain mail stays
\* in flight, with a line in the error log.  One batch a tick.
SettleBatch(k) ==
  LET t == tick[k]
  IN  /\ In(k, "settling")
      /\ file' = CASE t.outcome = "delivered" -> Commit(file, t.host, t.ids)
                   [] t.outcome = "failed" -> Requeue(file, t.host, t.ids)
                   [] t.outcome = "uncertain" -> file
      /\ End(k)
      /\ UNCHANGED <<agents, closed, current, acts, hosts, coordination,
                     faults>>

\* The lock is not to be had, or the save fails: the tick throws.
SettleFails(k) ==
  /\ In(k, "settling") \/ In(k, "returning")
  /\ Fault("disk")
  /\ End(k)
  /\ UNCHANGED <<file, agents, closed, current, acts, hosts, coordination>>

-----------------------------------------------------------------------------
(***************************************************************************)
(* Stopping and restarting an agent, one operation on each at a time;      *)
(* AgentLifecycle has what happens when operations on one agent overlap.   *)
(***************************************************************************)
Act(a, step) == acts' = [acts EXCEPT ![a] = step]

\* stopAgent, or the interruption of an agent by the emergency stop, which
\* asks the host also for a failed agent.
BeginStop(a) ==
  /\ "stop" \in plan
  /\ acts[a] = "none"
  /\ agents[a].status \notin {"none", "stopped"}
  /\ \/ agents[a].host # NoHost /\ Act(a, "stop")
     \/ ~MayWork(agents[a]) /\ Act(a, "stopped")
  /\ UNCHANGED <<file, agents, loop, hosts, coordination, faults>>

\* An ACP stop waits for the prompt under way, then ends the process.
HostStops(a) ==
  LET h == agents[a].host
  IN  /\ acts[a] = "stop"
      /\ a \in acp => conn[h] # "running"
      /\ Act(a, "stopped")
      /\ Set(h, IF a \in acp THEN "down" ELSE "idle")
      /\ UNCHANGED <<file, agents, loop, acp, history, plan,
                     coordination, faults>>

MarkStopped(a) ==
  /\ acts[a] = "stopped"
  /\ agents' = SetStatus(agents, a, "stopped")
  /\ Act(a, "none")
  /\ UNCHANGED <<file, loop, hosts, coordination, faults>>

BeginRestart(a) ==
  /\ "restart" \in plan
  /\ acts[a] = "none"
  /\ agents[a].host # NoHost
  /\ Act(a, "restart")
  /\ UNCHANGED <<file, agents, loop, hosts, coordination, faults>>

HostResumes(a) ==
  LET h == agents[a].host
  IN  /\ acts[a] = "restart"
      /\ Set(h, Reported(h))
      /\ Act(a, "resumed")
      /\ UNCHANGED <<file, agents, loop, acp, history, plan,
                     coordination, faults>>

Adopt(a) ==
  /\ acts[a] = "resumed"
  /\ agents' = SetStatus(agents, a, "running")
  /\ Act(a, "none")
  /\ UNCHANGED <<file, loop, hosts, coordination, faults>>

\* The host does not resume the session: a new one takes its place.
Replace(a) ==
  /\ acts[a] = "restart"
  /\ Fault("status")
  /\ \E h \in Host : /\ \A b \in Agent : agents[b].host # h
                     /\ \A m \in Msg : m[2] = h => file.status[m] = "unsent"
                     /\ agents' = SetHost(agents, a, h)
  /\ Act(a, "none")
  /\ UNCHANGED <<file, loop, hosts, coordination>>

\* The host does not confirm a stop, or resume for a restart.
HostRefuses(a) ==
  /\ acts[a] \in {"stop", "restart"}
  /\ Fault("status")
  /\ Act(a, "none")
  /\ UNCHANGED <<file, agents, loop, hosts, coordination>>

\* OpenCode's turns end by themselves, ACP's with the answer.
TurnEnds(a) ==
  LET h == agents[a].host
  IN  /\ a \notin acp /\ h # NoHost
      /\ conn[h] = "running"
      /\ Set(h, "idle")
      /\ UNCHANGED <<file, agents, loop, acts, acp, history, plan,
                     coordination, faults>>

-----------------------------------------------------------------------------
(***************************************************************************)
(* Emergency stop and resume.                                              *)
(***************************************************************************)
Switching ==
  /\ switches < MaxSwitches
  /\ switches' = switches + 1
  /\ crossed' = (crossed \/ switch.stop # "none"
                           \/ switch.resume # "none")

\* Slip: the closed controller is kept for the next tick.
EmergencyStopKeepsController ==
  /\ "emergency" \in plan
  /\ switch.stop = "none"
  /\ Switching
  /\ switch' = [switch EXCEPT !.stop = "pausing"]
  /\ memory' = [memory EXCEPT !.stopped = TRUE]
  /\ closed' = closed \cup ({current} \ {NoController})
  /\ UNCHANGED <<file, agents, tick, current, acts, hosts, disk, byUser,
                 faults>>

EmergencyStop ==
  /\ "emergency" \in plan
  /\ switch.stop = "none"
  /\ Switching
  /\ switch' = [switch EXCEPT !.stop = "pausing"]
  /\ memory' = [memory EXCEPT !.stopped = TRUE]
  /\ closed' = closed \cup ({current} \ {NoController})
  /\ current' = NoController
  /\ UNCHANGED <<file, agents, tick, acts, hosts, disk, byUser, faults>>

\* The locked section: every channel that is not paused, in both files.
ToPause == {c \in Channel : Active(file, c)} \ file.paused

\* Slip: the channels users paused are taken over by the stop.
EmergencyPausesAll ==
  /\ switch.stop = "pausing"
  /\ switch' = [switch EXCEPT !.stop = "none"]
  /\ file' = [file EXCEPT !.paused = Channel]
  /\ memory' = [memory EXCEPT !.paused = Channel]
  /\ disk' = [stopped |-> TRUE, paused |-> Channel]
  /\ UNCHANGED <<agents, loop, acts, hosts, byUser, crossed, faults,
                 switches>>

EmergencyPauses ==
  LET paused == memory.paused \cup ToPause
  IN  /\ switch.stop = "pausing"
      /\ switch' = [switch EXCEPT !.stop = "none"]
      /\ file' = [file EXCEPT !.paused = @ \cup ToPause]
      /\ memory' = [memory EXCEPT !.paused = paused]
      /\ disk' = [stopped |-> TRUE, paused |-> paused]
      /\ UNCHANGED <<agents, loop, acts, hosts, byUser, crossed, faults,
                     switches>>

\* state.json is saved and orchestrator.json is not.
EmergencyHalfSaved ==
  /\ switch.stop = "pausing"
  /\ Fault("disk")
  /\ switch' = [switch EXCEPT !.stop = "none"]
  /\ file' = [file EXCEPT !.paused = @ \cup ToPause]
  /\ memory' = [memory EXCEPT !.paused = @ \cup ToPause]
  /\ crossed' = TRUE
  /\ UNCHANGED <<agents, loop, acts, hosts, disk, byUser, switches>>

EmergencyResume ==
  /\ "emergency" \in plan
  /\ switch.resume = "none"
  /\ Switching
  /\ switch' = [switch EXCEPT !.resume = "unpausing"]
  /\ UNCHANGED <<file, agents, loop, acts, hosts, memory, disk, byUser,
                 faults>>

EmergencyUnpauses ==
  /\ switch.resume = "unpausing"
  /\ switch' = [switch EXCEPT !.resume = "clearing"]
  /\ file' = [file EXCEPT !.paused = @ \ memory.paused]
  /\ disk' = [stopped |-> FALSE, paused |-> {}]
  /\ UNCHANGED <<agents, loop, acts, hosts, memory, byUser, crossed, faults,
                 switches>>

\* After the await, whatever a stop did to the memory in between.
EmergencyClears ==
  /\ switch.resume = "clearing"
  /\ switch' = [switch EXCEPT !.resume = "none"]
  /\ memory' = [stopped |-> FALSE, paused |-> {}]
  /\ UNCHANGED <<file, agents, loop, acts, hosts, disk, byUser, crossed,
                 faults, switches>>

\* The coordinator dies and starts again: its ACP children die with it, and
\* the coordination is what was saved.
Crash ==
  /\ Fault("crash")
  /\ tick' = [k \in Controller |-> IdleTick]
  /\ closed' = Controller
  /\ current' = NoController
  /\ conn' = [h \in Host |->
       IF \E a \in acp : agents[a].host = h THEN "down" ELSE conn[h]]
  /\ acts' = [a \in Agent |-> "none"]
  /\ switch' = [stop |-> "none", resume |-> "none"]
  /\ memory' = disk
  /\ UNCHANGED <<file, agents, acp, history, plan, disk, byUser, crossed,
                 switches>>

-----------------------------------------------------------------------------
(***************************************************************************)
(* The other operations on state.json.                                     *)
(***************************************************************************)
SendMail ==
  /\ \E c \in Channel :
       /\ CanSend(file, c)
       /\ \E sender \in Members(file, c) \cap Senders :
            \E R \in RecipientSets(file, c, sender) :
              \E D \in Doomed(Enqueue(file, c, R)) :
                file' = Purge(Enqueue(file, c, R), D)
  /\ UNCHANGED <<agents, loop, acts, hosts, coordination, faults>>

\* removeMemberAsOperator.
KickAgent ==
  /\ "kick" \in plan
  /\ file.sent < MaxSend
  /\ \E c \in Channel : \E r \in Members(file, c) \cap Host :
       /\ Active(file, c)
       /\ \E D \in Doomed(Kick(file, c, r)) :
            file' = Purge(Kick(file, c, r), D)
       /\ removed' = removed \cup {r}
  /\ UNCHANGED <<agents, loop, acts, acp, conn, heard, plan, coordination,
                 faults>>

\* linkManagedAgent puts an agent's session on the roster.
LinkAgent ==
  /\ "link" \in plan
  /\ \E a \in Agent, c \in Channel :
       /\ agents[a].host # NoHost
       /\ CanJoin(file, c, agents[a].host)
       /\ file' = JoinChannel(file, c, agents[a].host)
  /\ UNCHANGED <<agents, loop, acts, hosts, coordination, faults>>

\* A user pauses or unpauses a channel.  A pause of a channel an emergency
\* stop holds adds nothing to it, and a resume ends it.
PauseOrUnpause ==
  /\ "pause" \in plan
  /\ \E c \in Channel, paused \in BOOLEAN :
       /\ CanPause(file, c)
       /\ file' = SetPaused(file, c, paused)
       /\ byUser' = IF ~paused THEN byUser \ {c}
                    ELSE IF c \in file.paused \cup disk.paused THEN byUser
                    ELSE byUser \cup {c}
  /\ UNCHANGED <<agents, loop, acts, hosts, switch, memory, disk, crossed,
                 faults, switches>>

\* An OpenCode plugin of the project starts and sweeps.
PluginSweeps ==
  /\ "sweep" \in plan
  /\ file' = Sweep(file)
  /\ UNCHANGED <<agents, loop, acts, hosts, coordination, faults>>

CooldownEnds ==
  /\ \E p \in file.cooling : file' = EndCooldown(file, p[1], p[2])
  /\ UNCHANGED <<agents, loop, acts, hosts, coordination, faults>>

-----------------------------------------------------------------------------
Loop(k) ==
  \/ Visit(k) \/ HostReports(k) \/ HostUnreachable(k) \/ Note(k)
  \/ DrainForAgent(k) \/ StartPrompt(k) \/ GiveBack(k)
  \/ HostHears(k) \/ HostAnswers(k) \/ HostRejects(k) \/ OutcomeUnknown(k)
  \/ SettleBatch(k) \/ SettleFails(k)

Operate(a) ==
  \/ HostStops(a) \/ MarkStopped(a) \/ HostResumes(a) \/ Adopt(a)
  \/ Replace(a) \/ HostRefuses(a)

Next ==
  \/ \E k \in Controller : TimerFires(k) \/ Loop(k)
  \/ \E a \in Agent : BeginStop(a) \/ BeginRestart(a) \/ Operate(a)
                       \/ TurnEnds(a)
  \/ EmergencyStop \/ EmergencyPauses \/ EmergencyHalfSaved
  \/ EmergencyResume \/ EmergencyUnpauses \/ EmergencyClears
  \/ Crash
  \/ SendMail \/ KickAgent \/ LinkAgent \/ PauseOrUnpause \/ PluginSweeps
  \/ CooldownEnds

Spec == Init /\ [][Next]_vars

\* The interval timer fires, awaits return, turns and cooldowns end; the
\* visits take the agents in the order of the list.
FairSpec ==
  /\ Spec
  /\ \A k \in Controller : WF_vars(TimerFires(k)) /\ WF_vars(Loop(k))
  /\ \A a \in Agent : WF_vars(TurnEnds(a))
  /\ WF_vars(CooldownEnds)

-----------------------------------------------------------------------------
\* An accepted or uncertain prompt is never replayed, whatever stops,
\* restarts, crashes and stale ticks come between, as long as the agent's
\* session stays on the roster: a plugin that starts sweeps the mail in
\* flight to a session that is not.
PromptedOnce == \A m \in Msg : heard[m] <= 1 \/ m[2] \in removed

\* Mail the senders see as delivered was accepted by the agent's host.
DeliveredWasHeard ==
  \A m \in Msg : file.status[m] = "delivered" => heard[m] >= 1

Prompting(k) == tick[k].phase \in {"prompting", "heard"}

\* The session lost mail in flight to it: a sweep took it back after the
\* session was off the roster, or the limit of stored mail did.
LostSight(h) == \/ h \in removed
                \/ \E m \in Msg : m[2] = h /\ file.status[m] = "purged"

\* A session has one prompt open at a time, although the tick of a closed
\* controller and the next controller's may both be at the agent.  An ACP
\* connection sees to it by itself; for OpenCode it is the mail in flight that
\* tells a later tick, so not for a session that lost sight of some.
OnePromptEach ==
  \A k, l \in Controller :
    /\ Prompting(k) /\ Prompting(l) /\ tick[k].host = tick[l].host
    /\ IsAcp(k) \/ ~LostSight(tick[k].host)
    => k = l

\* Together: what a prompt may do to the mail of an agent, and no more.
PromptsSound == TypeOK /\ PromptedOnce /\ DeliveredWasHeard /\ OnePromptEach

\* Mail whose outcome is uncertain stays in flight until an operator acts.
UncertainWaits ==
  [][\A m \in Msg :
       /\ file.status[m] = "in_flight"
       /\ m[2] \notin removed
       /\ \A k \in Controller : m \notin Elems(tick[k].ids)
       => file'.status[m] = "in_flight"]_vars

StopInForce ==
  disk.stopped /\ ~crossed /\ switch = [stop |-> "none", resume |-> "none"]

\* While an emergency stop is in force nothing is handed over, also when a
\* user unpauses a channel or the coordinator was restarted; and what a tick
\* observed before a stop does not bring a stopped agent back: only a
\* restart of that agent does.
StopHolds ==
  [][/\ StopInForce =>
          \A m \in Msg : file.status[m] = "pending" =>
            file'.status[m] # "in_flight"
     /\ \A a \in Agent :
          agents[a].status = "stopped" /\ acts[a] \notin {"restart", "resumed"}
            => agents'[a].status = "stopped"]_vars

\* An emergency stop and its resume do not touch what users paused, and a
\* channel paused by the stop is one the resume will know.
PausesAccounted ==
  ~crossed =>
    /\ byUser \subseteq file.paused
    /\ switch = [stop |-> "none", resume |-> "none"] =>
         /\ memory = disk
         /\ file.paused \subseteq byUser \cup disk.paused

\* The mail of an agent that stays available.
Due(m) ==
  /\ file.status[m] = "pending"
  /\ \E a \in Agent : /\ agents[a].host = m[2]
                      /\ agents[a].status \notin {"stopped", "failed"}
                      /\ acts[a] = "none"
                      /\ a \in acp => conn[m[2]] # "stale"
  /\ ~InFlightTo(m[2])
  /\ ChannelOf(file, m) \notin file.paused
  /\ m[2] \in Members(file, ChannelOf(file, m))
  /\ Affordable(file, ChannelOf(file, m), 0)
  /\ ~memory.stopped
  /\ switch = [stop |-> "none", resume |-> "none"]

\* No mail waits for ever for an agent that is there to take it.
MailMoves == \A m \in Send \X Host : []<>~Due(m)

\* The coordinator keeps what the engine promises of an envelope, through
\* stops, restarts and emergency stops, although a tick drains, prompts and
\* settles in sections of their own.
Contract == INSTANCE MailContract WITH
  Envelope <- Msg, Room <- Channel, NoRoom <- NoChannel,
  Limit <- Budget, Cap <- MaxAttempts,
  stage <- Stages(file), tries <- file.attempts, room <- RoomOf(file),
  spent <- file.total, taking <- Taking(file), closed <- GoneRooms(file)
KeepsContract == Contract!Spec

=============================================================================
