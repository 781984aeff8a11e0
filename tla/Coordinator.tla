---------------------------- MODULE Coordinator -----------------------------
(***************************************************************************)
(* The process that holds the selected project: the GUI server of          *)
(* src/src/gui/server.ts, its stdio bridge (src/src/orchestrator/bridge.ts)*)
(* and the OpenCode server it starts for managed agents (ensureServe of    *)
(* src/src/orchestrator/runtimes/opencode.ts).                             *)
(*                                                                         *)
(* Requests run concurrently on one event loop: a handler reads the        *)
(* selected project, the emergency-stop flag and the serve child, awaits   *)
(* the request body, a child or a file lock, and goes on.  An action is    *)
(* the code between two awaits.  What a stop does to the sessions it       *)
(* pauses and to managed agents is in ManagedDelivery; what creating an    *)
(* agent writes is in AgentLifecycle.                                      *)
(***************************************************************************)
EXTENDS Integers, Sequences, FiniteSets

CONSTANTS
  Project, NoProject,
  Connection, \* HTTP connections, each with at most one request under way
  Bridge,     \* the stdio bridge of the desktop shell
  Child,      \* OpenCode server processes
  NoChild,
  Plans,      \* kinds of request and of line of a behaviour, one set is
              \* chosen at Init
  Started,    \* what a coordinator may be started with
  MaxAsked,   \* bound on HTTP requests and lines the shell writes
  MaxFaults   \* bound on crashes, lock timeouts, deaths of children and
              \* clients that go away

ASSUME CoordinatorAssumption ==
  /\ NoProject \notin Project /\ NoChild \notin Child
  /\ Started \subseteq Project \cup {NoProject} /\ Started # {}
  /\ Bridge \notin Connection /\ IsFiniteSet(Connection)
  /\ MaxAsked \in Nat /\ MaxFaults \in Nat

Slot == Connection \cup {Bridge}

\* Kinds of request.  "create" makes an OpenCode agent, "acp" one that runs
\* as a child of its own, "write" stands for the routes that change session
\* files under the lock, "select" takes the project to select.
Kinds == {"create", "acp", "endacp", "write", "stop", "resume"} \cup Project

VARIABLES
  plan,
  project,    \* projectDir
  stopped,    \* coordinationStopped
  remembered, \* coordinationByProject
  saved,      \* coordination in each project's orchestrator file
  serve,      \* serveChild
  startup,    \* the child serveStartup waits for, and its project
  child,      \* what each OpenCode server process does, and for whom
  acp,        \* projects whose file lists a working ACP agent
  req,        \* the request each slot works on
  bridge,     \* lines not read yet, handshake done
  requests,   \* HTTP requests and lines so far
  closing,    \* "open", "closing", "closed"
  aborted,    \* connections whose client went away before its answer
  unsure,     \* projects with a stop or resume that failed or overlapped
              \* another one (history)
  asked,      \* what the last one that succeeded asked (history)
  faults

vars == <<plan, project, stopped, remembered, saved, serve, startup, child, acp,
          req, bridge, requests, closing, aborted, unsure, asked, faults>>

history == <<unsure, asked>>
coordination == <<stopped, remembered, saved>>
servers == <<serve, startup, child>>

Flags == {"none", "stopped", "running"}
Idle == [phase |-> "idle", kind |-> "none", home |-> NoProject]
NoStartup == [child |-> NoChild, home |-> NoProject]
Gone == [state |-> "gone", home |-> NoProject]

TypeOK ==
  /\ plan \in Plans
  /\ project \in Project \cup {NoProject}
  /\ stopped \in BOOLEAN
  /\ remembered \in [Project -> Flags] /\ saved \in [Project -> Flags]
  /\ serve \in Child \cup {NoChild}
  /\ startup \in [child : Child \cup {NoChild}, home : Project \cup {NoProject}]
  /\ child \in [Child -> [state : {"gone", "starting", "live", "killed", "orphan"},
                          home : Project \cup {NoProject}]]
  /\ acp \subseteq Project
  /\ req \in [Slot -> [phase : {"idle", "reading", "startup", "agent", "lock",
                                "clear"},
                       kind : Kinds \cup {"none"},
                       home : Project \cup {NoProject}]]
  /\ bridge \in [lines : Seq(Kinds \cup {"hello", "bad"}), acked : BOOLEAN]
  /\ requests \in 0..MaxAsked
  /\ closing \in {"open", "closing", "closed"}
  /\ aborted \subseteq Connection
  /\ unsure \subseteq Project
  /\ asked \in [Project -> Flags]
  /\ faults \in 0..MaxFaults

Flag(stop) == IF stop THEN "stopped" ELSE "running"

\* The server starts with the project it is given or the last one it had;
\* the stop of that project is read from its file.
Opened(p) ==
  /\ project' = p
  /\ stopped' = (p # NoProject /\ saved[p] = "stopped")
  /\ remembered' = [q \in Project |-> "none"]
  /\ serve' = NoChild /\ startup' = NoStartup
  /\ req' = [s \in Slot |-> Idle]
  /\ bridge' = [lines |-> <<>>, acked |-> FALSE]
  /\ aborted' = {}

Init ==
  /\ plan \in Plans
  /\ project \in Started
  /\ stopped = FALSE
  /\ remembered = [p \in Project |-> "none"]
  /\ saved = [p \in Project |-> "none"]
  /\ serve = NoChild
  /\ startup = NoStartup
  /\ child = [c \in Child |-> Gone]
  /\ acp = {}
  /\ req = [s \in Slot |-> Idle]
  /\ bridge = [lines |-> <<>>, acked |-> FALSE]
  /\ requests = 0
  /\ closing = "open"
  /\ aborted = {}
  /\ unsure = {}
  /\ asked = [p \in Project |-> "none"]
  /\ faults = 0

CountRequest == requests < MaxAsked /\ requests' = requests + 1
CountFault == faults < MaxFaults /\ faults' = faults + 1

-----------------------------------------------------------------------------
(* Requests.  createServer and withMutation count a request that changes   *)
(* something from its arrival until its handler is through, whether the    *)
(* client is still there or not.                                           *)

\* The process runs: it is not closed.
Up == closing # "closed"

\* The desktop shell runs it (startBridge), not the user (startGui).
ByShell == "hello" \in plan

Mutations == Cardinality({s \in Slot : req[s].phase # "idle"})

Goto(s, phase) == req' = [req EXCEPT ![s].phase = phase]
Answer(s) == req' = [req EXCEPT ![s] = Idle]
Enter(s, phase) == req' = [req EXCEPT ![s].phase = phase, ![s].home = project]

Arrive(s, k) ==
  /\ closing = "open"
  /\ CountRequest
  /\ req[s].phase = "idle" /\ s \notin aborted /\ k \in plan
  /\ req' = [req EXCEPT ![s] = [Idle EXCEPT !.phase = "reading", !.kind = k]]
  /\ UNCHANGED <<plan, project, coordination, servers, acp, bridge, closing, aborted,
                 history, faults>>

\* The client of a request goes away; nothing tells the handler.
Abort(s) ==
  /\ CountFault
  /\ Up /\ req[s].phase # "idle" /\ s \notin aborted
  /\ aborted' = aborted \cup {s}
  /\ UNCHANGED <<plan, requests, project, coordination, servers, acp, req, bridge,
                 closing, history>>

\* The shell writes a line: its acknowledgement, a command or rubbish.
Write(k) ==
  /\ closing = "open"
  /\ CountRequest
  /\ ByShell /\ k \in plan
  /\ bridge' = [bridge EXCEPT !.lines = Append(@, k)]
  /\ UNCHANGED <<plan, project, coordination, servers, acp, req, closing, aborted,
                 history, faults>>

\* runBridge takes one line at a time, once the previous one is answered.
\* Until the acknowledgement has come a line is dropped; after it, what is
\* no command is answered with an error and changes nothing.
NextLine ==
  /\ closing = "open"
  /\ bridge.lines # <<>> /\ req[Bridge].phase = "idle"
  /\ LET k == Head(bridge.lines) IN
       /\ bridge' = [bridge EXCEPT !.lines = Tail(@), !.acked = @ \/ k = "hello"]
       /\ IF bridge.acked /\ k \notin {"hello", "bad"}
          THEN req' = [req EXCEPT ![Bridge] =
                         [Idle EXCEPT !.phase = "reading", !.kind = k]]
          ELSE UNCHANGED req
  /\ UNCHANGED <<plan, requests, project, coordination, servers, acp, closing, aborted, history,
                 faults>>

-----------------------------------------------------------------------------
(* selectProject.                                                          *)

\* ensureServe and selectProject take the child for running unless it was
\* told to end or has an exit code; one killed by a signal has none.
Usable == serve # NoChild /\ child[serve].state \in {"live", "killed"}

\* Slips for the mutant runs: the requests under way are not counted, and
\* the flag of the project that is left is taken along.
SelectableAnyTime(p) ==
  /\ p # project => ~Usable
  /\ p # project => project \notin acp
CarriedFlag(p) ==
  IF saved[p] # "none" THEN saved[p] = "stopped"
  ELSE IF project = NoProject THEN remembered[p] = "stopped" ELSE stopped

Selectable(p) ==
  /\ Mutations <= 1
  /\ p # project => ~Usable
  /\ p # project => project \notin acp

\* The file decides over what this process remembers of the project.
FlagOf(p) ==
  IF saved[p] # "none" THEN saved[p] = "stopped" ELSE remembered[p] = "stopped"

Refuse(s) ==
  /\ Answer(s)
  /\ UNCHANGED <<plan, requests, project, coordination, servers, acp, bridge, closing, aborted,
                 history, faults>>

SelectProject(s) ==
  LET p == req[s].kind IN
  /\ req[s].phase = "reading" /\ p \in Project
  /\ \/ (~Selectable(p) \/ p = project) /\ Refuse(s)
     \/ /\ Selectable(p) /\ p # project
        /\ remembered' = IF project = NoProject THEN remembered
                         ELSE [remembered EXCEPT ![project] = Flag(stopped)]
        /\ stopped' = FlagOf(p)
        /\ project' = p
        /\ Answer(s)
        /\ UNCHANGED <<plan, requests, saved, servers, acp, bridge, closing, aborted, history, faults>>

-----------------------------------------------------------------------------
(* createManagedAgent, ensureServeRunning and ensureServe.                 *)

\* A child of another coordinator, or one that outlived a crash, may hold
\* the port: then the new one exits (ServeFails).
StartServe(s) ==
  \E c \in {CHOOSE d \in Child : child[d].state = "gone"} :
    /\ startup' = [child |-> c, home |-> project]
    /\ child' = [child EXCEPT ![c] = [state |-> "starting", home |-> project]]

SomeChild == \E c \in Child : child[c].state = "gone"

\* Slip for the mutant runs: a startup under way is not joined.
JoinsNone == FALSE

\* serveStartup is shared by the requests that need it.
Joins == startup.child # NoChild

CreateAgent(s) ==
  /\ req[s].phase = "reading" /\ req[s].kind = "create"
  /\ IF project = NoProject \/ stopped
     THEN Refuse(s)
     ELSE IF Joins
     THEN /\ Enter(s, "startup")
          /\ UNCHANGED <<plan, requests, project, coordination, servers, acp, bridge,
                         closing, aborted, history, faults>>
     ELSE IF Usable
     THEN /\ Enter(s, "agent")
          /\ UNCHANGED <<plan, requests, project, coordination, servers, acp, bridge,
                         closing, aborted, history, faults>>
     ELSE /\ SomeChild
          /\ StartServe(s)
          /\ Enter(s, "startup")
          /\ UNCHANGED <<plan, requests, project, coordination, serve, acp, bridge,
                         closing, aborted, history, faults>>

\* Slip for the mutant runs: the end of the startup releases nobody.
NobodyReleased(phase) == req

Waiters == {s \in Slot : req[s].phase = "startup"}
Released(phase) ==
  [s \in Slot |-> IF s \notin Waiters THEN req[s]
                  ELSE IF phase = "idle" THEN Idle
                  ELSE [req[s] EXCEPT !.phase = phase]]

Closing == closing # "open"

\* The child says it listens.  A coordinator that is closing kills it.
ServeReady ==
  /\ Up /\ startup.child # NoChild /\ child[startup.child].state = "starting"
  /\ startup' = NoStartup
  /\ IF Closing
     THEN /\ child' = [child EXCEPT ![startup.child] = Gone]
          /\ req' = Released("idle")
          /\ UNCHANGED serve
     ELSE /\ child' = [child EXCEPT ![startup.child].state = "live"]
          /\ serve' = startup.child
          /\ req' = Released("agent")
  /\ UNCHANGED <<plan, requests, project, coordination, acp, bridge, closing, aborted, history,
                 faults>>

\* It exits instead, or says nothing for thirty seconds and is killed.
ServeFails ==
  /\ Up /\ startup.child # NoChild
  /\ startup' = NoStartup
  /\ child' = [child EXCEPT ![startup.child] = Gone]
  /\ req' = Released("idle")
  /\ UNCHANGED <<plan, requests, project, coordination, serve, acp, bridge, closing, aborted,
                 history, faults>>

\* api.createAgent on the API captured before the child was awaited.
AgentCreated(s) ==
  /\ req[s].phase = "agent" /\ req[s].kind = "create"
  /\ Refuse(s)

\* An ACP agent is listed as starting before its process is started; the
\* start may fail.  Stopping it takes it off the working ones.
CreateAcp(s) ==
  /\ req[s].phase = "reading" /\ req[s].kind = "acp"
  /\ IF project = NoProject \/ stopped
     THEN Refuse(s)
     ELSE /\ acp' = acp \cup {project}
          /\ Enter(s, "agent")
          /\ UNCHANGED <<plan, requests, project, coordination, servers, bridge, closing, aborted,
                         history, faults>>

AcpCreated(s) ==
  /\ req[s].phase = "agent" /\ req[s].kind = "acp"
  /\ \E works \in BOOLEAN :
       acp' = IF works THEN acp ELSE acp \ {req[s].home}
  /\ Answer(s)
  /\ UNCHANGED <<plan, requests, project, coordination, servers, bridge, closing, aborted, history,
                 faults>>

EndAcp(s) ==
  /\ req[s].phase = "reading" /\ req[s].kind = "endacp"
  /\ acp' = acp \ {project}
  /\ Answer(s)
  /\ UNCHANGED <<plan, requests, project, coordination, servers, bridge, closing, aborted, history,
                 faults>>

-----------------------------------------------------------------------------
(* emergencyStop, and the routes that write session files.                 *)

Overlapping(s) ==
  \E t \in Slot \ {s} : req[t].kind \in {"stop", "resume"} /\ req[t].phase # "idle"

Marked(s) == IF Overlapping(s) THEN unsure \cup {project} ELSE unsure

\* The flag is raised before the lock is asked for; the project whose files
\* are written is the one selected now.
AskLock(s) ==
  /\ req[s].phase = "reading" /\ req[s].kind \in {"stop", "resume", "write"}
  /\ IF project = NoProject
     THEN Refuse(s)
     ELSE /\ stopped' = (stopped \/ req[s].kind = "stop")
          /\ unsure' = IF req[s].kind = "write" THEN unsure ELSE Marked(s)
          /\ Enter(s, "lock")
          /\ UNCHANGED <<plan, requests, project, remembered, saved, servers, acp, bridge,
                         closing, aborted, asked, faults>>

LockedWrite(s) ==
  /\ req[s].phase = "lock" /\ req[s].kind = "write"
  /\ Refuse(s)

\* Slip for the mutant runs: a stop is kept in memory only.
StopForgotten(s) ==
  /\ req[s].phase = "lock" /\ req[s].kind = "stop"
  /\ asked' = [asked EXCEPT ![req[s].home] = "stopped"]
  /\ Answer(s)
  /\ UNCHANGED <<plan, requests, project, coordination, servers, acp, bridge, closing, aborted,
                 unsure, faults>>

LockedStop(s) ==
  /\ req[s].phase = "lock" /\ req[s].kind = "stop"
  /\ saved' = [saved EXCEPT ![req[s].home] = "stopped"]
  /\ asked' = [asked EXCEPT ![req[s].home] = "stopped"]
  /\ Answer(s)
  /\ UNCHANGED <<plan, requests, project, stopped, remembered, servers, acp, bridge,
                 closing, aborted, unsure, faults>>

\* The section of a resume releases the lock before the flag is lowered.
LockedResume(s) ==
  /\ req[s].phase = "lock" /\ req[s].kind = "resume"
  /\ saved' = [saved EXCEPT ![req[s].home] = "running"]
  /\ Goto(s, "clear")
  /\ UNCHANGED <<plan, requests, project, stopped, remembered, servers, acp, bridge,
                 closing, aborted, history, faults>>

ResumeClears(s) ==
  /\ req[s].phase = "clear"
  /\ stopped' = FALSE
  /\ asked' = [asked EXCEPT ![req[s].home] = "running"]
  /\ Answer(s)
  /\ UNCHANGED <<plan, requests, project, remembered, saved, servers, acp, bridge,
                 closing, aborted, unsure, faults>>

\* withLock gives up, or a save throws: the request fails.
LockTimesOut(s) ==
  /\ CountFault
  /\ Up /\ req[s].phase = "lock"
  /\ unsure' = IF req[s].kind = "write" THEN unsure
               ELSE unsure \cup {req[s].home}
  /\ Answer(s)
  /\ UNCHANGED <<plan, requests, project, coordination, servers, acp, bridge, closing, aborted,
                 asked>>

-----------------------------------------------------------------------------
(* The end of the process.                                                 *)

\* A child exits by itself.  If it was starting, ServeFails follows.
ChildExits(c) ==
  /\ CountFault
  /\ child[c].state \in {"live", "orphan"}
  /\ child' = [child EXCEPT ![c] = Gone]
  /\ serve' = IF serve = c THEN NoChild ELSE serve
  /\ UNCHANGED <<plan, requests, project, coordination, startup, acp, req, bridge,
                 closing, aborted, history>>

\* A signal kills it: it has no exit code, so it still counts as running.
ChildKilled(c) ==
  /\ CountFault
  /\ child[c].state = "live"
  /\ child' = [child EXCEPT ![c].state = "killed"]
  /\ UNCHANGED <<plan, requests, project, coordination, serve, startup, acp, req,
                 bridge, closing, aborted, history>>

\* close() of the server: startGui calls it on SIGINT and SIGTERM,
\* startBridge when the shell closes the pipe, with no command under way.
Close ==
  /\ closing = "open" /\ closing' = "closing"
  /\ req[Bridge].phase = "idle"
  /\ child' = IF serve = NoChild THEN child ELSE [child EXCEPT ![serve] = Gone]
  /\ serve' = NoChild
  /\ UNCHANGED <<plan, requests, project, coordination, startup, acp, req, bridge,
                 aborted, history, faults>>

\* server.close() waits for the connections.  startGui then exits, whatever
\* is under way for clients that are gone; startBridge lets it come to its
\* end.
Closed ==
  /\ closing = "closing" /\ closing' = "closed"
  /\ \A s \in Connection : req[s].phase # "idle" => s \in aborted /\ ~ByShell
  /\ UNCHANGED <<plan, requests, project, coordination, servers, acp, req, bridge,
                 aborted, history, faults>>

\* What the next process finds: children that run stay behind, and a stop or
\* resume that was under way is lost or half done.
Orphans ==
  [c \in Child |-> IF child[c].state \in {"gone", "killed"} THEN Gone
                   ELSE [child[c] EXCEPT !.state = "orphan"]]
HalfDone ==
  {req[s].home : s \in {t \in Slot :
      req[t].kind \in {"stop", "resume"} /\ req[t].home # NoProject}}

Again ==
  /\ closing' = "open"
  /\ child' = Orphans
  /\ unsure' = unsure \cup HalfDone
  /\ \E p \in Started : Opened(p)
  /\ UNCHANGED <<plan, requests, saved, acp, asked>>

\* It is started again, for any project.
Reopen ==
  /\ closing = "closed"
  /\ Again
  /\ UNCHANGED faults

\* It is killed: the desktop shell does so whenever it drops the
\* coordinator.
Crash ==
  /\ CountFault
  /\ Up
  /\ Again

Handle(s) ==
  /\ Up
  /\ \/ SelectProject(s) \/ CreateAgent(s) \/ AgentCreated(s)
     \/ CreateAcp(s) \/ AcpCreated(s) \/ EndAcp(s)
     \/ AskLock(s) \/ LockedWrite(s) \/ LockedStop(s) \/ LockedResume(s)
     \/ ResumeClears(s)

Next ==
  \/ \E s \in Connection, k \in Kinds : Arrive(s, k)
  \/ \E s \in Connection : Abort(s)
  \/ \E k \in Kinds \cup {"hello", "bad"} : Write(k)
  \/ NextLine
  \/ \E s \in Slot : Handle(s) \/ LockTimesOut(s)
  \/ ServeReady \/ ServeFails
  \/ \E c \in Child : ChildExits(c) \/ ChildKilled(c)
  \/ Close \/ Closed \/ Reopen \/ Crash

Spec == Init /\ [][Next]_vars

\* Handlers run when what they await is there; a starting child says it
\* listens, exits or is given up; the bridge reads its input.
FairSpec ==
  /\ Spec
  /\ \A s \in Slot : WF_vars(Handle(s))
  /\ WF_vars(ServeReady \/ ServeFails)
  /\ WF_vars(NextLine) /\ WF_vars(Closed)

-----------------------------------------------------------------------------
(* Properties.                                                             *)

\* A request that has read the selected project works on the selected
\* project until it is answered: nothing written by it, no agent it creates
\* and no flag it raises lands on another one (selectProject against every
\* handler that awaits).
RequestsStayHome ==
  \A s \in Slot : req[s].phase \notin {"idle", "reading"} => req[s].home = project

\* Every OpenCode server this process answers for belongs to the selected
\* project, there is at most one, and the process knows it, so that close can
\* end it.  An exit leaves one behind only if it was still starting and every
\* client that waited for it had gone away: the check for a closing
\* coordinator comes too late for it.
ServeOwned ==
  /\ \A c \in Child : child[c].state \in {"starting", "live"} =>
       /\ c \in {serve, startup.child}
       /\ child[c].home = project
       /\ closing = "closed" =>
            /\ c = startup.child
            /\ \A s \in Slot : req[s].phase = "startup" => s \in aborted
  /\ serve # NoChild => startup.child = NoChild

\* Together: the child processes are accounted for.
ChildrenSound == TypeOK /\ ServeOwned

\* With no stop or resume under way, a project whose stops and resumes went
\* one at a time and did not fail is stopped exactly if the last one asked
\* for it: through selections of other projects, restarts and crashes.
StopRetained ==
  /\ project # NoProject /\ project \notin unsure
  /\ \A s \in Slot : req[s].kind \notin {"stop", "resume"}
  => stopped = (asked[project] = "stopped")

\* Every request is answered and every line of the shell read: no child
\* that does not come up, no refusal and no failed section leaves one behind.
\* Only a request whose client went away may be cut off by the exit.
RequestsAnswered ==
  /\ \A s \in Slot : req[s].phase # "idle"
                    ~> (req[s].phase = "idle" \/ (s \in aborted /\ ~Up))
  /\ bridge.lines # <<>> ~> (bridge.lines = <<>> \/ closing # "open")
=============================================================================
