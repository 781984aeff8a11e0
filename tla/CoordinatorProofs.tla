--------------------------- MODULE CoordinatorProofs ---------------------------
(***************************************************************************)
(* For any number of projects, connections and server processes, and any   *)
(* number of crashes: every request is written to the project it read, and *)
(* the coordinator accounts for every OpenCode server it has.  The first   *)
(* rests on counting the requests under way: a selection goes through only *)
(* when it is the only one.                                                *)
(*                                                                         *)
(* The second part is about Nodes: for any nodes, keys, codes and          *)
(* processes, and any number of failed saves and restarts.  Its invariant  *)
(* adds to the properties why they hold: whoever holds a key of a node     *)
(* whose claims were saved in one process holds the key its record pins.   *)
(***************************************************************************)
EXTENDS Coordinator, Nodes, FiniteSetTheorems, TLAPS

\* The types of the state the argument is about.
Typed ==
  /\ project \in Project \cup {NoProject}
  /\ serve \in Child \cup {NoChild}
  /\ startup \in [child : Child \cup {NoChild}, home : Project \cup {NoProject}]
  /\ child \in [Child -> [state : {"gone", "starting", "live", "killed", "orphan"},
                          home : Project \cup {NoProject}]]
  /\ req \in [Slot -> [phase : {"idle", "reading", "startup", "agent", "lock",
                                "clear"},
                       kind : Kinds \cup {"none"},
                       home : Project \cup {NoProject}]]
  /\ closing \in {"open", "closing", "closed"}
  /\ aborted \subseteq Connection

\* The types of the flags, the counters and the history.
FlagsTyped ==
  /\ plan \in Plans
  /\ stopped \in BOOLEAN
  /\ remembered \in [Project -> Flags] /\ saved \in [Project -> Flags]
  /\ acp \subseteq Project
  /\ bridge \in [lines : Seq(Kinds \cup {"hello", "bad"}), acked : BOOLEAN]
  /\ requests \in 0..MaxAsked
  /\ unsure \subseteq Project
  /\ asked \in [Project -> Flags]
  /\ faults \in 0..MaxFaults

\* A request that went past reading did so for some project.
Aimed ==
  \A s \in Slot : req[s].phase \notin {"idle", "reading"} => req[s].home # NoProject

\* A starting server is awaited by a request, and is the only one.
Awaited ==
  startup.child # NoChild =>
    /\ child[startup.child].state = "starting"
    /\ child[startup.child].home = project
    /\ serve = NoChild
    /\ \E s \in Slot : req[s].phase = "startup"

\* The server in use lives, or a signal killed it, and belongs to the
\* selected project.
InUse ==
  serve # NoChild =>
    /\ child[serve].state \in {"live", "killed"} /\ child[serve].home = project
    /\ closing = "open"

\* No server starts or lives that the coordinator does not know.
Known ==
  \A c \in Child :
    /\ child[c].state = "starting" => c = startup.child
    /\ child[c].state \in {"live", "killed"} => c = serve

\* From the moment it closes the bridge works on nothing; when it is
\* through, at most what was asked by clients that went away is left.
Quiet ==
  /\ closing # "open" => req[Bridge].phase = "idle"
  /\ closing = "closed" => \A s \in Slot : req[s].phase # "idle" => s \in aborted

IInv ==
  /\ Typed /\ FlagsTyped /\ Aimed /\ RequestsStayHome
  /\ Awaited /\ InUse /\ Known /\ Quiet

-----------------------------------------------------------------------------

\* Mutations counts the requests under way: if it is at most one, a request
\* under way is the only one (selectProject).
LEMMA OnlyRequest ==
  ASSUME NEW s \in Slot, req[s].phase # "idle", Mutations <= 1
  PROVE  \A t \in Slot : t # s => req[t].phase = "idle"
<1> SUFFICES ASSUME NEW t \in Slot, t # s, req[t].phase # "idle" PROVE FALSE
  OBVIOUS
<1> DEFINE Busy == {u \in Slot : req[u].phase # "idle"}
<1>1. IsFiniteSet(Slot)
  <2>1. IsFiniteSet(Connection)  BY CoordinatorAssumption
  <2>2. IsFiniteSet(Connection \cup {Bridge})  BY <2>1, FS_AddElement
  <2> QED  BY <2>2 DEF Slot
<1>2. Busy \subseteq Slot  OBVIOUS
<1>3. IsFiniteSet(Busy)  BY <1>1, <1>2, FS_Subset
<1>4. IsFiniteSet({s}) /\ Cardinality({s}) = 1  BY FS_Singleton
<1>5. IsFiniteSet({s} \cup {t}) /\ Cardinality({s} \cup {t}) = 2
  <2>1. t \notin {s}  OBVIOUS
  <2>2. IsFiniteSet({s} \cup {t})  BY <1>4, FS_AddElement
  <2>3. Cardinality({s} \cup {t}) = Cardinality({s}) + 1
    BY <1>4, <2>1, FS_AddElement, Zenon
  <2> QED  BY <1>4, <2>2, <2>3
<1>6. {s} \cup {t} \subseteq Busy  OBVIOUS
<1>7. Cardinality({s} \cup {t}) <= Cardinality(Busy)  BY <1>3, <1>6, FS_Subset
<1>8. Cardinality(Busy) \in Nat  BY <1>3, FS_CardinalityType
<1>9. Cardinality(Busy) <= 1  BY DEF Mutations
<1> QED  BY <1>5, <1>7, <1>8, <1>9

LEMMA InitHolds == Init => IInv
<1> SUFFICES ASSUME Init PROVE IInv
  OBVIOUS
<1> USE CoordinatorAssumption
<1>1. Typed
  BY DEF Init, Typed, Idle, NoStartup, Gone
<1>2. RequestsStayHome /\ Aimed /\ Quiet
  BY DEF Init, RequestsStayHome, Aimed, Quiet, Idle, Slot
<1>3. FlagsTyped
  <2>1. bridge \in [lines : Seq(Kinds \cup {"hello", "bad"}), acked : BOOLEAN]
    <3>1. << >> \in Seq(Kinds \cup {"hello", "bad"})
      OBVIOUS
    <3> QED  BY <3>1 DEF Init
  <2>2. plan \in Plans /\ stopped \in BOOLEAN /\ acp \subseteq Project /\ unsure \subseteq Project
    BY DEF Init
  <2>3. /\ remembered \in [Project -> Flags] /\ saved \in [Project -> Flags]
        /\ asked \in [Project -> Flags]
    BY DEF Init, Flags
  <2>4. requests \in 0..MaxAsked /\ faults \in 0..MaxFaults
    BY DEF Init
  <2> QED  BY <2>1, <2>2, <2>3, <2>4 DEF FlagsTyped
<1>4. Awaited /\ InUse /\ Known
  BY DEF Init, Awaited, InUse, Known, NoStartup, Gone
<1> QED  BY <1>1, <1>2, <1>4, <1>3 DEF IInv

\* A step of a request that is not waiting for a server and leaves the
\* servers, the selection and the end of the process alone.
LEMMA RequestStep ==
  ASSUME IInv, NEW s \in Slot,
         req[s].phase \notin {"startup"},
         NEW r \in [phase : {"idle", "reading", "startup", "agent", "lock", "clear"},
                    kind : Kinds \cup {"none"}, home : Project \cup {NoProject}],
         r.phase \notin {"idle", "reading"} => r.home = project /\ project # NoProject,
         r.phase = "idle" \/ req[s].phase # "idle" \/ closing = "open",
         req' = [req EXCEPT ![s] = r],
         UNCHANGED <<project, servers, closing, aborted>>, FlagsTyped'
  PROVE  IInv'
<1> USE DEF servers
<1>1. Typed'
  BY DEF IInv, Typed
<1>2. RequestsStayHome' /\ Aimed'
  BY DEF IInv, Typed, RequestsStayHome, Aimed
<1>3. Awaited'
  BY DEF IInv, Typed, Awaited
<1>4. InUse' /\ Known'
  BY DEF IInv, InUse, Known
<1>5. Quiet'
  BY DEF IInv, Typed, Quiet
<1> QED  BY <1>1, <1>2, <1>3, <1>4, <1>5 DEF IInv

\* Every step that leaves requests, servers, selection and closing alone.
LEMMA Stutters ==
  ASSUME IInv, UNCHANGED <<project, servers, req, closing, aborted>>, FlagsTyped'
  PROVE  IInv'
BY DEF servers, IInv, Typed, Aimed, RequestsStayHome, Awaited, InUse, Known, Quiet

\* A request is answered.
LEMMA AnswerKeeps ==
  ASSUME IInv, NEW s \in Slot, req[s].phase \notin {"startup", "idle"},
         Answer(s), UNCHANGED <<project, servers, closing, aborted>>, FlagsTyped'
  PROVE  IInv'
<1>1. Idle \in [phase : {"idle", "reading", "startup", "agent", "lock", "clear"},
                kind : Kinds \cup {"none"}, home : Project \cup {NoProject}]
  BY DEF Idle
<1>2. Idle.phase = "idle"  BY DEF Idle
<1>3. req' = [req EXCEPT ![s] = Idle]  BY DEF Answer
<1> QED  BY <1>1, <1>2, <1>3, RequestStep

\* A request goes on for the project that is selected when it is read.
LEMMA EnterKeeps ==
  ASSUME IInv, NEW s \in Slot, req[s].phase = "reading",
         project # NoProject, NEW phase \in {"startup", "agent", "lock"}, Enter(s, phase),
         UNCHANGED <<project, servers, closing, aborted>>, FlagsTyped'
  PROVE  IInv'
<1> DEFINE r == [req[s] EXCEPT !.phase = phase, !.home = project]
<1>1. /\ r \in [phase : {"idle", "reading", "startup", "agent", "lock", "clear"},
                kind : Kinds \cup {"none"}, home : Project \cup {NoProject}]
      /\ r.home = project /\ r.phase = phase
  BY DEF IInv, Typed
<1>2. req' = [req EXCEPT ![s] = r]
  BY DEF Enter, IInv, Typed
<1> HIDE DEF r
<1> QED  BY <1>1, <1>2, RequestStep

LEMMA ArriveKeeps ==
  ASSUME IInv, NEW s \in Connection, NEW k \in Kinds, Arrive(s, k)
  PROVE  IInv'
<1> DEFINE r == [Idle EXCEPT !.phase = "reading", !.kind = k]
<1>1. /\ r \in [phase : {"idle", "reading", "startup", "agent", "lock", "clear"},
                kind : Kinds \cup {"none"}, home : Project \cup {NoProject}]
      /\ r.phase = "reading"
  BY DEF Idle
<1>2. /\ req' = [req EXCEPT ![s] = r] /\ req[s].phase = "idle"
      /\ UNCHANGED <<project, servers, closing, aborted>> /\ closing = "open"
  BY DEF Arrive
<1>3. s \in Slot  BY DEF Slot
<1>4. FlagsTyped'
  BY CoordinatorAssumption DEF IInv, FlagsTyped, Arrive, CountRequest, coordination,
     history
<1> HIDE DEF r
<1> QED  BY <1>1, <1>2, <1>3, <1>4, RequestStep

\* The client of a request under way goes away.
LEMMA AbortKeeps ==
  ASSUME IInv, NEW s \in Connection, Abort(s)
  PROVE  IInv'
<1>0. /\ UNCHANGED <<project, servers, req, closing>>
      /\ aborted' = aborted \cup {s} /\ closing # "closed"
  BY DEF Abort, Up
<1>1. Typed'
  BY <1>0 DEF IInv, Typed, servers
<1>2. FlagsTyped'
  BY CoordinatorAssumption DEF IInv, FlagsTyped, Abort, CountFault, coordination, history
<1>3. RequestsStayHome' /\ Aimed' /\ Awaited' /\ InUse' /\ Known'
  BY <1>0 DEF IInv, RequestsStayHome, Aimed, Awaited, InUse, Known, servers
<1>4. Quiet'
  BY <1>0 DEF IInv, Quiet
<1> QED  BY <1>1, <1>2, <1>3, <1>4 DEF IInv

LEMMA WriteKeeps ==
  ASSUME IInv, NEW k \in Kinds \cup {"hello", "bad"}, Write(k)
  PROVE  IInv'
<1>1. UNCHANGED <<project, servers, req, closing, aborted>>
  BY DEF Write
<1>2. bridge' \in [lines : Seq(Kinds \cup {"hello", "bad"}), acked : BOOLEAN]
  <2>1. Append(bridge.lines, k) \in Seq(Kinds \cup {"hello", "bad"})
    BY DEF IInv, FlagsTyped
  <2> QED  BY <2>1 DEF IInv, FlagsTyped, Write
<1>3. FlagsTyped'
  BY <1>2, CoordinatorAssumption DEF IInv, FlagsTyped, Write, CountRequest,
     coordination, history
<1> QED  BY <1>1, <1>3, Stutters

LEMMA NextLineKeeps ==
  ASSUME IInv, NextLine
  PROVE  IInv'
<1> DEFINE k == Head(bridge.lines)
           r == [Idle EXCEPT !.phase = "reading", !.kind = k]
<1>0. UNCHANGED <<project, servers, closing, aborted>> /\ closing = "open"
  BY DEF NextLine
<1>1. k \in Kinds \cup {"hello", "bad"}
  BY DEF NextLine, IInv, FlagsTyped
<1>2. bridge' \in [lines : Seq(Kinds \cup {"hello", "bad"}), acked : BOOLEAN]
  <2>1. Tail(bridge.lines) \in Seq(Kinds \cup {"hello", "bad"})
    BY DEF NextLine, IInv, FlagsTyped
  <2>2. (bridge.acked \/ k = "hello") \in BOOLEAN
    OBVIOUS
  <2>3. bridge' = [bridge EXCEPT !.lines = Tail(@), !.acked = @ \/ k = "hello"]
    BY DEF NextLine
  <2> HIDE DEF k
  <2> QED  BY <2>1, <2>2, <2>3 DEF IInv, FlagsTyped
<1>3. FlagsTyped'
  BY <1>2 DEF IInv, FlagsTyped, NextLine, coordination, history
<1>4. CASE UNCHANGED req
  BY <1>0, <1>4, <1>3, Stutters
<1>5. CASE req' = [req EXCEPT ![Bridge] = r] /\ k \in Kinds
  <2>1. /\ r \in [phase : {"idle", "reading", "startup", "agent", "lock", "clear"},
                  kind : Kinds \cup {"none"}, home : Project \cup {NoProject}]
        /\ r.phase = "reading"
    BY <1>5 DEF Idle
  <2>2. Bridge \in Slot /\ req[Bridge].phase = "idle"
    BY DEF Slot, NextLine
  <2> HIDE DEF r
  <2> QED  BY <1>0, <1>5, <1>3, <2>1, <2>2, RequestStep
<1>6. UNCHANGED req \/ (req' = [req EXCEPT ![Bridge] = r] /\ k \notin {"hello", "bad"})
  BY DEF NextLine
<1> QED  BY <1>4, <1>5, <1>1, <1>6

\* A selection goes through alone: no request has read the old project, no
\* server starts for it and none is in use (selectProject).
LEMMA SelectKeeps ==
  ASSUME IInv, NEW s \in Slot, SelectProject(s)
  PROVE  IInv'
<1> DEFINE p == req[s].kind
<1>1. CASE Refuse(s)
  <2>1. FlagsTyped'
    BY <1>1 DEF IInv, FlagsTyped, Refuse, coordination, history
  <2> QED  BY <1>1, <2>1, AnswerKeeps DEF Refuse, SelectProject
<1>2. CASE /\ Selectable(p) /\ p # project /\ Answer(s) /\ project' = p
           /\ UNCHANGED <<servers, closing, aborted>>
           /\ stopped' = FlagOf(p)
           /\ remembered' = IF project = NoProject THEN remembered
                            ELSE [remembered EXCEPT ![project] = Flag(stopped)]
           /\ UNCHANGED <<plan, requests, saved, acp, bridge, history, faults>>
  <2>0. req[s].phase = "reading" /\ p \in Project
    BY DEF SelectProject
  <2>1. \A t \in Slot : t # s => req[t].phase = "idle"
    BY <1>2, <2>0, OnlyRequest DEF Selectable
  <2>2. startup.child = NoChild
    BY <2>0, <2>1 DEF IInv, Awaited
  <2>3. serve = NoChild
    BY <1>2 DEF Selectable, Usable, IInv, InUse
  <2>4. \A t \in Slot : req'[t].phase = "idle"
    BY <1>2, <2>1 DEF Answer, Idle, IInv, Typed
  <2>5. Typed'
    BY <1>2, <2>0 DEF IInv, Typed, Answer, Idle, servers
  <2>6. FlagsTyped'
    <3>1. remembered' \in [Project -> Flags]
      BY <1>2 DEF IInv, Typed, FlagsTyped, Flag, Flags
    <3>2. stopped' \in BOOLEAN
      BY <1>2 DEF FlagOf
    <3> QED  BY <1>2, <3>1, <3>2 DEF IInv, FlagsTyped, history
  <2>7. RequestsStayHome' /\ Aimed' /\ Quiet'
    BY <2>4 DEF RequestsStayHome, Aimed, Quiet, Slot
  <2>8. Awaited' /\ InUse' /\ Known'
    BY <1>2, <2>2, <2>3 DEF IInv, Awaited, InUse, Known, servers
  <2> QED  BY <2>5, <2>6, <2>7, <2>8 DEF IInv
<1> QED  BY <1>1, <1>2 DEF SelectProject

\* A request that has to wait for a server joins the one that starts, or
\* starts one if there is none at all (ensureServeRunning).
LEMMA CreateAgentKeeps ==
  ASSUME IInv, NEW s \in Slot, CreateAgent(s)
  PROVE  IInv'
<1>0. req[s].phase = "reading" /\ req[s].kind = "create"
  BY DEF CreateAgent
<1>t. FlagsTyped'
  BY DEF IInv, FlagsTyped, CreateAgent, Refuse, coordination, history
<1>1. CASE Refuse(s)
  BY <1>0, <1>1, <1>t, AnswerKeeps DEF Refuse
<1>2. CASE project # NoProject /\ Enter(s, "startup") /\ UNCHANGED <<project, servers, closing, aborted>>
  BY <1>0, <1>2, <1>t, EnterKeeps
<1>3. CASE project # NoProject /\ Enter(s, "agent") /\ UNCHANGED <<project, servers, closing, aborted>>
  BY <1>0, <1>3, <1>t, EnterKeeps
<1>4. CASE /\ project # NoProject /\ ~Joins /\ ~Usable /\ SomeChild /\ StartServe(s)
           /\ Enter(s, "startup") /\ UNCHANGED <<project, serve, closing, aborted>>
  <2>1. PICK c \in Child : /\ child[c].state = "gone"
                           /\ startup' = [child |-> c, home |-> project]
                           /\ child' = [child EXCEPT ![c] =
                                         [state |-> "starting", home |-> project]]
    BY <1>4 DEF StartServe, SomeChild
  <2>2. serve = NoChild /\ startup.child = NoChild
    BY <1>4 DEF Usable, Joins, IInv, InUse
  <2>3. \A d \in Child : d # NoChild
    BY CoordinatorAssumption
  <2>4. /\ req'[s].phase = "startup" /\ req'[s].home = project
        /\ \A t \in Slot : t # s => req'[t] = req[t]
        /\ req' \in [Slot -> [phase : {"idle", "reading", "startup", "agent", "lock",
                                "clear"},
                       kind : Kinds \cup {"none"},
                       home : Project \cup {NoProject}]]
    <3> DEFINE Request == [phase : {"idle", "reading", "startup", "agent", "lock",
                                    "clear"},
                           kind : Kinds \cup {"none"},
                           home : Project \cup {NoProject}]
               r == [req[s] EXCEPT !.phase = "startup", !.home = project]
    <3>1. req \in [Slot -> Request] /\ req[s] \in Request
          /\ project \in Project \cup {NoProject}
      BY DEF IInv, Typed
    <3>2. r \in Request /\ r.phase = "startup" /\ r.home = project
      BY <3>1
    <3>3. req' = [req EXCEPT ![s] = r]
      BY <1>4, <3>1 DEF Enter
    <3> HIDE DEF Request, r
    <3>4. req' \in [Slot -> Request] /\ req'[s] = r
          /\ \A t \in Slot : t # s => req'[t] = req[t]
      BY <3>1, <3>2, <3>3
    <3> QED  BY <3>2, <3>4 DEF Request
  <2>5. Typed'
    <3>1. startup' \in [child : Child \cup {NoChild}, home : Project \cup {NoProject}]
      BY <2>1 DEF IInv, Typed
    <3>2. child' \in [Child -> [state : {"gone", "starting", "live", "killed", "orphan"},
                                home : Project \cup {NoProject}]]
      BY <2>1 DEF IInv, Typed
    <3> QED  BY <1>4, <2>4, <3>1, <3>2 DEF IInv, Typed
  <2>6. RequestsStayHome' /\ Aimed'
    BY <1>4, <2>4 DEF IInv, RequestsStayHome, Aimed
  <2>7. Quiet'
    BY <1>0, <1>4, <2>4 DEF IInv, Quiet, Slot
  <2>8. Awaited'
    BY <1>4, <2>1, <2>2, <2>4 DEF Awaited, IInv, Typed
  <2>9. InUse'
    BY <1>4, <2>2 DEF InUse
  <2>10. Known'
    <3>1. serve' = serve /\ startup'.child = c
      BY <1>4, <2>1
    <3>2. /\ child'[c].state = "starting"
          /\ \A d \in Child : d # c => child'[d] = child[d]
      BY <2>1 DEF IInv, Typed
    <3>3. \A d \in Child : child[d].state \notin {"starting", "live", "killed"}
      BY <2>2, <2>3 DEF IInv, Known
    <3> QED  BY <3>1, <3>2, <3>3 DEF Known
  <2> QED  BY <1>t, <2>5, <2>6, <2>7, <2>8, <2>9, <2>10 DEF IInv
<1> QED  BY <1>1, <1>2, <1>3, <1>4 DEF CreateAgent, servers

\* The other requests that keep the flags in their types.
LEMMA HandlersKeep ==
  ASSUME IInv, NEW s \in Slot,
         \/ AgentCreated(s) \/ CreateAcp(s) \/ AcpCreated(s) \/ EndAcp(s)
         \/ AskLock(s) \/ LockedWrite(s) \/ LockedStop(s) \/ LockedResume(s)
         \/ ResumeClears(s) \/ LockTimesOut(s)
  PROVE  IInv'
<1> USE CoordinatorAssumption
<1>1. CASE AgentCreated(s)
  <2>1. FlagsTyped'
    BY <1>1 DEF IInv, FlagsTyped, AgentCreated, Refuse, coordination, history
  <2> QED  BY <1>1, <2>1, AnswerKeeps DEF AgentCreated, Refuse
<1>2. CASE CreateAcp(s)
  <2>1. acp' \subseteq Project
    BY <1>2 DEF IInv, Typed, FlagsTyped, CreateAcp, Refuse
  <2>2. FlagsTyped'
    BY <1>2, <2>1 DEF IInv, FlagsTyped, CreateAcp, Refuse, coordination, history
  <2>3. CASE Refuse(s)
    BY <1>2, <2>2, <2>3, AnswerKeeps DEF CreateAcp, Refuse
  <2>4. CASE project # NoProject /\ Enter(s, "agent")
             /\ UNCHANGED <<project, servers, closing, aborted>>
    BY <1>2, <2>2, <2>4, EnterKeeps DEF CreateAcp
  <2> QED  BY <1>2, <2>3, <2>4 DEF CreateAcp
<1>3. CASE AcpCreated(s)
  <2>1. acp' \subseteq Project
    BY <1>3 DEF IInv, FlagsTyped, AcpCreated
  <2>2. FlagsTyped'
    BY <1>3, <2>1 DEF IInv, FlagsTyped, AcpCreated, coordination, history
  <2> QED  BY <1>3, <2>2, AnswerKeeps DEF AcpCreated
<1>4. CASE EndAcp(s)
  <2>1. FlagsTyped'
    BY <1>4 DEF IInv, FlagsTyped, EndAcp, coordination, history
  <2> QED  BY <1>4, <2>1, AnswerKeeps DEF EndAcp
<1>5. CASE AskLock(s)
  <2>1. stopped' \in BOOLEAN
    BY <1>5 DEF IInv, FlagsTyped, AskLock, Refuse, coordination
  <2>2. unsure' \in {unsure, unsure \cup {project}} /\ (project = NoProject => unsure' = unsure)
    BY <1>5 DEF AskLock, Refuse, Marked, history
  <2>3. unsure' \subseteq Project
    BY <2>2 DEF IInv, Typed, FlagsTyped
  <2>4. stopped' \in BOOLEAN /\ unsure' \subseteq Project
    BY <2>1, <2>3
  <2>5. FlagsTyped'
    BY <1>5, <2>4 DEF IInv, FlagsTyped, AskLock, Refuse, coordination, history
  <2>6. CASE Refuse(s)
    BY <1>5, <2>5, <2>6, AnswerKeeps DEF AskLock, Refuse
  <2>7. CASE project # NoProject /\ Enter(s, "lock")
             /\ UNCHANGED <<project, servers, closing, aborted>>
    BY <1>5, <2>5, <2>7, EnterKeeps DEF AskLock
  <2> QED  BY <1>5, <2>6, <2>7 DEF AskLock
<1>6. CASE LockedWrite(s)
  <2>1. FlagsTyped'
    BY <1>6 DEF IInv, FlagsTyped, LockedWrite, Refuse, coordination, history
  <2> QED  BY <1>6, <2>1, AnswerKeeps DEF LockedWrite, Refuse
<1>7. CASE LockedStop(s)
  <2>1. saved' \in [Project -> Flags] /\ asked' \in [Project -> Flags]
    BY <1>7 DEF IInv, FlagsTyped, LockedStop, Flags
  <2>2. FlagsTyped'
    BY <1>7, <2>1 DEF IInv, FlagsTyped, LockedStop
  <2> QED  BY <1>7, <2>2, AnswerKeeps DEF LockedStop
<1>8. CASE LockedResume(s)
  <2>1. saved' \in [Project -> Flags]
    BY <1>8 DEF IInv, FlagsTyped, LockedResume, Flags
  <2>2. FlagsTyped'
    BY <1>8, <2>1 DEF IInv, FlagsTyped, LockedResume, history
  <2> DEFINE r == [req[s] EXCEPT !.phase = "clear"]
  <2>3. /\ r \in [phase : {"idle", "reading", "startup", "agent", "lock", "clear"},
                  kind : Kinds \cup {"none"}, home : Project \cup {NoProject}]
        /\ r.home = project /\ project # NoProject
    BY <1>8 DEF IInv, Typed, RequestsStayHome, Aimed, LockedResume
  <2>4. req' = [req EXCEPT ![s] = r]
    BY <1>8 DEF IInv, Typed, LockedResume, Goto
  <2>5. req[s].phase = "lock" /\ UNCHANGED <<project, servers, closing, aborted>>
    BY <1>8 DEF LockedResume
  <2> HIDE DEF r
  <2> QED  BY <2>2, <2>3, <2>4, <2>5, RequestStep
<1>9. CASE ResumeClears(s)
  <2>1. asked' \in [Project -> Flags] /\ stopped' \in BOOLEAN
    BY <1>9 DEF IInv, FlagsTyped, ResumeClears, Flags
  <2>2. FlagsTyped'
    BY <1>9, <2>1 DEF IInv, FlagsTyped, ResumeClears
  <2> QED  BY <1>9, <2>2, AnswerKeeps DEF ResumeClears
<1>10. CASE LockTimesOut(s)
  <2>1. unsure' \subseteq Project
    BY <1>10 DEF IInv, Typed, FlagsTyped, Aimed, LockTimesOut
  <2>2. FlagsTyped'
    BY <1>10, <2>1 DEF IInv, FlagsTyped, LockTimesOut, CountFault, coordination
  <2> QED  BY <1>10, <2>2, AnswerKeeps DEF LockTimesOut
<1> QED
  BY <1>1, <1>2, <1>3, <1>4, <1>5, <1>6, <1>7, <1>8, <1>9, <1>10

\* The requests that waited for a server go on, for the same project, or are
\* answered.
LEMMA ReleasedFacts ==
  ASSUME IInv, NEW phase \in {"idle", "agent"}, req' = Released(phase),
         UNCHANGED <<project, closing, aborted>>
  PROVE  /\ req' \in [Slot -> [phase : {"idle", "reading", "startup", "agent", "lock",
                                       "clear"},
                              kind : Kinds \cup {"none"},
                              home : Project \cup {NoProject}]]
         /\ RequestsStayHome' /\ Aimed' /\ Quiet'
<1>1. \A s \in Slot : \/ req'[s] = req[s]
                      \/ req'[s] = Idle
                      \/ req[s].phase = "startup" /\ req'[s] = [req[s] EXCEPT !.phase = "agent"]
  BY DEF Released, Waiters
<1>2. \A s \in Slot : req'[s] \in [phase : {"idle", "reading", "startup", "agent",
                                           "lock", "clear"},
                                   kind : Kinds \cup {"none"},
                                   home : Project \cup {NoProject}]
  <2> SUFFICES ASSUME NEW s \in Slot
               PROVE  req'[s] \in [phase : {"idle", "reading", "startup", "agent",
                                           "lock", "clear"},
                                   kind : Kinds \cup {"none"},
                                   home : Project \cup {NoProject}]
    OBVIOUS
  <2>1. req[s] \in [phase : {"idle", "reading", "startup", "agent", "lock", "clear"},
                    kind : Kinds \cup {"none"}, home : Project \cup {NoProject}]
    BY DEF IInv, Typed
  <2>2. CASE req'[s] = req[s]
    BY <2>1, <2>2
  <2>3. CASE req'[s] = Idle
    BY <2>3 DEF Idle
  <2>4. CASE req'[s] = [req[s] EXCEPT !.phase = "agent"]
    BY <2>1, <2>4
  <2> QED  BY <1>1, <2>2, <2>3, <2>4
<1>3. req' \in [Slot -> [phase : {"idle", "reading", "startup", "agent", "lock",
                                  "clear"},
                         kind : Kinds \cup {"none"}, home : Project \cup {NoProject}]]
  <2>1. req' = [s \in Slot |-> req'[s]]
    BY DEF Released
  <2> QED  BY <1>2, <2>1
<1>4. \A s \in Slot : \/ req'[s].phase = "idle"
                      \/ req'[s] = req[s]
                      \/ req[s].phase = "startup" /\ req'[s].home = req[s].home
  <2> SUFFICES ASSUME NEW s \in Slot
               PROVE  \/ req'[s].phase = "idle"
                      \/ req'[s] = req[s]
                      \/ req[s].phase = "startup" /\ req'[s].home = req[s].home
    OBVIOUS
  <2>1. req[s] \in [phase : {"idle", "reading", "startup", "agent", "lock", "clear"},
                    kind : Kinds \cup {"none"}, home : Project \cup {NoProject}]
    BY DEF IInv, Typed
  <2>2. CASE req'[s] = Idle
    BY <2>2 DEF Idle
  <2>3. CASE req[s].phase = "startup" /\ req'[s] = [req[s] EXCEPT !.phase = "agent"]
    BY <2>1, <2>3
  <2> QED  BY <1>1, <2>2, <2>3
<1>5. RequestsStayHome' /\ Aimed'
  BY <1>4 DEF IInv, RequestsStayHome, Aimed
<1>6. Quiet'
  BY <1>4 DEF IInv, Quiet, Slot
<1> QED  BY <1>3, <1>5, <1>6

LEMMA FlagsStay ==
  ASSUME IInv, UNCHANGED <<plan, requests, coordination, acp, bridge, history, faults>>
  PROVE  FlagsTyped'
BY DEF IInv, FlagsTyped, coordination, history

\* The server that starts comes up: it is used, or ended if the coordinator
\* closes.
LEMMA ServeReadyKeeps ==
  ASSUME IInv, ServeReady
  PROVE  IInv'
<1> DEFINE c == startup.child
<1>0. c \in Child /\ child[c].state = "starting" /\ child[c].home = project /\ serve = NoChild
  BY DEF ServeReady, IInv, Typed, Awaited
<1>1. /\ startup' = NoStartup /\ startup'.child = NoChild
      /\ UNCHANGED <<project, closing, aborted>>
  BY DEF ServeReady, NoStartup
<1>2. FlagsTyped'
  BY FlagsStay DEF ServeReady
<1>3. NoStartup \in [child : Child \cup {NoChild}, home : Project \cup {NoProject}]
  BY DEF NoStartup
<1>4. Awaited'
  BY <1>1 DEF Awaited
<1>5. \A d \in Child : d # NoChild /\ (d # c => child[d].state \notin {"starting", "live", "killed"})
  BY <1>0, CoordinatorAssumption DEF IInv, Known
<1>6. CASE Closing
  <2>1. child' = [child EXCEPT ![c] = Gone] /\ req' = Released("idle") /\ serve' = NoChild
    BY <1>0, <1>6 DEF ServeReady
  <2>2. /\ child'[c].state = "gone" /\ \A d \in Child : d # c => child'[d] = child[d]
    BY <1>0, <2>1 DEF IInv, Typed, Gone
  <2>3. Typed'
    BY <1>0, <1>1, <1>3, <2>1, ReleasedFacts DEF IInv, Typed, Gone
  <2>4. InUse' /\ Known'
    BY <1>5, <2>1, <2>2 DEF InUse, Known
  <2> QED  BY <1>1, <1>2, <1>4, <2>1, <2>3, <2>4, ReleasedFacts DEF IInv
<1>7. CASE ~Closing
  <2>1. child' = [child EXCEPT ![c].state = "live"] /\ req' = Released("agent") /\ serve' = c
    BY <1>7 DEF ServeReady
  <2>2. /\ child'[c].state = "live" /\ child'[c].home = project
        /\ \A d \in Child : d # c => child'[d] = child[d]
    BY <1>0, <2>1 DEF IInv, Typed
  <2>3. child' \in [Child -> [state : {"gone", "starting", "live", "killed", "orphan"},
                              home : Project \cup {NoProject}]]
    BY <1>0, <2>1 DEF IInv, Typed
  <2>4. Typed'
    BY <1>0, <1>1, <1>3, <2>1, <2>3, ReleasedFacts DEF IInv, Typed
  <2>5. InUse' /\ Known'
    BY <1>0, <1>1, <1>5, <1>7, <2>1, <2>2 DEF InUse, Known, Closing
  <2> QED  BY <1>1, <1>2, <1>4, <2>1, <2>4, <2>5, ReleasedFacts DEF IInv
<1> QED  BY <1>6, <1>7

LEMMA ServeFailsKeeps ==
  ASSUME IInv, ServeFails
  PROVE  IInv'
<1> DEFINE c == startup.child
<1>0. c \in Child /\ serve = NoChild
  BY DEF ServeFails, IInv, Typed, Awaited
<1>1. /\ startup' = NoStartup /\ startup'.child = NoChild
      /\ UNCHANGED <<project, closing, aborted, serve>>
      /\ child' = [child EXCEPT ![c] = Gone] /\ req' = Released("idle")
  BY DEF ServeFails, NoStartup
<1>2. FlagsTyped'
  BY FlagsStay DEF ServeFails
<1>3. NoStartup \in [child : Child \cup {NoChild}, home : Project \cup {NoProject}]
  BY DEF NoStartup
<1>4. /\ child'[c].state = "gone" /\ \A d \in Child : d # c => child'[d] = child[d]
  BY <1>0, <1>1 DEF IInv, Typed, Gone
<1>5. \A d \in Child : d # c => child[d].state \notin {"starting", "live", "killed"}
  BY <1>0, CoordinatorAssumption DEF IInv, Known
<1>6. Typed'
  BY <1>0, <1>1, <1>3, ReleasedFacts DEF IInv, Typed, Gone
<1>7. Awaited' /\ InUse' /\ Known'
  BY <1>0, <1>1, <1>4, <1>5 DEF Awaited, InUse, Known
<1> QED  BY <1>1, <1>2, <1>6, <1>7, ReleasedFacts DEF IInv

LEMMA ChildExitsKeeps ==
  ASSUME IInv, NEW c \in Child, ChildExits(c)
  PROVE  IInv'
<1>0. /\ child[c].state \in {"live", "orphan"} /\ child' = [child EXCEPT ![c] = Gone]
      /\ serve' = IF serve = c THEN NoChild ELSE serve
      /\ UNCHANGED <<project, startup, req, closing, aborted>>
  BY DEF ChildExits
<1>1. /\ child'[c].state = "gone" /\ \A d \in Child : d # c => child'[d] = child[d]
  BY <1>0 DEF IInv, Typed, Gone
<1>2. Typed'
  BY <1>0 DEF IInv, Typed, Gone
<1>3. FlagsTyped'
  BY CoordinatorAssumption DEF IInv, FlagsTyped, ChildExits, CountFault, coordination,
     history
<1>4. RequestsStayHome' /\ Aimed' /\ Quiet'
  BY <1>0 DEF IInv, RequestsStayHome, Aimed, Quiet
<1>5. Awaited'
  BY <1>0, <1>1 DEF IInv, Typed, Awaited
<1>6. InUse'
  BY <1>0, <1>1 DEF IInv, Typed, InUse
<1>7. Known'
  BY <1>0, <1>1 DEF IInv, Known
<1> QED  BY <1>2, <1>3, <1>4, <1>5, <1>6, <1>7 DEF IInv

\* A server in use that a signal kills still counts as in use.
LEMMA ChildKilledKeeps ==
  ASSUME IInv, NEW c \in Child, ChildKilled(c)
  PROVE  IInv'
<1>0. /\ child[c].state = "live" /\ child' = [child EXCEPT ![c].state = "killed"]
      /\ UNCHANGED <<project, serve, startup, req, closing, aborted>>
  BY DEF ChildKilled
<1>1. /\ child'[c].state = "killed" /\ child'[c].home = child[c].home
      /\ \A d \in Child : d # c => child'[d] = child[d]
  BY <1>0 DEF IInv, Typed
<1>2. Typed'
  <2>1. child' \in [Child -> [state : {"gone", "starting", "live", "killed", "orphan"},
                              home : Project \cup {NoProject}]]
    BY <1>0 DEF IInv, Typed
  <2> QED  BY <1>0, <2>1 DEF IInv, Typed
<1>3. FlagsTyped'
  BY CoordinatorAssumption DEF IInv, FlagsTyped, ChildKilled, CountFault, coordination,
     history
<1>4. RequestsStayHome' /\ Aimed' /\ Quiet'
  BY <1>0 DEF IInv, RequestsStayHome, Aimed, Quiet
<1>5. Awaited'
  BY <1>0, <1>1 DEF IInv, Typed, Awaited
<1>6. InUse'
  BY <1>0, <1>1 DEF IInv, Typed, InUse
<1>7. Known'
  BY <1>0, <1>1 DEF IInv, Known
<1> QED  BY <1>2, <1>3, <1>4, <1>5, <1>6, <1>7 DEF IInv

LEMMA CloseKeeps ==
  ASSUME IInv, Close
  PROVE  IInv'
<1>0. /\ child' = IF serve = NoChild THEN child ELSE [child EXCEPT ![serve] = Gone]
      /\ serve' = NoChild /\ closing' = "closing" /\ req[Bridge].phase = "idle"
      /\ UNCHANGED <<project, startup, req, aborted>>
  BY DEF Close
<1>1. \A d \in Child : \/ child'[d] = child[d] /\ d # serve
                       \/ child'[d] = Gone /\ d = serve
  BY <1>0, CoordinatorAssumption DEF IInv, Typed
<1>2. Typed'
  BY <1>0 DEF IInv, Typed, Gone
<1>3. FlagsTyped'
  BY FlagsStay DEF Close
<1>4. RequestsStayHome' /\ Aimed' /\ Quiet'
  BY <1>0 DEF IInv, RequestsStayHome, Aimed, Quiet
<1>5. Awaited'
  <2>1. startup.child # NoChild => serve = NoChild
    BY DEF IInv, Awaited
  <2> QED  BY <1>0, <2>1 DEF IInv, Awaited
<1>6. InUse'
  BY <1>0 DEF InUse
<1>7. Known'
  BY <1>0, <1>1 DEF IInv, Known, Gone
<1> QED  BY <1>2, <1>3, <1>4, <1>5, <1>6, <1>7 DEF IInv

LEMMA ClosedKeeps ==
  ASSUME IInv, Closed
  PROVE  IInv'
<1>1. \A s \in Slot : req[s].phase # "idle" => s \in aborted
  BY DEF Closed, IInv, Quiet, Slot
<1>2. FlagsTyped'
  BY FlagsStay DEF Closed
<1>3. /\ UNCHANGED <<project, serve, startup, child, req, aborted>>
      /\ closing = "closing" /\ closing' = "closed"
  BY DEF Closed, servers
<1> QED
  BY <1>1, <1>2, <1>3 DEF IInv, Typed, Aimed, RequestsStayHome, Awaited, InUse, Known, Quiet

\* A process that opens knows of no child: none may start or live.
LEMMA OpenedKeeps ==
  ASSUME IInv, NEW p \in Started, Opened(p), closing' = "open",
         child' \in [Child -> [state : {"gone", "starting", "live", "killed", "orphan"},
                               home : Project \cup {NoProject}]],
         \A c \in Child : child'[c].state \notin {"starting", "live", "killed"},
         UNCHANGED <<plan, requests, saved, acp, asked>>,
         unsure' \subseteq Project, faults' \in 0..MaxFaults
  PROVE  IInv'
<1> USE CoordinatorAssumption
<1>0. /\ project' = p /\ serve' = NoChild /\ startup' = NoStartup
      /\ req' = [s \in Slot |-> Idle] /\ aborted' = {}
  BY DEF Opened
<1>1. Typed'
  BY <1>0 DEF Typed, Idle, NoStartup
<1>2. FlagsTyped'
  <2>1. bridge' \in [lines : Seq(Kinds \cup {"hello", "bad"}), acked : BOOLEAN]
    <3>1. << >> \in Seq(Kinds \cup {"hello", "bad"})
      OBVIOUS
    <3> QED  BY <3>1 DEF Opened
  <2>2. remembered' \in [Project -> Flags] /\ stopped' \in BOOLEAN
    BY DEF Opened, Flags
  <2> QED  BY <2>1, <2>2 DEF IInv, FlagsTyped
<1>3. RequestsStayHome' /\ Aimed' /\ Quiet'
  BY <1>0 DEF RequestsStayHome, Aimed, Quiet, Idle, Slot
<1>4. Awaited' /\ InUse' /\ Known'
  BY <1>0 DEF Awaited, InUse, Known, NoStartup
<1> QED  BY <1>1, <1>2, <1>3, <1>4 DEF IInv

LEMMA AgainKeeps ==
  ASSUME IInv, Again, faults' \in 0..MaxFaults
  PROVE  IInv'
<1>1. PICK p \in Started : Opened(p)
  BY DEF Again
<1>2. /\ child' = Orphans /\ closing' = "open"
      /\ UNCHANGED <<plan, requests, saved, acp, asked>>
  BY DEF Again
<1>3. \A c \in Child : \/ child'[c] = Gone
                       \/ child'[c] = [child[c] EXCEPT !.state = "orphan"]
  BY <1>2 DEF Orphans
<1>4. \A c \in Child : child'[c] \in [state : {"gone", "orphan"},
                                     home : Project \cup {NoProject}]
  <2> SUFFICES ASSUME NEW c \in Child
               PROVE  child'[c] \in [state : {"gone", "orphan"},
                                    home : Project \cup {NoProject}]
    OBVIOUS
  <2>1. CASE child'[c] = Gone
    BY <2>1 DEF Gone
  <2>2. CASE child'[c] = [child[c] EXCEPT !.state = "orphan"]
    BY <2>2 DEF IInv, Typed
  <2> QED  BY <1>3, <2>1, <2>2
<1>5. child' \in [Child -> [state : {"gone", "starting", "live", "killed", "orphan"},
                            home : Project \cup {NoProject}]]
  <2>1. child' = [c \in Child |-> child'[c]]
    BY <1>2 DEF Orphans
  <2> QED  BY <1>4, <2>1
<1>6. \A c \in Child : child'[c].state \notin {"starting", "live", "killed"}
  BY <1>4
<1>7. unsure' \subseteq Project
  <2>1. unsure' = unsure \cup HalfDone
    BY DEF Again
  <2>2. \A s \in Slot : req[s].home # NoProject => req[s].home \in Project
    BY DEF IInv, Typed
  <2> QED  BY <2>1, <2>2 DEF IInv, FlagsTyped, HalfDone
<1> QED  BY <1>1, <1>2, <1>5, <1>6, <1>7, OpenedKeeps

LEMMA ReopenKeeps ==
  ASSUME IInv, Reopen
  PROVE  IInv'
<1>1. faults' \in 0..MaxFaults
  BY DEF Reopen, IInv, FlagsTyped
<1> QED  BY <1>1, AgainKeeps DEF Reopen

LEMMA CrashKeeps ==
  ASSUME IInv, Crash
  PROVE  IInv'
<1>1. faults' \in 0..MaxFaults
  BY CoordinatorAssumption DEF IInv, FlagsTyped, Crash, CountFault
<1> QED  BY <1>1, AgainKeeps DEF Crash

-----------------------------------------------------------------------------

LEMMA NextKeeps == IInv /\ [Next]_vars => IInv'
<1> SUFFICES ASSUME IInv, [Next]_vars PROVE IInv'
  OBVIOUS
<1>1. ASSUME NEW s \in Connection, NEW k \in Kinds, Arrive(s, k) PROVE IInv'
  BY <1>1, ArriveKeeps
<1>2. ASSUME NEW k \in Kinds \cup {"hello", "bad"}, Write(k) PROVE IInv'
  BY <1>2, WriteKeeps
<1>3. CASE NextLine
  BY <1>3, NextLineKeeps
<1>4. ASSUME NEW s \in Slot, Handle(s) \/ LockTimesOut(s) PROVE IInv'
  BY <1>4, SelectKeeps, CreateAgentKeeps, HandlersKeep DEF Handle
<1>5. CASE ServeReady \/ ServeFails
  BY <1>5, ServeReadyKeeps, ServeFailsKeeps
<1>6. ASSUME NEW c \in Child, ChildExits(c) \/ ChildKilled(c) PROVE IInv'
  BY <1>6, ChildExitsKeeps, ChildKilledKeeps
<1>7. CASE Close \/ Closed \/ Reopen \/ Crash
  BY <1>7, CloseKeeps, ClosedKeeps, ReopenKeeps, CrashKeeps
<1>8. CASE UNCHANGED vars
  BY <1>8, FlagsStay, Stutters DEF vars, servers, coordination, history
<1>9. ASSUME NEW s \in Connection, Abort(s) PROVE IInv'
  BY <1>9, AbortKeeps
<1> QED
  BY <1>1, <1>2, <1>3, <1>4, <1>5, <1>6, <1>7, <1>8, <1>9 DEF Next

\* Every reachable state of the coordinator satisfies the invariant.
THEOREM CoordinatorInvariant == Spec => []IInv
<1>1. Init => IInv
  BY InitHolds
<1>2. IInv /\ [Next]_vars => IInv'
  BY NextKeeps
<1> QED  BY <1>1, <1>2, PTL DEF Spec

\* A request that has read the selected project works on the selected one
\* until it is answered, for any number of connections and projects
\* (selectProject, withMutation).
THEOREM RequestsStayAtHome == Spec => []RequestsStayHome
<1>1. IInv => RequestsStayHome
  BY DEF IInv
<1> QED  BY <1>1, CoordinatorInvariant, PTL

\* The OpenCode servers are accounted for: one at most, of the selected
\* project, known to the process; once it has closed at most one that was
\* starting for clients that went away (ensureServe, close, startGui).
THEOREM ServersAccounted == Spec => []ChildrenSound
<1>1. IInv => TypeOK
  BY DEF IInv, Typed, FlagsTyped, TypeOK
<1>2. IInv => ServeOwned
  <2> SUFFICES ASSUME IInv PROVE ServeOwned
    OBVIOUS
  <2>1. serve # NoChild => startup.child = NoChild
    BY DEF IInv, Awaited
  <2>2. ASSUME NEW c \in Child, child[c].state = "starting"
        PROVE  /\ c = startup.child /\ child[c].home = project
               /\ closing = "closed" =>
                    \A s \in Slot : req[s].phase = "startup" => s \in aborted
    <3>1. c = startup.child /\ c # NoChild
      BY <2>2, CoordinatorAssumption DEF IInv, Known
    <3> QED  BY <2>2, <3>1 DEF IInv, Awaited, Quiet
  <2>3. ASSUME NEW c \in Child, child[c].state = "live"
        PROVE  c = serve /\ child[c].home = project /\ closing # "closed"
    <3>1. c = serve /\ c # NoChild
      BY <2>3, CoordinatorAssumption DEF IInv, Known
    <3> QED  BY <2>3, <3>1 DEF IInv, InUse
  <2> QED  BY <2>1, <2>2, <2>3 DEF ServeOwned
<1>3. IInv => ChildrenSound
  BY <1>1, <1>2 DEF ChildrenSound
<1> QED  BY <1>3, CoordinatorInvariant, PTL

-----------------------------------------------------------------------------
(* The emergency stop.  A project is sure if no stop or resume of it failed *)
(* or overlapped another.  For a sure project the file says what was asked  *)
(* last, but while a resume has written it and not lowered the flag yet;    *)
(* and what the process remembers of a project it left never adds a stop.   *)

Flagging(s) == req[s].kind \in {"stop", "resume"} /\ req[s].phase \in {"lock", "clear"}

OneFlags ==
  \A s, t \in Slot : s # t /\ Flagging(s) /\ Flagging(t) => project \in unsure

OnlyResumesClear ==
  \A s \in Slot : req[s].phase = "clear" => req[s].kind = "resume"

\* While one stop or resume of a sure project is under way.
UnderWay ==
  \A s \in Slot : Flagging(s) /\ project \notin unsure =>
    /\ req[s].phase = "lock" => saved[project] = asked[project]
    /\ req[s].phase = "lock" /\ req[s].kind = "stop" => stopped
    /\ req[s].phase = "lock" /\ req[s].kind = "resume" =>
         stopped = (asked[project] = "stopped")
    /\ req[s].phase = "clear" => saved[project] = "running"

\* While none is.
Settled ==
  (\A s \in Slot : ~Flagging(s)) /\ project # NoProject /\ project \notin unsure =>
    saved[project] = asked[project] /\ stopped = (asked[project] = "stopped")

\* Of the projects that are not selected.
Left ==
  \A q \in Project \ unsure : q # project =>
    /\ saved[q] = asked[q]
    /\ saved[q] = "none" => remembered[q] # "stopped"

FInv == IInv /\ OneFlags /\ OnlyResumesClear /\ UnderWay /\ Settled /\ Left

LEMMA InitFlags == Init => FInv
<1> SUFFICES ASSUME Init PROVE FInv
  OBVIOUS
<1>1. IInv
  BY InitHolds
<1>2. \A s \in Slot : ~Flagging(s) /\ req[s].phase # "clear"
  BY DEF Init, Flagging, Idle
<1>3. OneFlags /\ OnlyResumesClear /\ UnderWay
  BY <1>2 DEF OneFlags, OnlyResumesClear, UnderWay
<1>4. \A q \in Project : saved[q] = "none" /\ asked[q] = "none" /\ remembered[q] = "none"
  BY DEF Init
<1>5. Settled /\ Left
  <2>1. project \in Project \cup {NoProject} /\ stopped = FALSE
    BY <1>1 DEF IInv, Typed, Init
  <2> QED  BY <1>4, <2>1 DEF Settled, Left
<1> QED  BY <1>1, <1>3, <1>5 DEF FInv

\* A step that touches no flag and starts, changes and ends no stop or
\* resume.
LEMMA FlagsQuiet ==
  ASSUME FInv, IInv', UNCHANGED <<project, coordination, history>>,
         \A s \in Slot : \/ req'[s] = req[s]
                         \/ ~Flagging(s) /\ ~Flagging(s)' /\ req'[s].phase # "clear"
  PROVE  FInv'
<1> USE DEF FInv, coordination, history
<1>1. \A s \in Slot : Flagging(s)' => Flagging(s) /\ req'[s] = req[s]
  BY DEF Flagging
<1>2. \A s \in Slot : Flagging(s) => Flagging(s)'
  BY DEF Flagging
<1>3. OneFlags'
  BY <1>1 DEF OneFlags
<1>4. OnlyResumesClear'
  BY DEF OnlyResumesClear
<1>5. UnderWay'
  BY <1>1 DEF UnderWay
<1>6. Settled' /\ Left'
  BY <1>2 DEF Settled, Left
<1> QED  BY <1>3, <1>4, <1>5, <1>6

\* A request ends that is no stop and no resume, or has only been read.
LEMMA AnswerQuiet ==
  ASSUME FInv, IInv', NEW s \in Slot, ~Flagging(s), Answer(s),
         UNCHANGED <<project, coordination, history>>
  PROVE  FInv'
<1>1. \A t \in Slot : IF t = s THEN req'[t] = Idle ELSE req'[t] = req[t]
  BY DEF Answer, FInv, IInv, Typed
<1>2. ~Flagging(s)' /\ req'[s].phase # "clear"
  BY <1>1 DEF Flagging, Idle
<1> QED  BY <1>1, <1>2, FlagsQuiet

\* A request goes on that is no stop and no resume.
LEMMA EnterQuiet ==
  ASSUME FInv, IInv', NEW s \in Slot, req[s].phase = "reading",
         req[s].kind \notin {"stop", "resume"},
         NEW phase \in {"startup", "agent", "lock"}, Enter(s, phase),
         UNCHANGED <<project, coordination, history>>
  PROVE  FInv'
<1>1. /\ \A t \in Slot : t # s => req'[t] = req[t]
      /\ req'[s].phase = phase /\ req'[s].kind = req[s].kind
  BY DEF Enter, FInv, IInv, Typed
<1>2. ~Flagging(s) /\ ~Flagging(s)' /\ req'[s].phase # "clear"
  BY <1>1 DEF Flagging
<1> QED  BY <1>1, <1>2, FlagsQuiet

LEMMA QuietSteps ==
  ASSUME FInv, IInv',
         \/ \E s \in Connection, k \in Kinds : Arrive(s, k)
         \/ \E k \in Kinds \cup {"hello", "bad"} : Write(k)
         \/ \E s \in Connection : Abort(s)
         \/ NextLine \/ ServeReady \/ ServeFails
         \/ \E c \in Child : ChildExits(c) \/ ChildKilled(c)
         \/ Close \/ Closed \/ UNCHANGED vars
  PROVE  FInv'
<1>1. ASSUME NEW s \in Connection, NEW k \in Kinds, Arrive(s, k) PROVE FInv'
  <2>1. /\ \A t \in Slot : t # s => req'[t] = req[t]
        /\ req[s].phase = "idle" /\ req'[s].phase = "reading"
    BY <1>1 DEF Arrive, FInv, IInv, Typed, Slot, Idle
  <2>2. ~Flagging(s) /\ ~Flagging(s)' /\ req'[s].phase # "clear"
    BY <2>1 DEF Flagging
  <2>3. UNCHANGED <<project, coordination, history>>
    BY <1>1 DEF Arrive
  <2> QED  BY <2>1, <2>2, <2>3, FlagsQuiet
<1>2. ASSUME UNCHANGED <<project, coordination, history, req>> PROVE FInv'
  BY <1>2, FlagsQuiet
<1>3. CASE NextLine
  <2>1. \/ req' = req
        \/ /\ \A t \in Slot : t # Bridge => req'[t] = req[t]
           /\ req[Bridge].phase = "idle" /\ req'[Bridge].phase = "reading"
    <3>1. \/ req' = req
          \/ req' = [req EXCEPT ![Bridge] =
                       [Idle EXCEPT !.phase = "reading", !.kind = Head(bridge.lines)]]
      BY <1>3 DEF NextLine
    <3>2. [Idle EXCEPT !.phase = "reading", !.kind = Head(bridge.lines)].phase = "reading"
      BY DEF Idle
    <3>3. Bridge \in Slot /\ req[Bridge].phase = "idle" /\ DOMAIN req = Slot
      BY <1>3 DEF NextLine, FInv, IInv, Typed, Slot
    <3> QED  BY <3>1, <3>2, <3>3
  <2>2. UNCHANGED <<project, coordination, history>>
    BY <1>3 DEF NextLine
  <2>3. CASE req' = req
    BY <1>2, <2>2, <2>3
  <2>4. CASE req' # req
    <3>1. ~Flagging(Bridge) /\ ~Flagging(Bridge)' /\ req'[Bridge].phase # "clear"
      BY <2>1, <2>4 DEF Flagging
    <3> QED  BY <2>1, <2>2, <2>4, <3>1, FlagsQuiet
  <2> QED  BY <2>3, <2>4
<1>4. ASSUME NEW phase \in {"idle", "agent"}, req' = Released(phase),
             UNCHANGED <<project, coordination, history>>
      PROVE  FInv'
  <2>1. \A t \in Slot : req'[t] = req[t] \/ (req[t].phase = "startup" /\ req'[t].phase = phase)
    <3> SUFFICES ASSUME NEW t \in Slot
                 PROVE  req'[t] = req[t] \/ (req[t].phase = "startup" /\ req'[t].phase = phase)
      OBVIOUS
    <3>1. CASE req[t].phase # "startup"
      BY <1>4, <3>1 DEF Released, Waiters
    <3>2. CASE req[t].phase = "startup"
      <4>1. req'[t] = IF phase = "idle" THEN Idle ELSE [req[t] EXCEPT !.phase = phase]
        BY <1>4, <3>2 DEF Released, Waiters
      <4>2. Idle.phase = "idle"  BY DEF Idle
      <4>3. [req[t] EXCEPT !.phase = phase].phase = phase
        BY DEF FInv, IInv, Typed
      <4> QED  BY <3>2, <4>1, <4>2, <4>3
    <3> QED  BY <3>1, <3>2
  <2>2. \A t \in Slot : \/ req'[t] = req[t]
                        \/ ~Flagging(t) /\ ~Flagging(t)' /\ req'[t].phase # "clear"
    BY <2>1 DEF Flagging
  <2> QED  BY <1>4, <2>2, FlagsQuiet
<1>5. CASE ServeReady
  BY <1>4, <1>5 DEF ServeReady
<1>6. CASE ServeFails
  BY <1>4, <1>6 DEF ServeFails
<1> QED
  BY <1>1, <1>2, <1>3, <1>5, <1>6
     DEF Write, Abort, ChildExits, ChildKilled, Close, Closed, vars, coordination, history

\* A selection: nobody is stopping or resuming anything; the stop of the
\* project that is left is in its file or was never asked for.
LEMMA SelectFlags ==
  ASSUME FInv, IInv', NEW s \in Slot, SelectProject(s)
  PROVE  FInv'
<1> DEFINE p == req[s].kind
<1>0. req[s].phase = "reading" /\ p \in Project /\ ~Flagging(s)
  BY DEF SelectProject, Flagging
<1>1. CASE Refuse(s)
  BY <1>0, <1>1, AnswerQuiet DEF Refuse
<1>2. CASE /\ Selectable(p) /\ p # project /\ Answer(s) /\ project' = p
           /\ stopped' = FlagOf(p)
           /\ remembered' = IF project = NoProject THEN remembered
                            ELSE [remembered EXCEPT ![project] = Flag(stopped)]
           /\ UNCHANGED <<saved, history>>
  <2>1. \A t \in Slot : t # s => req[t].phase = "idle"
    BY <1>0, <1>2, OnlyRequest DEF Selectable, FInv
  <2>2. \A t \in Slot : ~Flagging(t)
    BY <1>0, <2>1 DEF Flagging
  <2>3. \A t \in Slot : req'[t].phase = "idle"
    BY <1>2, <2>1 DEF Answer, Idle, FInv, IInv, Typed
  <2>4. \A t \in Slot : ~Flagging(t)' /\ req'[t].phase # "clear"
    BY <2>3 DEF Flagging
  <2>5. OneFlags' /\ OnlyResumesClear' /\ UnderWay'
    BY <2>4 DEF OneFlags, OnlyResumesClear, UnderWay
  <2>6. UNCHANGED <<saved, asked, unsure>>
    BY <1>2 DEF history
  <2>7. p \notin unsure => saved[p] = asked[p] /\ stopped' = (asked[p] = "stopped")
    BY <1>0, <1>2 DEF FInv, Left, FlagOf
  <2>8. Settled'
    BY <1>2, <2>6, <2>7 DEF Settled
  <2>9. ASSUME NEW q \in Project \ unsure, q # p
        PROVE  saved[q] = asked[q] /\ (saved[q] = "none" => remembered'[q] # "stopped")
    <3>1. CASE q # project
      BY <1>2, <2>9, <3>1 DEF FInv, Left, IInv, FlagsTyped
    <3>2. CASE q = project
      <4>1. saved[q] = asked[q] /\ stopped = (asked[q] = "stopped")
        BY <2>2, <2>9, <3>2, CoordinatorAssumption DEF FInv, Settled
      <4>2. remembered'[q] = Flag(stopped)
        BY <1>2, <2>9, <3>2, CoordinatorAssumption DEF FInv, IInv, FlagsTyped
      <4> QED  BY <4>1, <4>2 DEF Flag
    <3> QED  BY <3>1, <3>2
  <2>10. Left'
    BY <1>2, <2>6, <2>9 DEF Left
  <2> QED  BY <2>5, <2>8, <2>10 DEF FInv
<1> QED  BY <1>1, <1>2 DEF SelectProject

\* The flag is raised before the lock: unless another stop or resume is
\* under way, what is left to do is to write the file.
LEMMA AskLockFlags ==
  ASSUME FInv, IInv', NEW s \in Slot, AskLock(s)
  PROVE  FInv'
<1>0. req[s].phase = "reading" /\ ~Flagging(s)
  BY DEF AskLock, Flagging
<1>1. CASE Refuse(s)
  BY <1>0, <1>1, AnswerQuiet DEF Refuse
<1>2. CASE req[s].kind = "write" /\ project # NoProject
  <2>1. stopped' = stopped /\ unsure' = unsure /\ Enter(s, "lock")
        /\ UNCHANGED <<project, remembered, saved, asked>>
    BY <1>2 DEF AskLock, FInv, IInv, FlagsTyped
  <2> QED  BY <1>0, <1>2, <2>1, EnterQuiet DEF coordination, history
<1>3. CASE req[s].kind \in {"stop", "resume"} /\ project # NoProject
  <2>1. /\ stopped' = (stopped \/ req[s].kind = "stop") /\ unsure' = Marked(s)
        /\ Enter(s, "lock") /\ UNCHANGED <<project, remembered, saved, asked>>
    BY <1>3 DEF AskLock
  <2>2. /\ \A t \in Slot : t # s => req'[t] = req[t]
        /\ req'[s].phase = "lock" /\ req'[s].kind = req[s].kind
    BY <2>1 DEF Enter, FInv, IInv, Typed
  <2>3. \A t \in Slot : t # s /\ Flagging(t) => project \in unsure'
    BY <2>1 DEF Flagging, Marked, Overlapping
  <2>4. unsure \subseteq unsure' /\ unsure' \subseteq unsure \cup {project}
    BY <2>1 DEF Marked
  <2>5. \A t \in Slot : t # s /\ Flagging(t)' => Flagging(t)
    BY <2>2 DEF Flagging
  <2>6. OneFlags'
    BY <2>1, <2>3, <2>5 DEF OneFlags
  <2>7. OnlyResumesClear'
    BY <2>2 DEF FInv, OnlyResumesClear
  <2>8. ASSUME project \notin unsure'
        PROVE  /\ saved[project] = asked[project] /\ stopped = (asked[project] = "stopped")
               /\ \A t \in Slot : t # s => ~Flagging(t)'
    <3>1. \A t \in Slot : ~Flagging(t)
      BY <1>0, <2>3, <2>8
    <3> QED  BY <1>3, <2>4, <2>5, <2>8, <3>1 DEF FInv, Settled
  <2>9. UnderWay'
    <3> SUFFICES ASSUME NEW t \in Slot, Flagging(t)', project \notin unsure'
                 PROVE  /\ t = s /\ saved[project] = asked[project]
                        /\ req'[t].phase = "lock"
                        /\ req[s].kind = "stop" => stopped'
                        /\ req[s].kind = "resume" => stopped' = (asked[project] = "stopped")
      BY <2>1, <2>2 DEF UnderWay
    <3>1. t = s
      BY <2>8
    <3>2. stopped \in BOOLEAN
      BY DEF FInv, IInv, FlagsTyped
    <3> QED  BY <1>3, <2>1, <2>2, <2>8, <3>1, <3>2
  <2>10. Settled'
    <3>1. Flagging(s)'
      BY <1>3, <2>2 DEF Flagging
    <3> QED  BY <3>1 DEF Settled
  <2>11. Left'
    BY <2>1, <2>4 DEF FInv, Left
  <2> QED  BY <2>6, <2>7, <2>9, <2>10, <2>11 DEF FInv
<1>4. project = NoProject => Refuse(s)
  BY DEF AskLock
<1> QED  BY <1>1, <1>2, <1>3, <1>4 DEF AskLock

\* The steps of a stop or resume that is under way.
LEMMA LockedFlags ==
  ASSUME FInv, IInv', NEW s \in Slot,
         LockedStop(s) \/ LockedResume(s) \/ ResumeClears(s)
  PROVE  FInv'
<1> DEFINE h == project
<1>0. /\ Flagging(s) /\ req[s].home = project /\ project \in Project
      /\ UNCHANGED <<project, remembered, unsure>>
  BY DEF Flagging, LockedStop, LockedResume, ResumeClears, FInv, IInv, Typed, Aimed,
     RequestsStayHome, OnlyResumesClear, history
<1>1. \A t \in Slot : t # s => req'[t] = req[t]
  BY DEF LockedStop, LockedResume, ResumeClears, Answer, Goto, FInv, IInv, Typed
<1>2. \A t \in Slot : t # s /\ project \notin unsure => ~Flagging(t) /\ ~Flagging(t)'
  BY <1>0, <1>1 DEF FInv, OneFlags, Flagging
<1>3. \A t \in Slot : Flagging(t)' => Flagging(t)
  <2>1. req'[s] = Idle \/ Flagging(s)
    BY <1>0
  <2> QED  BY <1>0, <1>1 DEF Flagging
<1>4. OneFlags'
  BY <1>0, <1>3 DEF FInv, OneFlags
<1>5. /\ \A q \in Project : q # project => saved'[q] = saved[q] /\ asked'[q] = asked[q]
  BY <1>0 DEF LockedStop, LockedResume, ResumeClears, FInv, IInv, FlagsTyped, history
<1>6. Left'
  BY <1>0, <1>5 DEF FInv, Left
<1>7. CASE LockedStop(s)
  <2>1. /\ saved'[h] = "stopped" /\ asked'[h] = "stopped" /\ stopped' = stopped
        /\ req'[s] = Idle
    BY <1>0, <1>7 DEF LockedStop, Answer, FInv, IInv, Typed, FlagsTyped
  <2>2. project \notin unsure => stopped
    BY <1>0, <1>7 DEF LockedStop, FInv, UnderWay
  <2>3. ~Flagging(s)' /\ req'[s].phase # "clear"
    BY <2>1 DEF Flagging, Idle
  <2>4. OnlyResumesClear'
    BY <1>1, <2>3 DEF FInv, OnlyResumesClear
  <2>5. stopped \in BOOLEAN
    BY DEF FInv, IInv, FlagsTyped
  <2>6. UnderWay'
    BY <1>0, <1>2, <2>3 DEF UnderWay
  <2>7. Settled'
    BY <1>0, <2>1, <2>2, <2>5 DEF Settled
  <2> QED  BY <1>4, <1>6, <2>4, <2>6, <2>7 DEF FInv
<1>8. CASE LockedResume(s)
  <2>1. /\ saved'[h] = "running"
        /\ req'[s].phase = "clear" /\ req'[s].kind = req[s].kind /\ req[s].kind = "resume"
    BY <1>0, <1>8 DEF LockedResume, Goto, FInv, IInv, Typed, FlagsTyped
  <2>2. Flagging(s)'
    BY <2>1 DEF Flagging
  <2>3. OnlyResumesClear'
    BY <1>1, <2>1 DEF FInv, OnlyResumesClear
  <2>4. UnderWay'
    BY <1>0, <1>2, <2>1 DEF UnderWay
  <2>5. Settled'
    BY <2>2 DEF Settled
  <2> QED  BY <1>4, <1>6, <2>3, <2>4, <2>5 DEF FInv
<1>9. CASE ResumeClears(s)
  <2>1. /\ asked'[h] = "running" /\ stopped' = FALSE /\ saved' = saved /\ req'[s] = Idle
    BY <1>0, <1>9 DEF ResumeClears, Answer, FInv, IInv, Typed, FlagsTyped
  <2>2. project \notin unsure => saved[h] = "running"
    BY <1>0, <1>9 DEF ResumeClears, FInv, UnderWay
  <2>3. ~Flagging(s)' /\ req'[s].phase # "clear"
    BY <2>1 DEF Flagging, Idle
  <2>4. OnlyResumesClear'
    BY <1>1, <2>3 DEF FInv, OnlyResumesClear
  <2>5. UnderWay'
    BY <1>0, <1>2, <2>3 DEF UnderWay
  <2>6. Settled'
    BY <1>0, <2>1, <2>2 DEF Settled
  <2> QED  BY <1>4, <1>6, <2>4, <2>5, <2>6 DEF FInv
<1> QED  BY <1>7, <1>8, <1>9

\* A stop or resume that fails leaves its project unsure.
LEMMA TimesOutFlags ==
  ASSUME FInv, IInv', NEW s \in Slot, LockTimesOut(s)
  PROVE  FInv'
<1>0. /\ req[s].phase = "lock" /\ req[s].home = project /\ project # NoProject
      /\ Answer(s) /\ UNCHANGED <<project, coordination, asked>>
  BY DEF LockTimesOut, FInv, IInv, RequestsStayHome, Aimed
<1>1. /\ \A t \in Slot : t # s => req'[t] = req[t]
      /\ ~Flagging(s)' /\ req'[s].phase # "clear"
  BY <1>0 DEF Answer, Idle, Flagging, FInv, IInv, Typed
<1>2. CASE req[s].kind = "write"
  <2>1. ~Flagging(s) /\ UNCHANGED history
    BY <1>0, <1>2 DEF Flagging, LockTimesOut, history
  <2> QED  BY <1>0, <2>1, AnswerQuiet
<1>3. CASE req[s].kind # "write"
  <2>1. unsure' = unsure \cup {project}
    BY <1>0, <1>3 DEF LockTimesOut
  <2>2. OneFlags' /\ UnderWay' /\ Settled'
    BY <1>0, <2>1 DEF OneFlags, UnderWay, Settled
  <2>3. OnlyResumesClear'
    BY <1>1 DEF FInv, OnlyResumesClear
  <2>4. Left'
    BY <1>0, <2>1 DEF FInv, Left, coordination
  <2> QED  BY <2>2, <2>3, <2>4 DEF FInv
<1> QED  BY <1>2, <1>3

\* The other handlers.
LEMMA HandlersQuiet ==
  ASSUME FInv, IInv', NEW s \in Slot,
         \/ CreateAgent(s) \/ AgentCreated(s) \/ CreateAcp(s) \/ AcpCreated(s)
         \/ EndAcp(s) \/ LockedWrite(s)
  PROVE  FInv'
<1>0. UNCHANGED <<project, coordination, history>>
  BY DEF CreateAgent, AgentCreated, CreateAcp, AcpCreated, EndAcp, LockedWrite, Refuse
<1>1. req[s].kind \notin {"stop", "resume"} /\ ~Flagging(s)
  BY DEF CreateAgent, AgentCreated, CreateAcp, AcpCreated, EndAcp, LockedWrite, Flagging
<1>2. \/ Answer(s)
      \/ req[s].phase = "reading" /\ \E phase \in {"startup", "agent", "lock"} : Enter(s, phase)
  BY DEF CreateAgent, AgentCreated, CreateAcp, AcpCreated, EndAcp, LockedWrite, Refuse
<1> QED  BY <1>0, <1>1, <1>2, AnswerQuiet, EnterQuiet

\* A process that opens reads the stop from the file.
LEMMA OpenedFlags ==
  ASSUME FInv, IInv', NEW p \in Started, Opened(p), UNCHANGED <<saved, asked>>,
         unsure \subseteq unsure',
         \A s \in Slot : Flagging(s) => project \in unsure'
  PROVE  FInv'
<1>1. \A s \in Slot : ~Flagging(s)' /\ req'[s].phase # "clear"
  BY DEF Opened, Flagging, Idle
<1>2. OneFlags' /\ OnlyResumesClear' /\ UnderWay'
  BY <1>1 DEF OneFlags, OnlyResumesClear, UnderWay
<1>3. ASSUME NEW q \in Project, q \notin unsure' PROVE saved[q] = asked[q]
  <2>1. CASE q # project
    BY <1>3, <2>1 DEF FInv, Left
  <2>2. CASE q = project
    BY <1>3, <2>2, CoordinatorAssumption DEF FInv, Settled
  <2> QED  BY <2>1, <2>2
<1>4. Settled'
  <2>1. project' = p /\ stopped' = (p # NoProject /\ saved[p] = "stopped")
    BY DEF Opened
  <2>2. p \in Project \cup {NoProject}
    BY CoordinatorAssumption
  <2> QED  BY <1>3, <2>1, <2>2 DEF Settled
<1>5. Left'
  <2>1. \A q \in Project : remembered'[q] = "none"
    BY DEF Opened
  <2> QED  BY <1>3, <2>1 DEF Left
<1> QED  BY <1>2, <1>4, <1>5 DEF FInv

LEMMA ReopenFlags ==
  ASSUME FInv, IInv', Reopen \/ Crash
  PROVE  FInv'
<1>0. Again
  BY DEF Reopen, Crash
<1>1. unsure' = unsure \cup HalfDone
  BY <1>0 DEF Again
<1>2. \A s \in Slot : Flagging(s) =>
         req[s].home = project /\ req[s].kind \in {"stop", "resume"} /\ req[s].home # NoProject
  BY DEF FInv, IInv, RequestsStayHome, Aimed, Flagging
<1>3. \A s \in Slot : Flagging(s) => project \in unsure'
  BY <1>1, <1>2 DEF HalfDone
<1>4. UNCHANGED <<saved, asked>> /\ \E p \in Started : Opened(p)
  BY <1>0 DEF Again
<1> QED  BY <1>1, <1>3, <1>4, OpenedFlags

LEMMA NextFlags == FInv /\ [Next]_vars => FInv'
<1> SUFFICES ASSUME FInv, [Next]_vars PROVE FInv'
  OBVIOUS
<1>0. IInv'
  BY NextKeeps DEF FInv
<1>1. CASE \/ \E s \in Connection, k \in Kinds : Arrive(s, k)
           \/ \E k \in Kinds \cup {"hello", "bad"} : Write(k)
           \/ \E s \in Connection : Abort(s)
           \/ NextLine \/ ServeReady \/ ServeFails
           \/ \E c \in Child : ChildExits(c) \/ ChildKilled(c)
           \/ Close \/ Closed \/ UNCHANGED vars
  BY <1>0, <1>1, QuietSteps
<1>2. ASSUME NEW s \in Slot, Handle(s) \/ LockTimesOut(s) PROVE FInv'
  BY <1>0, <1>2, SelectFlags, AskLockFlags, LockedFlags, TimesOutFlags, HandlersQuiet
     DEF Handle
<1>3. CASE Reopen \/ Crash
  BY <1>0, <1>3, ReopenFlags
<1> QED  BY <1>1, <1>2, <1>3 DEF Next

\* A project whose stops and resumes went one at a time and did not fail is
\* stopped exactly if the last one asked for it, whatever is selected in
\* between and however often the coordinator is closed or killed
\* (emergencyStop, selectProject, startServer).
THEOREM StopIsRetained == Spec => []StopRetained
<1>1. Init => FInv
  BY InitFlags
<1>2. FInv /\ [Next]_vars => FInv'
  BY NextFlags
<1>3. FInv => StopRetained
  BY DEF FInv, Settled, StopRetained, Flagging
<1> QED  BY <1>1, <1>2, <1>3, PTL DEF Spec

-----------------------------------------------------------------------------
(***************************************************************************)
(* Nodes.                                                                  *)
(***************************************************************************)
\* The types the argument needs.
NodesTyped ==
  /\ nodes \in [Node -> NodeRecord]
  /\ listed \subseteq Node
  /\ used \subseteq Code
  /\ held \in [Process -> [Node -> Key \cup {NoKey}]]
  /\ revoked \subseteq Node
  /\ cert \in [Node -> [key : Key \cup {NoKey}, pinned : Key \cup {NoKey}]]
  /\ paired \in [Code -> SUBSET (Node \X Key)]
  /\ ended \subseteq Node

\* A code that let a claim through is used, and let no other one through.
PairedIsUsed ==
  \A c \in Code :
    /\ paired[c] # {} => c \in used
    /\ \A x, y \in paired[c] : x = y

\* Who holds a key of a node holds the one that is pinned.
HeldIsPinned ==
  \A n \in Node \ mixed : \A p \in Process :
    nodes[n].fingerprint # NoKey =>
      held[p][n] \in {NoKey, nodes[n].fingerprint}

EndedIsRevoked == ended \subseteq revoked

\* The types of the rest.
CodesTyped ==
  /\ pending \subseteq Node
  /\ issued \in 0..MaxIssued
  /\ codes \subseteq [code : Code, node : Node]
  /\ expired \subseteq Code
  /\ mixed \subseteq Node
  /\ failures \in 0..MaxFailures

NodesInv ==
  /\ NodesTyped /\ PairedIsUsed /\ HeldIsPinned /\ EndedIsRevoked
  /\ CertifiesPinned /\ TrustAgrees

LEMMA NodesInitHolds == NodesInit => NodesInv
<1> SUFFICES ASSUME NodesInit PROVE NodesInv
  OBVIOUS
<1>1. NodesTyped
  BY DEF NodesInit, NodesTyped, NodeRecord, Unknown, NoCert
<1>2. PairedIsUsed /\ HeldIsPinned /\ EndedIsRevoked
  BY DEF NodesInit, PairedIsUsed, HeldIsPinned, EndedIsRevoked, Unknown
<1>3. CertifiesPinned /\ TrustAgrees
  BY DEF NodesInit, CertifiesPinned, TrustAgrees, Unknown, NoCert
<1> QED
  BY <1>1, <1>2, <1>3 DEF NodesInv

\* A claim that is saved.
LEMMA ClaimKeeps ==
  ASSUME NodesInv, NodesAssumption,
         NEW p \in Process, NEW c \in Code, NEW n \in Node, NEW k \in Key,
         Claim(p, c, n, k)
  PROVE  NodesInv'
<1> USE DEF NodesInv
<1>a. /\ used' = used \cup {c}
      /\ nodes' = [nodes EXCEPT
           ![n].fingerprint = k,
           ![n].status = IF @ = "none" THEN "pending_approval" ELSE @]
      /\ held' = [held EXCEPT ![p][n] = k]
      /\ paired' = [paired EXCEPT ![c] = @ \cup {<<n, k>>}]
      /\ mixed' = IF Elsewhere(p, n) THEN mixed \cup {n} ELSE mixed
      /\ UNCHANGED <<listed, revoked, cert, ended>>
      /\ c \notin used
  BY DEF Claim, Hold, Mix, Redeemable
<1>b. /\ nodes \in [Node -> NodeRecord]
      /\ held \in [Process -> [Node -> Key \cup {NoKey}]]
      /\ paired \in [Code -> SUBSET (Node \X Key)]
      /\ listed \subseteq Node /\ used \subseteq Code
      /\ k # NoKey
  BY DEF NodesTyped, NodesAssumption
<1>c. /\ nodes' \in [Node -> NodeRecord]
      /\ nodes'[n].fingerprint = k
      /\ nodes'[n].approved = nodes[n].approved
      /\ nodes'[n].credential = nodes[n].credential
      /\ nodes'[n].status =
           IF nodes[n].status = "none" THEN "pending_approval"
           ELSE nodes[n].status
      /\ \A m \in Node \ {n} : nodes'[m] = nodes[m]
  <2> DEFINE r == [nodes[n] EXCEPT
                     !.fingerprint = k,
                     !.status = IF @ = "none" THEN "pending_approval" ELSE @]
  <2>1. nodes[n] \in NodeRecord
    BY <1>b
  <2>2. /\ r \in NodeRecord
        /\ r.fingerprint = k
        /\ r.approved = nodes[n].approved
        /\ r.credential = nodes[n].credential
        /\ r.status = IF nodes[n].status = "none" THEN "pending_approval"
                      ELSE nodes[n].status
    BY <2>1, <1>b DEF NodeRecord
  <2>3. nodes' = [nodes EXCEPT ![n] = r]
    BY <1>a, <1>b
  <2> HIDE DEF r
  <2>4. /\ nodes' \in [Node -> NodeRecord]
        /\ nodes'[n] = r
        /\ \A m \in Node \ {n} : nodes'[m] = nodes[m]
    BY <1>b, <2>2, <2>3
  <2> QED
    BY <2>2, <2>4
<1>d. /\ held' \in [Process -> [Node -> Key \cup {NoKey}]]
      /\ held'[p][n] = k
      /\ \A q \in Process, m \in Node :
           q # p \/ m # n => held'[q][m] = held[q][m]
  BY <1>a, <1>b
<1>e. paired' \in [Code -> SUBSET (Node \X Key)]
  BY <1>a, <1>b
<1>1. NodesTyped'
  BY <1>a, <1>b, <1>c, <1>d, <1>e DEF NodesTyped
<1>2. PairedIsUsed'
  BY <1>a, <1>b DEF PairedIsUsed
<1>3. HeldIsPinned'
  <2> SUFFICES ASSUME NEW m \in Node \ mixed', NEW q \in Process,
                      nodes'[m].fingerprint # NoKey
               PROVE  held'[q][m] \in {NoKey, nodes'[m].fingerprint}
    BY DEF HeldIsPinned
  <2>0. m \notin mixed
    BY <1>a
  <2>1. CASE m # n
    BY <2>1, <2>0, <1>c, <1>d DEF HeldIsPinned
  <2>2. CASE m = n /\ q = p
    BY <2>2, <1>c, <1>d
  <2>3. CASE m = n /\ q # p
    BY <2>3, <1>a, <1>d DEF Elsewhere
  <2> QED
    BY <2>1, <2>2, <2>3
<1>4. EndedIsRevoked' /\ CertifiesPinned'
  BY <1>a DEF EndedIsRevoked, CertifiesPinned
<1>5. TrustAgrees'
  BY <1>a, <1>b, <1>c DEF TrustAgrees, NodeRecord
<1> QED
  BY <1>1, <1>2, <1>3, <1>4, <1>5

LEMMA ClaimNotSavedKeeps ==
  ASSUME NodesInv,
         NEW p \in Process, NEW c \in Code, NEW n \in Node, NEW k \in Key,
         ClaimNotSaved(p, c, n, k)
  PROVE  NodesInv'
<1> USE DEF NodesInv
<1>a. /\ held' = [held EXCEPT ![p][n] = k]
      /\ mixed' = mixed \cup {n}
      /\ UNCHANGED <<nodes, listed, used, revoked, cert, paired, ended>>
  BY DEF ClaimNotSaved, Hold
<1>b. held \in [Process -> [Node -> Key \cup {NoKey}]]
  BY DEF NodesTyped
<1>d. /\ held' \in [Process -> [Node -> Key \cup {NoKey}]]
      /\ \A q \in Process, m \in Node :
           q # p \/ m # n => held'[q][m] = held[q][m]
  BY <1>a, <1>b
<1>1. NodesTyped'
  BY <1>a, <1>d DEF NodesTyped
<1>2. HeldIsPinned'
  BY <1>a, <1>d DEF HeldIsPinned
<1>3. (PairedIsUsed /\ EndedIsRevoked /\ CertifiesPinned /\ TrustAgrees)'
  BY <1>a DEF PairedIsUsed, EndedIsRevoked, CertifiesPinned, TrustAgrees
<1> QED
  BY <1>1, <1>2, <1>3

LEMMA ApproveKeeps ==
  ASSUME NodesInv, NEW p \in Process, NEW n \in Node, Approve(p, n)
  PROVE  NodesInv'
<1> USE DEF NodesInv
<1> DEFINE key == nodes[n].fingerprint
<1>a. /\ key # NoKey => held[p][n] # NoKey
      /\ nodes' = [nodes EXCEPT
           ![n].status = "online", ![n].approved = TRUE,
           ![n].credential = IF key = NoKey THEN @ ELSE "valid"]
      /\ listed' = listed \cup {n}
      /\ cert' = IF key = NoKey THEN cert
                 ELSE [cert EXCEPT ![n] = [key |-> held[p][n], pinned |-> key]]
      /\ UNCHANGED <<used, held, revoked, paired, ended, mixed>>
  BY DEF Approve, pastClaims
<1>b. /\ nodes \in [Node -> NodeRecord]
      /\ held \in [Process -> [Node -> Key \cup {NoKey}]]
      /\ cert \in [Node -> [key : Key \cup {NoKey}, pinned : Key \cup {NoKey}]]
      /\ listed \subseteq Node
      /\ key \in Key \cup {NoKey}
      /\ held[p][n] \in Key \cup {NoKey}
  BY DEF NodesTyped, NodeRecord
<1>c. /\ nodes' \in [Node -> NodeRecord]
      /\ nodes'[n].fingerprint = key
      /\ nodes'[n].approved = TRUE
      /\ nodes'[n].status = "online"
      /\ \A m \in Node \ {n} : nodes'[m] = nodes[m]
  <2> DEFINE r == [nodes[n] EXCEPT
                     !.status = "online", !.approved = TRUE,
                     !.credential = IF key = NoKey THEN @ ELSE "valid"]
  <2>1. nodes[n] \in NodeRecord
    BY <1>b
  <2>2. /\ r \in NodeRecord
        /\ r.fingerprint = key
        /\ r.approved = TRUE
        /\ r.status = "online"
    BY <2>1 DEF NodeRecord
  <2>3. nodes' = [nodes EXCEPT ![n] = r]
    BY <1>a, <1>b
  <2> HIDE DEF r, key
  <2>4. /\ nodes' \in [Node -> NodeRecord]
        /\ nodes'[n] = r
        /\ \A m \in Node \ {n} : nodes'[m] = nodes[m]
    BY <1>b, <2>2, <2>3
  <2> QED
    BY <2>2, <2>4
<1>d. /\ cert' \in [Node -> [key : Key \cup {NoKey}, pinned : Key \cup {NoKey}]]
      /\ \A m \in Node \ {n} : cert'[m] = cert[m]
      /\ key = NoKey => cert'[n] = cert[n]
      /\ key # NoKey => cert'[n] = [key |-> held[p][n], pinned |-> key]
  <2>1. CASE key = NoKey
    BY <2>1, <1>a, <1>b
  <2>2. CASE key # NoKey
    BY <2>2, <1>a, <1>b
  <2> QED
    BY <2>1, <2>2
<1>1. NodesTyped'
  BY <1>a, <1>b, <1>c, <1>d DEF NodesTyped
<1>2. HeldIsPinned'
  BY <1>a, <1>c DEF HeldIsPinned
<1>3. CertifiesPinned'
  <2> SUFFICES ASSUME NEW m \in Node \ mixed'
               PROVE  cert'[m].key = cert'[m].pinned
    BY DEF CertifiesPinned
  <2>1. CASE m # n \/ key = NoKey
    BY <2>1, <1>a, <1>d DEF CertifiesPinned
  <2>2. CASE m = n /\ key # NoKey
    BY <2>2, <1>a, <1>b, <1>d DEF HeldIsPinned
  <2> QED
    BY <2>1, <2>2
<1>4. TrustAgrees'
  BY <1>a, <1>b, <1>c DEF TrustAgrees
<1>5. (PairedIsUsed /\ EndedIsRevoked)'
  BY <1>a DEF PairedIsUsed, EndedIsRevoked
<1> QED
  BY <1>1, <1>2, <1>3, <1>4, <1>5

LEMMA RevokeKeeps ==
  ASSUME NodesInv, NEW n \in Node, Revoke(n)
  PROVE  NodesInv'
<1> USE DEF NodesInv
<1>a. /\ revoked' = revoked \cup {n}
      /\ nodes' = [nodes EXCEPT ![n] = [Unknown EXCEPT !.status = "offline"]]
      /\ listed' = listed \ {n}
      /\ ended' = ended \cup {n}
      /\ UNCHANGED <<used, held, cert, paired, mixed>>
  BY DEF Revoke
<1>b. nodes \in [Node -> NodeRecord]
  BY DEF NodesTyped
<1>c. /\ nodes' \in [Node -> NodeRecord]
      /\ nodes'[n] = [status |-> "offline", approved |-> FALSE,
                      fingerprint |-> NoKey, credential |-> "none"]
      /\ \A m \in Node \ {n} : nodes'[m] = nodes[m]
  BY <1>a, <1>b DEF NodeRecord, Unknown
<1>1. NodesTyped'
  BY <1>a, <1>c DEF NodesTyped
<1>2. HeldIsPinned'
  BY <1>a, <1>c DEF HeldIsPinned
<1>3. TrustAgrees'
  BY <1>a, <1>c DEF TrustAgrees
<1>4. (PairedIsUsed /\ EndedIsRevoked /\ CertifiesPinned)'
  BY <1>a DEF PairedIsUsed, EndedIsRevoked, CertifiesPinned
<1> QED
  BY <1>1, <1>2, <1>3, <1>4

LEMMA RevokeNotSavedKeeps ==
  ASSUME NodesInv, NEW n \in Node, RevokeNotSaved(n)
  PROVE  NodesInv'
<1> USE DEF NodesInv
<1>a. /\ revoked' = revoked \cup {n}
      /\ ended' = ended \cup {n}
      /\ UNCHANGED <<nodes, listed, used, held, cert, paired, mixed>>
  BY DEF RevokeNotSaved
<1>1. NodesTyped'
  BY <1>a DEF NodesTyped
<1>2. (PairedIsUsed /\ HeldIsPinned /\ EndedIsRevoked)'
  BY <1>a DEF PairedIsUsed, HeldIsPinned, EndedIsRevoked
<1>3. (CertifiesPinned /\ TrustAgrees)'
  BY <1>a DEF CertifiesPinned, TrustAgrees
<1> QED
  BY <1>1, <1>2, <1>3

LEMMA CredentialExpiresKeeps ==
  ASSUME NodesInv, NEW n \in Node, CredentialExpires(n)
  PROVE  NodesInv'
<1> USE DEF NodesInv
<1>a. /\ nodes' = [nodes EXCEPT ![n].credential =
                     IF @ = "valid" THEN "expired" ELSE @]
      /\ cert' = [cert EXCEPT ![n] = NoCert]
      /\ UNCHANGED <<listed, used, held, revoked, paired, ended, mixed>>
  BY DEF CredentialExpires, pastClaims
<1>b. /\ nodes \in [Node -> NodeRecord]
      /\ cert \in [Node -> [key : Key \cup {NoKey}, pinned : Key \cup {NoKey}]]
  BY DEF NodesTyped
<1>c. /\ nodes' \in [Node -> NodeRecord]
      /\ nodes'[n].fingerprint = nodes[n].fingerprint
      /\ nodes'[n].approved = nodes[n].approved
      /\ nodes'[n].status = nodes[n].status
      /\ nodes'[n].credential # "none" => nodes[n].credential # "none"
      /\ \A m \in Node \ {n} : nodes'[m] = nodes[m]
  BY <1>a, <1>b DEF NodeRecord
<1>d. /\ cert' \in [Node -> [key : Key \cup {NoKey}, pinned : Key \cup {NoKey}]]
      /\ cert'[n].key = cert'[n].pinned
      /\ \A m \in Node \ {n} : cert'[m] = cert[m]
  BY <1>a, <1>b DEF NoCert
<1>1. NodesTyped'
  BY <1>a, <1>c, <1>d DEF NodesTyped
<1>2. (HeldIsPinned /\ CertifiesPinned)'
  BY <1>a, <1>c, <1>d DEF HeldIsPinned, CertifiesPinned
<1>3. TrustAgrees'
  BY <1>a, <1>c DEF TrustAgrees
<1>4. (PairedIsUsed /\ EndedIsRevoked)'
  BY <1>a DEF PairedIsUsed, EndedIsRevoked
<1> QED
  BY <1>1, <1>2, <1>3, <1>4

LEMMA RestartKeeps ==
  ASSUME NodesInv, NEW p \in Process, Restart(p)
  PROVE  NodesInv'
<1> USE DEF NodesInv
<1>a. /\ held' = [held EXCEPT ![p] = [n \in Node |-> NoKey]]
      /\ UNCHANGED <<nodes, listed, used, revoked, cert, paired, ended, mixed>>
  BY DEF Restart, pastClaims
<1>b. /\ held' \in [Process -> [Node -> Key \cup {NoKey}]]
      /\ \A q \in Process, n \in Node :
           held'[q][n] = IF q = p THEN NoKey ELSE held[q][n]
  BY <1>a DEF NodesTyped
<1>1. NodesTyped'
  BY <1>a, <1>b DEF NodesTyped
<1>2. HeldIsPinned'
  BY <1>a, <1>b DEF HeldIsPinned
<1>3. (PairedIsUsed /\ EndedIsRevoked /\ CertifiesPinned /\ TrustAgrees)'
  BY <1>a DEF PairedIsUsed, EndedIsRevoked, CertifiesPinned, TrustAgrees
<1> QED
  BY <1>1, <1>2, <1>3

\* What the invariant talks about.
kept == <<nodes, listed, used, held, revoked, cert, paired, ended, mixed>>

LEMMA KeptKeeps == NodesInv /\ UNCHANGED kept => NodesInv'
  BY DEF kept, NodesInv, NodesTyped, PairedIsUsed, HeldIsPinned, EndedIsRevoked,
         CertifiesPinned, TrustAgrees

LEMMA NodesNextKeeps == NodesInv /\ NodesAssumption /\ [NodesNext]_nodesVars => NodesInv'
<1> SUFFICES ASSUME NodesInv, NodesAssumption, [NodesNext]_nodesVars PROVE NodesInv'
  OBVIOUS
<1>1. ASSUME NEW c \in Code, NEW n \in Node, CreateCode(c, n) PROVE NodesInv'
  BY <1>1, KeptKeeps DEF CreateCode, kept, pastClaims
<1>2. ASSUME NEW c \in Code, CodeExpires(c) PROVE NodesInv'
  BY <1>2, KeptKeeps DEF CodeExpires, kept, pastClaims
<1>3. ASSUME NEW p \in Process, NEW c \in Code, NEW n \in Node,
             NEW k \in Key, Claim(p, c, n, k) \/ ClaimNotSaved(p, c, n, k)
      PROVE  NodesInv'
  BY <1>3, ClaimKeeps, ClaimNotSavedKeeps
<1>4. ASSUME NEW p \in Process, NEW n \in Node, Approve(p, n) PROVE NodesInv'
  BY <1>4, ApproveKeeps
<1>5. ASSUME NEW n \in Node,
             Revoke(n) \/ RevokeNotSaved(n) \/ CredentialExpires(n)
      PROVE  NodesInv'
  BY <1>5, RevokeKeeps, RevokeNotSavedKeeps, CredentialExpiresKeeps
<1>6. ASSUME NEW p \in Process, Restart(p) PROVE NodesInv'
  BY <1>6, RestartKeeps
<1>7. CASE UNCHANGED nodesVars
  BY <1>7, KeptKeeps DEF nodesVars, kept
<1> QED
  BY <1>1, <1>2, <1>3, <1>4, <1>5, <1>6, <1>7 DEF NodesNext

\* A code that is given out is the next one, and the cap only removes some.
LEMMA CodesTypedKeeps ==
  CodesTyped /\ NodesAssumption /\ [NodesNext]_nodesVars => CodesTyped'
<1> SUFFICES ASSUME CodesTyped, NodesAssumption, [NodesNext]_nodesVars
             PROVE  CodesTyped'
  OBVIOUS
<1> USE DEF CodesTyped
<1>1. ASSUME NEW c \in Code, NEW n \in Node, CreateCode(c, n) PROVE CodesTyped'
  <2>1. issued' \in 0..MaxIssued
    BY <1>1 DEF CreateCode, Code
  <2>2. codes' \subseteq codes \cup {[code |-> c, node |-> n]}
    BY <1>1 DEF CreateCode, LastCodes
  <2> QED BY <1>1, <2>1, <2>2 DEF CreateCode, pastClaims
<1>2. ASSUME NEW c \in Code, CodeExpires(c) PROVE CodesTyped'
  BY <1>2 DEF CodeExpires, pastClaims
<1>3. ASSUME NEW p \in Process, NEW c \in Code, NEW n \in Node,
             NEW k \in Key, Claim(p, c, n, k) \/ ClaimNotSaved(p, c, n, k)
      PROVE  CodesTyped'
  BY <1>3 DEF Claim, ClaimNotSaved, Mix, CountFailure, NodesAssumption
<1>4. ASSUME NEW p \in Process, NEW n \in Node, Approve(p, n) PROVE CodesTyped'
  BY <1>4 DEF Approve, pastClaims
<1>5. ASSUME NEW n \in Node,
             Revoke(n) \/ RevokeNotSaved(n) \/ CredentialExpires(n)
      PROVE  CodesTyped'
  BY <1>5 DEF Revoke, RevokeNotSaved, CredentialExpires, CountFailure, pastClaims,
              NodesAssumption
<1>6. ASSUME NEW p \in Process, Restart(p) PROVE CodesTyped'
  BY <1>6 DEF Restart, CountFailure, pastClaims, NodesAssumption
<1>7. CASE UNCHANGED nodesVars
  BY <1>7 DEF nodesVars
<1> QED
  BY <1>1, <1>2, <1>3, <1>4, <1>5, <1>6, <1>7 DEF NodesNext

\* The invariant holds in every reachable state.
THEOREM NodesInvariant == NodesSpec => []NodesInv
<1>1. NodesInit => NodesInv
  BY NodesInitHolds
<1>2. NodesInv /\ [NodesNext]_nodesVars => NodesInv'
  BY NodesNextKeeps, NodesAssumption
<1> QED
  BY <1>1, <1>2, PTL DEF NodesSpec

\* A pairing code lets one claim through: claimPairingCode looks at used_at in
\* the section that sets it.  The list of codes keeps its type under the cap.
THEOREM CodesAreSound == NodesSpec => []CodesSound
<1>1. NodesInv => CodePairsOnce
  <2> SUFFICES ASSUME NodesInv, NEW c \in Code
               PROVE  Cardinality(paired[c]) <= 1
    BY DEF CodePairsOnce
  <2>1. \A x, y \in paired[c] : x = y
    BY DEF NodesInv, PairedIsUsed
  <2>2. CASE paired[c] = {}
    BY <2>2, FS_EmptySet
  <2>3. CASE paired[c] # {}
    <3>1. PICK x : x \in paired[c]
      BY <2>3
    <3>2. paired[c] = {x}
      BY <2>1, <3>1
    <3> QED
      BY <3>2, FS_Singleton
  <2> QED
    BY <2>2, <2>3
<1>2. NodesInit => CodesTyped
  BY NodesAssumption DEF NodesInit, CodesTyped
<1>3. CodesTyped /\ [NodesNext]_nodesVars => CodesTyped'
  BY CodesTypedKeeps, NodesAssumption
<1>4. NodesInv /\ CodesTyped => CodesSound
  BY <1>1 DEF NodesInv, NodesTyped, CodesTyped, CodesSound, NodesTypeOK
<1> QED
  BY <1>2, <1>3, <1>4, NodesInvariant, PTL DEF NodesSpec

\* A revoked node stays out: approveOrRevoke tells the certificate authority
\* before it touches the record, and nothing takes a node off that list.
THEOREM RevokedNodesStayOut == NodesSpec => []RevokedStaysOut
<1>1. NodesInv => RevokedStaysOut
  BY DEF NodesInv, EndedIsRevoked, RevokedStaysOut, Allowed, Admitted, IsRevoked
<1> QED
  BY <1>1, NodesInvariant, PTL

\* What is pinned, certified and approved fits, through claims that are
\* repeated, approvals elsewhere and saves that fail.
THEOREM TrustIsSound == NodesSpec => []TrustSound
<1>1. NodesInv => TrustSound
  BY DEF NodesInv, TrustSound
<1> QED
  BY <1>1, NodesInvariant, PTL
=============================================================================
