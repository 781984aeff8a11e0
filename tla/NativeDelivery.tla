--------------------------- MODULE NativeDelivery ---------------------------
(***************************************************************************)
(* Mail for members whose host only hears at its own boundaries: the hooks *)
(* of src/src/adapters/claude-code/hooks.ts bind a native host session to a*)
(* pinned member and hand it mail as context, and an MCP server or a plugin*)
(* resumes the bound session with a batch (src/src/hosts/spawn-delivery.ts)*)
(*                                                                         *)
(* Every hook is a process of its own, which locks the state file once to  *)
(* bind and drain and once more to commit.  A spawn delivery looks the     *)
(* member up, checks the size of the batch, drains and settles in four     *)
(* locked sections, with a turn of the host, up to ten minutes, between the*)
(* last two.  Mailbox says what each does to the queues.                   *)
(***************************************************************************)
EXTENDS Mailbox

CONSTANTS
  Native,      \* session ids of the host
  NoNative,
  NoMember,
  Pinned,      \* members with a pin file for this host
  EnvPin,      \* OPENCOMMS_MEMBER_ID of native sessions, or NoMember
  Home,        \* the native sessions members were bound to before, each one
               \* as one member
  Spawned,     \* members whose delivery mode is spawn_push
  Hook,        \* hook processes at one time (a bound)
  Run,         \* calls of the spawn hook in one MCP server (a bound)
  ArgvRoom,    \* envelopes that fit on a command line, spawnArgvBudget
  Senders,     \* members that send (a bound)
  Plans,       \* a behaviour has the operations and the faults of one of
               \* these sets (a bound)
  Rooms,       \* the rosters each of them starts with
  MaxFaults,   \* bound on faults
  MaxChurn     \* bound on joins and departures

ASSUME NativeAssumption ==
  /\ NoNative \notin Native /\ NoMember \notin Session
  /\ Pinned \subseteq Session /\ Spawned \subseteq Session
  /\ EnvPin \in [Native -> Session \cup {NoMember}]
  /\ Home \in [Session -> Native \cup {NoNative}]
  /\ \A r, s \in Session : Home[r] = Home[s] /\ Home[r] # NoNative => r = s
  /\ IsFiniteSet(Session) /\ IsFiniteSet(Channel)
  /\ IsFiniteSet(Hook) /\ IsFiniteSet(Run)
  /\ ArgvRoom \in Nat
  /\ Senders \subseteq Session
  /\ Rooms \in [Plans -> [Channel -> Seq(Session)]]
  /\ MaxFaults \in Nat /\ MaxChurn \in Nat

VARIABLES
  file,     \* state.json
  bound,    \* host_session_id of each roster row
  hook,     \* hook processes
  run,      \* calls of the spawn hook
  ended,    \* native sessions that ended since a hook of theirs found or
            \* bound their member (history)
  late,     \* rows marked stale while the session they are bound to had not
            \* ended (history)
  heard,    \* how often a model was given each envelope (history)
  back,     \* how often it was put back in its queue after that (history)
  lost,     \* envelopes whose holder failed (history)
  plan,     \* the plan of this behaviour (fixed)
  faults,
  churn

vars == <<file, bound, hook, run, ended, late, heard, back, lost, plan, faults, churn>>
history == <<ended, late, heard, back, lost, plan>>

Event == {"start", "prompt", "end"}

IdleHook == [phase |-> "none", native |-> NoNative, event |-> "end",
             member |-> NoMember, ids |-> <<>>, parts |-> {}]
IdleRun == [phase |-> "none", todo |-> {}, member |-> NoMember,
            native |-> NoNative, ids |-> <<>>]

TypeOK ==
  /\ file \in State
  /\ bound \in [Channel -> [Session -> Native \cup {NoNative}]]
  /\ hook \in [Hook ->
       [phase : {"none", "entering", "drained", "committing", "answering"},
        native : Native \cup {NoNative}, event : Event,
        member : Session \cup {NoMember}, ids : Seq(Msg), parts : SUBSET Msg]]
  /\ run \in [Run ->
       [phase : {"none", "next", "checking", "draining", "spawning",
                 "committing", "failed"},
        todo : SUBSET Session, member : Session \cup {NoMember},
        native : Native \cup {NoNative}, ids : Seq(Msg)]]
  /\ ended \subseteq Native
  /\ late \subseteq Channel \X Session
  /\ heard \in [Msg -> Nat] /\ back \in [Msg -> Nat]
  /\ lost \subseteq Msg
  /\ plan \in Plans
  /\ faults \in 0..MaxFaults /\ churn \in 0..MaxChurn

Init ==
  /\ plan \in Plans
  /\ file = [life |-> [c \in Channel |-> "active"],
             paused |-> {}, members |-> Rooms[plan],
             stale |-> [c \in Channel |-> {}],
             total |-> [c \in Channel |-> 0],
             cooling |-> {}, overtime |-> {}, sent |-> 0, aged |-> 0,
             chan |-> [n \in Send |-> NoChannel],
             status |-> [m \in Msg |-> "unsent"],
             attempts |-> [m \in Msg |-> 0],
             queues |-> [r \in Session |-> <<>>]]
  /\ bound = [c \in Channel |-> [r \in Session |->
       IF "bound" \in plan /\ r \in Elems(Rooms[plan][c]) THEN Home[r] ELSE NoNative]]
  /\ hook = [k \in Hook |-> IdleHook]
  /\ run = [k \in Run |-> IdleRun]
  /\ ended = {}
  /\ late = {}
  /\ heard = [m \in Msg |-> 0]
  /\ back = [m \in Msg |-> 0]
  /\ lost = {}
  /\ faults = 0
  /\ churn = 0

Fault(kind) == kind \in plan /\ faults < MaxFaults /\ faults' = faults + 1
Churn == "churn" \in plan /\ churn < MaxChurn /\ churn' = churn + 1

Count(f, S) == [m \in Msg |-> IF m \in S THEN f[m] + 1 ELSE f[m]]
InFlight(S) == {m \in S : file.status[m] = "in_flight"}

-----------------------------------------------------------------------------
(* Members.                                                                *)

\* A row begins unbound, also one of a member that is bound elsewhere.
Join(r, c) ==
  /\ Churn
  /\ r \in Pinned /\ CanJoin(file, c, r)
  /\ file' = JoinChannel(file, c, r)
  /\ UNCHANGED <<bound, hook, run, history, faults>>

Leave(r, c) ==
  /\ Churn
  /\ r \in Pinned /\ Active(file, c) /\ r \in Members(file, c)
  /\ file' = Disconnect(file, c, r)
  /\ bound' = [bound EXCEPT ![c][r] = NoNative]
  /\ UNCHANGED <<hook, run, history, faults>>

\* The send is saved before the spawn hook, which OPENCOMMS_NO_SPAWN turns
\* off, is called with its recipients.
SendMail(r, c, R, k) ==
  /\ CanSend(file, c) /\ r \in Senders /\ r \in Members(file, c)
  /\ R \in RecipientSets(file, c, r)
  /\ run[k].phase = "none"
  /\ file' = Enqueue(file, c, R)
  /\ run' = IF "spawn" \in plan
             THEN [run EXCEPT ![k] = [IdleRun EXCEPT !.phase = "next", !.todo = R]]
             ELSE run
  /\ UNCHANGED <<bound, hook, history, faults, churn>>

CooldownEnds(c, r) ==
  /\ <<c, r>> \in file.cooling
  /\ file' = EndCooldown(file, c, r)
  /\ UNCHANGED <<bound, hook, run, history, faults, churn>>

\* An OpenCode plugin that starts puts back everything in flight.
PluginSweeps ==
  /\ Fault("sweep")
  /\ Sweepable(file) # {}
  /\ file' = Sweep(file)
  /\ back' = Count(back, Sweepable(file))
  /\ UNCHANGED <<bound, hook, run, ended, late, heard, lost, churn, plan>>

-----------------------------------------------------------------------------
(* Hooks.                                                                  *)

Named(h) == IF "named" \in plan THEN EnvPin[h] ELSE NoMember

Fire(k, h, event) ==
  /\ "hooks" \in plan /\ (event = "end" => "ends" \in plan)
  /\ hook[k].phase = "none"
  /\ "crowd" \in plan \/ \A j \in Hook : hook[j].phase = "none"
  /\ hook' = [hook EXCEPT ![k] = [IdleHook EXCEPT !.phase = "entering",
                                    !.native = h, !.event = event]]
  /\ ended' = IF event = "end" THEN ended \cup {h} ELSE ended
  /\ UNCHANGED <<file, bound, run, late, heard, back, lost, faults, churn, plan>>

HookEnds(k) == hook' = [hook EXCEPT ![k] = IdleHook]

Rows == {row \in Channel \X Session :
           Active(file, row[1]) /\ row[2] \in Members(file, row[1])}

\* resolveMemberByHostSession: no answer if the rows do not agree.
BoundRows(h) == {row \in Rows : bound[row[1]][row[2]] = h}
Resolved(h) == LET R == {row[2] : row \in BoundRows(h)}
               IN  IF Cardinality(R) = 1 THEN R ELSE {}

\* Slip for the mutant runs: bound members may be bound again.
PinnedRows == {row \in Rows : row[2] \in Pinned}
\* Pinned rows that were never bound, or to a session that ended.
Unbound == {row \in Rows : /\ row[2] \in Pinned
                           /\ \/ bound[row[1]][row[2]] = NoNative
                              \/ row[2] \in file.stale[row[1]]}

\* The rows the start of h may bind: one of the member it names, or the only
\* one that is left.
Bindable(h) ==
  IF Named(h) # NoMember THEN {row \in Rows : row[2] = Named(h)}
  ELSE IF Cardinality(Unbound) = 1 THEN Unbound ELSE {}

\* Clear staleness, drain and save.
Drained(k, r) ==
  LET s == ClearStale(file, r)
      ids == Batch(s, r)
  IN  /\ file' = Drain(s, r)
      /\ hook' = [hook EXCEPT ![k] =
           IF ids = <<>> THEN IdleHook
           ELSE [hook[k] EXCEPT !.phase = "drained", !.member = r, !.ids = ids]]
      /\ late' = {row \in late : row[2] # r}
      /\ ended' = ended \ {hook[k].native}

HookOfKnown(k) ==
  /\ \E r \in Resolved(hook[k].native) : Drained(k, r)
  /\ UNCHANGED bound

HookBinds(k) ==
  LET h == hook[k].native
  IN  /\ Resolved(h) = {} /\ hook[k].event = "start"
      /\ \E row \in Bindable(h) :
           /\ bound' = [bound EXCEPT ![row[1]][row[2]] = h]
           /\ Drained(k, row[2])

HookOfNobody(k) ==
  LET h == hook[k].native
  IN  /\ Resolved(h) = {}
      /\ hook[k].event = "start" => Bindable(h) = {}
      /\ HookEnds(k)
      /\ UNCHANGED <<file, bound, ended, late>>

\* drainForHook, the first locked section.
HookEnters(k) ==
  /\ hook[k].phase = "entering" /\ hook[k].event # "end"
  /\ HookOfKnown(k) \/ HookBinds(k) \/ HookOfNobody(k)
  /\ UNCHANGED <<run, heard, back, lost, faults, churn, plan>>

\* endHookSession: every row of the member is marked, whatever session it
\* is bound to, and also when that session has started again meanwhile.
HookMarksStale(k) ==
  LET R == Resolved(hook[k].native)
  IN  /\ hook[k].phase = "entering" /\ hook[k].event = "end"
      /\ file' \in IF R = {} THEN {file} ELSE {MarkStale(file, r) : r \in R}
      /\ late' = late \cup {row \in Rows : /\ row[2] \in R
                                           /\ bound[row[1]][row[2]] \notin ended}
      /\ HookEnds(k)
      /\ UNCHANGED <<bound, run, ended, heard, back, lost, faults, churn, plan>>

\* The snapshot the context is made of; what was deleted is not in it.
HookReads(k) ==
  LET parts == Elems(hook[k].ids) \cap Persisted(file)
  IN  /\ hook[k].phase = "drained"
      /\ IF parts = {} THEN HookEnds(k)
         ELSE hook' = [hook EXCEPT ![k].phase = "committing", ![k].parts = parts]
      /\ UNCHANGED <<file, bound, run, history, faults, churn>>

\* Slip: the mail a hook hands over is not committed.
CommitNothing(s, r, ids) == s
Committed(s, r, ids) == Commit(s, r, ids)

HookCommits(k) ==
  /\ hook[k].phase = "committing"
  /\ file' = Committed(file, hook[k].member, hook[k].ids)
  /\ hook' = [hook EXCEPT ![k].phase = "answering"]
  /\ UNCHANGED <<bound, run, history, faults, churn>>

HookAnswers(k) ==
  /\ hook[k].phase = "answering"
  /\ heard' = Count(heard, hook[k].parts)
  /\ HookEnds(k)
  /\ UNCHANGED <<file, bound, run, ended, late, back, lost, faults, churn, plan>>

\* The hook is killed, or its second locked section fails: it answers
\* nothing, and nobody puts its mail back.
HookFails(k) ==
  /\ hook[k].phase # "none"
  /\ Fault("hook")
  /\ lost' = lost \cup InFlight(Elems(hook[k].ids))
  /\ HookEnds(k)
  /\ UNCHANGED <<file, bound, run, ended, late, heard, back, churn, plan>>

-----------------------------------------------------------------------------
(* Spawn delivery.                                                         *)

NextRecipient(k) == [IdleRun EXCEPT !.phase = IF run[k].todo = {} THEN "none" ELSE "next",
                                    !.todo = run[k].todo]
Continue(k) == run' = [run EXCEPT ![k] = NextRecipient(k)]

\* Slip: the set of active deliveries is not looked at.
ReservedNever(r) == FALSE
\* activeSpawnDeliveries.
Reserved(r) == \E j \in Run : run[j].member = r

\* spawnDeliveryRefusal of a roster row, and the reservation.
Refusal(row) ==
  \/ row[2] \notin Spawned
  \/ bound[row[1]][row[2]] = NoNative
  \/ Reserved(row[2])

\* The member, its mode and its binding are read from the first row there
\* is, and kept.
LookUp(k, r) ==
  LET rows == {row \in Rows : row[2] = r}
      rest == run[k].todo \ {r}
      skip == [IdleRun EXCEPT !.phase = IF rest = {} THEN "none" ELSE "next",
                              !.todo = rest]
  IN  /\ run[k].phase = "next" /\ r \in run[k].todo
      /\ \/ /\ rows = {} \/ \E row \in rows : Refusal(row)
            /\ run' = [run EXCEPT ![k] = skip]
         \/ \E row \in rows :
              /\ ~Refusal(row)
              /\ run' = [run EXCEPT ![k] =
                   [phase |-> "checking", todo |-> rest, member |-> r,
                    native |-> bound[row[1]][r], ids |-> <<>>]]
      /\ UNCHANGED <<file, bound, hook, history, faults, churn>>

Fits(r) ==
  Cardinality({m \in Elems(file.queues[r]) : file.status[m] = "pending"}) <= ArgvRoom

CheckSize(k) ==
  /\ run[k].phase = "checking"
  /\ IF Fits(run[k].member) THEN run' = [run EXCEPT ![k].phase = "draining"]
     ELSE Continue(k)
  /\ UNCHANGED <<file, bound, hook, history, faults, churn>>

StillFits(r) == Fits(r)

DrainForSpawn(k) ==
  LET r == run[k].member
      ids == Batch(file, r)
  IN  /\ run[k].phase = "draining"
      /\ IF ~StillFits(r) THEN Continue(k) /\ UNCHANGED file
         ELSE /\ file' = Drain(file, r)
              /\ IF ids = <<>> THEN Continue(k)
                 ELSE run' = [run EXCEPT ![k].phase = "spawning", ![k].ids = ids]
      /\ UNCHANGED <<bound, hook, history, faults, churn>>

Phase(k, phase) == run' = [run EXCEPT ![k].phase = phase]

\* The host ran the turn; or it did not start; or it ran the turn and then
\* failed or was stopped by the timeout.
SpawnRuns(k) ==
  /\ run[k].phase = "spawning"
  /\ heard' = Count(heard, Elems(run[k].ids))
  /\ Phase(k, "committing")
  /\ UNCHANGED <<file, bound, hook, ended, late, back, lost, faults, churn, plan>>

SpawnFails(k) ==
  /\ run[k].phase = "spawning"
  /\ Fault("turn")
  /\ heard' \in {heard, Count(heard, Elems(run[k].ids))}
  /\ Phase(k, "failed")
  /\ UNCHANGED <<file, bound, hook, ended, late, back, lost, churn, plan>>

SpawnCommits(k) ==
  /\ run[k].phase = "committing"
  /\ file' = Committed(file, run[k].member, run[k].ids)
  /\ Continue(k)
  /\ UNCHANGED <<bound, hook, history, faults, churn>>

\* A commit that fails puts back mail the host has heard.
CommitFails(k) ==
  /\ run[k].phase = "committing"
  /\ Fault("disk")
  /\ Phase(k, "failed")
  /\ UNCHANGED <<file, bound, hook, history, churn>>

RequeueBatch(k) ==
  /\ run[k].phase = "failed"
  /\ file' = Requeue(file, run[k].member, run[k].ids)
  /\ back' = Count(back, Retryable(file, run[k].ids))
  /\ Continue(k)
  /\ UNCHANGED <<bound, hook, ended, late, heard, lost, faults, churn, plan>>

RequeueFails(k) ==
  /\ run[k].phase = "failed"
  /\ Fault("disk")
  /\ lost' = lost \cup InFlight(Elems(run[k].ids))
  /\ Continue(k)
  /\ UNCHANGED <<file, bound, hook, ended, late, heard, back, churn, plan>>

\* The server ends with its host; the resumed host may still run the turn.
ServerExits ==
  LET open == {k \in Run : run[k].phase = "spawning"}
      mail(K) == UNION {Elems(run[k].ids) : k \in K}
  IN  /\ Fault("exit")
      /\ \E k \in Run : run[k].phase # "none"
      /\ \E K \in SUBSET open : heard' = Count(heard, mail(K))
      /\ lost' = lost \cup InFlight(mail(Run))
      /\ run' = [k \in Run |-> IdleRun]
      /\ UNCHANGED <<file, bound, hook, ended, late, back, churn, plan>>

-----------------------------------------------------------------------------
Next ==
  \/ \E r \in Session, c \in Channel :
       \/ Join(r, c) \/ Leave(r, c) \/ CooldownEnds(c, r)
       \/ \E R \in SUBSET Session, k \in Run : SendMail(r, c, R, k)
  \/ PluginSweeps
  \/ \E k \in Hook :
       \/ \E h \in Native, event \in Event : Fire(k, h, event)
       \/ HookEnters(k) \/ HookMarksStale(k) \/ HookReads(k)
       \/ HookCommits(k) \/ HookAnswers(k) \/ HookFails(k)
  \/ \E k \in Run :
       \/ \E r \in Session : LookUp(k, r)
       \/ CheckSize(k) \/ DrainForSpawn(k) \/ SpawnRuns(k) \/ SpawnFails(k)
       \/ SpawnCommits(k) \/ CommitFails(k) \/ RequeueBatch(k) \/ RequeueFails(k)
  \/ ServerExits

Spec == Init /\ [][Next]_vars

-----------------------------------------------------------------------------
(* Properties.                                                             *)

\* A model is given an envelope once, and once more for each time a failed
\* turn or a sweep put it back: hooks, spawned turns and plugins that drain
\* the same queue never hand out one envelope on their own account.
RepeatsAccounted == \A m \in Msg : heard[m] <= 1 + back[m]

\* Mail in flight is in the hands of a hook or a spawned turn that will
\* settle it, unless that one failed.
InFlightIsHeld ==
  \A m \in InFlight(Msg) :
    \/ m \in lost
    \/ \E k \in Hook : m \in Elems(hook[k].ids)
    \/ \E k \in Run : m \in Elems(run[k].ids)

\* Together: no envelope is given out or forgotten without a reason.
MailAccounted == TypeOK /\ RepeatsAccounted /\ InFlightIsHeld

\* One server never resumes the session of a member while a turn it spawned
\* for that member is under way ("Reserve the member before any asynchronous
\* work").
OneTurnEach ==
  \A j, k \in {i \in Run : run[i].phase = "spawning"} :
    j # k => run[j].member # run[k].member

\* What is put on a command line fits, whatever was sent after the size was
\* first checked.
BatchFits == \A k \in Run : Len(run[k].ids) <= ArgvRoom

\* No native session is two members: its hooks never lose their member
\* because the rows do not agree.
OneMemberEach ==
  \A h \in Native : Cardinality({row[2] : row \in BoundRows(h)}) <= 1

\* Together: turns and bindings do not get into each other's way.
TurnsApart == OneTurnEach /\ BatchFits /\ OneMemberEach

\* "never rebinds an already-bound member via pins (a fresh Claude session
\* id must not silently steal a binding)" (hooks.ts): while a native session
\* has not ended since it was last heard, no other one that names nobody
\* becomes its member, but by a row of it that was never bound or by one whose
\* mark came too late.
NotStolen ==
  [][\A g, h \in Native :
       g # h /\ Named(g) = NoMember /\ h \notin ended =>
         \A row \in BoundRows(g)' \ BoundRows(g) :
           row[2] \in Resolved(h) =>
             bound[row[1]][row[2]] = NoNative \/ row \in late]_vars

\* Hooks, spawned turns and the plugins that sweep between them keep what the
\* engine promises of an envelope.
Contract == INSTANCE MailContract WITH
  Envelope <- Msg, Room <- Channel, NoRoom <- NoChannel,
  Limit <- Budget, Cap <- MaxAttempts,
  stage <- Stages(file), tries <- file.attempts, room <- RoomOf(file),
  spent <- file.total, taking <- Taking(file), closed <- GoneRooms(file)
KeepsContract == Contract!Spec

=============================================================================
