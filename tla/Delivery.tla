------------------------------ MODULE Delivery ------------------------------
(***************************************************************************)
(* Push delivery by the OpenCode plugin (src/src/hosts/opencode/delivery.ts*)
(* driven by src/src/plugin.ts) and pull delivery by the MCP server        *)
(* (opencomms_pull) over one state.json.                                   *)
(*                                                                         *)
(* Every plugin process (an Instance) delivers in three phases: a locked   *)
(* drain that persists "in_flight", an unlocked prompt of the host         *)
(* session, and a locked commit or requeue.  Other processes act between   *)
(* the phases: they send, kick, pause, save sessions, start up and sweep,  *)
(* or crash.  Each action below is one locked section or one unlocked      *)
(* step that other processes can observe.                                  *)
(***************************************************************************)
EXTENDS Mailbox

CONSTANTS
  Instance,       \* OpenCode plugin processes
  InitialUp,      \* the ones running in the initial state
  Hosted,         \* the sessions that live on each process's own server
  InitialMembers, \* the roster of each channel, <<>> if not created yet
  Mode,           \* delivery_mode of each session's members
  FaultKinds,     \* which of "crash", "store", "ack", "pull" may happen
  MaxFaults,      \* bound on the faults of one behaviour
  Senders,        \* the members that send (a bound)
  Churn           \* which of "kick", "leave", "join", "pause", "close",
                  \* "stale", "cool", "age" may happen (a bound)

ASSUME DeliveryAssumption ==
  /\ InitialUp \subseteq Instance
  /\ Hosted \in [Instance -> SUBSET Session]
  /\ InitialMembers \in [Channel -> Seq(Session)]
  /\ \A c \in Channel : Len(InitialMembers[c]) <= MaxMembers
  /\ Mode \in [Session -> {"push", "spawn_push", "pull"}]
  /\ FaultKinds \subseteq {"crash", "store", "ack", "pull"}
  /\ MaxFaults \in Nat

VARIABLES
  file,      \* the persisted state
  up,        \* running plugin processes
  sweeping,  \* processes whose startup sweep has not run yet
  local,     \* localSessions of each process
  call,      \* deliverPending of each process for each recipient
  fallback,  \* armed cross-server timers: the recipients of each process
  cross,     \* cross-server deliverPending calls due: fallbacks and retries
  answer,    \* pulled envelopes whose tool result is not out yet
  heard,     \* how often a host session accepted each envelope (history)
  faults     \* faults so far (bounded by MaxFaults)

vars == <<file, up, sweeping, local, call, fallback, cross, answer, heard,
          faults>>

procs == <<up, sweeping, local, call, fallback, cross>>

(***************************************************************************)
(* A deliverPending call: nothing running; the drained batch is being      *)
(* prompted; the host accepted it and the commit is due; it failed and the *)
(* requeue is due.                                                         *)
(***************************************************************************)
Call == [phase : {"idle", "prompting", "accepted", "failed"},
         ids : Seq(Msg), cross : BOOLEAN]

Idle == [phase |-> "idle", ids |-> <<>>, cross |-> FALSE]

InitialFile ==
  [life |-> [c \in Channel |->
               IF InitialMembers[c] = <<>> THEN "new" ELSE "active"],
   paused |-> {},
   members |-> InitialMembers,
   stale |-> [c \in Channel |-> {}],
   total |-> [c \in Channel |-> 0],
   cooling |-> {},
   overtime |-> {},
   sent |-> 0,
   aged |-> 0,
   chan |-> [n \in Send |-> NoChannel],
   status |-> [m \in Msg |-> "unsent"],
   attempts |-> [m \in Msg |-> 0],
   queues |-> [r \in Session |-> <<>>]]

Init ==
  /\ file = InitialFile
  /\ up = InitialUp
  /\ sweeping = {}
  /\ local = [i \in Instance |->
                IF i \in InitialUp THEN Hosted[i] ELSE {}]
  /\ call = [i \in Instance |-> [r \in Session |-> Idle]]
  /\ fallback = [i \in Instance |-> {}]
  /\ cross = [i \in Instance |-> {}]
  /\ answer = [r \in Session |-> {}]
  /\ heard = [m \in Msg |-> 0]
  /\ faults = 0

\* One fault of a kind the run allows.
Fault(kind) ==
  /\ kind \in FaultKinds
  /\ faults < MaxFaults
  /\ faults' = faults + 1

-----------------------------------------------------------------------------
(***************************************************************************)
(* Operations on the file by any process.  A process that is a plugin then *)
(* notifies the recipients: a local one is delivered to at once (Deliver   *)
(* is enabled for it), a spawn_push member is left to the spawn hook, and  *)
(* for any other the cross-server timer is armed.                          *)
(***************************************************************************)
SpawnMember(s, r) == Mode[r] = "spawn_push" /\ IsMember(s, r)

\* notifyRecipient for every r in R, in process i.
Notify(i, R) ==
  fallback' = [fallback EXCEPT ![i] =
                 @ \cup {r \in R : r \notin local[i] /\ ~SpawnMember(file', r)}]

Quiet == UNCHANGED fallback

\* Store s with what pruneMessages removes from it.
SavePruned(s) == \E D \in Doomed(s) : file' = Purge(s, D)

\* sendMessage by a member, or sendMessageAsOperator.
SendMail ==
  /\ \E c \in Channel :
       /\ CanSend(file, c)
       /\ \E sender \in Members(file, c) \cap Senders :
            \E R \in RecipientSets(file, c, sender) :
              /\ SavePruned(Enqueue(file, c, R))
              /\ Quiet \/ \E i \in up : Notify(i, R)
  /\ UNCHANGED <<up, sweeping, local, call, cross, answer, heard, faults>>

SendAsOperator ==
  /\ \E c \in Channel :
       /\ CanSend(file, c)
       /\ \E r \in Members(file, c) \ file.stale[c] :
            SavePruned(Enqueue(file, c, {r}))
  /\ UNCHANGED <<procs, answer, heard, faults>>

\* kickChannel by the coordinator, or removeMemberAsOperator.
KickMember ==
  /\ "kick" \in Churn
  /\ file.sent < MaxSend
  /\ \E c \in Channel : \E r \in Members(file, c) :
       /\ Active(file, c)
       /\ LET t == Kick(file, c, r)
          IN  /\ SavePruned(t)
              /\ \/ Quiet
                 \/ /\ r # Coordinator(file, c)
                    /\ \E i \in up : Notify(i, Members(t, c) \ t.stale[c])
  /\ UNCHANGED <<up, sweeping, local, call, cross, answer, heard, faults>>

Leave ==
  /\ "leave" \in Churn
  /\ \E c \in Channel : \E r \in Members(file, c) :
       Active(file, c) /\ file' = Disconnect(file, c, r)
  /\ UNCHANGED <<procs, answer, heard, faults>>

Join ==
  /\ "join" \in Churn
  /\ \E c \in Channel, r \in Session :
       \/ CanJoin(file, c, r) /\ file' = JoinChannel(file, c, r)
       \/ CanCreate(file, c) /\ file' = OpenChannel(file, c)
       \/ CanCreate(file, c) /\ file' = CreateChannel(file, c, r)
  /\ UNCHANGED <<procs, answer, heard, faults>>

PauseOrResume ==
  /\ "pause" \in Churn
  /\ \E c \in Channel, paused \in BOOLEAN :
       CanPause(file, c) /\ file' = SetPaused(file, c, paused)
  /\ UNCHANGED <<procs, answer, heard, faults>>

\* save_session after the archive is written, or delete_session.
CloseSession ==
  /\ "close" \in Churn
  /\ \E c \in Channel : Active(file, c) /\ file' = PurgeChannel(file, c)
  /\ UNCHANGED <<procs, answer, heard, faults>>

\* session.deleted and session.idle events of a member's host session.
SessionEvent ==
  /\ "stale" \in Churn
  /\ \E i \in up : \E r \in Hosted[i] :
       /\ IsMember(file, r)
       /\ \/ file' = MarkStale(file, r)
          \/ file' = ClearStale(file, r)
       /\ local' = [local EXCEPT ![i] = @ \cup {r}]
  /\ UNCHANGED <<up, sweeping, call, fallback, cross, answer, heard, faults>>

TimePasses ==
  /\ \/ "age" \in Churn /\ CanAge(file) /\ file' = Age(file)
     \/ /\ "cool" \in Churn
        /\ \E p \in file.cooling : file' = EndCooldown(file, p[1], p[2])
     \/ \E c \in Channel : CanOverrun(file, c) /\ file' = Overrun(file, c)
  /\ UNCHANGED <<procs, answer, heard, faults>>

-----------------------------------------------------------------------------
(***************************************************************************)
(* The push controller of process i, for recipient r.                      *)
(***************************************************************************)
\* Phase 1: the locked drain, saved before anything is prompted.
DrainAndPrompt(i, r, crossing) ==
  /\ IF IsManaged(file, r)
     THEN UNCHANGED <<file, call>>
     ELSE LET s == Drain(file, r)
              ids == Batch(file, r)
          IN  IF ids = <<>>
              THEN file' = s /\ UNCHANGED call
              ELSE /\ SavePruned(s)
                   /\ call' = [call EXCEPT ![i][r] =
                        [phase |-> "prompting", ids |-> ids,
                         cross |-> crossing]]

\* deliverPending on an idle event, a notify, a file watch or a retry.
Deliver(i, r) ==
  /\ i \in up /\ r \in local[i]
  /\ call[i][r].phase = "idle"
  /\ DrainAndPrompt(i, r, FALSE)
  /\ UNCHANGED <<up, sweeping, local, fallback, cross, answer, heard, faults>>

\* The 5s timer: cross-prompt only a push member.
FallbackFires(i, r) ==
  /\ r \in fallback[i]
  /\ fallback' = [fallback EXCEPT ![i] = @ \ {r}]
  /\ cross' = [cross EXCEPT ![i] =
       IF Mode[r] = "push" /\ IsMember(file, r) THEN @ \cup {r} ELSE @]
  /\ UNCHANGED <<file, up, sweeping, local, call, answer, heard, faults>>

\* deliverPending with allowCrossServer; a call in progress drops it.
DeliverCross(i, r) ==
  /\ r \in cross[i]
  /\ cross' = [cross EXCEPT ![i] = @ \ {r}]
  /\ IF call[i][r].phase = "idle"
     THEN DrainAndPrompt(i, r, TRUE)
     ELSE UNCHANGED <<file, call>>
  /\ UNCHANGED <<up, sweeping, local, fallback, answer, heard, faults>>

\* Phase 2 ends: the host accepts the prompt, with what it still contains.
Hear(ids) ==
  heard' = [m \in Msg |->
    IF m \in Elems(ids) /\ m \in Persisted(file) THEN heard[m] + 1
    ELSE heard[m]]

Goto(i, r, phase) == call' = [call EXCEPT ![i][r].phase = phase]

PromptAccepted(i, r) ==
  /\ call[i][r].phase = "prompting"
  /\ Hear(call[i][r].ids)
  /\ Goto(i, r, "accepted")
  /\ UNCHANGED <<file, up, sweeping, local, fallback, cross, answer, faults>>

PromptThrows(i, r) ==
  /\ call[i][r].phase = "prompting"
  /\ Goto(i, r, "failed")
  /\ UNCHANGED <<file, up, sweeping, local, fallback, cross, answer, heard,
                 faults>>

\* The host accepted the prompt but the call was rejected.
AcknowledgementLost(i, r) ==
  /\ Fault("ack")
  /\ call[i][r].phase = "prompting"
  /\ Hear(call[i][r].ids)
  /\ Goto(i, r, "failed")
  /\ UNCHANGED <<file, up, sweeping, local, fallback, cross, answer>>

EndCall(i, r) == call' = [call EXCEPT ![i][r] = Idle]

\* Phase 3: the locked commit.
CommitBatch(i, r) ==
  /\ call[i][r].phase = "accepted"
  /\ file' = Commit(file, r, call[i][r].ids)
  /\ EndCall(i, r)
  /\ UNCHANGED <<up, sweeping, local, fallback, cross, answer, heard, faults>>

\* The lock or the save of the commit failed: the same catch as a throw.
CommitFails(i, r) ==
  /\ Fault("store")
  /\ call[i][r].phase = "accepted"
  /\ Goto(i, r, "failed")
  /\ UNCHANGED <<file, up, sweeping, local, fallback, cross, answer, heard>>

\* The catch block: requeue, and one retry with the same allowance (a local
\* retry is one more occasion for Deliver).
RequeueBatch(i, r) ==
  /\ call[i][r].phase = "failed"
  /\ file' = Requeue(file, r, call[i][r].ids)
  /\ EndCall(i, r)
  /\ cross' = [cross EXCEPT ![i] =
                 IF call[i][r].cross THEN @ \cup {r} ELSE @]
  /\ UNCHANGED <<up, sweeping, local, fallback, answer, heard, faults>>

RequeueFails(i, r) ==
  /\ Fault("store")
  /\ call[i][r].phase = "failed"
  /\ EndCall(i, r)
  /\ UNCHANGED <<file, up, sweeping, local, fallback, cross, answer, heard>>

-----------------------------------------------------------------------------
(***************************************************************************)
(* Processes starting and dying.                                           *)
(***************************************************************************)
Start(i) ==
  /\ i \notin up
  /\ up' = up \cup {i}
  /\ sweeping' = sweeping \cup {i}
  /\ UNCHANGED <<file, local, call, fallback, cross, answer, heard, faults>>

\* Slip: the recovered state is not saved.
StartupSweepUnsaved(i) ==
  /\ i \in sweeping
  /\ sweeping' = sweeping \ {i}
  /\ UNCHANGED <<file, up, local, call, fallback, cross, answer, heard, faults>>

StartupSweep(i) ==
  /\ i \in sweeping
  /\ sweeping' = sweeping \ {i}
  /\ file' = Sweep(file)
  /\ UNCHANGED <<up, local, call, fallback, cross, answer, heard, faults>>

\* A session event on its bus shows the process that it hosts the session.
MarkLocal(i, r) ==
  /\ i \in up /\ r \in Hosted[i] \ local[i]
  /\ local' = [local EXCEPT ![i] = @ \cup {r}]
  /\ UNCHANGED <<file, up, sweeping, call, fallback, cross, answer, heard,
                 faults>>

\* Slip: a sweep outlives its process.
CrashLeavesSweep(i) ==
  /\ Fault("crash")
  /\ i \in up
  /\ up' = up \ {i}
  /\ local' = [local EXCEPT ![i] = {}]
  /\ call' = [call EXCEPT ![i] = [r \in Session |-> Idle]]
  /\ fallback' = [fallback EXCEPT ![i] = {}]
  /\ cross' = [cross EXCEPT ![i] = {}]
  /\ UNCHANGED <<file, sweeping, answer, heard>>

Crash(i) ==
  /\ Fault("crash")
  /\ i \in up
  /\ up' = up \ {i}
  /\ sweeping' = sweeping \ {i}
  /\ local' = [local EXCEPT ![i] = {}]
  /\ call' = [call EXCEPT ![i] = [r \in Session |-> Idle]]
  /\ fallback' = [fallback EXCEPT ![i] = {}]
  /\ cross' = [cross EXCEPT ![i] = {}]
  /\ UNCHANGED <<file, answer, heard>>

-----------------------------------------------------------------------------
(***************************************************************************)
(* opencomms_pull: drain and commit in one locked section, then the tool   *)
(* result; the MCP server may die in between.                              *)
(***************************************************************************)
Pull(r) ==
  /\ Mode[r] # "push"
  /\ IsMember(file, r)
  /\ answer[r] = {}
  /\ LET s == Drain(file, r)
         ids == Batch(file, r)
     IN  IF ids = <<>>
         THEN file' = s /\ UNCHANGED answer
         ELSE \E D \in Doomed(s) :
                /\ file' = Commit(Purge(s, D), r, ids)
                /\ answer' = [answer EXCEPT ![r] = Elems(ids) \ D]
  /\ UNCHANGED <<procs, heard, faults>>

PullAnswered(r) ==
  /\ answer[r] # {}
  /\ heard' = [m \in Msg |->
       IF m \in answer[r] THEN heard[m] + 1 ELSE heard[m]]
  /\ answer' = [answer EXCEPT ![r] = {}]
  /\ UNCHANGED <<file, procs, faults>>

PullLost(r) ==
  /\ Fault("pull")
  /\ answer[r] # {}
  /\ answer' = [answer EXCEPT ![r] = {}]
  /\ UNCHANGED <<file, procs, heard>>

-----------------------------------------------------------------------------
Operations ==
  \/ SendMail \/ SendAsOperator \/ KickMember \/ Leave \/ Join
  \/ PauseOrResume \/ CloseSession \/ SessionEvent \/ TimePasses

Controller(i, r) ==
  \/ Deliver(i, r) \/ FallbackFires(i, r) \/ DeliverCross(i, r)
  \/ PromptAccepted(i, r) \/ PromptThrows(i, r) \/ AcknowledgementLost(i, r)
  \/ CommitBatch(i, r) \/ CommitFails(i, r)
  \/ RequeueBatch(i, r) \/ RequeueFails(i, r)
  \/ MarkLocal(i, r)

Lifecycle(i) == Start(i) \/ StartupSweep(i) \/ Crash(i)

Puller(r) == Pull(r) \/ PullAnswered(r) \/ PullLost(r)

Next ==
  \/ Operations
  \/ \E i \in Instance :
       Lifecycle(i) \/ \E r \in Session : Controller(i, r)
  \/ \E r \in Session : Puller(r)

Spec == Init /\ [][Next]_vars

(***************************************************************************)
(* Fairness.  A host answers a prompt or the call rejects; the steps that  *)
(* settle a batch follow in the same async function and retry the lock     *)
(* until they hold it; a plugin process is started again with the next     *)
(* OpenCode server, and its startup sweep is called unconditionally.       *)
(* Nothing is assumed of senders, events, timers or faults.                *)
(***************************************************************************)
Fairness ==
  /\ \A i \in Instance : WF_vars(Start(i)) /\ WF_vars(StartupSweep(i))
  /\ \A i \in Instance, r \in Session :
       /\ WF_vars(PromptAccepted(i, r) \/ PromptThrows(i, r))
       /\ WF_vars(CommitBatch(i, r))
       /\ WF_vars(RequeueBatch(i, r))

FairSpec == Spec /\ Fairness

-----------------------------------------------------------------------------
(***************************************************************************)
(* Properties.                                                             *)
(***************************************************************************)
\* The variables hold what the code stores in them.
TypeOK ==
  /\ file \in State
  /\ up \subseteq Instance
  /\ sweeping \subseteq up
  /\ local \in [Instance -> SUBSET Session]
  /\ call \in [Instance -> [Session -> Call]]
  /\ fallback \in [Instance -> SUBSET Session]
  /\ cross \in [Instance -> SUBSET Session]
  /\ answer \in [Session -> SUBSET Msg]
  /\ heard \in [Msg -> Nat]
  /\ faults \in 0..MaxFaults

\* A queue names pending envelopes of its own recipient only.  drainQueue
\* skips entries that are delivered or in flight but hands over any other,
\* so a rejected, stale or failed envelope left in a queue would be
\* delivered after all.
QueuesHoldPending ==
  \A r \in Session : \A i \in DOMAIN file.queues[r] :
    /\ file.queues[r][i][2] = r
    /\ file.status[file.queues[r][i]] = "pending"

\* No envelope is queued twice: every unshift of requeue and sweep tests it.
QueuedOnce ==
  \A r \in Session : \A i, j \in DOMAIN file.queues[r] :
    file.queues[r][i] = file.queues[r][j] => i = j

\* No pending envelope is lost from its queue, whatever kicks, purges,
\* sweeps and requeues happened while batches were out.
PendingIsQueued ==
  \A m \in Msg :
    file.status[m] = "pending" => m \in Elems(file.queues[m[2]])

\* Together: pending mail is exactly the queued mail.
PendingIffQueued == QueuesHoldPending /\ QueuedOnce /\ PendingIsQueued

\* "delivered" means a host session accepted the prompt, or a pull answer
\* with the envelope is on its way.
DeliveredWasHeard ==
  \A m \in Msg : file.status[m] = "delivered" =>
    heard[m] > 0 \/ m \in answer[m[2]]

\* Together: the file is well formed and its records of deliveries are true.
DeliveriesSound == TypeOK /\ DeliveredWasHeard

\* At most once to the model, but for faults: each repeat is paid for by a
\* save that failed after the host had accepted the prompt.
RepeatsAccounted == \A m \in Msg : heard[m] <= 1 + faults

\* A batch never overruns the lifetime budget of a conversation.
BudgetKept ==
  \A c \in Channel :
    Budget[c] # 0 => file.total[c] <= Budget[c]

\* Committed envelopes are never resurrected.
NeverResurrected ==
  [][\A m \in Msg : file.status[m] = "delivered" =>
       file'.status[m] \in {"delivered", "purged"}]_vars

\* A rejected, stale or failed envelope is never handed over again.
RefusalIsFinal ==
  [][\A m \in Msg : file.status[m] \in {"rejected", "stale", "failed"} =>
       file'.status[m] \in {file.status[m], "purged"}]_vars

\* An envelope in flight is eventually settled, also after its process died.
FlightsLand ==
  \A m \in Msg :
    file.status[m] = "in_flight" ~> file.status[m] # "in_flight"

\* Pushed, cross-prompted, pulled, requeued after a failure or swept after a
\* crash: no interleaving of processes breaks what the engine promises of an
\* envelope.
Contract == INSTANCE MailContract WITH
  Envelope <- Msg, Room <- Channel, NoRoom <- NoChannel,
  Limit <- Budget, Cap <- MaxAttempts,
  stage <- Stages(file), tries <- file.attempts, room <- RoomOf(file),
  spent <- file.total, taking <- Taking(file), closed <- GoneRooms(file)
KeepsContract == Contract!Spec

=============================================================================
