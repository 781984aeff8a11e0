# OpenComms in TLA+

OpenComms lets agents that run in different hosts (OpenCode, Claude Code, Codex,
Gemini CLI, ...) talk in channels, and lets a coordinator create such agents, give
them tasks and drive them.  There is no message server: every host runs its own
process with the same engine, and all of them share two JSON files,
`<project>/.opencomms/state.json` and `orchestrator.json`, under lock files.  Most
of what is hard in this program follows from that: each process takes a lock for a
moment, lets go of it to do something slow (prompt a model, start an agent, write an
archive), and takes it again to record the outcome, while others do the same.

This directory holds the specification of that behaviour, the TLC models that
check it on small instances, and proofs, checked by TLAPS, that central
properties hold for any number of processes, sessions, channels and messages.

Contents: 1 inventory, 2 plan, 3 the modules, 4 the runs, 5 where the code and
its documentation disagree, 6 fairness, 7 proofs, 8 what is not modelled.

## 1. Inventory

`PROJECT.json` lists the components with their source files and every hazard
with its line.  In short (paths below `src/src/`):

| component | state | operations | what is hard | what makes it correct | module |
|---|---|---|---|---|---|
| Mailbox engine (`core/engine.ts`) | channels, rosters, envelopes, queues, counters | create, join, leave, kick, pause, send, drain, commit, requeue, sweep, prune, close; rate, repeat and hop limits; the clock | operations of one process between two phases of another's delivery | pending mail is exactly the queued mail; refused mail stays refused; budget, limits, time | `Mailbox`, `Conversation` |
| OpenCode push delivery (`hosts/opencode/delivery.ts`, `plugin.ts`) | local sessions, running calls, timers | deliver, fall back, retry, startup sweep | unlocked prompt, crash and failed save between phases, several processes for one queue | at most once to the model; delivered means heard; everything in flight settles | `Delivery` |
| MCP tools (`mcp/opencomms-tools.ts`) | identity per process | pull and the engine operations | the answer is committed before it is sent | as above | `Delivery`, `Sessions`, `NativeDelivery` |
| State store (`core/store.ts`, `atomic-file.ts`) | lock file, state file, v1 file and its marker | lock, break a stale lock, load (with migration), save | a holder that dies; two breakers of one stale lock; loads that save without the lock | one holder, but for those a break ousted; an update is lost to such a break only; old conversations arrive | `AtomicStore`, `StateLock`, `StateFiles` |
| Archive and sessions (`core/archive.ts`, `plugin.ts`) | archive files | save, resume, delete a session | two files, no common commit | a session is live, archived or deleted, and no message is lost | `Sessions` |
| Spawned delivery (`hosts/spawn-delivery.ts`) and hooks (`adapters/claude-code/hooks.ts`, Gemini's) | active deliveries, bindings of native sessions | drain, spawn, time out, commit or requeue; bind, hand over at a prompt | a look-up, a size check and a drain in three sections; nobody sweeps for a hook | mail is handed out once per reason; a binding is not stolen | `NativeDelivery` |
| Agents (`orchestrator/api.ts`) | agent records | create, stop, restart | three phases with the host asked unlocked | names and sessions stay apart; a stopped agent rests | `Agents`, `AgentLifecycle` |
| Managed delivery (`orchestrator/managed-delivery.ts`), emergency stop (`gui/server.ts`) | tick, outcome of a prompt, flags in memory and on disk | tick: ask, note, drain, prompt, settle; stop and resume | uncertain outcomes; stale reads across awaits; two controllers | one prompt per agent, none replayed; a stop holds; users' pauses survive it | `ManagedDelivery` |
| Tasks (`orchestrator/tasks.ts`, `api.ts`) | task records | assign, report, review, hand over, reconcile | journal, send, mark sent in separate saves of two files | one envelope per request, found again; completion is earned | `TaskLedger` |
| Node federation (`api.ts`, `node-ca.ts`, `node-wire.ts`) | codes, node records, keys in memory, revocation list | issue, claim, approve, revoke, restart | a section changes three places and may fail in between | a code pairs once; a revoked node stays out | `Nodes` |
| GUI server, bridge, serve child (`gui/server.ts`, `orchestrator/bridge.ts`, `runtimes/opencode.ts`) | selected project, stop flag, child, requests | requests, project selection, shared start, close, crash | handlers that await between reading and acting | a request stays in its project; children are accounted for; a stop is retained; all is answered | `Coordinator` |
| Orchestrator state (`orchestrator/state.ts`) | second JSON file, event log | load, renew, save | load saves without the lock | no lost update | `StateFiles` |
| Page, integrations, installers, daemon, builds | little | wrappers and configuration files | - | - | section 8 |

**How they interact.**  All through the JSON files.  A process that changed
`state.json` may notify the recipients it knows; every other process learns of
it from a file watch, an idle event of its host or a timer.  The coordinator
drives agents through runtimes (child processes, HTTP), which are environment.

Modules share what the components share.  `Mailbox` is the engine, used by `Delivery`,
`ManagedDelivery` and `NativeDelivery`, the three callers of drain, commit and requeue;
each of the three implements `MailContract`, which says what the engine promises of an
envelope whoever hands it over.  `Agents` is the roster of managed agents, used by
`AgentLifecycle`, which changes it, and `ManagedDelivery`, which runs on it. `StateLock`
implements `AtomicStore`, which is the assumption under which each of the other modules
makes a locked section one step as long as no lock is taken from its holder; `StateFiles`
takes up the loads that do not take the lock.

## 2. Plan

Done, in this order: `Mailbox`, `Delivery` and their proofs; `AtomicStore`, `StateLock`
and proofs; `Agents`, `AgentLifecycle`; `ManagedDelivery`; `TaskLedger`; `Nodes`;
`Coordinator`; `Sessions`; `NativeDelivery`; `Conversation`; `StateFiles`; proofs about
`Nodes`, `Coordinator`, `AgentLifecycle` and `StateFiles`; then the proofs about
`Delivery` without late sweeps, `ManagedDelivery` and `TaskLedger`; then those about
`Sessions`, `Conversation`, `NativeDelivery` and the codes of `Nodes`, with which every
safety property a run checks is also a theorem; then `MailContract` and the proofs that
the three deliveries implement it.

Worth doing next:

- `Wakeup`: what makes a delivery happen after a cooldown or a dropped call (file
  watch, idle event, retry); `Delivery` lets it happen at any time.
- The event log of the orchestrator and the cursor of its clients.

## 3. The modules

Each `MC...` module extends one of these with the values of its run; each
`...Proofs` module extends what it is about with theorems (`EngineProofs` four modules,
`CoordinatorProofs` two; section 7).  Operators marked *slip* are
wrong versions of the operator or action after them (a dropped guard, a missing reset, a
swapped order).  No action uses them; they are there to see that each property
notices the mistake it is about.

### Mailbox: the file and the engine

One operator per engine operation, from a state of the file to the next.  The
engine runs each of them between `withLock`, `load` and `save`, so one application
is one atomic change; the modules of the processes say when it happens.

| field of `State` | in `types.ts` / the code |
|---|---|
| `life`, `paused`, `members`, `stale` | `state.channels[id]`: present or not, `status`, `members` in order, `members[].stale` |
| `total` | `delivered_total`, compared with `max_delivered_messages` (`Budget`) |
| `cooling` | `last_delivery_at` of a recipient within `delivery_cooldown_ms` |
| `overtime` | `created_at` older than `max_runtime_ms` |
| `sent`, `chan` | `messages[id].channel_id`; a send is a number, its timestamp |
| `aged` | sends older than the stale window |
| `status`, `attempts` | `messages[id].delivery_status`, `attempts`; "unsent" and "purged" stand for absent |
| `queues` | `state.queues[sessionId]` |

An envelope is the copy of one send for one recipient.  `pruneMessages` sorts by
timestamp, so among copies of one broadcast it may remove any: `Doomed` is the
set of its choices.  `drainQueue` is a loop with four exits per entry; here it is a
partition of the queue's indices (`Orphaned`, `Held`, `Expired`, `Taken`, and
`Remaining`), each set with the guard of its exit.  The loop's running totals
become `SameChannelBefore`, and its rule that the cooldown is looked at only while
the batch is empty becomes `Openers` and `Reached`.

### MailContract: what the engine promises

The abstract specification of the engine: no queues, sessions, batches or processes, only
where each envelope is (`stage`), how often it was handed over (`tries`), its conversation
(`room`), and for each conversation what it was charged (`spent`), whether it takes mail
(`taking`) and whether it is gone (`closed`).  The reasons for which waiting mail is
refused (`rejected`, `stale`, `failed`) are one stage.  A step is a locked section: it
moves any number of envelopes, each by one of the moves named after the engine's
operations.

- Only what waits is handed over (`HandedOver`), from a conversation that takes mail, all
  that one section hands over to one recipient; no other move changes `tries`.
- What was recorded as delivered waits again only within the attempt cap (`PutBack`), and
  only past the cap is mail that is out refused (`Refused`).  A sweep puts mail in flight
  back at any number of attempts, as the code does.
- A conversation that is not gone pays one for each of its envelopes that is handed over,
  for nothing else, and never more than its limit (`Charges`).  One that is gone does not
  come back.
- Refused mail stays refused until it is deleted, and deleted mail deleted.

The order of the mail, the stale window and the cooldown are left to `Mailbox`. `Stages`,
`RoomOf`, `Taking` and `GoneRooms` at the end of `Mailbox` are the refinement mapping;
`KeepsContract` in `Delivery`, `NativeDelivery` and `ManagedDelivery` is the refinement;
runs check it of the first and the last, and section 7 has the proof for all three.

### Delivery: the OpenCode plugins and pull

| variable | in the code |
|---|---|
| `up`, `sweeping` | plugin processes; `startupSweep` is called once each, un-awaited |
| `local` | `localSessions` of `createDeliveryController` |
| `call` | one `deliverPending` per process and recipient (`inFlight`), its phase and batch |
| `fallback`, `cross` | armed 5 s timers of `notifyRecipient`; the calls with `allowCrossServer` they lead to, and its retries |
| `answer` | `opencomms_pull` results computed and not yet written to the pipe |
| `heard` | history: how often a host session accepted an envelope |
| `faults` | bound on faults |

`deliverPendingInner` is cut exactly where another process can act: the locked
drain that is saved (`DrainAndPrompt`), the end of the unlocked prompt
(`PromptAccepted`, `PromptThrows`, or `AcknowledgementLost` when the host took it
and the call failed), the locked commit (`CommitBatch`, `CommitFails`), and the
catch block's locked requeue (`RequeueBatch`, `RequeueFails`).  A prompt contains
what of its batch is still in the file when it is written (`Hear`).  `Crash` may
come between any two of these; `Start` brings the process back and
`StartupSweep` runs later, as it is not awaited.  The operations of the tools, the
GUI and the CLI are actions of no particular process (`Operations`).

Choices of the model, each of which allows more than the code or is stated:

- A drain may happen at any time for a local session.  The code needs an idle
  event, a notify or a file change.  Safety holds for more behaviours than it
  has; liveness claims nothing that depends on a wake-up.
- A locked section is one step.  That is what the lock promises; `StateLock`
  says what is left of the promise when locks are broken.
- `delivery_mode` of a session does not change during a behaviour, and is the same
  in all its channels.
- A pull server answers one call before it drains for the next (stdio).
- Processes in `InitialUp` have already seen the sessions they host.
- The limits of a send only refuse sends; `CanSend` leaves out those that
  `Conversation` models, so it allows more sends.

### Conversation: limits, replies, the clock

One channel, with what `Mailbox` leaves out: `rate` and `seen` are the fields
`channel.rate` and `channel.seen_content`; `clock` is `channel.timer`; `msgs` is every
send with its sender, content, time, parent and hop count, of which `Stored` tells what
pruning has left in the file.  Time is a number that `TimePasses` counts up; `RateLimit`,
`Window`, `StaleAfter`, `MaxHops` are the configured limits.  `Role` maps the spelling of
a role to its normal form (`roleKey`).  `Used` is what the timer charges a member, the
segment that runs included.  `Envelopes` counts the copies that were ever stored (field
`upto` of the last message), a removal notice counts as a message of no content
(`NoContent`).  `lost` are the members marked stale; `HostLost` marks one, or marks it
again, which ends the segment it may have begun since.  `ranFor` and the fields of `msgs`
that the file does not have are history.

### AtomicStore, StateLock: the lock file

`AtomicStore` is what the store promises its callers: the content of the file is the set
of changes it contains (`store`), a step adds one change that was not made before
(`past`), and what is in `kept` is under every later change.  A change that is not kept
may be overwritten, and come back; while every change is kept, a step adds one to all the
changes there were, which is what the other modules take for granted. `StateLock` is
`withLock` around `update` (and `ownLock` of the orchestrator store, which has the same
steps), with every file system call a step of its own.

| variable | in the code |
|---|---|
| `lock` | the lock file, with the process that created it; its content is advisory and never read |
| `stale` | `Date.now() - mtimeMs > LOCK_STALE_MS` for the lock file there is now |
| `pc` | where each process is in the retry loop, in `fn`, or in `finally` |
| `content`, `read` | the state file; the state a process loaded in its section |
| `made` | how many changes a process has saved |
| `late`, `ousted`, `kept` | history: about to unlink a lock file that is gone; in a section whose lock file was removed; the changes saved while nobody was ousted |

`Open` is the exclusive create, `Inspect` the stat and the comparison of the age, `Break`
the unlink that follows.  Both unlinks remove whatever lock file is there when they run,
which is what makes the protocol delicate.  `Age` makes a lock file stale when its owner
is no longer in its section, or is one of the `Slow` processes, whose section may outlast
15 seconds.  `Break` records whom it ousts only if the lock is stale or the breaker is
late, and `Leave` only on behalf of a process that was ousted itself, so that a break of
any other kind would show as a second holder (`OneHolder`).  A process that dies does not
return; a restarted host is another process.  Two calls of `withLock` in one process are
two members of `Proc`: `fn` is synchronous, so the model has more interleavings than the
code there. The deadline of five seconds may pass at any retry (`GiveUp`).

### StateFiles: loads, the cutover, damage

`StateStore.load` with `migrateFromLegacyIfPresent`, and `OrchestratorStore.load` and
`update`.  `legacy`, `marker`, `file`, `orch` are the four files; `job` and `at` say
what each process loads for (a change, under the lock; `Reading` and `Looking`,
without it) and where it is; `copy` and `plan` are what it holds in memory.  The
content of `state.json` is, for each session name, whether it was opened, joined or
came from the v1 file; of `orchestrator.json` the number of changes in it.
`overtaken` records that a change was saved while an unlocked load was
about to write: the one exception of `ChangesKept`.

### Sessions: live, archived, deleted

`chan` and `stored` are the channels and messages in the state file, `archive` the archive
files, `saving` the session whose `save_session` has written its archive and still holds
the lock.  `Create`, `JoinChannel`, `LeaveChannel`, `SendMail`, `WriteArchive`,
`CommitSave`, `SaveStops`, `ArchiveTorn`, `Resume`, `DeleteLive` and `DeleteArchive` are
the tool calls of an OpenCode agent, of an MCP member (which first looks its member up on
a live roster, `MayCall`) and of the operator in GUI or CLI.  A name is a base name with
the suffixes `-r2`, `-r3` a resume added (`FreeRungs`).

### NativeDelivery: hooks and spawned turns

`bound` is `host_session_id` of each roster row; `hook` and `run` are the hook processes
and the background jobs of the MCP server, with their phases.  A hook fires (`Fire`),
finds or binds its member (`HookOfKnown`, `HookBinds`, `HookOfNobody`), drains in one
locked section (`HookEnters`), reads the state again (`HookReads`), commits in another
(`HookCommits`) and answers (`HookAnswers`); `HookFails` ends it anywhere.  A job takes
the recipients one by one (`LookUp`, `CheckSize`, `DrainForSpawn`, `SpawnRuns` or
`SpawnFails`, `SpawnCommits` or `RequeueBatch`). `PluginSweeps` is an OpenCode plugin of
the same project that starts.  A member may have a row in each of two channels; `Rooms`
says who is in them at first, per plan.  `ended` are the native sessions that ended since
a hook of theirs found or bound its member, `late` (history) the rows that a `SessionEnd`
marked stale while the session they were bound to had not ended.  The plan of a behaviour
says which kinds of event happen in it; it bounds the run, each kind combined with those
it interferes with.

### Agents, AgentLifecycle

`Agents` has the record of an agent and what the sections do to the list.
`AgentLifecycle` runs `createAgent`, `stopAgent` and `restartAgent` as open calls
(`calls`, with a phase) that reserve under the lock, ask the host without it, and
record under it; `alive` and `working` are the host's sessions.  `Crash` ends
all calls, the host goes on.

### ManagedDelivery: the tick and the emergency stop

`tick` is the loop of each delivery controller with its locals: a step per await of
`tick()`.  `current` and `closed` are the controller in use and the ones whose
`stopped` flag is set, which may still be in their last await.  `conn` is what the
host would report of a session, `acp` the agents that run over ACP, whose prompts
answer at the end of the turn.  `memory` and `disk` are `coordinationStopped` with
`emergencyPaused`, and `coordination` in `orchestrator.json`.  Plans as above.

### TaskLedger: assignments, reports, handoffs

`tasks` are the task records in `orchestrator.json`, `mail` the envelopes in `state.json`
that carry their markers.  An action is a locked section of `api.ts` over both files and
takes a `far`: how far its saves got before the process died.  `View` is what `reconcile`
makes of a load.  `Mailbox` is here only the status an envelope moves through
(`MailMoves`).  A channel in `LongChannel` has a name of more than 200 characters: the
assignment is saved, and the next load rejects the file and begins a new ledger (`dropped`
is history: that this happened).  `Unused` are the ids `newMessageId` may draw: those of
no envelope, and of none that a handoff set aside before it died, as a UUID does not come
twice.

### Nodes: pairing, trust, revocation

`nodes`, `listed`, `pending`, `codes` are in `orchestrator.json`; `held` is
`nodeClaimedKeys` of each coordinator's memory; `revoked` and `cert` belong to the
certificate authority.  A code is a number, in the order they are given out (`issued`), as
each is a new random one; `LastCodes` is the cap on the list.  `ClaimNotSaved` and
`RevokeNotSaved` are sections whose save fails after memory or the authority changed.

### Coordinator: the process around them

One slot per HTTP connection and one for the bridge; `req` has the request a slot works
on, in which phase, and the project it read.  An action is the code between two awaits of
a handler.  `serve` and `startup` are `serveChild` and `serveStartup`; `child` is each
`opencode serve` process there is; `stopped`, `remembered` and `saved` are the stop in
memory, the remembered one of each project and the one in its file. `Close`, `Closed`,
`Reopen` and `Crash` are the life of the process.  `aborted` are the connections whose
client went away while a handler was at work (`Abort`): `server.close()` waits for
connections, so `Closed` does not wait for these, and `startGui` then exits with their
handlers under way; `startBridge` does not exit by itself, so in plans with a shell
(`ByShell`) `Closed` waits for the handlers too.  `Again` is what the next process finds:
what it cannot see any more is an "orphan", and a stop or resume cut off half way is in
`unsure`.  A child that exits is forgotten (`ChildExits`); one that a signal killed
(`ChildKilled`) has no exit code and is still taken for running (`Usable`).

## 4. The runs

Names are model values; sends are numbers.  Deadlock is checked in `Coordinator`; in the
other runs the system rests when the bounded work is done.  `MaxAttempts` is 2 (5 in the
code), small enough that retries reach the cap.  Symmetry is used in `Nodes`, `Sessions`,
`Conversation` and `StateFiles`, which check no liveness and treat the permuted values
alike.

| run | instance | distinct states | shows |
|---|---|---|---|
| `Delivery_normal` | an owner and a fallback process, pull member a, push member b, 2 sends, budget 3; joins, departures, kicks, pauses, closing; one failed save or lost answer | 152 k | `RepeatsAccounted`, `PendingIffQueued`, `NeverResurrected`, `KeepsContract` (the refinement, with the budget): without late starts, mail is heard once but for the fault and delivered mail stays delivered |
| `Delivery_settles` | a second process starts and sweeps while the first delivers, two crashes or lost acknowledgements, time | 46 k | `DeliveriesSound`, `RefusalIsFinal`, `FlightsLand` |
| `StateLock_recovers` | three processes with two changes each, one of which may die anywhere and one may hold the lock for more than 15 s | 603 k | `OneHolder`, `UpdatesAtomic` (the refinement), `LockRecovers` |
| `AgentLifecycle` | 2 agents, 2 open calls, 3 requests that share a name or an operation id, one fault | 0.8 M | `RosterSound`, `StoppedIsQuiet`, `IdentityKept`, `StartingEnds` |
| `ManagedDelivery` | 1 agent with up to 2 sessions, 2 sends, 2 controllers, 2 emergency calls, one fault, 7 plans | 0.30 M | `PromptsSound`, `PausesAccounted`, `UncertainWaits`, `StopHolds`, `MailMoves`, `KeepsContract` (the refinement) |
| `TaskLedger` | 2 tasks, 2 agents, 2 channels, one of them with an overlong name, 3 envelopes, revisions to 5, one interrupted section, 4 plans | 229 k | `MailAccounted`, `OneLiveEnvelope`, `CompletionEarned`, `LedgerKept` |
| `Nodes` | 1 node, 2 keys, 3 codes in a list of 2, 3 coordinators, 2 faults | 206 k | `CodesSound`, `RevokedStaysOut`, `TrustSound` |
| `Coordinator` | 2 projects, 2 connections and the bridge, 3 children, 4 requests, two faults, among them clients that go away and children killed by a signal, 5 plans | 258 k | `RequestsStayHome`, `ChildrenSound`, `StopRetained`, `RequestsAnswered` |
| `Sessions` | 2 agents and the operator, 3 sessions, 3 messages, ladder of 1, cap 2, one fault | 1.2 M | `Preserved`, `EndsOnce` |
| `NativeDelivery` | 2 channels, 2 pinned members, 2 native sessions, 2 hooks, 2 jobs, 2 sends, 2 faults, 2 joins or departures, 9 plans | 1.07 M | `MailAccounted`, `TurnsApart`, `NotStolen` |
| `Conversation` | 2 members and the operator, 2 contents, 3 sends, 4 other operations, time to 4, limits 1 or 2 | 1.3 M | `GateHolds`, `ClockSound` |
| `StateFiles` | 2 processes, a v1 session and a new name, 2 orchestrator changes, one death, one damage | 2.4 M | `ChangesKept`, `LegacyArrives` |

Why these bounds are enough for the hazards they are about: a race over a batch needs two
processes and one envelope, a double charge needs one retry, an overrun needs a batch of
two with room for one; a lost update needs a lock broken under its holder: by a second
breaker, which takes three processes, or because the holder is slow; a stolen binding
needs two native sessions and a row that is joined later or marked by a late `SessionEnd`;
a stop that is lost needs two projects; an interrupted section needs one death between two
saves and one retry; a repeated code needs two keys; a limit needs one send past it.  What
the bounds do not reach: pruning by `MaxPersisted` removes nothing in `Delivery_normal`
(the proofs of section 7 cover it for all constants; `Conversation` and `Sessions` do
reach it).

## 5. Where the code and its documentation disagree

Met while modelling.  Each is a behaviour of the model; where a property names it as an
exception, the exception is given, and where a run shows it only after a small change of its
instance, the change.

Delivery:

- A plugin that starts sweeps the live prompts of others, and
  `requeueFailedDelivery` takes back envelopes that are already delivered
  (`engine.ts:1111`).  Two processes prompt one envelope, one commits it, the other
  fails and makes it pending again.  `docs/PROTOCOL.md:57-59` says committed envelopes
  are never resurrected.  (`Delivery_normal` with `InitialUp = {p1}`:
  `NeverResurrected`.)
- A failed prompt puts a kicked member's mail back in its queue, and a drain does
  not look at the roster: it still receives the channel's traffic, which the comment at
  `engine.ts:820-824` excludes.
- `removeMember` rejects the session's pending mail of every channel
  (`engine.ts:703`); `engine.ts:821-822` says only the channel link is severed.
- When two processes' prompts of one queue fail in the order of their drains,
  the newer batch ends in front (`engine.ts:1120`); `docs/PROTOCOL.md:64` says FIFO.
- The sweep does not compare attempts with `MAX_DELIVERY_ATTEMPTS` (`engine.ts:1172`), so
  a prompt that takes its process down is repeated after every restart; the
  comment at `engine.ts:1128` says the constant bounds retries.
- Managed delivery promises that an uncertain prompt is not replayed
  (`managed-delivery.ts:27`).  A kick of the agent's session, a plugin start and a relink
  replay it: the exception `removed` in `PromptsSound` and `UncertainWaits`. For an agent
  of OpenCode the controller that was made after a stop may replay it while the prompt of
  the one before is still running; a running ACP connection takes no second prompt.  The
  run has both in its plans; `OnePromptEach` excepts an OpenCode session that was removed,
  or whose mail in flight was pruned (`LostSight`).

Hooks and spawned turns:

- A second row of a bound member begins unbound (`opencomms-tools.ts:135`), so a second
  window takes it at its `SessionStart` (`hooks.ts:247-261`), against the comment at
  `hooks.ts:222` that bindings are not stolen.  The run has members that join a second
  channel; `NotStolen` excepts a row that was never bound.  A member joined to two
  channels before the first start counts twice and is never bound.  A late `SessionEnd` of
  the old session marks the new one stale, so that it can be taken from it: the other
  exception (`late`).
- A hook commits before it hands the context to its host; the comment at
  `hooks.ts:162-165` says after.  A commit that fails leaves mail in flight until an
  OpenCode plugin of the project starts.
- A plugin's sweep during a spawned turn of ten minutes puts its mail back, and it is
  heard twice (`back` in `RepeatsAccounted`).  A server that exits leaves its batch in
  flight.  The branch for vanished envelopes (`spawn-delivery.ts:410-425`) is not reached.

Locks and files:

- Two processes find the lock of a dead third one stale; the second unlinks the lock the
  first has just created, and both are in (`store.ts:318`; the comment at
  `store.ts:315-316` says concurrent stealers serialize).  The run has the three
  processes.  `OneHolder` therefore speaks of the holders that were not ousted, and
  `UpdatesAtomic` lets changes be lost that were saved while somebody was; `OneHolder`
  without `\ ousted`, or `kept` with every change, is violated. (That a live holder slower
  than 15 s loses its lock, which the run has too, is accepted in
  `docs/ARCHITECTURE.md:169`.)  A process whose lock was taken removes that of its
  successor in its `finally`.
- Loads without the lock write: the cutover (`store.ts:369-461`) and the renewal of a
  rejected file (`orchestrator/state.ts:496-502`) may overwrite a change that was saved in
  between; `plugin.ts:95-98` says read-only loads need no lock.  (`StateFiles`
  without `~overtaken` in `EditsKept` or `ManagedKept`.)
- An archive that was written before a purge that fails leaves a session live and
  saved; deleting the live one leaves the archive (`engine.ts:1441`, `plugin.ts:558`).
  The last member that leaves deletes the channel and leaves its messages.  The
  resume ladder allows nine names where the constant says eight.  An archive can be
  deleted by whoever knows its id, a live session only by its members.

Coordinator, agents, tasks, nodes:

- A stop that overlaps a resume is lost in memory (`gui/server.ts:1034`), and one
  whose save failed is forgotten when the project is selected again;
  `docs/TASK_EXECUTION.md:91` and `README.md:82` promise a durable stop.  (`Coordinator`
  without `project \notin unsure` in `StopRetained`.)
- An agent is created after a stop when the stop came while the start of
  `opencode serve` was awaited (`gui/server.ts:996`).  A resume over ACP that awaits its
  connection while the process closes leaves a child (`acp.ts:318-350`).  A
  coordinator that is killed leaves `opencode serve` on its port, and the next start
  fails until it is gone.
- A client that aborts its request while `opencode serve` starts, and a close right after:
  `server.close()` waits for connections only, `startGui` calls `process.exit(0)`
  (`cli/main.ts:683`), and the check for a closing server (`gui/server.ts:145`) comes too
  late for the child, which stays behind.  `ServeOwned` names this child as the one
  exception.
- A serve child that a signal killed has neither exit code nor `killed` flag, so it counts
  as running: no other project can be selected (`gui/server.ts:449`) and a start answers
  that it already runs (`runtimes/opencode.ts:223`), until the coordinator is restarted.
- The bridge answers one line at a time (`bridge.ts:425`): a stop waits for the creation
  in front of it.
- A section that dies in a handoff leaves it "dispatching", which blocks later ones until
  an operator acts (`api.ts:1530-1572`).  An assignment to a channel whose name has more
  than 200 characters is saved and rejected by the next load, which replaces the ledger
  (`api.ts:1302`).  The run has such a request; `LedgerKept` excepts the steps to and from
  such a file (`Overlong`), and what a request id or a task promises of its envelopes
  holds until then (`dropped`).
- A revoked node that is paired again is reported online and always refused, as it stays
  in `revoked.json`.  A second claim of an approved node replaces its fingerprint and
  keeps its approval.  Keys of claims are known to one coordinator only, so another cannot
  approve.  No operation adds grants to a node's record.  The daemon posts its claim to
  `/nodes/pairing/claim`; the server's route is `/nodes/claim-pairing`
  (`gui/server.ts:1435`).

Conversation:

- The rate window is fixed, not sliding (`engine.ts:951-959`): a minute that touches two
  windows has up to twice the limit, which is what `RateKept` says.  A reply whose parent
  was pruned begins at hop 0 again, the exception in `ChainsEnd`.  A pause does not stop
  the clock.

## 6. Fairness

`Delivery`: a prompt ends (the host answers or the call rejects), the commit or requeue
after it happens (the same async function awaits them next, and `withLock` retries for
its whole timeout; the run's faults do not include a save that fails for ever), a
crashed plugin is started again with the next OpenCode server, and its startup sweep,
called unconditionally, runs.  Nothing is assumed of senders, host events, timers, drains
or pulls.  `FlightsLand`: an envelope in flight is eventually settled, also when its
process died: some start sweeps it.

`StateLock`: a process inside `withLock` goes on, as the event loop resumes it after
each 10 ms sleep, and a lock file left behind gets old.  Nobody is assumed to ask for
the lock, so `LockRecovers` speaks of the behaviours in which somebody keeps asking;
each request may time out.

`AgentLifecycle`: a call that can go on does, as its requests to the host have timeouts.
`StartingEnds` excepts behaviours with a fault: a crash leaves an agent "starting".

`ManagedDelivery`: the interval timer fires, the loop goes on after each await, turns end
and cooldowns pass.  Nothing is assumed of operators, senders or faults.  `MailMoves` says
that mail of an agent that is there to take it does not wait for ever; the cooldown of one
agent must not keep the loop from the next.

`Coordinator`: a handler goes on when what it awaits is there; a starting child says it
listens, exits or is killed after its thirty seconds; the bridge reads its input; a
server that closes does close when its connections are gone.  `RequestsAnswered` excepts a
request whose client went away.

## 7. Proofs

All proofs are for arbitrary constants satisfying the assumptions of the module they are
about: any sets of processes, sessions, channels, agents, nodes, requests, any bounds,
all fault kinds.  Finiteness is assumed only where a cardinality needs it (the
connections of `Coordinator`; the sessions, channels, hooks and jobs of `NativeDelivery`).

`MailboxProofs` is about the operators.  Its first part is the theory of
subsequences the model is written with: ranks count a finite set of indices
(`RankFacts`, `RankOnto`, by the pigeonhole principle of the library's
injection theorem), so `Nth` enumerates it and `Pick` keeps exactly the chosen elements,
none twice (`PickFacts`), with corollaries for filter, concatenation and append.
Its second part shows, one lemma per engine operation, that the file stays
`Sound`: well typed, `Queued` (a queue holds its recipient's pending envelopes, each
once, and all of them) and `Fresh` (a send not made yet has no envelopes, one made has a
channel).

`DeliveryProofs` shows that `IInv` is inductive:

    IInv == Sound(file) /\ ProcessesOK /\ CallsHoldBatches /\ ReadersOK

`TypeOK` and `PendingIffQueued` are not inductive alone.  A requeue puts its call's batch at
the front of the recipient's queue without looking at whose mail it is, so the
invariant must say that a running call holds distinct envelopes of its own recipient
(`CallsHoldBatches`); an enqueue does not look at the status of what it appends, so the
invariant needs `Fresh`.  Theorems: `TypeCorrect`, `PendingMailIsQueued`.

The step properties go along the same cases, through relations between the file
before and after a step that are closed under composition (a pull is a drain, a prune
and a commit).  `MailboxProofs` has them for every engine operation (`Refused`, `Keeps`,
`Continues`):

- `RefusalStands`: `Spec => RefusalIsFinal`.  Every operation that revives mail tests
  for in-flight or delivered, and a queue holds pending mail only, so a drain cannot
  meet a refused envelope.  This is where `PendingIffQueued` earns its place.
- `BudgetNeverOverrun`: `Spec => []BudgetKept`.  The last envelope of a batch was
  tested with all earlier ones counted (`BelowTheLast`, `BatchWithinBudget`).
- `DeliveredIsHeard`: `Spec => []DeliveriesSound`, if no pull answer is lost.  A commit
  goes by its batch alone, so the invariant says of a call whose prompt was accepted that
  each of its envelopes was heard, or was deleted before the prompt was written
  (`CallsHeard`); an envelope deleted stays deleted, which is what the budget and
  refusal proofs have already shown of every step (`Keeps`), and no step but a
  commit makes anything delivered (`Continues`).

- `DeliveryKeepsContract`: `Spec => KeepsContract`, below.
- `RepeatsPaidFor`: `Spec /\ NoLateSweep => []RepeatsAccounted`, and `CommittedStays`:
  `Spec /\ NoLateSweep => NeverResurrected`.  `NoLateSweep` says that no startup sweep is
  saved during the behaviour: a plugin that starts late takes back the mail others hold,
  and both statements are then false (section 5).  Everything else may happen: processes
  that start, crash, fall back, host the same sessions, lose saves and acknowledgements.
  What makes it true is that an envelope in flight has one owner (`OneOwner`): the batches
  of two calls are apart, a batch is in flight until its call settles it, an answer of a
  pull is committed, and mail that waits was heard no more often than faults have paid
  for.  So the requeue of a failed prompt, which takes delivered envelopes back as well,
  never meets one.

The contract is proved once for each of the three deliveries: `DeliveryKeepsContract`,
`NativeKeepsContract` and `ManagedKeepsContract`, each `Spec => KeepsContract` without any
hypothesis, late sweeps included.  `MailboxProofs` states its next-state relation on two
states of the file (`Honours`) and shows, one lemma per engine operation, that the
operation keeps it on a sound file.  A locked section is often several operations: `Tends`
is the part that neither sends nor settles and is closed under composition (a removal, a
closing, a mark), and a prune or a commit after what was handed over makes of its move
another one of the contract (`PrunedHonours`, `CommitHonours`): a pull goes from waiting
to delivered at once.  That the charge is exact needs that a queue holds an envelope once
(`EntriesCount`), which is part of `Sound`; that it stays within the limit needs the
invariant `WithinBudget`, which `Honours` carries along.  Each proof then goes through the
actions of its module, and `ContractStep` reads a step that honours the contract as one of
`MailContract`.

`ManagedDeliveryProofs` is about the tick.  Its `IInv` adds to the sound file that a tick
holds a batch of the session it visits while it must, and none otherwise.  On it rest:

- `PausesKeptApart`: `Spec => []PausesAccounted`.  A controller that is not closed is the
  current one, and there is none while the memory says stopped (`Closed`); what is
  paused is in the file's list or was paused by a user, through the sections of a stop
  and a resume (`Pauses`).
- `StopIsKept`: `Spec => StopHolds`, from the same: a drain needs an open controller.
- `PromptedAtMostOnce`: `Spec => [](PromptedOnce /\ DeliveredWasHeard)`, the first two
  parts of `PromptsSound`, without any hypothesis.  Two ticks hold different envelopes, of
  two controllers too; what a tick holds is out and was not heard before its prompt; what
  waits was never heard (`Batches`): but for sessions that were removed and can be swept
  (`Exposed`).  No other session is swept, as ticks drain for hosts of agents only
  (`HostsOnly`) and a host that was sent mail is on the roster (`Rostered`).
- `PromptsAreSound`: `Spec => []PromptsSound`, for any plans and any pruning.  The third
  part says that a session has one prompt at a time: for ACP the connection is running
  (`OneTurn`); for OpenCode the mail in flight keeps other ticks away (`OneHolder`),
  unless it can have been swept or is pruned: then the next tick does not know of the
  prompt, and the session is one the property excepts.  Such a session stays one
  (`Blind`), since mail that was deleted never comes back (`NextHonours`), which makes the
  exception inductive.
- `UncertainMailWaits`: `Spec /\ []NothingPruned => UncertainWaits`.

`TaskLedgerProofs` is for any tasks, agents, requests, deaths and channel names.  When a
request names a channel in more than 200 characters, the next load rejects its record and
begins the ledger anew (section 5).  The part of the invariant that is about records alone
holds through this (`Base`); the part that ties records to the queue holds until then
(`Coherent`, under `~dropped`).  Theorems: `EveryEnvelopeAccounted` (`MailAccounted`),
`OneLiveEnvelopeEach` (`OneLiveEnvelope`), `EveryCompletionEarned` (`CompletionEarned`),
`NothingLost` (`LedgerKept`).  The invariant says of every record that it fits the queue
(`Fits`): it is one the next load accepts and its review is of the current attempt and
round (`Sound`); each envelope of its task is the one it names or one it named before a
handoff (`Traced`); the ids it holds are of no other task's envelope (`Owns`); one of them
is live, the owner's, or the former owner's while a handoff that died is undecided
(`OneLive`).  All lemmas are about a record and a queue as parameters, so that one proof
serves the record in the file, the one a section sees after `reconcile` (`SeeingFits`),
and the one each of its saves leaves, at which it may die.  `Owns` was found by the proof:
without it a new envelope could take the id of one that a dead handoff had set aside,
which is why `Unused` excludes these.  The envelope that `reconcile` finds is the first of
several, which exists because numbers are well founded (`Least`).

`EngineProofs` is about `StateLock`, `StateFiles`, `Sessions` and `Conversation`.  The
lock: any processes, any of them mortal or slow, any locks broken.  `LockTypes` is type
correctness, and

- `OthersAreOusted`: `LockSpec => []OneHolder`
- `KeptChangesStay`: `LockSpec => UpdatesAtomic`, the refinement.

`ExclusionInv` says that whoever is in its section runs under its own lock file or was
ousted, and why a break is one that ousts: a breaker looked at a stale lock, which is
still there and stale, or was removed since, and then the breaker is late.  So two holders
that were not ousted would both have created the one lock file.  `KeepInv` adds that what
was saved while nobody was ousted is in the file and in whatever anybody has loaded: its
saver was then the only one between a load and a save (`SaveFacts`, and the exclusion).

The files: `SavedChangesKept` and `LegacyHasArrived`.  What is in the files has all
that was saved (`FileGood`, `OrchGood`), and so has what a process holds in memory to
write, be it under the lock or in an unlocked load, as long as nothing overtook it.  For the
cutover, a second invariant follows the marker: it is only there after the v1 conversation
is in the file, through any number of loads that die half way (`Arriving`).

Sessions: `MessagesPreserved` and `SessionsEndOnce`.  `Preserved` alone is not inductive:
a save is written over whatever archive the session had, and the purge that follows it
drops what is in the state file.  The first is harmless because all that was sent to a
live session is in the state file (`LiveIsStored`), the second because the section holds
the lock: nothing is sent to the session between its archive and its purge
(`SavingIsWritten`).  An archive that cannot be read is one whose save stopped
(`FilesExplained`).  That live sessions have different names rests on the first free rung
of the ladder being free, for any ladder.

The conversation: `GateIsKept` and `ClockIsSound`.  The limits are compared with counters,
the properties speak of what was sent.  `WindowInv` ties the two: the sends since the
window began are at most the count, and those of a stretch before it at most the limit, so
a stretch that touches two windows has twice the limit.  `Remembered` says that what was
said is in `seen` as long as it may not be repeated, whatever was swept.  For the hops,
`HopsCounted` says that a linked reply is one further than its parent, and the proof goes
from there to chains of any shape (`ChainsAreShort`): its hops rise from each message of a
chain to the next, so a chain of n messages ends at hop n - 1 at least.  The clock needs
that a running segment began in the past (`SegmentBegan`), and that each handler that ends
a segment folds it before it changes the holder.

`AgentLifecycleProofs`: `RosterIsSound`, `StoppedAgentsRest`, `IdentityIsKept`.  The
invariant ties each open call to its agent's record: the session in a call's hands was
opened by its own operation and is in no record but its agent's, so recording it cannot
make two agents share one, whatever else works on the agent (`raced`).

`NativeDeliveryProofs`: `NativeMailIsAccounted`, `TurnsAreApart` and `BindingsAreKept`.
An envelope can be owed to a model by several at once, since a sweep takes mail back while
a hook or a turn still holds it; the invariant therefore counts (`HandedOnce`): how often
it was heard, and how many hooks, turns and queues are still going to hand it over, are
together at most once and each time it was put back.  With it come that mail in flight is
kept by somebody who settles it (`FlightHeld`), that batches are of one member, and that
only rows of a roster are bound, a native session as one member (`BoundOK`).  (The
constants assume the same of the bindings a behaviour begins with; it is what binding by
pin leads to, as the theorem shows.)  `BindingsAreKept` is `Spec => NotStolen`, for any
rooms, late ends and joins.  The proof follows the marks a `SessionEnd` leaves: a bound
row that is marked is bound to a session that ended, or was marked too late
(`MarksEarned`), and a member that is marked is marked on every row on which it is bound
(`MarkedTogether`), so a row a stranger may bind is one nobody holds or one the property
names.

`CoordinatorProofs` is about `Nodes` and `Coordinator`.  Nodes: `CodesAreSound`,
`RevokedNodesStayOut`, `TrustIsSound`.  A code that let a claim through is used, whether
or not it is still listed (`PairedIsUsed`); a revocation that has begun is in the
authority's list even if the record was not saved (`EndedIsRevoked`).

The coordinator: `RequestsStayAtHome`, `ServersAccounted`, `StopIsRetained`.  A selection
is refused while another request is under way (`Mutations`, a cardinality, hence finitely
many connections), so no home but the selected project's is ever in a request; the shared
start is owned as long as somebody waits for it, and after a close only by requests whose
clients went away.  The flag needs an invariant of its own (`FInv`): memory, remembered
flag and file agree wherever the stops and resumes of a project went one at a time.

Only model-checked:

- the liveness properties (`FlightsLand`, `LockRecovers`, `StartingEnds`, `MailMoves`,
  `RequestsAnswered`), which are out of the prover's reach;
- `RepeatsAccounted` and `NeverResurrected` in behaviours with a late sweep, and
  `UncertainWaits` once messages are pruned: there they hold for some instances only.

## 8. Not modelled

- The GUI page, the integrations manager, the installers of host adapters, and the
  build and release scripts: they write configuration or show state, one user at
  a time, and have no concurrent state of their own.
- The daemon and the updater: process management and downloads; the pid file is a
  candidate for a later module.
- TLS, certificates and the wire of remote nodes, the streams of the runtimes, git
  worktrees, JSON-RPC framing: input and output.  Nodes and runtimes are modelled by
  what their callers see.
- The event log, permission prompts, team templates (a loop over agent creation), the
  fields `backfillState` adds to older files, the pin files of MCP identities, the limits of
  the clock.
- Wake-ups as such (debounce of the file watch, idle events), see section 2.
- Message text, topics, goals, role texts, and their formatting.
