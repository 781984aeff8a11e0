----------------------------- MODULE StateFiles -----------------------------
(***************************************************************************)
(* How the two state files of a project are loaded.  Every load of        *)
(* StateStore first performs the cutover from the file of the single-host  *)
(* version (v1) to .opencomms/state.json (v2) (src/src/core/store.ts);     *)
(* every load of OrchestratorStore replaces a file that is absent or not   *)
(* valid (src/src/orchestrator/state.ts).                                  *)
(*                                                                         *)
(* Sections that change either state hold the one lock of withLock,        *)
(* modelled in StateLock and here a variable.  Status, history, the prompt *)
(* transform, the GUI and the delivery tick load without it, and write all *)
(* the same.  A load is one synchronous call, but other processes run      *)
(* between its file operations, and its process may die there.             *)
(***************************************************************************)
EXTENDS Integers, FiniteSets

CONSTANTS
  Process,
  Nobody,       \* holds the lock when no process does
  Reading,      \* what a load of the state without the lock is for
  Looking,      \* what a load of the orchestrator without the lock is for
  Managing,     \* changes the orchestrator under the lock
  Name,         \* channel names
  LegacyName,   \* the channels of the v1 file
  MaxManaged,   \* bound on changes of the orchestrator
  MaxDeaths,    \* bound on processes dying
  MaxTampers    \* bound on damage to the files

ASSUME StateFilesAssumption ==
  /\ Nobody \notin Process
  /\ Reading # Looking /\ Reading # Managing /\ Looking # Managing
  /\ {Reading, Looking, Managing} \cap (Name \X {"open", "join"}) = {}
  /\ LegacyName \subseteq Name
  /\ MaxManaged \in Nat /\ MaxDeaths \in Nat /\ MaxTampers \in Nat

VARIABLES
  legacy,    \* what the v1 file is: "none", "valid" or "tampered"
  marker,    \* MIGRATED_FROM_V1 exists
  file,      \* the v2 file
  orch,      \* the orchestrator file
  holder,    \* who holds the state lock
  job,       \* what each process loads for
  at,        \* where it is
  copy,      \* the state it holds in memory
  plan,      \* the orchestrator state it holds in memory
  acked,     \* changes of the state that were saved (history)
  managed,   \* changes of the orchestrator saved since it last began anew (history)
  overtaken, \* a change was saved while an unlocked load was to write (history)
  v2First,   \* a v2 conversation was there before the first load (history)
  deaths, tampers

store == <<legacy, marker, file, copy, acked, v2First>>
orchestrator == <<orch, plan, managed>>
vars == <<store, orchestrator, holder, job, at, overtaken, deaths, tampers>>

(***************************************************************************)
(* A channel is the set of things that happened to it: it was opened by    *)
(* the operator, its v1 conversation was taken over, a member joined.  A   *)
(* file may be absent, or not pass validateState; err says that the load   *)
(* it goes back to reported a loss.                                        *)
(***************************************************************************)
Happening == {"open", "v1", "join"}
File == [there : BOOLEAN, ok : BOOLEAN, err : BOOLEAN, channels : [Name -> SUBSET Happening]]
EmptyState == [there |-> TRUE, ok |-> TRUE, err |-> FALSE, channels |-> [n \in Name |-> {}]]
Absent == [EmptyState EXCEPT !.there = FALSE]

\* Of the orchestrator it matters how many changes are in it.
OrchestratorFile == [there : BOOLEAN, ok : BOOLEAN, changes : Nat]
EmptyOrchestrator == [there |-> TRUE, ok |-> TRUE, changes |-> 0]
NoOrchestrator == [EmptyOrchestrator EXCEPT !.there = FALSE]

Change == Name \X {"open", "join"}
Saved(f) == {c \in Change : c[2] \in f.channels[c[1]]}

TypeOK ==
  /\ legacy \in {"none", "valid", "tampered"} /\ marker \in BOOLEAN
  /\ file \in File /\ orch \in OrchestratorFile
  /\ holder \in Process \cup {Nobody}
  /\ job \in [Process -> Change \cup {Reading, Looking, Managing}]
  /\ at \in [Process -> {"idle", "load", "migrate", "mark", "renew", "loaded"}]
  /\ copy \in [Process -> File] /\ plan \in [Process -> OrchestratorFile]
  /\ acked \subseteq Change /\ managed \in 0..MaxManaged
  /\ overtaken \in BOOLEAN /\ v2First \in BOOLEAN
  /\ deaths \in 0..MaxDeaths /\ tampers \in 0..MaxTampers

\* validateState: a file that is not what this version writes.
Rejected(f) == ~f.ok
\* validateOrchestratorState.
Malformed(f) == ~f.ok

\* readStateFile, and the empty state where load finds none: what is
\* rejected is replaced by an empty state that says so.
ReadStateFile(f) ==
  IF ~f.there THEN EmptyState
  ELSE IF Rejected(f) THEN [EmptyState EXCEPT !.err = TRUE]
  ELSE f

\* isEmptyOperatorState.
IsEmptyOperatorState(f) == \A n \in Name : f.channels[n] \subseteq {"open"}

\* A channel of the v1 file replaces an empty one of its name.
Migrated(f) ==
  [EmptyState EXCEPT
     !.err = f.err,
     !.channels = [n \in Name |-> IF n \in LegacyName THEN {"open", "v1"}
                                  ELSE f.channels[n]]]

\* Nothing is there yet, a session the GUI created, or a conversation.
Init ==
  /\ legacy \in {"none", "valid", "tampered"}
  /\ marker = FALSE
  /\ \E n \in Name, h \in {{"open"}, {"open", "join"}} :
       file \in {Absent, [EmptyState EXCEPT !.channels[n] = h]}
  /\ orch = NoOrchestrator
  /\ holder = Nobody
  /\ job = [p \in Process |-> Reading]
  /\ at = [p \in Process |-> "idle"]
  /\ copy = [p \in Process |-> Absent]
  /\ plan = [p \in Process |-> NoOrchestrator]
  /\ acked = Saved(file)
  /\ managed = 0
  /\ overtaken = FALSE
  /\ v2First = ~IsEmptyOperatorState(file)
  /\ deaths = 0 /\ tampers = 0

-----------------------------------------------------------------------------
Goes(p, place) == at' = [at EXCEPT ![p] = place]
Holds(p, state) == copy' = [copy EXCEPT ![p] = state]
Plans(p, state) == plan' = [plan EXCEPT ![p] = state]

\* The call is over, and what it held in memory is gone.
Leaves(p) ==
  /\ Goes(p, "idle")
  /\ Holds(p, Absent) /\ Plans(p, NoOrchestrator)
  /\ job' = [job EXCEPT ![p] = Reading]
  /\ holder' = IF holder = p THEN Nobody ELSE holder

Unlocked(p) == job[p] \in {Reading, Looking}
\* An unlocked load has looked at a file and is about to write it.
Overtakes(place) == overtaken \/ \E q \in Process : at[q] = place /\ Unlocked(q)

\* Slip for the mutant runs: a change does not wait for the lock.
NoLock(p, j) == UNCHANGED holder
\* withLock, but not for what only reads.
TakesLock(p, j) ==
  IF j \in {Reading, Looking} THEN UNCHANGED holder ELSE holder = Nobody /\ holder' = p

Begin(p, j) ==
  /\ at[p] = "idle"
  /\ TakesLock(p, j)
  /\ job' = [job EXCEPT ![p] = j]
  /\ Goes(p, "load")
  /\ UNCHANGED <<store, orchestrator, overtaken, deaths, tampers>>

FinishesReading(p) ==
  /\ at[p] = "loaded" /\ Unlocked(p)
  /\ Leaves(p)
  /\ UNCHANGED <<legacy, marker, file, acked, v2First, orch, managed, overtaken, deaths, tampers>>

\* A process dies; the lock it leaves behind is broken when it is stale.
Dies(p) ==
  /\ deaths < MaxDeaths /\ deaths' = deaths + 1
  /\ at[p] # "idle"
  /\ Leaves(p)
  /\ UNCHANGED <<legacy, marker, file, acked, v2First, orch, managed, overtaken, tampers>>

\* Something else damages a file.
Tamper ==
  /\ tampers < MaxTampers /\ tampers' = tampers + 1
  /\ \/ file.there /\ file' = [file EXCEPT !.ok = FALSE] /\ UNCHANGED orch
     \/ orch.there /\ orch' = [orch EXCEPT !.ok = FALSE] /\ UNCHANGED file
  /\ UNCHANGED <<legacy, marker, copy, acked, v2First, plan, managed,
                 holder, job, at, overtaken, deaths>>

-----------------------------------------------------------------------------
(* StateStore.                                                             *)

LoadsState(p) == at[p] = "load" /\ job[p] \notin {Looking, Managing}

\* migrateFromLegacyIfPresent does not return null at once.
Migrates == ~marker /\ legacy # "none"
            /\ (file.there => ~Rejected(file) /\ IsEmptyOperatorState(file))

\* A v1 file that is not valid is reported by every load, and left there.
LoadsAsIs(p) ==
  /\ LoadsState(p)
  /\ ~(Migrates /\ legacy = "valid")
  /\ Holds(p, IF Migrates /\ ~file.there THEN [EmptyState EXCEPT !.err = TRUE]
              ELSE ReadStateFile(file))
  /\ Goes(p, "loaded")
  /\ UNCHANGED <<legacy, marker, file, acked, v2First, orchestrator,
                 holder, job, overtaken, deaths, tampers>>

StartsMigration(p) ==
  /\ LoadsState(p)
  /\ Migrates /\ legacy = "valid"
  /\ Holds(p, Migrated(file))
  /\ Goes(p, "migrate")
  /\ UNCHANGED <<legacy, marker, file, acked, v2First, orchestrator,
                 holder, job, overtaken, deaths, tampers>>

\* Slip: the marker is written before the state is.
SavesAfterMarker(p) ==
  /\ at[p] = "migrate"
  /\ marker' = TRUE
  /\ Goes(p, "mark")
  /\ UNCHANGED <<legacy, file, copy, acked, v2First, orchestrator,
                 holder, job, overtaken, deaths, tampers>>
SavesMigrated(p) ==
  /\ at[p] = "migrate"
  /\ file' = copy[p]
  /\ Goes(p, "mark")
  /\ UNCHANGED <<legacy, marker, copy, acked, v2First, orchestrator,
                 holder, job, overtaken, deaths, tampers>>

\* The marker is written and the file is read again.
WritesMarker(p) ==
  /\ at[p] = "mark"
  /\ marker' = TRUE
  /\ Goes(p, "load")
  /\ UNCHANGED <<legacy, file, copy, acked, v2First, orchestrator,
                 holder, job, overtaken, deaths, tampers>>

\* The section saves its change: a session is opened, or a member joins
\* one that is there.
Saves(p) ==
  /\ at[p] = "loaded" /\ job[p] \in Change
  /\ LET n == job[p][1]
         refused == (job[p][2] = "join") = (copy[p].channels[n] = {})
     IN  IF refused THEN UNCHANGED <<file, acked, overtaken>>
         ELSE /\ file' = [copy[p] EXCEPT !.channels[n] = @ \cup {job[p][2]}]
              /\ acked' = acked \cup {job[p]}
              /\ overtaken' = Overtakes("migrate")
  /\ Leaves(p)
  /\ UNCHANGED <<legacy, marker, v2First, orch, managed, deaths, tampers>>

-----------------------------------------------------------------------------
(* OrchestratorStore.                                                      *)

LoadsOrchestrator(p) == at[p] = "load" /\ job[p] \in {Looking, Managing}

\* What is rejected is copied aside first, and a new file says so.
StartsAnew(p) ==
  /\ LoadsOrchestrator(p)
  /\ IF orch.there /\ ~Malformed(orch)
     THEN Plans(p, orch) /\ Goes(p, "loaded")
     ELSE Plans(p, EmptyOrchestrator) /\ Goes(p, "renew")
  /\ UNCHANGED <<store, orch, managed, holder, job, overtaken, deaths, tampers>>

\* load saves the new state, with or without the lock.
SavesAnew(p) ==
  /\ at[p] = "renew"
  /\ orch' = plan[p]
  /\ managed' = IF orch.there /\ ~Malformed(orch) THEN managed ELSE 0
  /\ Goes(p, "loaded")
  /\ UNCHANGED <<store, plan, holder, job, overtaken, deaths, tampers>>

\* OrchestratorStore.update.
Manages(p) ==
  /\ at[p] = "loaded" /\ job[p] = Managing
  /\ managed < MaxManaged
  /\ orch' = [plan[p] EXCEPT !.changes = @ + 1]
  /\ managed' = managed + 1
  /\ overtaken' = Overtakes("renew")
  /\ Leaves(p)
  /\ UNCHANGED <<legacy, marker, file, acked, v2First, deaths, tampers>>

Next ==
  \/ \E p \in Process :
       \/ \E j \in Change \cup {Reading, Looking, Managing} : Begin(p, j)
       \/ LoadsAsIs(p) \/ StartsMigration(p) \/ SavesMigrated(p) \/ WritesMarker(p)
       \/ Saves(p)
       \/ StartsAnew(p) \/ SavesAnew(p) \/ Manages(p)
       \/ FinishesReading(p) \/ Dies(p)
  \/ Tamper

Spec == Init /\ [][Next]_vars

-----------------------------------------------------------------------------
(* Properties.                                                             *)

\* "An existing v2 state is left alone" (store.ts), however often loads
\* migrate and die: a change that was saved is in the file, or the file
\* reports that it was started fresh.  The exception is what the missing
\* lock of the readers costs: a change saved between the look and the save
\* of an unlocked load may be overwritten.
EditsKept ==
  file.there /\ file.ok /\ ~overtaken => file.err \/ acked \subseteq Saved(file)

\* No conversation of the v1 file is stranded: a load that is finished has
\* it, whoever died before, unless a v2 conversation was first or damage
\* made the store begin anew.
LegacyArrives ==
  \A p \in Process :
    at[p] = "loaded" /\ job[p] \in Change \cup {Reading}
      /\ legacy = "valid" /\ ~v2First /\ tampers = 0
      => \A n \in LegacyName : "v1" \in copy[p].channels[n]

\* The orchestrator loses no saved change except with a damaged file, with
\* the same exception for unlocked loads.
ManagedKept == orch.there /\ orch.ok /\ ~overtaken => orch.changes >= managed

\* Together: neither file forgets a change that was saved.
ChangesKept == TypeOK /\ EditsKept /\ ManagedKept
=============================================================================
