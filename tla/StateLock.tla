------------------------------ MODULE StateLock ------------------------------
(***************************************************************************)
(* StateStore.withLock of src/src/core/store.ts (and ownLock of            *)
(* src/src/orchestrator/state.ts, which has the same steps).  The lock is  *)
(* a file created exclusively; a lock file older than LOCK_STALE_MS is     *)
(* presumed abandoned and unlinked by whoever finds it.  Every file system *)
(* call is one step, because every process may run between two of them.    *)
(*                                                                         *)
(* The state file is the set of changes it contains.  A process loads it,  *)
(* adds a change of its own and saves the result.                          *)
(***************************************************************************)
EXTENDS Naturals

CONSTANTS
  Proc,        \* processes; a restarted host is a new process
  NoProc,      \* there is no lock file
  Mortal,      \* the processes that may die
  Slow,        \* those whose locked section may outlast LOCK_STALE_MS
  MaxChanges   \* bound on the changes of each process

ASSUME StateLockAssumption ==
  /\ NoProc \notin Proc
  /\ Mortal \subseteq Proc
  /\ Slow \subseteq Proc
  /\ MaxChanges \in Nat

VARIABLES
  lock,    \* the process that created the lock file
  stale,   \* the lock file is older than LOCK_STALE_MS
  pc,      \* where each process is in withLock
  content, \* the changes in the state file
  read,    \* what each process loaded in its section
  made,    \* the number of changes each process saved
  late,    \* about to unlink a lock file that is not there any more (history)
  ousted,  \* in its section, with its lock file removed (history)
  kept     \* the changes saved while nobody was ousted (history)

lockVars == <<lock, stale, pc, content, read, made, late, ousted, kept>>

LockChange == Proc \X (1..MaxChanges)

\* Outside; before openSync; before statSync; before unlinkSync of a stale
\* lock; asleep; in fn, before the load and after it; in finally; dead.
Place == {"idle", "opening", "inspecting", "breaking", "waiting",
          "entered", "loaded", "leaving", "dead"}

Section == {"entered", "loaded", "leaving"}

LockInit ==
  /\ lock = NoProc
  /\ stale = FALSE
  /\ pc = [p \in Proc |-> "idle"]
  /\ content = {}
  /\ read = [p \in Proc |-> {}]
  /\ made = [p \in Proc |-> 0]
  /\ late = {} /\ ousted = {} /\ kept = {}

Move(p, from, to) == pc[p] = from /\ pc' = [pc EXCEPT ![p] = to]

LockUnchanged == UNCHANGED <<lock, stale, late, ousted>>

DataUnchanged == UNCHANGED <<content, read, made, kept>>

-----------------------------------------------------------------------------
Request(p) ==
  /\ made[p] < MaxChanges
  /\ Move(p, "idle", "opening")
  /\ LockUnchanged /\ DataUnchanged

\* openSync "wx" creates the lock file or fails with EEXIST.
Open(p) ==
  /\ \/ /\ lock = NoProc
        /\ lock' = p /\ stale' = FALSE
        /\ UNCHANGED <<late, ousted>>
        /\ Move(p, "opening", "entered")
     \/ /\ lock # NoProc
        /\ LockUnchanged
        /\ Move(p, "opening", "inspecting")
  /\ DataUnchanged

\* Slips for the mutant runs: the age is not compared, or never exceeded.
InspectAnyAge(p) ==
  /\ \/ lock # NoProc /\ Move(p, "inspecting", "breaking")
     \/ lock = NoProc /\ Move(p, "inspecting", "waiting")
  /\ LockUnchanged /\ DataUnchanged

InspectNoAge(p) ==
  /\ Move(p, "inspecting", "waiting")
  /\ LockUnchanged /\ DataUnchanged

\* statSync: how old is the lock file, if it is still there?
Inspect(p) ==
  /\ \/ stale /\ Move(p, "inspecting", "breaking")
     \/ ~stale /\ Move(p, "inspecting", "waiting")
  /\ LockUnchanged /\ DataUnchanged

\* unlinkSync removes whatever lock file is there now: the one of a process
\* in its section too, and others may be about to unlink the same file.
Unlink(p) ==
  /\ lock' = NoProc /\ stale' = FALSE
  /\ late' = {q \in Proc \ {p} : pc[q] = "breaking"}

Victims(p) == {q \in Proc \ {p} : q = lock /\ pc[q] \in Section}

\* A break removes a live lock when its holder is slow, or when it comes late.
\* (No other break is recorded as one that ousts.)
Break(p) ==
  /\ Move(p, "breaking", "waiting")
  /\ Unlink(p)
  /\ ousted' = ousted \cup IF stale \/ p \in late THEN Victims(p) ELSE {}
  /\ DataUnchanged

\* After 10 ms, try again.
Retry(p) ==
  /\ Move(p, "waiting", "opening")
  /\ LockUnchanged /\ DataUnchanged

\* The deadline has passed: withLock throws.
GiveUp(p) ==
  /\ Move(p, "waiting", "idle")
  /\ LockUnchanged /\ DataUnchanged

\* Slip: the file is taken to be absent.
LoadNothing(p) ==
  /\ Move(p, "entered", "loaded")
  /\ read' = [read EXCEPT ![p] = {}]
  /\ LockUnchanged /\ UNCHANGED <<content, made, kept>>

Load(p) ==
  /\ Move(p, "entered", "loaded")
  /\ read' = [read EXCEPT ![p] = content]
  /\ LockUnchanged /\ UNCHANGED <<content, made, kept>>

\* The change a process makes next.
Mine(p) == <<p, made[p] + 1>>

\* The file is replaced by a rename.
Save(p) ==
  /\ Move(p, "loaded", "leaving")
  /\ made' = [made EXCEPT ![p] = @ + 1]
  /\ content' = read[p] \cup {Mine(p)}
  /\ kept' = IF ousted = {} THEN kept \cup {Mine(p)} ELSE kept
  /\ LockUnchanged /\ UNCHANGED read

\* The operation is refused, or replaceStateFile throws: nothing is saved.
NotSaved(p) ==
  /\ Move(p, "loaded", "leaving")
  /\ LockUnchanged /\ DataUnchanged

\* finally: close, and unlink whatever lock file is there now.  Who was ousted
\* removes the lock of its successor.
Leave(p) ==
  /\ Move(p, "leaving", "idle")
  /\ Unlink(p)
  /\ ousted' = (ousted \ {p}) \cup IF p \in ousted THEN Victims(p) ELSE {}
  /\ read' = [read EXCEPT ![p] = {}]
  /\ UNCHANGED <<content, made, kept>>

\* The process dies; its lock file stays.
Die(p) ==
  /\ p \in Mortal
  /\ pc[p] # "dead"
  /\ pc' = [pc EXCEPT ![p] = "dead"]
  /\ read' = [read EXCEPT ![p] = {}]
  /\ late' = late \ {p} /\ ousted' = ousted \ {p}
  /\ UNCHANGED <<lock, stale, content, made, kept>>

Abandoned == lock # NoProc /\ pc[lock] \notin Section

\* The lock file gets older than LOCK_STALE_MS.
Age ==
  /\ lock # NoProc /\ ~stale
  /\ Abandoned \/ lock \in Slow
  /\ stale' = TRUE
  /\ UNCHANGED <<lock, pc, late, ousted>> /\ DataUnchanged

-----------------------------------------------------------------------------
Step(p) ==
  \/ Open(p) \/ Inspect(p) \/ Break(p) \/ Retry(p) \/ Load(p) \/ Save(p)
  \/ NotSaved(p) \/ Leave(p)

LockNext ==
  \/ \E p \in Proc : Request(p) \/ Step(p) \/ GiveUp(p) \/ Die(p)
  \/ Age

LockSpec == LockInit /\ [][LockNext]_lockVars

(***************************************************************************)
(* Fairness.  A process in withLock goes on (the event loop resumes it     *)
(* after each sleep), and time passes.  Nobody has to ask for the lock,    *)
(* give up or die.                                                         *)
(***************************************************************************)
Fairness == WF_lockVars(Age) /\ \A p \in Proc : WF_lockVars(Step(p))

FairSpec == LockSpec /\ Fairness

-----------------------------------------------------------------------------
(***************************************************************************)
(* Properties.                                                             *)
(***************************************************************************)
\* Types; a state object lives from the load to the end of the section.
LockTypeOK ==
  /\ lock \in Proc \cup {NoProc}
  /\ stale \in BOOLEAN /\ (stale => lock # NoProc)
  /\ pc \in [Proc -> Place]
  /\ content \subseteq LockChange
  /\ read \in [Proc -> SUBSET LockChange]
  /\ \A p \in Proc : pc[p] \notin {"loaded", "leaving"} => read[p] = {}
  /\ made \in [Proc -> 0..MaxChanges]
  /\ late \subseteq Proc /\ ousted \subseteq Proc /\ kept \subseteq LockChange

\* Mutual exclusion, with what it costs to break locks: whoever is in a
\* section next to another was ousted.  A break ousts the holder of a lock that
\* outlasted LOCK_STALE_MS, or that was created after the breaker looked at
\* another one; a finally ousts only on behalf of one who was ousted before.
\* So each such break lets in one more at most, and once the ousted have left
\* the lock excludes again (store.ts says that concurrent stealers
\* serialize: they do not, and this is what is left).
Holders == {p \in Proc : pc[p] \in Section}

OneHolder ==
  \A p, q \in Holders \ ousted : p = q

\* Every change is applied to the result of the changes before it, but for
\* those saved while somebody was ousted: these may be overwritten, and come
\* back when somebody who loaded them saves.  No break, no late finally and no
\* slow holder loses a change that was saved when nobody was ousted.
EverSaved == {c \in LockChange : c[2] <= made[c[1]]}

Atomic == INSTANCE AtomicStore
            WITH store <- content, past <- EverSaved, Change <- LockChange
UpdatesAtomic == Atomic!Spec

\* A lock left behind does not stop the others for ever: while somebody
\* keeps asking for it, an abandoned lock file disappears.
LockRecovers ==
  []<>(\E p \in Proc : pc[p] = "opening") => []<>~Abandoned

=============================================================================
