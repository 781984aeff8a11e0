---------------------------- MODULE EngineProofs ----------------------------
(***************************************************************************)
(* What the engine guarantees apart from delivery.  First the lock: what   *)
(* withLock gives, for any number of processes, any of which may die or be *)
(* slow: who is in next to another was ousted by a break, and what was     *)
(* saved while nobody was ousted is kept.  The other modules take a        *)
(* section as one step; this says of which behaviours that is true.        *)
(*                                                                         *)
(* Then the files, for any number of processes, channels, deaths and       *)
(* damaged files: a saved change is kept, and the v1 conversations arrive. *)
(* That invariant says of every state a process holds in memory what will  *)
(* be true of the file when it is written.                                 *)
(*                                                                         *)
(* Then the sessions with their archives, and last a channel as its        *)
(* members see it: the gate in front of a send, and the chess clock.       *)
(***************************************************************************)
EXTENDS StateLock, StateFiles, Sessions, Conversation, FiniteSetTheorems,
        WellFoundedInduction, TLAPS

\* Who is in withLock before the save still has a change to make.
Wanting == {"opening", "inspecting", "breaking", "waiting", "entered", "loaded"}

TypeInv ==
  /\ LockTypeOK
  /\ \A p \in Proc : pc[p] \in Wanting => made[p] < MaxChanges

\* TypeInv holds at first.
LEMMA TypeInit == LockInit => TypeInv
<1> SUFFICES ASSUME LockInit
             PROVE  TypeInv
  OBVIOUS
<1>1. NoProc \notin Proc /\ MaxChanges \in Nat
  BY StateLockAssumption
<1>2. 0 \in 0..MaxChanges
  BY <1>1
<1>3. pc = [p \in Proc |-> "idle"] /\ pc \in [Proc -> Place]
  BY DEF LockInit, Place
<1>4. read \in [Proc -> SUBSET LockChange] /\ \A p \in Proc : read[p] = {}
  BY DEF LockInit
<1>5. made \in [Proc -> 0..MaxChanges]
  BY <1>2 DEF LockInit
<1>6. /\ lock = NoProc /\ stale = FALSE /\ content \subseteq LockChange
      /\ late \subseteq Proc /\ ousted \subseteq Proc /\ kept \subseteq LockChange
  BY DEF LockInit
<1>7. \A p \in Proc : pc[p] \notin Wanting
  BY <1>3 DEF Wanting
<1> QED BY <1>3, <1>4, <1>5, <1>6, <1>7 DEF TypeInv, LockTypeOK

\* TypeInv is inductive.
LEMMA TypeStep == TypeInv /\ [LockNext]_lockVars => TypeInv'
<1> SUFFICES ASSUME TypeInv, [LockNext]_lockVars
             PROVE  TypeInv'
  OBVIOUS
<1>1. /\ LockTypeOK
      /\ \A p \in Proc : pc[p] \in Wanting => made[p] < MaxChanges
      /\ NoProc \notin Proc /\ MaxChanges \in Nat
  BY StateLockAssumption DEF TypeInv
<1> USE <1>1 DEF LockTypeOK, Place, Wanting
<1>2. ASSUME NEW p \in Proc, Request(p)
      PROVE  TypeInv'
  BY <1>2 DEF Request, Move, LockUnchanged, DataUnchanged, TypeInv
<1>3. ASSUME NEW p \in Proc, Open(p)
      PROVE  TypeInv'
  BY <1>3 DEF Open, Move, LockUnchanged, DataUnchanged, TypeInv
<1>4. ASSUME NEW p \in Proc, Inspect(p)
      PROVE  TypeInv'
  BY <1>4 DEF Inspect, Move, LockUnchanged, DataUnchanged, TypeInv
<1>5. ASSUME NEW p \in Proc, Break(p)
      PROVE  TypeInv'
  BY <1>5 DEF Break, Move, Unlink, Victims, DataUnchanged, TypeInv
<1>6. ASSUME NEW p \in Proc, Retry(p) \/ GiveUp(p)
      PROVE  TypeInv'
  BY <1>6 DEF Retry, GiveUp, Move, LockUnchanged, DataUnchanged, TypeInv
<1>7. ASSUME NEW p \in Proc, Load(p)
      PROVE  TypeInv'
  BY <1>7 DEF Load, Move, LockUnchanged, TypeInv
<1>8. ASSUME NEW p \in Proc, Save(p)
      PROVE  TypeInv'
  <2>1. made[p] + 1 \in 1..MaxChanges
    BY <1>8 DEF Save, Move
  <2>2. Mine(p) \in LockChange
    BY <2>1 DEF Mine, LockChange
  <2> QED BY <1>8, <2>1, <2>2 DEF Save, Move, LockUnchanged, TypeInv
<1>9. ASSUME NEW p \in Proc, NotSaved(p)
      PROVE  TypeInv'
  BY <1>9 DEF NotSaved, Move, LockUnchanged, DataUnchanged, TypeInv
<1>10. ASSUME NEW p \in Proc, Leave(p)
       PROVE  TypeInv'
  BY <1>10 DEF Leave, Move, Unlink, Victims, TypeInv
<1>11. ASSUME NEW p \in Proc, Die(p)
       PROVE  TypeInv'
  BY <1>11 DEF Die, LockUnchanged, TypeInv
<1>12. CASE Age
  BY <1>12 DEF Age, DataUnchanged, TypeInv
<1>13. CASE UNCHANGED lockVars
  BY <1>13 DEF lockVars, TypeInv
<1> QED BY <1>2, <1>3, <1>4, <1>5, <1>6, <1>7, <1>8, <1>9, <1>10, <1>11,
           <1>12, <1>13 DEF LockNext, Step

\* Every step of withLock is well typed, and no state object outlives its
\* section.
THEOREM LockTypes == LockSpec => []LockTypeOK
<1>1. TypeInv => LockTypeOK
  BY DEF TypeInv
<1> QED BY <1>1, TypeInit, TypeStep, PTL DEF LockSpec

-----------------------------------------------------------------------------
(***************************************************************************)
(* Who is in a section runs under its own lock file, or was ousted: a      *)
(* break ousts whoever it removes a lock from, because the lock it looked  *)
(* at was stale and is this one (then its holder is slow), or it was       *)
(* removed since (then the break is late).                                 *)
(***************************************************************************)
ExclusionInv ==
  /\ TypeInv
  /\ \A p \in Proc : pc[p] \in Section => p \in ousted \/ lock = p
  /\ \A p \in ousted : pc[p] \in Section
  /\ \A p \in Proc : pc[p] = "breaking" => stale \/ p \in late

\* ExclusionInv holds at first.
LEMMA ExclusionInit == LockInit => ExclusionInv
BY TypeInit DEF LockInit, ExclusionInv, Section

\* ExclusionInv is inductive.
LEMMA ExclusionStep == ExclusionInv /\ [LockNext]_lockVars => ExclusionInv'
<1> SUFFICES ASSUME ExclusionInv, [LockNext]_lockVars
             PROVE  ExclusionInv'
  OBVIOUS
<1>1. TypeInv' /\ NoProc \notin Proc /\ pc \in [Proc -> Place] /\ ousted \subseteq Proc
  BY TypeStep, StateLockAssumption DEF ExclusionInv, TypeInv, LockTypeOK
<1> USE <1>1 DEF ExclusionInv, Section
<1>2. ASSUME NEW p \in Proc,
             \/ Request(p) \/ Inspect(p) \/ Retry(p) \/ GiveUp(p) \/ Load(p)
             \/ NotSaved(p) \/ Save(p)
      PROVE  ExclusionInv'
  BY <1>2 DEF Request, Inspect, Retry, GiveUp, Load, NotSaved, Save, Move,
              LockUnchanged, DataUnchanged
<1>3. ASSUME NEW p \in Proc, Open(p)
      PROVE  ExclusionInv'
  <2>1. CASE lock = NoProc
    <3>1. /\ pc' = [pc EXCEPT ![p] = "entered"] /\ lock' = p
          /\ UNCHANGED <<late, ousted>> /\ pc[p] = "opening"
      BY <1>3, <2>1 DEF Open, Move
    <3>2. \A q \in Proc : pc'[q] = "breaking" => q \in late'
      BY <2>1, <3>1 DEF TypeInv, LockTypeOK
    <3> QED BY <2>1, <3>1, <3>2
  <2>2. CASE lock # NoProc
    BY <1>3, <2>2 DEF Open, Move, LockUnchanged
  <2> QED BY <2>1, <2>2
<1>4. ASSUME NEW p \in Proc, Break(p)
      PROVE  ExclusionInv'
  <2>1. /\ pc' = [pc EXCEPT ![p] = "waiting"] /\ pc[p] = "breaking"
        /\ late' = {q \in Proc \ {p} : pc[q] = "breaking"}
        /\ ousted' = ousted \cup Victims(p)
    BY <1>4 DEF Break, Move, Unlink
  <2> QED BY <2>1 DEF Victims
<1>5. ASSUME NEW p \in Proc, Leave(p)
      PROVE  ExclusionInv'
  <2>1. /\ pc' = [pc EXCEPT ![p] = "idle"] /\ pc[p] = "leaving"
        /\ late' = {q \in Proc \ {p} : pc[q] = "breaking"}
        /\ ousted' = (ousted \ {p}) \cup IF p \in ousted THEN Victims(p) ELSE {}
    BY <1>5 DEF Leave, Move, Unlink
  <2>2. ASSUME NEW q \in Proc, pc'[q] \in Section PROVE q \in ousted'
    BY <2>1, <2>2 DEF Victims
  <2> QED BY <2>1, <2>2 DEF Victims
<1>6. ASSUME NEW p \in Proc, Die(p)
      PROVE  ExclusionInv'
  BY <1>6 DEF Die
<1>7. CASE Age
  BY <1>7 DEF Age, DataUnchanged
<1>8. CASE UNCHANGED lockVars
  BY <1>8 DEF lockVars
<1> QED BY <1>2, <1>3, <1>4, <1>5, <1>6, <1>7, <1>8 DEF LockNext, Step

\* Whoever is in its locked section next to another was ousted, for any
\* number of processes that die, hold the lock too long and break locks at
\* the same time.
THEOREM OthersAreOusted == LockSpec => []OneHolder
<1>1. ExclusionInv => OneHolder
  BY DEF ExclusionInv, OneHolder, Holders
<1> QED BY <1>1, ExclusionInit, ExclusionStep, PTL DEF LockSpec

-----------------------------------------------------------------------------
(***************************************************************************)
(* What was saved when nobody was ousted is in the file, and in what       *)
(* everybody loaded: its saver was alone in a section.                     *)
(***************************************************************************)
KeepInv ==
  /\ ExclusionInv
  /\ content \subseteq EverSaved /\ \A p \in Proc : read[p] \subseteq EverSaved
  /\ kept \subseteq content
  /\ \A p \in Proc : pc[p] = "loaded" => kept \subseteq read[p]

\* KeepInv holds at first.
LEMMA KeepInit == LockInit => KeepInv
BY ExclusionInit DEF LockInit, KeepInv

\* A save by p adds its next change to those that were saved.
LEMMA SaveFacts ==
  ASSUME TypeInv, NEW p \in Proc, Save(p)
  PROVE  /\ Mine(p) \in LockChange /\ Mine(p) \notin EverSaved
         /\ EverSaved' = EverSaved \cup {Mine(p)}
<1>1. /\ made \in [Proc -> 0..MaxChanges] /\ MaxChanges \in Nat
      /\ made[p] < MaxChanges /\ made' = [made EXCEPT ![p] = made[p] + 1]
  BY StateLockAssumption DEF TypeInv, LockTypeOK, Save, Move, Wanting
<1>2. made[p] \in Nat /\ made[p] + 1 \in 1..MaxChanges
  BY <1>1
<1>3. Mine(p) \in LockChange
  BY <1>2 DEF Mine, LockChange
<1>4. Mine(p) \notin EverSaved
  BY <1>2 DEF Mine, EverSaved
<1>5. ASSUME NEW q \in Proc, NEW n \in 1..MaxChanges
      PROVE  n <= made'[q] <=> (n <= made[q] \/ (q = p /\ n = made[p] + 1))
  BY <1>1, <1>2
<1>6. \A c \in LockChange : /\ c[1] \in Proc /\ c[2] \in 1..MaxChanges
                            /\ (c = Mine(p) <=> c[1] = p /\ c[2] = made[p] + 1)
  BY DEF LockChange, Mine
<1>7. \A c \in LockChange : c[2] <= made'[c[1]] <=> (c[2] <= made[c[1]] \/ c = Mine(p))
  BY <1>5, <1>6
<1> QED BY <1>3, <1>4, <1>7 DEF EverSaved

\* KeepInv is inductive.
LEMMA KeepStep == KeepInv /\ [LockNext]_lockVars => KeepInv'
<1> SUFFICES ASSUME KeepInv, [LockNext]_lockVars
             PROVE  KeepInv'
  OBVIOUS
<1>1. /\ ExclusionInv' /\ TypeInv /\ pc \in [Proc -> Place]
      /\ read \in [Proc -> SUBSET LockChange]
  BY ExclusionStep DEF KeepInv, ExclusionInv, TypeInv, LockTypeOK
<1>2. ASSUME NEW p \in Proc, Load(p)
      PROVE  KeepInv'
  <2>1. /\ UNCHANGED <<content, made, kept>> /\ read' = [read EXCEPT ![p] = content]
        /\ pc' = [pc EXCEPT ![p] = "loaded"]
    BY <1>2 DEF Load, Move
  <2>2. EverSaved' = EverSaved
    BY <2>1 DEF EverSaved
  <2> QED BY <1>1, <2>1, <2>2 DEF KeepInv
<1>3. ASSUME NEW p \in Proc, Save(p)
      PROVE  KeepInv'
  <2>1. /\ pc[p] = "loaded" /\ pc' = [pc EXCEPT ![p] = "leaving"]
        /\ content' = read[p] \cup {Mine(p)} /\ UNCHANGED read
        /\ kept' = IF ousted = {} THEN kept \cup {Mine(p)} ELSE kept
    BY <1>3 DEF Save, Move
  <2>2. EverSaved' = EverSaved \cup {Mine(p)}
    BY <1>1, <1>3, SaveFacts
  <2>3. content' \subseteq EverSaved' /\ \A q \in Proc : read'[q] \subseteq EverSaved'
    BY <2>1, <2>2 DEF KeepInv
  <2>4. kept' \subseteq content'
    BY <2>1 DEF KeepInv
  <2>5. ASSUME NEW q \in Proc, pc'[q] = "loaded"
        PROVE  kept' \subseteq read'[q]
    <3>1. q # p /\ pc[q] = "loaded"
      BY <1>1, <2>1, <2>5
    <3>2. ousted # {}
      BY <2>1, <3>1, StateLockAssumption DEF KeepInv, ExclusionInv, Section
    <3> QED BY <2>1, <3>1, <3>2 DEF KeepInv
  <2> QED BY <1>1, <2>3, <2>4, <2>5 DEF KeepInv
<1>4. ASSUME UNCHANGED <<content, made, kept>>,
             \A p \in Proc : read'[p] \in {read[p], {}},
             \A p \in Proc : pc'[p] = "loaded" => pc[p] = "loaded" /\ read'[p] = read[p]
      PROVE  KeepInv'
  <2>1. EverSaved' = EverSaved
    BY <1>4 DEF EverSaved
  <2> QED BY <1>1, <1>4, <2>1 DEF KeepInv
<1>5. ASSUME NEW p \in Proc,
             \/ Request(p) \/ Open(p) \/ Inspect(p) \/ Break(p) \/ Retry(p) \/ GiveUp(p)
             \/ NotSaved(p)
      PROVE  KeepInv'
  <2>1. /\ UNCHANGED <<content, made, kept, read>>
        /\ \E here \in Place \ {"loaded"} : pc' = [pc EXCEPT ![p] = here]
    BY <1>5 DEF Request, Open, Inspect, Break, Retry, GiveUp, NotSaved, Move,
                DataUnchanged, Place
  <2>2. \A q \in Proc : pc'[q] = "loaded" => pc[q] = "loaded"
    BY <1>1, <2>1
  <2> QED BY <1>4, <2>1, <2>2
<1>6. ASSUME NEW p \in Proc, Leave(p) \/ Die(p)
      PROVE  KeepInv'
  <2>1. /\ UNCHANGED <<content, made, kept>> /\ read' = [read EXCEPT ![p] = {}]
        /\ \E here \in {"idle", "dead"} : pc' = [pc EXCEPT ![p] = here]
    BY <1>6 DEF Leave, Die, Move
  <2>2. \A q \in Proc : read'[q] \in {read[q], {}}
    BY <1>1, <2>1
  <2>3. \A q \in Proc : pc'[q] = "loaded" => pc[q] = "loaded" /\ read'[q] = read[q]
    BY <1>1, <2>1
  <2> QED BY <1>4, <2>1, <2>2, <2>3
<1>7. CASE Age \/ UNCHANGED lockVars
  BY <1>4, <1>7 DEF Age, DataUnchanged, lockVars
<1> QED BY <1>2, <1>3, <1>5, <1>6, <1>7 DEF LockNext, Step

\* withLock implements AtomicStore without any condition: what was saved when
\* nobody was ousted is under every later change, whatever locks are broken.
THEOREM KeptChangesStay == LockSpec => UpdatesAtomic
<1>1. LockInit => Atomic!Init
  <2> SUFFICES ASSUME LockInit PROVE EverSaved = {} /\ content = {} /\ kept = {}
    BY DEF Atomic!Init
  <2>1. \A c \in LockChange : c[1] \in Proc /\ c[2] \in 1..MaxChanges
    BY DEF LockChange
  <2>2. \A c \in LockChange : ~(c[2] <= made[c[1]])
    BY <2>1, StateLockAssumption DEF LockInit
  <2> QED BY <2>2 DEF LockInit, EverSaved
<1>2. KeepInv /\ [LockNext]_lockVars => [Atomic!Next]_<<content, EverSaved, kept>>
  <2> SUFFICES ASSUME KeepInv, [LockNext]_lockVars
               PROVE  [Atomic!Next]_<<content, EverSaved, kept>>
    OBVIOUS
  <2>1. ASSUME NEW p \in Proc, Save(p)
        PROVE  Atomic!Next
    <3>1. /\ Mine(p) \in LockChange /\ Mine(p) \notin EverSaved
          /\ EverSaved' = EverSaved \cup {Mine(p)}
      BY <2>1, SaveFacts DEF KeepInv, ExclusionInv
    <3>2. read[p] \in SUBSET EverSaved /\ kept \subseteq read[p]
      BY <2>1 DEF Save, Move, KeepInv
    <3>3. /\ content' = read[p] \cup {Mine(p)}
          /\ kept' \in {kept, kept \cup {Mine(p)}}
      BY <2>1 DEF Save
    <3>4. Atomic!Apply(Mine(p))
      BY <3>1, <3>2, <3>3 DEF Atomic!Apply
    <3> QED BY <3>1, <3>4 DEF Atomic!Next
  <2>2. ASSUME UNCHANGED <<content, made, kept>>
        PROVE  UNCHANGED <<content, EverSaved, kept>>
    BY <2>2 DEF EverSaved
  <2>3. ASSUME NEW p \in Proc,
               \/ Request(p) \/ Open(p) \/ Inspect(p) \/ Break(p) \/ Retry(p)
               \/ GiveUp(p) \/ Load(p) \/ NotSaved(p) \/ Leave(p) \/ Die(p)
        PROVE  UNCHANGED <<content, made, kept>>
    BY <2>3 DEF Request, Open, Inspect, Break, Retry, GiveUp, Load, NotSaved,
                Leave, Die, DataUnchanged
  <2>4. CASE Age \/ UNCHANGED lockVars
    BY <2>2, <2>4 DEF Age, DataUnchanged, lockVars
  <2> QED BY <2>1, <2>2, <2>3, <2>4 DEF LockNext, Step
<1> QED BY <1>1, <1>2, KeepInit, KeepStep, PTL
        DEF LockSpec, UpdatesAtomic, Atomic!Spec

-----------------------------------------------------------------------------
(***************************************************************************)
(* The files.                                                              *)
(***************************************************************************)
Locked(p) == at[p] # "idle" /\ ~Unlocked(p)

\* A process in a section that changes something holds the lock.
LockHeld == \A p \in Process : Locked(p) => holder = p

(***************************************************************************)
(* The state file.  Good: nothing that was saved is missing, or it says so. *)
(***************************************************************************)
Good(f) == f.err \/ acked \subseteq Saved(f)

FileGood == file.there /\ file.ok => Good(file)

NoneYet == ~file.there => acked = {}

\* A process works on a state, be it an empty one.
InHand ==
  \A p \in Process :
    at[p] = "migrate" \/ (at[p] = "loaded" /\ job[p] \notin {Looking, Managing})
      => copy[p].there

CopiesGood ==
  \A p \in Process :
    at[p] = "migrate" \/ (at[p] = "loaded" /\ job[p] \in Change) => Good(copy[p])

(***************************************************************************)
(* The orchestrator file.                                                  *)
(***************************************************************************)
OrchGood == orch.there /\ orch.ok => orch.changes >= managed

PlansGood ==
  \A p \in Process :
    /\ at[p] = "loaded" /\ job[p] = Managing => plan[p].changes >= managed
    /\ at[p] = "renew" /\ orch.there /\ orch.ok => managed = 0

\* What a load does next fits what it is for.
Placed ==
  \A p \in Process :
    /\ at[p] \in {"migrate", "mark"} => job[p] \notin {Looking, Managing}
    /\ at[p] = "renew" => job[p] \in {Looking, Managing}

\* A renewed orchestrator is empty.
Renewing == \A p \in Process : at[p] = "renew" => plan[p] = EmptyOrchestrator

IInv ==
  /\ TypeOK /\ LockHeld /\ Placed /\ Renewing /\ NoneYet /\ InHand
  /\ ~overtaken => FileGood /\ CopiesGood /\ OrchGood /\ PlansGood

-----------------------------------------------------------------------------
Job == Change \cup {Reading, Looking, Managing}

LEMMA Jobs ==
  /\ Reading # Looking /\ Reading # Managing /\ Looking # Managing
  /\ Change \cap {Reading, Looking, Managing} = {}
BY StateFilesAssumption DEF Change

LEMMA FilesTyped ==
  /\ EmptyState \in File /\ Absent \in File
  /\ Absent.there = FALSE /\ Absent.channels = [n \in Name |-> {}]
  /\ EmptyOrchestrator \in OrchestratorFile /\ NoOrchestrator \in OrchestratorFile
  /\ NoOrchestrator.there = FALSE
<1>1. EmptyState \in File
  BY DEF EmptyState, File
<1>2. Absent \in File /\ Absent.there = FALSE /\ Absent.channels = [n \in Name |-> {}]
  BY DEF EmptyState, Absent, File
<1>3. EmptyOrchestrator \in OrchestratorFile /\ NoOrchestrator \in OrchestratorFile
      /\ NoOrchestrator.there = FALSE
  BY DEF EmptyOrchestrator, NoOrchestrator, OrchestratorFile
<1> QED  BY <1>1, <1>2, <1>3

\* What a file says when the operations on it are through.
LEMMA ErrFile ==
  ASSUME NEW f \in File
  PROVE  /\ [f EXCEPT !.ok = FALSE] \in File
         /\ [EmptyState EXCEPT !.err = TRUE] \in File
         /\ [EmptyState EXCEPT !.err = TRUE].err
         /\ [EmptyState EXCEPT !.err = TRUE].there
         /\ ReadStateFile(f) \in File /\ ReadStateFile(f).there
<1>1. [f EXCEPT !.ok = FALSE] \in File
  BY DEF File
<1>2. /\ [EmptyState EXCEPT !.err = TRUE] \in File /\ [EmptyState EXCEPT !.err = TRUE].err
      /\ [EmptyState EXCEPT !.err = TRUE].there /\ EmptyState.there
  BY DEF EmptyState, File
<1> QED  BY <1>1, <1>2, FilesTyped DEF ReadStateFile

LEMMA MigratedFile ==
  ASSUME NEW f \in File
  PROVE  /\ Migrated(f) \in File
         /\ Migrated(f).there /\ Migrated(f).ok /\ Migrated(f).err = f.err
         /\ \A n \in Name : Migrated(f).channels[n] =
              IF n \in LegacyName THEN {"open", "v1"} ELSE f.channels[n]
<1> DEFINE chs == [n \in Name |-> IF n \in LegacyName THEN {"open", "v1"} ELSE f.channels[n]]
<1>1. chs \in [Name -> SUBSET Happening]
  BY DEF File, Happening
<1>2. f.err \in BOOLEAN
  BY DEF File
<1>3. Migrated(f) = [EmptyState EXCEPT !.err = f.err, !.channels = chs]
  BY DEF Migrated
<1>4. \A n \in Name : chs[n] = IF n \in LegacyName THEN {"open", "v1"} ELSE f.channels[n]
  OBVIOUS
<1> HIDE DEF chs
<1> QED  BY <1>1, <1>2, <1>3, <1>4 DEF EmptyState, File

-----------------------------------------------------------------------------

LEMMA LeavesFacts ==
  ASSUME TypeOK, NEW p \in Process, Leaves(p)
  PROVE  /\ at' \in [Process -> {"idle", "load", "migrate", "mark", "renew", "loaded"}]
         /\ job' \in [Process -> Job] /\ copy' \in [Process -> File]
         /\ plan' \in [Process -> OrchestratorFile]
         /\ holder' \in Process \cup {Nobody}
         /\ at'[p] = "idle"
         /\ holder' = IF holder = p THEN Nobody ELSE holder
         /\ \A q \in Process : q # p => /\ at'[q] = at[q] /\ job'[q] = job[q]
                                       /\ copy'[q] = copy[q] /\ plan'[q] = plan[q]
<1>1. /\ at' = [at EXCEPT ![p] = "idle"] /\ job' = [job EXCEPT ![p] = Reading]
      /\ copy' = [copy EXCEPT ![p] = Absent] /\ plan' = [plan EXCEPT ![p] = NoOrchestrator]
      /\ holder' = IF holder = p THEN Nobody ELSE holder
  BY DEF Leaves, Goes, Holds, Plans
<1>2. at' \in [Process -> {"idle", "load", "migrate", "mark", "renew", "loaded"}]
      /\ job' \in [Process -> Job] /\ holder' \in Process \cup {Nobody}
  BY <1>1 DEF TypeOK, Job
<1>3. copy' \in [Process -> File]
  BY <1>1, FilesTyped DEF TypeOK
<1>4. plan' \in [Process -> OrchestratorFile]
  BY <1>1, FilesTyped DEF TypeOK
<1> QED  BY <1>1, <1>2, <1>3, <1>4 DEF TypeOK

LEMMA GoesFacts ==
  ASSUME TypeOK, NEW p \in Process,
         NEW place \in {"idle", "load", "migrate", "mark", "renew", "loaded"}, Goes(p, place)
  PROVE  /\ at' \in [Process -> {"idle", "load", "migrate", "mark", "renew", "loaded"}]
         /\ at'[p] = place /\ \A q \in Process : q # p => at'[q] = at[q]
BY DEF TypeOK, Goes

LEMMA HoldsFacts ==
  ASSUME TypeOK, NEW p \in Process, NEW f \in File, Holds(p, f)
  PROVE  /\ copy' \in [Process -> File]
         /\ copy'[p] = f /\ \A q \in Process : q # p => copy'[q] = copy[q]
BY DEF TypeOK, Holds

LEMMA PlansFacts ==
  ASSUME TypeOK, NEW p \in Process, NEW f \in OrchestratorFile, Plans(p, f)
  PROVE  /\ plan' \in [Process -> OrchestratorFile]
         /\ plan'[p] = f /\ \A q \in Process : q # p => plan'[q] = plan[q]
BY DEF TypeOK, Plans

\* A loaded file is good if the file is (ReadStateFile), and so is what the
\* cutover makes of an empty one (migrateFromLegacyIfPresent).
LEMMA ReadIsGood ==
  ASSUME TypeOK, NoneYet, FileGood
  PROVE  Good(ReadStateFile(file))
<1>1. file \in File
  BY DEF TypeOK
<1>2. CASE ~file.there
  BY <1>2 DEF NoneYet, Good
<1>3. CASE file.there /\ ~file.ok
  BY <1>1, <1>3, ErrFile DEF ReadStateFile, Rejected, Good
<1>4. CASE file.there /\ file.ok
  BY <1>4 DEF ReadStateFile, Rejected, FileGood
<1> QED  BY <1>2, <1>3, <1>4

LEMMA MigratedIsGood ==
  ASSUME TypeOK, NoneYet, FileGood, Migrates
  PROVE  Good(Migrated(file))
<1>1. file \in File
  BY DEF TypeOK
<1>2. CASE ~file.there
  BY <1>2 DEF NoneYet, Good
<1>3. CASE file.there
  <2>1. file.ok /\ \A n \in Name : file.channels[n] \subseteq {"open"}
    BY <1>3 DEF Migrates, Rejected, IsEmptyOperatorState
  <2>2. CASE file.err
    BY <1>1, <2>2, MigratedFile DEF Good
  <2>3. CASE acked \subseteq Saved(file)
    <3> SUFFICES ASSUME NEW c \in acked PROVE c \in Saved(Migrated(file))
      BY DEF Good
    <3>1. c \in Change /\ c[2] \in file.channels[c[1]] /\ c[1] \in Name
      BY <2>3 DEF Saved, Change
    <3>2. c[2] = "open"
      BY <2>1, <3>1
    <3>3. c[2] \in Migrated(file).channels[c[1]]
      BY <1>1, <3>1, <3>2, MigratedFile
    <3> QED  BY <3>1, <3>3 DEF Saved
  <2> QED  BY <1>3, <2>1, <2>2, <2>3 DEF FileGood, Good
<1> QED  BY <1>2, <1>3

\* Good does not depend on more than what was saved.
LEMMA GoodStays ==
  ASSUME NEW f, Good(f), acked' = acked
  PROVE  f.err \/ acked' \subseteq Saved(f)
BY DEF Good

-----------------------------------------------------------------------------

LEMMA BeginKeeps ==
  ASSUME IInv, NEW p \in Process, NEW j \in Job, Begin(p, j)
  PROVE  IInv'
<1>0. /\ at[p] = "idle" /\ TakesLock(p, j) /\ job' = [job EXCEPT ![p] = j]
      /\ Goes(p, "load")
      /\ UNCHANGED <<legacy, marker, file, copy, acked, v2First, orch, plan, managed,
                     overtaken, deaths, tampers>>
  BY DEF Begin, store, orchestrator
<1>1. /\ at' \in [Process -> {"idle", "load", "migrate", "mark", "renew", "loaded"}]
      /\ at'[p] = "load" /\ \A q \in Process : q # p => at'[q] = at[q]
  BY <1>0, GoesFacts DEF IInv
<1>2. /\ job' \in [Process -> Job] /\ job'[p] = j
      /\ \A q \in Process : q # p => job'[q] = job[q]
  BY <1>0 DEF IInv, TypeOK, Job
<1>3. holder' \in Process \cup {Nobody}
  BY <1>0 DEF TakesLock, IInv, TypeOK
<1>4. TypeOK'
  BY <1>0, <1>1, <1>2, <1>3 DEF IInv, TypeOK, Job
<1>5. LockHeld'
  BY <1>0, <1>1, <1>2, StateFilesAssumption DEF IInv, LockHeld, Locked, Unlocked, TakesLock
<1>6. Placed' /\ Renewing' /\ NoneYet' /\ InHand'
  BY <1>0, <1>1, <1>2 DEF IInv, Placed, Renewing, NoneYet, InHand
<1>7. ~overtaken' => FileGood' /\ OrchGood'
  BY <1>0 DEF IInv, FileGood, OrchGood, Good
<1>8. ~overtaken' => CopiesGood' /\ PlansGood'
  BY <1>0, <1>1, <1>2 DEF IInv, CopiesGood, PlansGood, Good
<1> QED  BY <1>4, <1>5, <1>6, <1>7, <1>8 DEF IInv

\* What ends leaves nothing behind.
LEMMA EndsKeep ==
  ASSUME IInv, NEW p \in Process, FinishesReading(p) \/ Dies(p)
  PROVE  IInv'
<1>0. /\ Leaves(p) /\ deaths' \in 0..MaxDeaths
      /\ UNCHANGED <<legacy, marker, file, acked, v2First, orch, managed, overtaken, tampers>>
  BY StateFilesAssumption DEF FinishesReading, Dies, IInv, TypeOK
<1>1. /\ at' \in [Process -> {"idle", "load", "migrate", "mark", "renew", "loaded"}]
      /\ job' \in [Process -> Job] /\ copy' \in [Process -> File]
      /\ plan' \in [Process -> OrchestratorFile] /\ holder' \in Process \cup {Nobody}
      /\ at'[p] = "idle"
      /\ holder' = IF holder = p THEN Nobody ELSE holder
      /\ \A q \in Process : q # p => /\ at'[q] = at[q] /\ job'[q] = job[q]
                                    /\ copy'[q] = copy[q] /\ plan'[q] = plan[q]
  BY <1>0, LeavesFacts DEF IInv
<1>2. TypeOK'
  BY <1>0, <1>1 DEF IInv, TypeOK, Job
<1>3. LockHeld'
  BY <1>1 DEF IInv, LockHeld, Locked, Unlocked
<1>4. Placed' /\ Renewing' /\ NoneYet' /\ InHand'
  BY <1>0, <1>1 DEF IInv, Placed, Renewing, NoneYet, InHand
<1>5. ~overtaken' => FileGood' /\ OrchGood'
  BY <1>0 DEF IInv, FileGood, OrchGood, Good
<1>6. ~overtaken' => CopiesGood' /\ PlansGood'
  BY <1>0, <1>1 DEF IInv, CopiesGood, PlansGood, Good
<1> QED  BY <1>2, <1>3, <1>4, <1>5, <1>6 DEF IInv

\* A damaged file is not trusted any more.
LEMMA TamperKeeps ==
  ASSUME IInv, Tamper
  PROVE  IInv'
<1>0. /\ tampers' \in 0..MaxTampers
      /\ \/ file.there /\ file' = [file EXCEPT !.ok = FALSE] /\ orch' = orch
         \/ orch.there /\ orch' = [orch EXCEPT !.ok = FALSE] /\ file' = file
      /\ UNCHANGED <<legacy, marker, copy, acked, v2First, plan, managed,
                     holder, job, at, overtaken, deaths>>
  BY StateFilesAssumption DEF Tamper, IInv, TypeOK
<1>1. /\ file' \in File /\ (file' = file \/ ~file'.ok) /\ file'.there = file.there
      /\ orch' \in OrchestratorFile /\ (orch' = orch \/ ~orch'.ok) /\ orch'.there = orch.there
  BY <1>0 DEF IInv, TypeOK, File, OrchestratorFile
<1>2. TypeOK'
  BY <1>0, <1>1 DEF IInv, TypeOK
<1>3. LockHeld' /\ Placed' /\ Renewing' /\ NoneYet' /\ InHand'
  BY <1>0, <1>1 DEF IInv, LockHeld, Locked, Unlocked, Placed, Renewing, NoneYet, InHand
<1>4. ~overtaken' => FileGood' /\ OrchGood'
  BY <1>0, <1>1 DEF IInv, FileGood, OrchGood, Good
<1>5. ~overtaken' => CopiesGood' /\ PlansGood'
  BY <1>0, <1>1 DEF IInv, CopiesGood, PlansGood, Good
<1> QED  BY <1>2, <1>3, <1>4, <1>5 DEF IInv

\* The steps of a load of the state that do not write it.
LEMMA LoadKeeps ==
  ASSUME IInv, NEW p \in Process, LoadsAsIs(p) \/ StartsMigration(p) \/ WritesMarker(p)
  PROVE  IInv'
<1> DEFINE found == IF Migrates /\ ~file.there THEN [EmptyState EXCEPT !.err = TRUE]
                    ELSE ReadStateFile(file)
<1>a. file \in File
  BY DEF IInv, TypeOK
<1>b. /\ found \in File /\ Migrated(file) \in File
      /\ found.there /\ Migrated(file).there
  BY <1>a, ErrFile, MigratedFile
<1>c. ~overtaken => Good(found) /\ (Migrates => Good(Migrated(file)))
  <2>1. ~overtaken => Good(ReadStateFile(file)) /\ (Migrates => Good(Migrated(file)))
    BY ReadIsGood, MigratedIsGood DEF IInv
  <2>2. Good([EmptyState EXCEPT !.err = TRUE])
    BY <1>a, ErrFile DEF Good
  <2> QED  BY <2>1, <2>2
<1> HIDE DEF found
<1>0. /\ \/ at[p] = "load" /\ job[p] \notin {Looking, Managing}
            /\ \/ Holds(p, found) /\ Goes(p, "loaded")
               \/ Migrates /\ Holds(p, Migrated(file)) /\ Goes(p, "migrate")
            /\ marker' = marker
         \/ at[p] = "mark" /\ Goes(p, "load") /\ copy' = copy /\ marker' = TRUE
      /\ UNCHANGED <<legacy, file, acked, v2First, orch, plan, managed, holder, job,
                     overtaken, deaths, tampers>>
  BY DEF LoadsAsIs, StartsMigration, WritesMarker, LoadsState, found, orchestrator
<1>1. /\ at' \in [Process -> {"idle", "load", "migrate", "mark", "renew", "loaded"}]
      /\ at'[p] \in {"load", "migrate", "loaded"} /\ at[p] # "idle"
      /\ job[p] \notin {Looking, Managing}
      /\ \A q \in Process : q # p => at'[q] = at[q]
  BY <1>0, GoesFacts DEF IInv, Placed
<1>2. /\ copy' \in [Process -> File]
      /\ \A q \in Process : q # p => copy'[q] = copy[q]
      /\ at'[p] # "load" => copy'[p].there /\ (~overtaken => Good(copy'[p]))
  BY <1>0, <1>b, <1>c, HoldsFacts, GoesFacts DEF IInv, TypeOK
<1>3. InHand'
  BY <1>0, <1>1, <1>2 DEF IInv, InHand
<1>4. TypeOK'
  BY <1>0, <1>1, <1>2 DEF IInv, TypeOK
<1>5. LockHeld' /\ Placed' /\ NoneYet'
  BY <1>0, <1>1 DEF IInv, LockHeld, Locked, Unlocked, Placed, NoneYet
<1>6. Renewing'
  BY <1>0, <1>1 DEF IInv, Renewing
<1>7. ~overtaken' => FileGood' /\ OrchGood'
  BY <1>0 DEF IInv, FileGood, OrchGood, Good
<1>8. ~overtaken' => CopiesGood'
  BY <1>0, <1>1, <1>2 DEF IInv, CopiesGood, Good
<1>9. ~overtaken' => PlansGood'
  BY <1>0, <1>1 DEF IInv, PlansGood
<1> QED  BY <1>4, <1>5, <1>6, <1>7, <1>8, <1>9, <1>3 DEF IInv

\* What the cutover made is good when it is written.
LEMMA SavesMigratedKeeps ==
  ASSUME IInv, NEW p \in Process, SavesMigrated(p)
  PROVE  IInv'
<1>0. /\ at[p] = "migrate" /\ file' = copy[p] /\ Goes(p, "mark")
      /\ UNCHANGED <<legacy, marker, copy, acked, v2First, orch, plan, managed,
                     holder, job, overtaken, deaths, tampers>>
  BY DEF SavesMigrated, orchestrator
<1>1. /\ at' \in [Process -> {"idle", "load", "migrate", "mark", "renew", "loaded"}]
      /\ at'[p] = "mark" /\ \A q \in Process : q # p => at'[q] = at[q]
  BY <1>0, GoesFacts DEF IInv
<1>2. TypeOK'
  BY <1>0, <1>1 DEF IInv, TypeOK
<1>3. LockHeld' /\ Placed' /\ Renewing'
  BY <1>0, <1>1 DEF IInv, LockHeld, Locked, Unlocked, Placed, Renewing
<1>4. ~overtaken' => FileGood' /\ OrchGood'
  BY <1>0 DEF IInv, FileGood, OrchGood, CopiesGood, Good
<1>5. ~overtaken' => CopiesGood' /\ PlansGood'
  BY <1>0, <1>1 DEF IInv, CopiesGood, PlansGood, Good
<1>6. NoneYet' /\ InHand'
  BY <1>0, <1>1 DEF IInv, InHand, NoneYet
<1> QED  BY <1>2, <1>3, <1>4, <1>5, <1>6 DEF IInv

\* The section saves its change on what it loaded: nobody else saved one
\* meanwhile, for that takes the lock; and whoever is about to write
\* without it is told of (overtaken).
LEMMA SavesKeeps ==
  ASSUME IInv, NEW p \in Process, Saves(p)
  PROVE  IInv'
<1> DEFINE n == job[p][1]
           x == job[p][2]
           g == [copy[p] EXCEPT !.channels[n] = @ \cup {x}]
<1>0. /\ at[p] = "loaded" /\ job[p] \in Change /\ Leaves(p)
      /\ \/ UNCHANGED <<file, acked, overtaken>>
         \/ /\ file' = g /\ acked' = acked \cup {job[p]}
            /\ overtaken' = Overtakes("migrate")
      /\ UNCHANGED <<legacy, marker, v2First, orch, managed, deaths, tampers>>
  BY DEF Saves
<1>a. n \in Name /\ x \in {"open", "join"} /\ job[p] = <<n, x>>
  BY <1>0 DEF Change
<1>b. copy[p] \in File /\ copy[p].there
  BY <1>0, Jobs DEF IInv, TypeOK, InHand
<1>c. /\ g \in File /\ g.there /\ g.err = copy[p].err
      /\ g.channels = [copy[p].channels EXCEPT ![n] = @ \cup {x}]
  <2> HIDE DEF n, x
  <2>1. PICK f \in File : f = copy[p]
    BY <1>b
  <2>2. g = [f EXCEPT !.channels[n] = @ \cup {x}]
    BY <2>1
  <2>3. /\ g \in File /\ g.there = f.there /\ g.err = f.err
        /\ g.channels = [f.channels EXCEPT ![n] = @ \cup {x}]
    <3> DEFINE h == [f EXCEPT !.channels[n] = @ \cup {x}]
    <3>1. n \in Name /\ x \in {"open", "join"}
      BY <1>a
    <3>2. /\ h \in File /\ h.there = f.there /\ h.err = f.err
          /\ h.channels = [f.channels EXCEPT ![n] = @ \cup {x}]
      <4>1. [f.channels EXCEPT ![n] = @ \cup {x}] \in [Name -> SUBSET Happening]
        BY <3>1 DEF File, Happening
      <4> QED  BY <4>1 DEF File
    <3>3. g = h
      BY <2>2
    <3> HIDE DEF g, h
    <3> QED  BY <3>2, <3>3
  <2> QED  BY <1>b, <2>1, <2>3
<1>d. Good(copy[p]) => g.err \/ acked \cup {job[p]} \subseteq Saved(g)
  <2> SUFFICES ASSUME acked \subseteq Saved(copy[p]), NEW c \in acked \cup {job[p]}
               PROVE  c \in Saved(g)
    BY <1>c DEF Good
  <2>1. c \in Change /\ c[1] \in Name
    BY <1>0 DEF Saved, Change
  <2>2. c[2] \in g.channels[c[1]]
    <3>1. CASE c = job[p]
      BY <1>a, <1>b, <1>c, <3>1 DEF File
    <3>2. CASE c \in acked
      <4>1. c[2] \in copy[p].channels[c[1]]
        BY <3>2 DEF Saved
      <4> QED  BY <1>b, <1>c, <2>1, <4>1 DEF File
    <3> QED  BY <3>1, <3>2
  <2> QED  BY <2>1, <2>2 DEF Saved
<1>1. /\ at' \in [Process -> {"idle", "load", "migrate", "mark", "renew", "loaded"}]
      /\ job' \in [Process -> Job] /\ copy' \in [Process -> File]
      /\ plan' \in [Process -> OrchestratorFile] /\ holder' \in Process \cup {Nobody}
      /\ at'[p] = "idle"
      /\ holder' = IF holder = p THEN Nobody ELSE holder
      /\ \A q \in Process : q # p => /\ at'[q] = at[q] /\ job'[q] = job[q]
                                    /\ copy'[q] = copy[q] /\ plan'[q] = plan[q]
  BY <1>0, LeavesFacts DEF IInv
<1> HIDE DEF g, n, x
<1>2. TypeOK'
  <2>1. acked' \subseteq Change /\ file' \in File
    BY <1>0, <1>c DEF IInv, TypeOK
  <2>2. overtaken' \in BOOLEAN
    BY <1>0 DEF IInv, TypeOK, Overtakes
  <2> QED  BY <1>0, <1>1, <2>1, <2>2 DEF IInv, TypeOK, Job
<1>3. LockHeld'
  BY <1>1 DEF IInv, LockHeld, Locked, Unlocked
<1>4. Placed' /\ Renewing' /\ InHand'
  BY <1>1 DEF IInv, Placed, Renewing, InHand
<1>5. NoneYet'
  BY <1>0, <1>c DEF IInv, NoneYet
<1>6. ~overtaken' => ~overtaken
  BY <1>0 DEF Overtakes
<1>7. ~overtaken' => FileGood'
  <2>1. ~overtaken => Good(copy[p])
    BY <1>0 DEF IInv, CopiesGood
  <2>2. CASE UNCHANGED <<file, acked>>
    BY <1>6, <2>2 DEF IInv, FileGood, Good
  <2>3. CASE file' = g /\ acked' = acked \cup {job[p]}
    BY <1>d, <1>6, <2>1, <2>3 DEF FileGood, Good
  <2> QED  BY <1>0, <2>2, <2>3
<1>8. ~overtaken' => CopiesGood'
  <2>1. CASE UNCHANGED acked
    BY <1>1, <1>6, <2>1 DEF IInv, CopiesGood, Good
  <2>2. CASE overtaken' = Overtakes("migrate")
    <3>1. holder = p
      BY <1>0, Jobs DEF IInv, LockHeld, Locked, Unlocked
    <3>2. \A q \in Process : q # p /\ at[q] # "idle" => Unlocked(q)
      BY <3>1 DEF IInv, LockHeld, Locked
    <3>3. ~overtaken' => \A q \in Process : q # p => at[q] # "migrate"
      BY <2>2, <3>2 DEF Overtakes
    <3>4. \A q \in Process : q # p /\ at[q] = "loaded" => job[q] \notin Change
      BY <3>2, Jobs DEF Unlocked
    <3> QED  BY <1>1, <3>3, <3>4 DEF CopiesGood
  <2> QED  BY <1>0, <2>1, <2>2
<1>9. ~overtaken' => OrchGood' /\ PlansGood'
  BY <1>0, <1>1, <1>6 DEF IInv, OrchGood, PlansGood
<1> QED  BY <1>2, <1>3, <1>4, <1>5, <1>7, <1>8, <1>9 DEF IInv

LEMMA StartsAnewKeeps ==
  ASSUME IInv, NEW p \in Process, StartsAnew(p)
  PROVE  IInv'
<1>0. /\ at[p] = "load" /\ job[p] \in {Looking, Managing}
      /\ \/ orch.there /\ orch.ok /\ Plans(p, orch) /\ Goes(p, "loaded")
         \/ /\ ~(orch.there /\ orch.ok)
            /\ Plans(p, EmptyOrchestrator) /\ Goes(p, "renew")
      /\ UNCHANGED <<legacy, marker, file, copy, acked, v2First, orch, managed, holder, job,
                     overtaken, deaths, tampers>>
  BY DEF StartsAnew, LoadsOrchestrator, Malformed, store
<1>1. /\ at' \in [Process -> {"idle", "load", "migrate", "mark", "renew", "loaded"}]
      /\ at'[p] \in {"renew", "loaded"}
      /\ \A q \in Process : q # p => at'[q] = at[q]
  BY <1>0, GoesFacts DEF IInv
<1>2. /\ plan' \in [Process -> OrchestratorFile]
      /\ \A q \in Process : q # p => plan'[q] = plan[q]
      /\ at'[p] = "loaded" => orch.there /\ orch.ok /\ plan'[p] = orch
      /\ at'[p] = "renew" => ~(orch.there /\ orch.ok) /\ plan'[p] = EmptyOrchestrator
  BY <1>0, PlansFacts, GoesFacts, FilesTyped DEF IInv, TypeOK
<1>3. TypeOK'
  BY <1>0, <1>1, <1>2 DEF IInv, TypeOK
<1>4. LockHeld' /\ Placed' /\ NoneYet'
  BY <1>0, <1>1 DEF IInv, LockHeld, Locked, Unlocked, Placed, NoneYet
<1>5. Renewing' /\ InHand'
  BY <1>0, <1>1, <1>2 DEF IInv, Renewing, InHand
<1>6. ~overtaken' => FileGood' /\ OrchGood'
  BY <1>0 DEF IInv, FileGood, OrchGood, Good
<1>7. ~overtaken' => CopiesGood'
  BY <1>0, <1>1, Jobs DEF IInv, CopiesGood, Good
<1>8. ~overtaken' => PlansGood'
  BY <1>0, <1>1, <1>2 DEF IInv, PlansGood, OrchGood
<1> QED  BY <1>3, <1>4, <1>5, <1>6, <1>7, <1>8 DEF IInv

\* A file is renewed that was there and valid only if nothing was in it.
LEMMA SavesAnewKeeps ==
  ASSUME IInv, NEW p \in Process, SavesAnew(p)
  PROVE  IInv'
<1>0. /\ at[p] = "renew" /\ orch' = plan[p] /\ Goes(p, "loaded")
      /\ managed' = IF orch.there /\ orch.ok THEN managed ELSE 0
      /\ UNCHANGED <<legacy, marker, file, copy, acked, v2First, plan, holder, job,
                     overtaken, deaths, tampers>>
  BY DEF SavesAnew, Malformed, store
<1>1. /\ at' \in [Process -> {"idle", "load", "migrate", "mark", "renew", "loaded"}]
      /\ at'[p] = "loaded" /\ job[p] \in {Looking, Managing}
      /\ \A q \in Process : q # p => at'[q] = at[q]
  BY <1>0, GoesFacts DEF IInv, Placed
<1>2. plan[p] = EmptyOrchestrator /\ orch'.changes = 0
  BY <1>0 DEF IInv, Renewing, EmptyOrchestrator
<1>3. ~overtaken => managed' = 0
  BY <1>0 DEF IInv, PlansGood
<1>4. TypeOK'
  BY <1>0, <1>1, StateFilesAssumption DEF IInv, TypeOK
<1>5. LockHeld' /\ Placed' /\ NoneYet'
  BY <1>0, <1>1 DEF IInv, LockHeld, Locked, Unlocked, Placed, NoneYet
<1>6. Renewing' /\ InHand'
  BY <1>0, <1>1 DEF IInv, Renewing, InHand
<1>7. ~overtaken' => FileGood' /\ OrchGood'
  BY <1>0, <1>2, <1>3 DEF IInv, FileGood, OrchGood, Good
<1>8. ~overtaken' => CopiesGood'
  BY <1>0, <1>1, Jobs DEF IInv, CopiesGood, Good
<1>9. ~overtaken' => PlansGood'
  <2>1. \A q \in Process : plan[q].changes \in Nat
    BY DEF IInv, TypeOK, OrchestratorFile
  <2> QED  BY <1>0, <1>1, <1>3, <2>1 DEF PlansGood
<1> QED  BY <1>4, <1>5, <1>6, <1>7, <1>8, <1>9 DEF IInv

LEMMA ManagesKeeps ==
  ASSUME IInv, NEW p \in Process, Manages(p)
  PROVE  IInv'
<1>0. /\ at[p] = "loaded" /\ job[p] = Managing /\ managed < MaxManaged
      /\ orch' = [plan[p] EXCEPT !.changes = @ + 1] /\ managed' = managed + 1
      /\ overtaken' = Overtakes("renew") /\ Leaves(p)
      /\ UNCHANGED <<legacy, marker, file, acked, v2First, deaths, tampers>>
  BY DEF Manages
<1>1. /\ at' \in [Process -> {"idle", "load", "migrate", "mark", "renew", "loaded"}]
      /\ job' \in [Process -> Job] /\ copy' \in [Process -> File]
      /\ plan' \in [Process -> OrchestratorFile] /\ holder' \in Process \cup {Nobody}
      /\ at'[p] = "idle"
      /\ holder' = IF holder = p THEN Nobody ELSE holder
      /\ \A q \in Process : q # p => /\ at'[q] = at[q] /\ job'[q] = job[q]
                                    /\ copy'[q] = copy[q] /\ plan'[q] = plan[q]
  BY <1>0, LeavesFacts DEF IInv
<1>2. orch' \in OrchestratorFile /\ orch'.changes = plan[p].changes + 1
  BY <1>0 DEF IInv, TypeOK, OrchestratorFile
<1>3. TypeOK'
  <2>1. managed' \in 0..MaxManaged
    BY <1>0, StateFilesAssumption DEF IInv, TypeOK
  <2>2. overtaken' \in BOOLEAN
    BY <1>0 DEF IInv, TypeOK, Overtakes
  <2> QED  BY <1>0, <1>1, <1>2, <2>1, <2>2 DEF IInv, TypeOK, Job
<1>4. LockHeld'
  BY <1>1 DEF IInv, LockHeld, Locked, Unlocked
<1>5. Placed' /\ Renewing' /\ InHand' /\ NoneYet'
  BY <1>0, <1>1 DEF IInv, Placed, Renewing, InHand, NoneYet
<1>6. ~overtaken' => ~overtaken
  BY <1>0 DEF Overtakes
<1>7. ~overtaken' => FileGood' /\ CopiesGood'
  BY <1>0, <1>1, <1>6 DEF IInv, FileGood, CopiesGood, Good
<1>8. ~overtaken' => OrchGood'
  <2>1. plan[p].changes \in Nat /\ managed \in Nat
    BY StateFilesAssumption DEF IInv, TypeOK, OrchestratorFile
  <2>2. ~overtaken => plan[p].changes >= managed
    BY <1>0 DEF IInv, PlansGood
  <2> QED  BY <1>0, <1>2, <1>6, <2>1, <2>2 DEF OrchGood
<1>9. ~overtaken' => PlansGood'
  <2>1. holder = p
    BY <1>0, Jobs DEF IInv, LockHeld, Locked, Unlocked
  <2>2. \A q \in Process : q # p /\ at[q] # "idle" => Unlocked(q)
    BY <2>1 DEF IInv, LockHeld, Locked
  <2>3. ~overtaken' => \A q \in Process : q # p => at[q] # "renew"
    BY <1>0, <2>2 DEF Overtakes
  <2>4. \A q \in Process : q # p /\ at[q] = "loaded" => job[q] # Managing
    BY <2>2, Jobs DEF Unlocked
  <2> QED  BY <1>1, <2>3, <2>4 DEF PlansGood
<1> QED  BY <1>3, <1>4, <1>5, <1>7, <1>8, <1>9 DEF IInv

LEMMA NextKeeps == IInv /\ [Next]_vars => IInv'
<1> SUFFICES ASSUME IInv, [Next]_vars PROVE IInv'
  OBVIOUS
<1>1. ASSUME NEW p \in Process, NEW j \in Change \cup {Reading, Looking, Managing}, Begin(p, j)
      PROVE  IInv'
  BY <1>1, BeginKeeps DEF Job
<1>2. ASSUME NEW p \in Process,
             \/ LoadsAsIs(p) \/ StartsMigration(p) \/ SavesMigrated(p) \/ WritesMarker(p)
             \/ Saves(p)
             \/ StartsAnew(p) \/ SavesAnew(p) \/ Manages(p)
             \/ FinishesReading(p) \/ Dies(p)
      PROVE  IInv'
  BY <1>2, LoadKeeps, SavesMigratedKeeps, SavesKeeps, StartsAnewKeeps, SavesAnewKeeps,
     ManagesKeeps, EndsKeep
<1>3. CASE Tamper
  BY <1>3, TamperKeeps
<1>4. CASE UNCHANGED vars
  BY <1>4 DEF vars, store, orchestrator, IInv, TypeOK, LockHeld, Locked, Unlocked, Placed,
     Renewing, NoneYet, InHand, FileGood, CopiesGood, OrchGood, PlansGood, Good
<1> QED  BY <1>1, <1>2, <1>3, <1>4 DEF Next

LEMMA InitHolds == Init => IInv
<1> SUFFICES ASSUME Init PROVE IInv
  OBVIOUS
<1>1. \A n \in Name, h \in {{"open"}, {"open", "join"}} :
        [EmptyState EXCEPT !.channels[n] = h] \in File
  BY DEF EmptyState, File, Happening
<1>2. file \in File
  BY <1>1, FilesTyped DEF Init
<1>3. acked = Saved(file) /\ acked \subseteq Change
  BY DEF Init, Saved
<1>4. TypeOK
  <2>1. job \in [Process -> Job] /\ Reading \in Job
    BY DEF Init, Job
  <2>2. copy \in [Process -> File] /\ plan \in [Process -> OrchestratorFile]
    BY FilesTyped DEF Init
  <2>3. /\ managed \in 0..MaxManaged /\ deaths \in 0..MaxDeaths /\ tampers \in 0..MaxTampers
    BY StateFilesAssumption DEF Init
  <2>4. orch \in OrchestratorFile
    BY FilesTyped DEF Init
  <2>5. v2First \in BOOLEAN
    BY DEF Init
  <2> QED  BY <1>2, <1>3, <2>1, <2>2, <2>3, <2>4, <2>5 DEF Init, TypeOK, Job
<1>5. \A p \in Process : at[p] = "idle"
  BY DEF Init
<1>6. LockHeld /\ Placed /\ Renewing /\ InHand /\ CopiesGood /\ PlansGood
  BY <1>5 DEF LockHeld, Locked, Placed, Renewing, InHand, CopiesGood, PlansGood
<1>7. NoneYet
  <2>1. \A n \in Name : \A h : [EmptyState EXCEPT !.channels[n] = h].there
    BY DEF EmptyState
  <2>2. ~file.there => file = Absent
    BY <2>1 DEF Init
  <2>3. Saved(Absent) = {}
    BY FilesTyped DEF Saved, Change
  <2> QED  BY <1>3, <2>2, <2>3 DEF NoneYet
<1>8. FileGood /\ OrchGood
  BY <1>3, FilesTyped DEF Init, FileGood, Good, OrchGood
<1> QED  BY <1>4, <1>6, <1>7, <1>8 DEF IInv

\* Every reachable state satisfies the invariant.
THEOREM FilesInvariant == Spec => []IInv
BY InitHolds, NextKeeps, PTL DEF Spec

\* A change that was saved, of the sessions or of the orchestrator, is in
\* its file unless the file says it was begun anew or an unlocked load
\* overtook the change (StateStore, OrchestratorStore).
THEOREM SavedChangesKept == Spec => []ChangesKept
<1>1. IInv => ChangesKept
  BY DEF IInv, FileGood, OrchGood, Good, ChangesKept, EditsKept, ManagedKept
<1> QED  BY <1>1, FilesInvariant, PTL

-----------------------------------------------------------------------------
(* The cutover.  Without a v2 conversation from before and without damage, *)
(* whoever has a state in hand that is not empty has the v1 conversations  *)
(* in it, and the marker is not there before the file has them.            *)

HasV1(f) == f.there /\ f.ok /\ \A n \in LegacyName : "v1" \in f.channels[n]

Arriving ==
  legacy = "valid" /\ ~v2First /\ tampers = 0 =>
    /\ file.ok
    /\ marker => HasV1(file)
    /\ file.there /\ ~IsEmptyOperatorState(file) => HasV1(file)
    /\ \A p \in Process :
         /\ at[p] = "mark" => HasV1(file)
         /\ at[p] = "migrate" => HasV1(copy[p])
         /\ at[p] = "loaded" /\ job[p] \in Change \cup {Reading} => HasV1(copy[p])

LEMMA InitArriving == Init => Arriving
<1> SUFFICES ASSUME Init PROVE Arriving
  OBVIOUS
<1>1. \A p \in Process : at[p] = "idle"
  BY DEF Init
<1>2. file.ok
  BY DEF Init, EmptyState, Absent
<1> QED  BY <1>1, <1>2 DEF Init, Arriving

\* Steps that leave the file and the v1 file alone and load no state.
LEMMA ElsewhereArrives ==
  ASSUME IInv, Arriving, UNCHANGED <<legacy, marker, file, v2First, tampers>>,
         NEW p \in Process,
         \A q \in Process : q # p => /\ at'[q] = at[q] /\ job'[q] = job[q]
                                    /\ copy'[q] = copy[q],
         \/ at'[p] \in {"idle", "load", "renew"}
         \/ at'[p] = "loaded" /\ job'[p] \in {Looking, Managing}
  PROVE  Arriving'
BY Jobs DEF Arriving, IsEmptyOperatorState, HasV1

LEMMA LoadsArrive ==
  ASSUME IInv, Arriving, NEW p \in Process, LoadsAsIs(p) \/ StartsMigration(p)
  PROVE  Arriving'
<1>0. UNCHANGED <<legacy, marker, file, v2First, tampers, job>>
  BY DEF LoadsAsIs, StartsMigration
<1>1. CASE LoadsAsIs(p)
  <2>1. Goes(p, "loaded") /\ Holds(p, IF Migrates /\ ~file.there
                                      THEN [EmptyState EXCEPT !.err = TRUE]
                                      ELSE ReadStateFile(file))
        /\ ~(Migrates /\ legacy = "valid")
    BY <1>1 DEF LoadsAsIs
  <2>2. /\ at'[p] = "loaded"
        /\ \A q \in Process : q # p => at'[q] = at[q] /\ copy'[q] = copy[q]
    BY <2>1 DEF Goes, Holds, IInv, TypeOK
  <2>3. ASSUME legacy = "valid", ~v2First, tampers = 0 PROVE HasV1(copy'[p])
    <3>1. ~Migrates
      BY <2>1, <2>3
    <3>2. HasV1(file)
      BY <2>3, <3>1 DEF Arriving, Migrates, Rejected
    <3>3. copy'[p] = ReadStateFile(file)
      BY <2>1, <3>1 DEF Holds, IInv, TypeOK
    <3> QED  BY <3>2, <3>3 DEF ReadStateFile, Rejected, HasV1
  <2> QED  BY <1>0, <2>2, <2>3 DEF Arriving, IsEmptyOperatorState, HasV1
<1>2. CASE StartsMigration(p)
  <2>1. Goes(p, "migrate") /\ Holds(p, Migrated(file))
    BY <1>2 DEF StartsMigration
  <2>2. /\ at'[p] = "migrate" /\ copy'[p] = Migrated(file)
        /\ \A q \in Process : q # p => at'[q] = at[q] /\ copy'[q] = copy[q]
    BY <2>1 DEF Goes, Holds, IInv, TypeOK
  <2>3. HasV1(Migrated(file))
    BY MigratedFile, StateFilesAssumption DEF HasV1, IInv, TypeOK
  <2> QED  BY <1>0, <2>2, <2>3 DEF Arriving, IsEmptyOperatorState, HasV1
<1> QED  BY <1>1, <1>2

\* A file with the v1 conversations in it is what everybody relies on.
LEMMA FileArrives ==
  ASSUME IInv, Arriving, legacy = "valid" /\ ~v2First /\ tampers = 0 => HasV1(file'),
         UNCHANGED <<legacy, v2First, tampers>>, NEW p \in Process,
         \A q \in Process : q # p => /\ at'[q] = at[q] /\ job'[q] = job[q]
                                    /\ copy'[q] = copy[q],
         at'[p] \in {"idle", "mark", "load"}
  PROVE  Arriving'
BY DEF Arriving, IsEmptyOperatorState, HasV1

LEMMA WritesArrive ==
  ASSUME IInv, Arriving, NEW p \in Process,
         SavesMigrated(p) \/ WritesMarker(p) \/ Saves(p)
  PROVE  Arriving'
<1>1. CASE SavesMigrated(p)
  <2>1. /\ at[p] = "migrate" /\ file' = copy[p]
        /\ UNCHANGED <<legacy, v2First, tampers, job, copy>>
    BY <1>1 DEF SavesMigrated
  <2>2. at'[p] = "mark" /\ \A q \in Process : q # p => at'[q] = at[q]
    BY <1>1 DEF SavesMigrated, Goes, IInv, TypeOK
  <2>3. legacy = "valid" /\ ~v2First /\ tampers = 0 => HasV1(file')
    BY <2>1 DEF Arriving, HasV1
  <2> QED  BY <2>1, <2>2, <2>3, FileArrives
<1>2. CASE WritesMarker(p)
  <2>1. /\ at[p] = "mark" /\ file' = file
        /\ UNCHANGED <<legacy, v2First, tampers, job, copy>>
    BY <1>2 DEF WritesMarker
  <2>2. at'[p] = "load" /\ \A q \in Process : q # p => at'[q] = at[q]
    BY <1>2 DEF WritesMarker, Goes, IInv, TypeOK
  <2>3. legacy = "valid" /\ ~v2First /\ tampers = 0 => HasV1(file')
    BY <2>1 DEF Arriving, HasV1
  <2> QED  BY <2>1, <2>2, <2>3, FileArrives
<1>3. CASE Saves(p)
  <2>1. /\ at[p] = "loaded" /\ job[p] \in Change /\ Leaves(p)
        /\ \/ file' = file
           \/ file' = [copy[p] EXCEPT !.channels[job[p][1]] = @ \cup {job[p][2]}]
        /\ UNCHANGED <<legacy, marker, v2First, tampers>>
    BY <1>3 DEF Saves
  <2>2. /\ at'[p] = "idle"
        /\ \A q \in Process : q # p => /\ at'[q] = at[q] /\ job'[q] = job[q]
                                      /\ copy'[q] = copy[q]
    BY <2>1, LeavesFacts DEF IInv
  <2>3. CASE file' = file
    BY <2>1, <2>2, <2>3, ElsewhereArrives
  <2>4. CASE file' = [copy[p] EXCEPT !.channels[job[p][1]] = @ \cup {job[p][2]}]
    <3>1. copy[p] \in File
      BY DEF IInv, TypeOK
    <3>2. HasV1(copy[p]) => HasV1(file')
      BY <2>4, <3>1, StateFilesAssumption DEF HasV1, File
    <3>3. legacy = "valid" /\ ~v2First /\ tampers = 0 => HasV1(file')
      BY <2>1, <3>2 DEF Arriving
    <3> QED  BY <2>1, <2>2, <3>3, FileArrives
  <2> QED  BY <2>1, <2>3, <2>4
<1> QED  BY <1>1, <1>2, <1>3

LEMMA NextArrives == IInv /\ Arriving /\ [Next]_vars => Arriving'
<1> SUFFICES ASSUME IInv, Arriving, [Next]_vars PROVE Arriving'
  OBVIOUS
<1>1. ASSUME NEW p \in Process, NEW j, Begin(p, j) PROVE Arriving'
  <2>1. UNCHANGED <<legacy, marker, file, copy, v2First, tampers>> /\ at'[p] = "load"
    BY <1>1 DEF Begin, store, Goes, IInv, TypeOK
  <2>2. \A q \in Process : q # p => at'[q] = at[q] /\ job'[q] = job[q]
    BY <1>1 DEF Begin, Goes, IInv, TypeOK
  <2> QED  BY <2>1, <2>2, ElsewhereArrives
<1>2. ASSUME NEW p \in Process, FinishesReading(p) \/ Dies(p) \/ Manages(p)
      PROVE  Arriving'
  <2>1. Leaves(p) /\ UNCHANGED <<legacy, marker, file, v2First, tampers>>
    BY <1>2 DEF FinishesReading, Dies, Manages
  <2>2. /\ at'[p] = "idle"
        /\ \A q \in Process : q # p => /\ at'[q] = at[q] /\ job'[q] = job[q]
                                      /\ copy'[q] = copy[q]
    BY <2>1, LeavesFacts DEF IInv
  <2> QED  BY <2>1, <2>2, ElsewhereArrives
<1>3. ASSUME NEW p \in Process, StartsAnew(p) \/ SavesAnew(p) PROVE Arriving'
  <2>1. UNCHANGED <<legacy, marker, file, copy, v2First, tampers, job>>
    BY <1>3 DEF StartsAnew, SavesAnew, store
  <2>2. job[p] \in {Looking, Managing}
    BY <1>3 DEF StartsAnew, SavesAnew, LoadsOrchestrator, IInv, Placed
  <2>3. /\ at'[p] \in {"loaded", "renew"}
        /\ \A q \in Process : q # p => at'[q] = at[q]
    BY <1>3 DEF StartsAnew, SavesAnew, Goes, IInv, TypeOK
  <2> QED  BY <2>1, <2>2, <2>3, ElsewhereArrives
<1>4. ASSUME NEW p \in Process, LoadsAsIs(p) \/ StartsMigration(p) PROVE Arriving'
  BY <1>4, LoadsArrive
<1>5. ASSUME NEW p \in Process, SavesMigrated(p) \/ WritesMarker(p) \/ Saves(p)
      PROVE  Arriving'
  BY <1>5, WritesArrive
<1>6. CASE Tamper
  <2>1. tampers' # 0
    BY <1>6, StateFilesAssumption DEF Tamper, IInv, TypeOK
  <2> QED  BY <2>1 DEF Arriving
<1>7. CASE UNCHANGED vars
  BY <1>7 DEF vars, store, Arriving, IsEmptyOperatorState, HasV1
<1> QED  BY <1>1, <1>2, <1>3, <1>4, <1>5, <1>6, <1>7 DEF Next

\* No v1 conversation is stranded, whoever died during a cutover
\* (migrateFromLegacyIfPresent).
THEOREM LegacyHasArrived == Spec => []LegacyArrives
<1>1. Arriving => LegacyArrives
  BY DEF Arriving, LegacyArrives, HasV1
<1>2. Init => Arriving
  BY InitArriving
<1>3. IInv /\ Arriving /\ [Next]_vars => Arriving'
  BY NextArrives
<1>4. Spec => []Arriving
  BY <1>2, <1>3, FilesInvariant, PTL DEF Spec
<1> QED  BY <1>1, <1>4, PTL

-----------------------------------------------------------------------------
(***************************************************************************)
(* Sessions and their archives, for any number of agents, channels,        *)
(* messages and interrupted saves.  The invariant adds to the properties   *)
(* what is only true until the save is done: a live session's messages are *)
(* in the state file, and a save that is half done has all of its session  *)
(* in the archive, so the session may be dropped.                          *)
(***************************************************************************)
\* What is sent to a live session is in the state file until it is dropped:
\* a save that is written over an older archive loses nothing.
LiveIsStored ==
  \A m \in Mail : sentTo[m] \in Live /\ m \notin dropped => m \in stored

\* A save that is half done has all of its session in the archive.
SavingIsWritten ==
  saving # NoChannel =>
    /\ saving \in Live /\ Readable(saving)
    /\ MessagesOf(saving) \subseteq archive[saving].messages

\* Only a save that stopped leaves a file that cannot be read.
FilesExplained ==
  \A s \in Channel :
    /\ archive[s].state = "none" => archive[s] = NoFile
    /\ archive[s].state = "broken" => s \in interrupted

SessionsInv ==
  /\ SessionsTypeOK /\ LiveIsStored /\ SavingIsWritten /\ FilesExplained
  /\ Preserved /\ DeletedIsGone /\ SavedIsQuiet /\ NamesDiffer

\* The fields of the records.
LEMMA RecordTypes ==
  ASSUME SessionsTypeOK, NEW s \in Channel
  PROVE  /\ chan[s] \in ChannelRecord /\ archive[s] \in ArchiveFile
         /\ chan[s].live \in BOOLEAN /\ chan[s].name \in ChannelName
         /\ chan[s].members \subseteq Agent
         /\ chan[s].parent \in Channel \cup {NoChannel}
         /\ archive[s].name \in ChannelName
         /\ archive[s].messages \subseteq Mail
         /\ archive[s].state \in {"none", "good", "broken"}
  BY DEF SessionsTypeOK, ChannelRecord, ArchiveFile

LEMMA EmptyRecords ==
  NeverOpened \in ChannelRecord /\ NoFile \in ArchiveFile /\ ~NeverOpened.live
  BY DEF NeverOpened, NoFile, ChannelRecord, ArchiveFile, ChannelName

LEMMA SessionsInitHolds == SessionsInit => SessionsInv
<1> SUFFICES ASSUME SessionsInit PROVE SessionsInv
  OBVIOUS
<1>1. SessionsTypeOK
  BY EmptyRecords, SessionsAssumption DEF SessionsInit, SessionsTypeOK
<1>2. /\ \A s \in Channel : ~chan[s].live /\ archive[s] = NoFile
      /\ \A m \in Mail : sentTo[m] = NoChannel
      /\ deleted = {} /\ saving = NoChannel
  BY EmptyRecords DEF SessionsInit
<1>3. LiveIsStored /\ SavingIsWritten /\ Preserved /\ DeletedIsGone /\ NamesDiffer
  BY <1>2, SessionsAssumption
  DEF LiveIsStored, SavingIsWritten, Preserved, DeletedIsGone, NamesDiffer, Live
<1>4. SavedIsQuiet /\ FilesExplained
  BY <1>2 DEF SavedIsQuiet, FilesExplained, Readable, NoFile
<1> QED BY <1>1, <1>3, <1>4 DEF SessionsInv

\* One record of chan is replaced, by one of a session that is live if and
\* only if it was, under the same name: members come and go.
LEMMA RosterKeeps ==
  ASSUME SessionsInv, NEW s \in Live, NEW r \in ChannelRecord,
         r.live, r.name = chan[s].name,
         chan' = [chan EXCEPT ![s] = r],
         UNCHANGED <<stored, archive, saving, sentTo, dropped, deleted,
                     interrupted, faults>>
  PROVE  SessionsInv'
<1>1. s \in Channel /\ SessionsTypeOK
  BY DEF Live, SessionsInv
<1>2. \A t \in Channel : chan'[t].live = chan[t].live /\ chan'[t].name = chan[t].name
  BY <1>1, RecordTypes DEF Live, SessionsTypeOK, ChannelRecord
<1>3. SessionsTypeOK'
  BY <1>1 DEF SessionsTypeOK
<1>4. Live' = Live
  BY <1>2 DEF Live
<1>5. (LiveIsStored /\ SavingIsWritten /\ FilesExplained /\ Preserved)'
  BY <1>4 DEF SessionsInv, LiveIsStored, SavingIsWritten, FilesExplained, Preserved,
              MessagesOf, Readable
<1>6. (DeletedIsGone /\ SavedIsQuiet)'
  BY <1>1, <1>2
  DEF SessionsInv, DeletedIsGone, SavedIsQuiet, MessagesOf, Readable, SessionsTypeOK
<1>7. NamesDiffer'
  BY <1>2, <1>4 DEF SessionsInv, NamesDiffer, Live
<1> QED BY <1>3, <1>5, <1>6, <1>7 DEF SessionsInv

LEMMA JoinKeeps ==
  ASSUME SessionsInv, NEW a \in Agent, NEW s \in Channel, JoinChannel(a, s)
  PROVE  SessionsInv'
<1> DEFINE r == [chan[s] EXCEPT !.members = @ \cup {a}]
<1>1. /\ s \in Live /\ chan' = [chan EXCEPT ![s] = r]
      /\ UNCHANGED <<stored, archive, saving, sentTo, dropped, deleted,
                     interrupted, faults>>
  BY DEF JoinChannel
<1>2. r \in ChannelRecord /\ r.live /\ r.name = chan[s].name
  BY <1>1, RecordTypes DEF SessionsInv, Live, ChannelRecord
<1> HIDE DEF r
<1> QED BY <1>1, <1>2, RosterKeeps

\* A session ends, and what of its messages is stored is dropped, in its
\* archive, or stays.
LEMMA EndingKeeps ==
  ASSUME SessionsInv, NEW s \in Live, LockFree \/ saving = s,
         chan' = [chan EXCEPT ![s] = Ended(s)],
         saving' = NoChannel,
         NEW D \in SUBSET Channel, deleted' = deleted \cup D, D \subseteq {s},
         D # {} => LockFree,
         \/ stored' = stored \ MessagesOf(s)
         \/ stored' = stored /\ D = {} /\ LockFree,
         dropped \subseteq dropped', dropped' \subseteq Mail,
         \A m \in Mail : m \in stored \ stored' =>
           m \in dropped' \/ (Readable(s) /\ m \in archive[s].messages),
         UNCHANGED <<archive, sentTo, interrupted, faults>>
  PROVE  SessionsInv'
<1>1. s \in Channel /\ SessionsTypeOK
  BY DEF Live, SessionsInv
<1>2. /\ Ended(s) \in ChannelRecord /\ ~Ended(s).live
  BY <1>1, RecordTypes, EmptyRecords DEF Ended, NeverOpened, ChannelRecord
<1>3. /\ chan' \in [Channel -> ChannelRecord]
      /\ ~chan'[s].live
      /\ \A t \in Channel : t # s => chan'[t] = chan[t]
  BY <1>1, <1>2 DEF SessionsTypeOK
<1>4. SessionsTypeOK'
  BY <1>1, <1>3 DEF SessionsTypeOK
<1>5. Live' = Live \ {s}
  BY <1>1, <1>3 DEF Live
<1>6. stored' \subseteq stored /\ \A m \in stored \ stored' : sentTo[m] = s
  BY DEF MessagesOf
<1>7. (LiveIsStored /\ SavingIsWritten)'
  BY <1>5, <1>6 DEF SessionsInv, LiveIsStored, SavingIsWritten
<1>8. FilesExplained'
  BY DEF SessionsInv, FilesExplained
<1>9. Preserved'
  BY <1>6 DEF SessionsInv, Preserved, Readable
<1>10. NamesDiffer'
  BY <1>3, <1>5 DEF SessionsInv, NamesDiffer, Live
<1>11. \A t \in Channel : MessagesOf(t)' \subseteq MessagesOf(t)
  BY <1>6 DEF MessagesOf
<1>12. stored' = stored \ MessagesOf(s) => MessagesOf(s)' = {}
  BY DEF MessagesOf
<1>13. SavedIsQuiet'
  <2> SUFFICES ASSUME NEW t \in Channel, t \notin interrupted, Readable(t)
               PROVE  ~chan'[t].live /\ MessagesOf(t)' = {}
    BY DEF SavedIsQuiet, Readable
  <2>1. CASE t # s /\ t # saving
    BY <2>1, <1>3, <1>11 DEF SessionsInv, SavedIsQuiet
  <2>2. CASE t # s /\ t = saving
    BY <2>2, <1>1, SessionsAssumption DEF LockFree
  <2>3. CASE t = s /\ stored' = stored \ MessagesOf(s)
    BY <2>3, <1>3, <1>12
  <2>4. CASE t = s /\ LockFree
    BY <2>4, <1>1, SessionsAssumption DEF SessionsInv, SavedIsQuiet, LockFree, Live
  <2> QED BY <2>1, <2>2, <2>3, <2>4
<1>14. DeletedIsGone'
  <2> SUFFICES ASSUME NEW t \in deleted', t \notin interrupted
               PROVE  ~chan'[t].live /\ archive[t] = NoFile /\ MessagesOf(t)' = {}
    BY DEF DeletedIsGone
  <2>1. CASE t \in deleted
    BY <2>1, <1>1, <1>3, <1>11 DEF SessionsInv, DeletedIsGone, SessionsTypeOK
  <2>2. CASE t \notin deleted
    <3>1. t = s /\ s \in D /\ stored' = stored \ MessagesOf(s)
      BY <2>2
    <3>2. archive[s].state = "none" \/ Readable(s)
      BY <3>1, <1>1, RecordTypes DEF SessionsInv, FilesExplained, Readable
    <3>3. ~Readable(s)
      BY <3>1, <1>1, SessionsAssumption
      DEF SessionsInv, SavedIsQuiet, LockFree, Live
    <3> QED BY <3>1, <3>2, <3>3, <1>1, <1>3, <1>12 DEF SessionsInv, FilesExplained
  <2> QED BY <2>1, <2>2
<1> QED BY <1>4, <1>7, <1>8, <1>9, <1>10, <1>13, <1>14 DEF SessionsInv

LEMMA LeaveKeeps ==
  ASSUME SessionsInv, NEW a \in Agent, NEW s \in Channel, LeaveChannel(a, s)
  PROVE  SessionsInv'
<1> DEFINE r == [chan[s] EXCEPT !.members = chan[s].members \ {a}]
<1>1. /\ s \in Live /\ LockFree
      /\ chan' = [chan EXCEPT ![s] = IF chan[s].members = {a} THEN Ended(s) ELSE r]
      /\ UNCHANGED <<stored, archive, saving, sentTo, dropped, deleted,
                     interrupted, faults>>
  BY DEF LeaveChannel
<1>2. CASE chan[s].members = {a}
  <2>1. dropped \subseteq Mail /\ saving' = NoChannel
    BY <1>1 DEF SessionsInv, SessionsTypeOK, LockFree
  <2>2. deleted' = deleted \cup {} /\ {} \in SUBSET Channel
    BY <1>1
  <2> QED BY <1>1, <1>2, <2>1, <2>2, EndingKeeps
<1>3. CASE chan[s].members # {a}
  <2>1. r \in ChannelRecord /\ r.live /\ r.name = chan[s].name
    BY <1>1, RecordTypes DEF SessionsInv, Live, ChannelRecord
  <2> HIDE DEF r
  <2> QED BY <1>1, <1>3, <2>1, RosterKeeps
<1> QED BY <1>2, <1>3

LEMMA CommitKeeps ==
  ASSUME SessionsInv, CommitSave
  PROVE  SessionsInv'
<1>1. /\ saving \in Live /\ Readable(saving)
      /\ MessagesOf(saving) \subseteq archive[saving].messages
      /\ dropped \subseteq Mail
  BY DEF CommitSave, SessionsInv, SavingIsWritten, SessionsTypeOK
<1>2. /\ chan' = [chan EXCEPT ![saving] = Ended(saving)]
      /\ stored' = stored \ MessagesOf(saving)
      /\ saving' = NoChannel
      /\ UNCHANGED <<archive, sentTo, dropped, deleted, interrupted, faults>>
  BY DEF CommitSave, Purge
<1>3. \A m \in Mail : m \in stored \ stored' =>
        Readable(saving) /\ m \in archive[saving].messages
  BY <1>1, <1>2
<1>4. PICK s \in Live : s = saving
  BY <1>1
<1>5. deleted' = deleted \cup {} /\ {} \in SUBSET Channel
  BY <1>2
<1> QED BY <1>1, <1>2, <1>3, <1>4, <1>5, EndingKeeps

LEMMA DeleteLiveKeeps ==
  ASSUME SessionsInv, NEW w \in Who, NEW s \in Channel, DeleteLive(w, s)
  PROVE  SessionsInv'
<1>1. /\ s \in Live /\ LockFree
      /\ chan' = [chan EXCEPT ![s] = Ended(s)]
      /\ stored' = stored \ MessagesOf(s)
      /\ dropped' = dropped \cup MessagesOf(s)
      /\ deleted' = deleted \cup {s}
      /\ saving' = NoChannel
      /\ UNCHANGED <<archive, sentTo, interrupted, faults>>
  BY DEF DeleteLive, MaySave, Purge, LockFree
<1>2. dropped \subseteq dropped' /\ dropped' \subseteq Mail
  BY <1>1 DEF SessionsInv, SessionsTypeOK, MessagesOf
<1>3. \A m \in Mail : m \in stored \ stored' => m \in dropped'
  BY <1>1
<1> QED BY <1>1, <1>2, <1>3, EndingKeeps

\* An id that nothing refers to becomes a live session.
LEMMA OpeningKeeps ==
  ASSUME SessionsInv, NEW s \in Channel, Unused(s), NEW r \in ChannelRecord,
         r.live, ~Taken(r.name),
         chan' = [chan EXCEPT ![s] = r],
         UNCHANGED <<stored, archive, saving, sentTo, dropped, deleted,
                     interrupted, faults>>
  PROVE  SessionsInv'
<1>1. /\ chan' \in [Channel -> ChannelRecord] /\ chan'[s] = r
      /\ \A t \in Channel : t # s => chan'[t] = chan[t]
  BY DEF SessionsInv, SessionsTypeOK
<1>2. SessionsTypeOK'
  BY <1>1 DEF SessionsInv, SessionsTypeOK
<1>3. Live' = Live \cup {s} /\ s \notin Live
  BY <1>1, EmptyRecords DEF Live, Unused
<1>4. \A m \in Mail : sentTo[m] # s
  BY DEF Unused
<1>5. (LiveIsStored /\ SavingIsWritten)'
  BY <1>3, <1>4
  DEF SessionsInv, LiveIsStored, SavingIsWritten, MessagesOf, Readable
<1>6. (FilesExplained /\ Preserved)'
  BY DEF SessionsInv, FilesExplained, Preserved, Readable
<1>7. DeletedIsGone'
  BY <1>1 DEF SessionsInv, DeletedIsGone, MessagesOf, Unused
<1>8. SavedIsQuiet'
  <2>1. ~Readable(s)
    BY DEF Unused, Readable, NoFile
  <2> QED BY <1>1, <2>1 DEF SessionsInv, SavedIsQuiet, MessagesOf, Readable
<1>9. NamesDiffer'
  BY <1>1, <1>3 DEF SessionsInv, NamesDiffer, Taken, Live
<1> QED BY <1>2, <1>5, <1>6, <1>7, <1>8, <1>9 DEF SessionsInv

LEMMA CreateKeeps ==
  ASSUME SessionsInv, NEW w \in Who, NEW s \in Channel, Create(w, s)
  PROVE  SessionsInv'
<1> DEFINE r == [NeverOpened EXCEPT !.live = TRUE, !.members = {w} \ {Console}]
<1>1. r \in ChannelRecord /\ r.live /\ r.name = <<>>
  BY EmptyRecords DEF Who, NeverOpened, ChannelRecord
<1>2. /\ Unused(s) /\ ~Taken(<<>>) /\ chan' = [chan EXCEPT ![s] = r]
      /\ UNCHANGED <<stored, archive, saving, sentTo, dropped, deleted,
                     interrupted, faults>>
  BY DEF Create, Taken
<1> HIDE DEF r
<1> QED BY <1>1, <1>2, OpeningKeeps

\* The rungs are names.
LEMMA RungsAreNames ==
  ASSUME NEW n \in ChannelName, NEW i \in 1..(MaxLadder + 1)
  PROVE  Rungs(n)[i] \in ChannelName
<1> DEFINE N == 2..(MaxLadder + 1)
           q == [j \in 1..MaxLadder |-> Append(n, j + 1)]
<1>1. MaxLadder \in Nat /\ n \in Seq(N)
  BY SessionsAssumption DEF ChannelName
<1>2. \A j \in 1..MaxLadder : Append(n, j + 1) \in Seq(N)
  <2> TAKE j \in 1..MaxLadder
  <2>1. j + 1 \in N
    BY <1>1
  <2> QED BY <1>1, <2>1
<1>3. q \in Seq(Seq(N)) /\ <<n>> \in Seq(Seq(N))
  BY <1>1, <1>2
<1>4. <<n>> \o q \in Seq(Seq(N)) /\ Len(<<n>> \o q) = MaxLadder + 1
  BY <1>1, <1>3
<1> HIDE DEF q
<1>5. (<<n>> \o q)[i] \in Seq(N)
  BY <1>4
<1> QED BY <1>5 DEF Rungs, ChannelName, q

LEMMA ResumeKeeps ==
  ASSUME SessionsInv, NEW w \in Who, NEW s \in Channel, NEW new \in Channel,
         Resume(w, s, new)
  PROVE  SessionsInv'
<1> DEFINE n == archive[s].name
<1>1. PICK i \in FirstFree(n) :
        chan' = [chan EXCEPT ![new] = [live |-> TRUE, name |-> Rungs(n)[i],
                                       members |-> {}, parent |-> s]]
  BY DEF Resume
<1> DEFINE r == [live |-> TRUE, name |-> Rungs(n)[i], members |-> {}, parent |-> s]
<1>2. i \in 1..(MaxLadder + 1) /\ ~Taken(Rungs(n)[i])
  BY DEF FirstFree, FreeRungs
<1>3. n \in ChannelName
  BY RecordTypes DEF SessionsInv
<1>4. Rungs(n)[i] \in ChannelName
  BY <1>2, <1>3, RungsAreNames
<1>5. r \in ChannelRecord /\ r.live /\ ~Taken(r.name)
  BY <1>2, <1>4 DEF ChannelRecord
<1>6. /\ Unused(new) /\ chan' = [chan EXCEPT ![new] = r]
      /\ UNCHANGED <<stored, archive, saving, sentTo, dropped, deleted,
                     interrupted, faults>>
  BY <1>1 DEF Resume
<1> HIDE DEF r
<1> QED BY <1>5, <1>6, OpeningKeeps

LEMMA SendKeeps ==
  ASSUME SessionsInv, NEW a \in Agent, NEW s \in Channel, NEW m \in Mail,
         SendMail(a, s, m)
  PROVE  SessionsInv'
<1> DEFINE P == Pruned(stored \cup {m})
<1>1. /\ s \in Live /\ LockFree /\ sentTo[m] = NoChannel
      /\ sentTo' = [sentTo EXCEPT ![m] = s]
      /\ stored' = (stored \cup {m}) \ P
      /\ dropped' = dropped \cup P
      /\ UNCHANGED <<chan, archive, saving, deleted, interrupted, faults>>
  BY DEF SendMail, NextMail
<1>2. P \subseteq stored \cup {m}
  BY DEF Pruned
<1>3. SessionsTypeOK /\ s \notin (deleted \ interrupted)
  BY <1>1 DEF SessionsInv, DeletedIsGone, Live
<1> HIDE DEF P
<1>4. /\ sentTo' \in [Mail -> Channel \cup {NoChannel}] /\ sentTo'[m] = s
      /\ \A n \in Mail : n # m => sentTo'[n] = sentTo[n]
  BY <1>1, <1>3 DEF SessionsTypeOK
<1>5. SessionsTypeOK'
  BY <1>1, <1>2, <1>3, <1>4 DEF SessionsTypeOK
<1>6. Live' = Live
  BY <1>1 DEF Live
<1>7. /\ s \in Channel /\ s # NoChannel /\ stored \subseteq Mail
  BY <1>3, SessionsAssumption DEF SessionsTypeOK
<1>8. LiveIsStored'
  BY <1>1, <1>2, <1>4, <1>6 DEF SessionsInv, LiveIsStored
<1>9. (SavingIsWritten /\ FilesExplained)'
  BY <1>1 DEF SessionsInv, SavingIsWritten, FilesExplained, LockFree
<1>10. Preserved'
  BY <1>1, <1>2, <1>4 DEF SessionsInv, Preserved, Readable
<1>11. \A t \in Channel : t # s => MessagesOf(t)' \subseteq MessagesOf(t)
  BY <1>1, <1>4, <1>7 DEF MessagesOf
<1>12. DeletedIsGone'
  BY <1>1, <1>3, <1>11 DEF SessionsInv, DeletedIsGone, SessionsTypeOK
<1>13. SavedIsQuiet'
  <2>1. s \notin interrupted => ~Readable(s)
    BY <1>1, <1>7 DEF SessionsInv, SavedIsQuiet, LockFree, Live
  <2> QED BY <1>1, <1>11, <2>1 DEF SessionsInv, SavedIsQuiet, Readable
<1>14. NamesDiffer'
  BY <1>1, <1>6 DEF SessionsInv, NamesDiffer
<1> QED BY <1>5, <1>8, <1>9, <1>10, <1>12, <1>13, <1>14 DEF SessionsInv

LEMMA WriteKeeps ==
  ASSUME SessionsInv, NEW w \in Who, NEW s \in Channel, WriteArchive(w, s)
  PROVE  SessionsInv'
<1>1. /\ s \in Live /\ LockFree
      /\ archive' = [archive EXCEPT ![s] = Archive(s)]
      /\ saving' = s
      /\ UNCHANGED <<chan, stored, sentTo, dropped, deleted, interrupted, faults>>
  BY DEF WriteArchive, MaySave
<1>2. SessionsTypeOK /\ Archive(s) \in ArchiveFile
  <2>1. SessionsTypeOK
    BY DEF SessionsInv
  <2> QED BY <2>1, RecordTypes DEF Archive, ArchiveFile, MessagesOf, SessionsTypeOK
<1>3. /\ archive' \in [Channel -> ArchiveFile]
      /\ Readable(s)' /\ archive'[s].messages = MessagesOf(s)
      /\ \A t \in Channel : t # s => archive'[t] = archive[t]
  BY <1>1, <1>2 DEF SessionsTypeOK, Readable, Archive
<1>4. SessionsTypeOK'
  BY <1>1, <1>2, <1>3 DEF SessionsTypeOK
<1>5. Live' = Live /\ \A t \in Channel : MessagesOf(t)' = MessagesOf(t)
  BY <1>1 DEF Live, MessagesOf
<1>6. (LiveIsStored /\ SavingIsWritten)'
  BY <1>1, <1>3, <1>5 DEF SessionsInv, LiveIsStored, SavingIsWritten
<1>7. FilesExplained'
  BY <1>1, <1>3 DEF SessionsInv, FilesExplained, Readable
<1>8. Preserved'
  <2> SUFFICES ASSUME NEW m \in Mail, sentTo[m] # NoChannel, m \notin dropped,
                      m \notin stored
               PROVE  /\ archive'[sentTo[m]].state = "good"
                      /\ m \in archive'[sentTo[m]].messages
    BY <1>1 DEF Preserved, Readable
  <2>1. sentTo[m] # s /\ sentTo[m] \in Channel
    BY <1>1, <1>2 DEF SessionsInv, LiveIsStored, SessionsTypeOK
  <2>2. Readable(sentTo[m]) /\ m \in archive[sentTo[m]].messages
    BY DEF SessionsInv, Preserved
  <2>3. sentTo' = sentTo /\ archive'[sentTo[m]] = archive[sentTo[m]]
    BY <1>1, <1>3, <2>1
  <2> QED BY <2>2, <2>3 DEF Readable
<1>9. DeletedIsGone'
  BY <1>1, <1>2, <1>3, <1>5 DEF SessionsInv, DeletedIsGone, Live, SessionsTypeOK
<1>10. SavedIsQuiet'
  BY <1>1, <1>3, <1>5, SessionsAssumption
  DEF SessionsInv, SavedIsQuiet, LockFree, Readable
<1>11. NamesDiffer'
  BY <1>1, <1>5 DEF SessionsInv, NamesDiffer
<1> QED BY <1>4, <1>6, <1>7, <1>8, <1>9, <1>10, <1>11 DEF SessionsInv

LEMMA SaveStopsKeeps ==
  ASSUME SessionsInv, SaveStops
  PROVE  SessionsInv'
<1>1. /\ saving \in Channel /\ saving' = NoChannel
      /\ interrupted' = interrupted \cup {saving}
      /\ faults' \in 0..MaxFaults
      /\ UNCHANGED <<chan, stored, archive, sentTo, dropped, deleted>>
  BY SessionsAssumption DEF SaveStops, CountFault, SessionsInv, SessionsTypeOK
<1>2. SessionsTypeOK'
  BY <1>1 DEF SessionsInv, SessionsTypeOK
<1>3. (LiveIsStored /\ SavingIsWritten /\ FilesExplained /\ Preserved)'
  BY <1>1 DEF SessionsInv, LiveIsStored, SavingIsWritten, FilesExplained, Preserved,
              Live, Readable
<1>4. (DeletedIsGone /\ SavedIsQuiet /\ NamesDiffer)'
  BY <1>1 DEF SessionsInv, DeletedIsGone, SavedIsQuiet, NamesDiffer, Live, Readable,
              MessagesOf
<1> QED BY <1>2, <1>3, <1>4 DEF SessionsInv

\* A file of archive is replaced by one that cannot be resumed.
LEMMA ArchiveLossKeeps ==
  ASSUME SessionsInv, LockFree, NEW s \in Channel, NEW f \in ArchiveFile,
         f.state # "good",
         archive' = [archive EXCEPT ![s] = f],
         f.state = "none" => f = NoFile,
         f.state = "broken" => s \in interrupted',
         NEW D \in SUBSET {s}, deleted' = deleted \cup D,
         D # {} => f = NoFile /\ (s \in interrupted' \/ Readable(s)),
         NEW I \in SUBSET {s}, interrupted' = interrupted \cup I,
         s \in deleted => f = NoFile \/ s \in interrupted',
         dropped \subseteq dropped', dropped' \subseteq Mail,
         \A m \in Mail : sentTo[m] = s /\ m \notin stored => m \in dropped',
         faults' \in 0..MaxFaults,
         UNCHANGED <<chan, stored, saving, sentTo>>
  PROVE  SessionsInv'
<1>1. SessionsTypeOK
  BY DEF SessionsInv
<1>2. /\ archive' \in [Channel -> ArchiveFile]
      /\ ~Readable(s)' /\ archive'[s] = f
      /\ \A t \in Channel : t # s => archive'[t] = archive[t]
  BY <1>1 DEF SessionsTypeOK, Readable
<1>3. SessionsTypeOK'
  BY <1>1, <1>2 DEF SessionsTypeOK
<1>4. Live' = Live /\ \A t \in Channel : MessagesOf(t)' = MessagesOf(t)
  BY DEF Live, MessagesOf
<1>5. (LiveIsStored /\ SavingIsWritten)'
  BY <1>4 DEF SessionsInv, LiveIsStored, SavingIsWritten, LockFree
<1>6. FilesExplained'
  BY <1>2 DEF SessionsInv, FilesExplained
<1>7. Preserved'
  BY <1>1, <1>2 DEF SessionsInv, Preserved, Readable, SessionsTypeOK
<1>8. DeletedIsGone'
  <2> SUFFICES ASSUME NEW t \in Channel, t \in deleted', t \notin interrupted'
               PROVE  ~chan[t].live /\ archive'[t] = NoFile /\ MessagesOf(t) = {}
    <3>1. deleted' \subseteq Channel /\ chan' = chan
      BY <1>3 DEF SessionsTypeOK
    <3> QED BY <1>4, <3>1 DEF DeletedIsGone
  <2>1. CASE t \in deleted
    BY <2>1, <1>1, <1>2 DEF SessionsInv, DeletedIsGone, SessionsTypeOK
  <2>2. CASE t \notin deleted
    BY <2>2, <1>2, SessionsAssumption DEF SessionsInv, SavedIsQuiet, LockFree
  <2> QED BY <2>1, <2>2
<1>9. SavedIsQuiet'
  BY <1>2, <1>4 DEF SessionsInv, SavedIsQuiet, Readable
<1>10. NamesDiffer'
  BY <1>4 DEF SessionsInv, NamesDiffer
<1> QED BY <1>3, <1>5, <1>6, <1>7, <1>8, <1>9, <1>10 DEF SessionsInv

LEMMA TornKeeps ==
  ASSUME SessionsInv, NEW w \in Who, NEW s \in Channel, ArchiveTorn(w, s)
  PROVE  SessionsInv'
<1> DEFINE f == [NoFile EXCEPT !.state = "broken"]
<1>1. /\ s \in Live /\ LockFree
      /\ archive' = [archive EXCEPT ![s] = f]
      /\ interrupted' = interrupted \cup {s}
      /\ UNCHANGED <<chan, stored, saving, sentTo, dropped, deleted>>
      /\ faults' \in 0..MaxFaults /\ dropped \subseteq Mail
  BY SessionsAssumption
  DEF ArchiveTorn, MaySave, CountFault, SessionsInv, SessionsTypeOK
<1>2. f \in ArchiveFile /\ f.state = "broken"
  BY EmptyRecords DEF NoFile, ArchiveFile
<1>3. \A m \in Mail : sentTo[m] = s /\ m \notin stored => m \in dropped
  BY <1>1 DEF SessionsInv, LiveIsStored
<1>4. deleted' = deleted \cup {} /\ {} \in SUBSET {s} /\ {s} \in SUBSET {s}
  BY <1>1
<1> HIDE DEF f
<1> QED BY <1>1, <1>2, <1>3, <1>4, ArchiveLossKeeps

LEMMA DeleteArchiveKeeps ==
  ASSUME SessionsInv, NEW w \in Who, NEW s \in Channel, DeleteArchive(w, s)
  PROVE  SessionsInv'
<1>1. /\ LockFree /\ archive[s].state # "none"
      /\ archive' = [archive EXCEPT ![s] = NoFile]
      /\ dropped' = dropped \cup (archive[s].messages \ stored)
      /\ deleted' = deleted \cup {s}
      /\ UNCHANGED <<chan, stored, saving, sentTo, interrupted, faults>>
  BY DEF DeleteArchive
<1>2. /\ dropped \subseteq Mail /\ faults' \in 0..MaxFaults
      /\ archive[s].messages \subseteq Mail
      /\ archive[s].state \in {"none", "good", "broken"}
  BY <1>1, RecordTypes DEF SessionsInv, SessionsTypeOK
<1>3. s \in interrupted \/ Readable(s)
  BY <1>1, <1>2 DEF SessionsInv, FilesExplained, Readable
<1>4. \A m \in Mail : sentTo[m] = s /\ m \notin stored => m \in dropped'
  BY <1>1, SessionsAssumption DEF SessionsInv, Preserved
<1>5. NoFile \in ArchiveFile /\ NoFile.state = "none"
  BY EmptyRecords DEF NoFile
<1>6. interrupted' = interrupted \cup {} /\ {} \in SUBSET {s} /\ {s} \in SUBSET {s}
  BY <1>1
<1> QED BY <1>1, <1>2, <1>3, <1>4, <1>5, <1>6, ArchiveLossKeeps

LEMMA SessionsNextKeeps == SessionsInv /\ [SessionsNext]_sessionsVars => SessionsInv'
<1> SUFFICES ASSUME SessionsInv, [SessionsNext]_sessionsVars PROVE SessionsInv'
  OBVIOUS
<1>1. ASSUME NEW w \in Who, NEW s \in Channel,
             \/ Create(w, s) \/ WriteArchive(w, s) \/ ArchiveTorn(w, s)
             \/ DeleteLive(w, s) \/ DeleteArchive(w, s)
             \/ \E new \in Channel : Resume(w, s, new)
      PROVE  SessionsInv'
  BY <1>1, CreateKeeps, WriteKeeps, TornKeeps, DeleteLiveKeeps, DeleteArchiveKeeps,
     ResumeKeeps
<1>2. ASSUME NEW a \in Agent, NEW s \in Channel,
             \/ JoinChannel(a, s) \/ LeaveChannel(a, s)
             \/ \E m \in Mail : SendMail(a, s, m)
      PROVE  SessionsInv'
  BY <1>2, JoinKeeps, LeaveKeeps, SendKeeps
<1>3. CASE CommitSave \/ SaveStops
  BY <1>3, CommitKeeps, SaveStopsKeeps
<1>4. CASE UNCHANGED sessionsVars
  BY <1>4 DEF sessionsVars, SessionsInv, SessionsTypeOK, LiveIsStored, SavingIsWritten,
     FilesExplained, Preserved, DeletedIsGone, SavedIsQuiet, NamesDiffer, Live,
     MessagesOf, Readable
<1> QED BY <1>1, <1>2, <1>3, <1>4 DEF SessionsNext

\* The invariant holds in every reachable state.
THEOREM SessionsInvariant == SessionsSpec => []SessionsInv
<1> QED BY SessionsInitHolds, SessionsNextKeeps, PTL DEF SessionsSpec

\* Saving is not deleting: a message is in the state file or a readable
\* archive until a cap or a deletion takes it, through saves that stop half
\* way and archives that are torn (buildSessionArchive, commitSessionSave).
THEOREM MessagesPreserved == SessionsSpec => []Preserved
<1>1. SessionsInv => Preserved
  BY DEF SessionsInv
<1> QED BY <1>1, SessionsInvariant, PTL

\* A session is live, saved or deleted, and one of these only, under a name
\* of its own (deleteSession, resumeSession).
THEOREM SessionsEndOnce == SessionsSpec => []EndsOnce
<1>1. SessionsInv => EndsOnce
  BY DEF SessionsInv, EndsOnce
<1> QED BY <1>1, SessionsInvariant, PTL

-----------------------------------------------------------------------------
(***************************************************************************)
(* One channel, for any number of members, contents and limits.  The gate: *)
(* a stretch of one window meets two rate windows at most, each within the *)
(* limit, and what was said is remembered as long as it may not be said    *)
(* again.  The clock: its running segment began in the past and belongs to *)
(* a member.                                                               *)
(***************************************************************************)
\* The sends of the current rate window, and those before it that a stretch
\* of one window can have together with them.
InWindow == {i \in Said : msgs[i].at >= rate.start}
JustBefore == {i \in Said : msgs[i].at < rate.start /\ rate.start - Window <= msgs[i].at}

WindowInv ==
  /\ rate.start <= now
  /\ \A i \in Said : msgs[i].at <= now /\ msgs[i].at <= rate.start + Window
  /\ Cardinality(InWindow) <= rate.count
  /\ Cardinality(JustBefore) <= RateLimit

\* What was said is remembered as long as it may not be repeated.
Remembered ==
  \A i \in Said :
    LET last == seen[<<msgs[i].from, msgs[i].said>>]
    IN  \/ last # Never /\ msgs[i].at <= last
        \/ now - msgs[i].at >= StaleAfter

\* A linked reply is one hop further than what it answers.
HopsCounted ==
  \A i \in DOMAIN msgs :
    /\ msgs[i].hop <= MaxHops
    /\ msgs[i].linked =>
         /\ msgs[i].parent \in 1..(i - 1)
         /\ msgs[i].hop = msgs[msgs[i].parent].hop + 1

RepeatsRefused == Remembered /\ NoRepeats

\* A segment of the clock began in the past.
SegmentBegan == clock.active # NoSession => clock.since <= now

GateInv == WindowInv /\ RateKept /\ RepeatsRefused /\ HopsCounted
ClockInv == SegmentBegan /\ ClockConserves /\ ClockHasMember /\ RolesDiffer
ConversationInv == ConversationTypeOK /\ GateInv /\ ClockInv

-----------------------------------------------------------------------------
LEMMA NatFacts ==
  /\ MaxMembers \in Nat /\ RateLimit \in Nat /\ RateLimit > 0 /\ Window \in Nat
  /\ StaleAfter \in Nat /\ MaxHops \in Nat /\ MaxSend \in Nat
  /\ MaxMoves \in Nat /\ MaxTime \in Nat /\ MaxPersisted \in Nat
  BY ConversationAssumption

LEMMA MessageFacts ==
  ASSUME ConversationTypeOK
  PROVE  /\ DOMAIN msgs = 1..Len(msgs) /\ Len(msgs) \in Nat
         /\ \A i \in DOMAIN msgs :
              /\ msgs[i] \in Message /\ msgs[i].at \in Nat /\ msgs[i].hop \in Nat
              /\ msgs[i].upto \in Nat /\ msgs[i].from \in Sender
              /\ msgs[i].linked \in BOOLEAN /\ msgs[i].parent \in 0..MaxSend
         /\ Said \subseteq 1..Len(msgs)
         /\ \A S \in SUBSET Said : IsFiniteSet(S) /\ Cardinality(S) \in Nat
<1>1. DOMAIN msgs = 1..Len(msgs) /\ Len(msgs) \in Nat /\ \A i \in DOMAIN msgs : msgs[i] \in Message
  BY DEF ConversationTypeOK
<1>2. Said \subseteq 1..Len(msgs) /\ IsFiniteSet(1..Len(msgs))
  BY <1>1, FS_Interval DEF Said
<1>3. \A S \in SUBSET Said : IsFiniteSet(S) /\ Cardinality(S) \in Nat
  BY <1>2, FS_Subset, FS_CardinalityType
<1>4. \A m \in Message : /\ m.at \in Nat /\ m.hop \in Nat /\ m.upto \in Nat /\ m.from \in Sender
                         /\ m.linked \in BOOLEAN /\ m.parent \in 0..MaxSend
  BY DEF Message
<1> QED BY <1>1, <1>2, <1>3, <1>4

\* Time passes: what was counted stays counted.
LEMMA TimeKeepsGate ==
  ASSUME ConversationTypeOK, GateInv, now' = now + 1, UNCHANGED <<msgs, rate, seen>>
  PROVE  GateInv'
<1>1. /\ now \in Nat /\ rate.start \in Nat /\ Said' = Said /\ InWindow' = InWindow
      /\ JustBefore' = JustBefore
  BY DEF ConversationTypeOK, Said, InWindow, JustBefore
<1>2. \A i \in Said : msgs[i].at \in Nat /\ msgs[i].at <= now
  BY MessageFacts DEF GateInv, WindowInv
<1>3. WindowInv'
  BY <1>1, <1>2 DEF GateInv, WindowInv
<1>4. RateKept'
  <2> SUFFICES ASSUME NEW t \in 0..(now + 1)
               PROVE  Cardinality({i \in Said : msgs[i].at \in t..(t + Window)})
                        <= 2 * RateLimit
    BY <1>1 DEF RateKept
  <2>1. CASE t <= now
    BY <2>1, <1>1 DEF GateInv, RateKept
  <2>2. CASE t > now
    <3>1. {i \in Said : msgs[i].at \in t..(t + Window)} = {}
      BY <2>2, <1>1, <1>2, NatFacts
    <3> QED BY <3>1, FS_EmptySet, NatFacts
  <2> QED BY <2>1, <2>2, <1>1
<1>5. Remembered'
  <2> SUFFICES ASSUME NEW i \in Said
               PROVE  LET last == seen[<<msgs[i].from, msgs[i].said>>]
                      IN  \/ last # Never /\ msgs[i].at <= last
                          \/ (now + 1) - msgs[i].at >= StaleAfter
    BY <1>1 DEF Remembered
  <2>1. now - msgs[i].at >= StaleAfter => (now + 1) - msgs[i].at >= StaleAfter
    BY <1>1, <1>2, NatFacts
  <2> QED BY <2>1 DEF GateInv, RepeatsRefused, Remembered
<1>6. NoRepeats' /\ HopsCounted'
  BY <1>1 DEF GateInv, RepeatsRefused, NoRepeats, HopsCounted
<1> QED BY <1>3, <1>4, <1>5, <1>6 DEF GateInv, RepeatsRefused

LEMMA GateUnchanged == GateInv /\ UNCHANGED <<now, msgs, rate, seen>> => GateInv'
  BY DEF GateInv, WindowInv, RateKept, RepeatsRefused, Remembered, NoRepeats, HopsCounted,
         Said, InWindow, JustBefore

\* A message that is appended leaves the ones before it as they are.
LEMMA AppendFacts ==
  ASSUME ConversationTypeOK, NEW m \in Message, msgs' = Append(msgs, m)
  PROVE  /\ msgs' \in Seq(Message) /\ Len(msgs') = Len(msgs) + 1
         /\ DOMAIN msgs' = DOMAIN msgs \cup {Len(msgs) + 1}
         /\ Len(msgs) + 1 \notin DOMAIN msgs
         /\ \A i \in DOMAIN msgs : msgs'[i] = msgs[i]
         /\ msgs'[Len(msgs) + 1] = m
         /\ Said' = Said \cup (IF m.said \in Content THEN {Len(msgs) + 1} ELSE {})
<1>1. msgs \in Seq(Message)
  BY DEF ConversationTypeOK
<1>2. /\ msgs' \in Seq(Message) /\ Len(msgs') = Len(msgs) + 1 /\ Len(msgs) \in Nat
      /\ \A i \in DOMAIN msgs : msgs'[i] = msgs[i]
      /\ msgs'[Len(msgs) + 1] = m
  BY <1>1
<1>3. DOMAIN msgs' = DOMAIN msgs \cup {Len(msgs) + 1} /\ Len(msgs) + 1 \notin DOMAIN msgs
  BY <1>1, <1>2
<1>4. Said' = Said \cup (IF m.said \in Content THEN {Len(msgs) + 1} ELSE {})
  BY <1>2, <1>3 DEF Said
<1> QED BY <1>2, <1>3, <1>4

\* A hop is counted for each linked reply.
LEMMA HopsKeep ==
  ASSUME ConversationTypeOK, HopsCounted, NEW m \in Message, msgs' = Append(msgs, m),
         m.hop <= MaxHops,
         m.linked => m.parent \in DOMAIN msgs /\ m.hop = msgs[m.parent].hop + 1
  PROVE  HopsCounted'
<1> SUFFICES ASSUME NEW i \in DOMAIN msgs'
             PROVE  /\ msgs'[i].hop <= MaxHops
                    /\ msgs'[i].linked =>
                         /\ msgs'[i].parent \in 1..(i - 1)
                         /\ msgs'[i].hop = msgs'[msgs'[i].parent].hop + 1
  BY DEF HopsCounted
<1>1. CASE i \in DOMAIN msgs
  <2>1. msgs'[i] = msgs[i] /\ msgs[i].parent \in 1..(i - 1) => msgs[i].parent \in DOMAIN msgs
    BY <1>1, AppendFacts, MessageFacts
  <2> QED BY <1>1, <2>1, AppendFacts DEF HopsCounted
<1>2. CASE i = Len(msgs) + 1
  <2>1. m.linked => m.parent \in 1..(i - 1) /\ msgs'[m.parent] = msgs[m.parent]
    BY <1>2, AppendFacts, MessageFacts
  <2> QED BY <1>2, <2>1, AppendFacts
<1> QED BY <1>1, <1>2, AppendFacts

\* A notice is none of the sends the gate counts.
LEMMA NoticeKeepsGate ==
  ASSUME ConversationTypeOK, GateInv, NEW s \in Sender, NEW n \in Nat,
         msgs' = Append(msgs, Notice(s, n)), UNCHANGED <<now, rate, seen>>
  PROVE  GateInv' /\ msgs' \in Seq(Message)
<1> DEFINE m == Notice(s, n)
<1>1. Envelopes \in Nat /\ now \in Nat
  BY MessageFacts DEF Envelopes, ConversationTypeOK
<1>2. /\ m \in Message /\ m.said \notin Content /\ m.hop = 0 /\ ~m.linked
  BY <1>1, ConversationAssumption DEF Message, Notice, Nothing
<1>3. msgs' = Append(msgs, m)
  OBVIOUS
<1> HIDE DEF m
<1>4. /\ Said' = Said /\ \A i \in Said : msgs'[i] = msgs[i]
  BY <1>2, <1>3, AppendFacts DEF Said
<1>5. InWindow' = InWindow /\ JustBefore' = JustBefore
  BY <1>4 DEF InWindow, JustBefore
<1>6. WindowInv'
  BY <1>4, <1>5 DEF GateInv, WindowInv
<1>7. RateKept'
  <2> SUFFICES ASSUME NEW t \in 0..now
               PROVE  Cardinality({i \in Said' : msgs'[i].at \in t..(t + Window)})
                        <= 2 * RateLimit
    BY DEF RateKept
  <2>1. {i \in Said' : msgs'[i].at \in t..(t + Window)}
          = {i \in Said : msgs[i].at \in t..(t + Window)}
    BY <1>4
  <2> QED BY <2>1 DEF GateInv, RateKept
<1>8. Remembered'
  BY <1>4 DEF GateInv, RepeatsRefused, Remembered
<1>9. NoRepeats'
  <2> SUFFICES ASSUME NEW i \in Said', NEW j \in Said', i < j,
                      msgs'[i].from = msgs'[j].from, msgs'[i].said = msgs'[j].said
               PROVE  msgs'[j].at - msgs'[i].at >= StaleAfter
    BY DEF NoRepeats
  <2>1. msgs'[i] = msgs[i] /\ msgs'[j] = msgs[j] /\ i \in Said /\ j \in Said
    BY <1>4
  <2> QED BY <2>1 DEF GateInv, RepeatsRefused, NoRepeats
<1>10. HopsCounted'
  BY <1>2, <1>3, HopsKeep, NatFacts DEF GateInv
<1>11. msgs' \in Seq(Message)
  BY <1>2, <1>3, AppendFacts
<1> QED BY <1>6, <1>7, <1>8, <1>10, <1>11, <1>9 DEF GateInv, RepeatsRefused

-----------------------------------------------------------------------------
\* Message n is what was said last, at this moment.
SaidLast(m, n) ==
  /\ Said' = Said \cup {n} /\ n \notin Said /\ IsFiniteSet(Said)
  /\ n \in Nat /\ msgs'[n] = m /\ m.at = now /\ m.said \in Content /\ m.from \in Sender
  /\ \A i \in Said : /\ msgs'[i] = msgs[i] /\ msgs[i].at \in Nat
                      /\ msgs[i].from \in Sender /\ msgs[i].said \in Content
                      /\ i \in Nat /\ i < n

LEMMA SaidLastHolds ==
  ASSUME ConversationTypeOK, NEW m \in Message, m.said \in Content, m.at = now,
         msgs' = Append(msgs, m)
  PROVE  SaidLast(m, Len(msgs) + 1) /\ msgs' \in Seq(Message)
<1>1. /\ Said' = Said \cup {Len(msgs) + 1} /\ msgs' \in Seq(Message)
      /\ msgs'[Len(msgs) + 1] = m /\ \A i \in DOMAIN msgs : msgs'[i] = msgs[i]
  BY AppendFacts
<1>2. /\ Said \subseteq 1..Len(msgs) /\ Len(msgs) \in Nat /\ IsFiniteSet(Said)
      /\ \A i \in Said : i \in DOMAIN msgs /\ msgs[i].said \in Content
  BY MessageFacts DEF Said
<1>3. \A i \in Said : msgs[i].at \in Nat /\ msgs[i].from \in Sender
  BY <1>2, MessageFacts
<1>4. m.from \in Sender
  BY DEF Message
<1> QED BY <1>1, <1>2, <1>3, <1>4 DEF SaidLast

\* The window of a send that is let through.
LEMMA WindowKeeps ==
  ASSUME ConversationTypeOK, WindowInv, NEW m, NEW n, SaidLast(m, n), now' = now,
         rate' = Counted(rate), Counted(rate).count <= RateLimit
  PROVE  WindowInv' /\ rate' \in [start : Nat, count : 0..RateLimit]
<1>1. /\ now \in Nat /\ rate.start \in Nat /\ rate.count \in Nat /\ Window \in Nat
      /\ rate \in [start : Nat, count : 0..RateLimit]
  BY NatFacts DEF ConversationTypeOK
<1>2. /\ Said' = Said \cup {n} /\ n \notin Said /\ msgs'[n].at = now
      /\ \A i \in Said : msgs'[i] = msgs[i] /\ msgs[i].at \in Nat
  BY DEF SaidLast
<1>3. \A i \in Said' : msgs'[i].at <= now
  BY <1>1, <1>2 DEF WindowInv
<1>4. CASE now - rate.start > Window
  <2>1. /\ rate' = [start |-> now, count |-> 1]
        /\ rate'.start = now /\ rate'.count = 1
    BY <1>4 DEF Counted, NewWindow
  <2>2. InWindow' = {n}
    BY <1>1, <1>2, <1>4, <2>1 DEF InWindow, WindowInv
  <2>3. JustBefore' \subseteq InWindow
    BY <1>1, <1>2, <1>4, <2>1 DEF InWindow, JustBefore
  <2>4. /\ IsFiniteSet(InWindow) /\ Cardinality(InWindow) <= RateLimit
    BY <1>1, MessageFacts, NatFacts DEF InWindow, WindowInv
  <2>5. Cardinality(JustBefore') <= RateLimit
    <3>1. /\ IsFiniteSet(JustBefore') /\ Cardinality(JustBefore') <= Cardinality(InWindow)
      BY <2>3, <2>4, FS_Subset
    <3> QED BY <3>1, <2>4, FS_CardinalityType, NatFacts
  <2>6. Cardinality(InWindow') <= rate'.count
    <3>1. Cardinality({n}) = 1
      BY FS_Singleton
    <3>2. Cardinality(InWindow') = 1
      BY <2>2, <3>1
    <3> QED BY <2>1, <3>2
  <2>7. rate' \in [start : Nat, count : 0..RateLimit]
    BY <2>1, <1>1, NatFacts
  <2>8. \A i \in Said' : msgs'[i].at <= now + Window
    BY <1>1, <1>2, <1>3
  <2> QED BY <1>1, <1>3, <2>1, <2>5, <2>6, <2>7, <2>8 DEF WindowInv
<1>5. CASE ~(now - rate.start > Window)
  <2>1. rate' = [rate EXCEPT !.count = @ + 1]
    BY <1>5 DEF Counted
  <2>2. rate'.start = rate.start /\ rate'.count = rate.count + 1
    BY <1>1, <2>1
  <2>3. InWindow' = InWindow \cup {n} /\ n \notin InWindow
    BY <1>1, <1>2, <2>2 DEF InWindow, WindowInv
  <2>4. JustBefore' = JustBefore
    BY <1>1, <1>2, <2>2 DEF JustBefore, WindowInv
  <2>5. IsFiniteSet(InWindow) /\ Cardinality(InWindow) \in Nat
    BY MessageFacts DEF InWindow
  <2>6. Cardinality(InWindow') = Cardinality(InWindow) + 1
    BY <2>3, <2>5, FS_AddElement
  <2>7. rate' \in [start : Nat, count : 0..RateLimit]
    BY <2>1, <2>2, <1>1, NatFacts
  <2>8. \A i \in Said' : msgs'[i].at <= rate.start + Window
    BY <1>1, <1>2, <1>5 DEF WindowInv
  <2> QED BY <1>1, <1>3, <2>2, <2>4, <2>5, <2>6, <2>7, <2>8 DEF WindowInv
<1> QED BY <1>4, <1>5

\* Two windows bound a stretch that ends now.
LEMMA RateKeeps ==
  ASSUME ConversationTypeOK, RateKept, NEW m, NEW n, SaidLast(m, n), now' = now,
         WindowInv', rate' \in [start : Nat, count : 0..RateLimit]
  PROVE  RateKept'
<1> DEFINE Stretch(t) == {i \in Said' : msgs'[i].at \in t..(t + Window)}
<1>1. /\ Said' = Said \cup {n} /\ n \notin Said /\ msgs'[n].at = now
      /\ \A i \in Said : msgs'[i] = msgs[i] /\ msgs[i].at \in Nat
      /\ IsFiniteSet(Said)
  BY DEF SaidLast
<1>2. now \in Nat /\ rate'.start \in Nat /\ rate'.count \in 0..RateLimit
  BY DEF ConversationTypeOK
<1>3. IsFiniteSet(Said')
  BY <1>1, FS_AddElement
<1> SUFFICES ASSUME NEW t \in 0..now PROVE Cardinality(Stretch(t)) <= 2 * RateLimit
  BY DEF RateKept
<1>4. CASE now > t + Window
  <2>1. Stretch(t) = {i \in Said : msgs[i].at \in t..(t + Window)}
    BY <1>1, <1>2, <1>4, NatFacts
  <2> HIDE DEF Stretch
  <2> QED BY <2>1 DEF RateKept
<1>5. CASE now <= t + Window
  <2>1. Stretch(t) \subseteq InWindow' \cup JustBefore'
    BY <1>1, <1>2, <1>5, NatFacts DEF InWindow, JustBefore, WindowInv
  <2>2. IsFiniteSet(InWindow') /\ IsFiniteSet(JustBefore')
    BY <1>3, FS_Subset DEF InWindow, JustBefore
  <2>3. /\ IsFiniteSet(InWindow' \cup JustBefore')
        /\ Cardinality(InWindow' \cup JustBefore')
             = Cardinality(InWindow') + Cardinality(JustBefore')
               - Cardinality(InWindow' \cap JustBefore')
    BY <2>2, FS_Union
  <2>4. /\ Cardinality(InWindow') \in Nat /\ Cardinality(JustBefore') \in Nat
        /\ Cardinality(InWindow' \cap JustBefore') \in Nat
    BY <2>2, FS_Intersection, FS_CardinalityType
  <2>5. Cardinality(InWindow') <= RateLimit /\ Cardinality(JustBefore') <= RateLimit
    BY <1>2, <2>4, NatFacts DEF WindowInv
  <2>6. /\ Cardinality(Stretch(t)) <= Cardinality(InWindow' \cup JustBefore')
        /\ Cardinality(Stretch(t)) \in Nat
    BY <2>1, <2>3, FS_Subset, FS_CardinalityType
  <2> HIDE DEF Stretch
  <2> QED BY <2>3, <2>4, <2>5, <2>6, NatFacts
<1> QED BY <1>2, <1>4, <1>5, NatFacts

\* What is said twice is said StaleAfter apart.
LEMMA RepeatsKeep ==
  ASSUME ConversationTypeOK, RepeatsRefused, WindowInv,
         NEW s \in Sender, NEW x \in Content,
         NEW m, NEW n, SaidLast(m, n), m.from = s, m.said = x, now' = now,
         Swept[<<s, x>>] = Never, seen' = SeenNow(s, x)
  PROVE  RepeatsRefused' /\ seen' \in [Sender \X Content -> Nat \cup {Never}]
<1>1. /\ Said' = Said \cup {n} /\ n \notin Said /\ msgs'[n] = m /\ m.at = now
      /\ n \in Nat
      /\ \A i \in Said : /\ msgs'[i] = msgs[i] /\ msgs[i].at \in Nat
                          /\ msgs[i].from \in Sender
                          /\ i \in Nat /\ i < n
  BY DEF SaidLast
<1>2. now \in Nat /\ seen \in [Sender \X Content -> Nat \cup {Never}] /\ now # Never
  BY DEF ConversationTypeOK, Never
<1>3. /\ Swept \in [Sender \X Content -> Nat \cup {Never}]
      /\ \A k \in Sender \X Content :
           Swept[k] = IF seen[k] # Never /\ now - seen[k] >= StaleAfter THEN Never ELSE seen[k]
  BY <1>2 DEF Swept
<1>4. /\ seen' \in [Sender \X Content -> Nat \cup {Never}]
      /\ seen'[<<s, x>>] = now
      /\ \A k \in Sender \X Content : k # <<s, x>> => seen'[k] = Swept[k]
  BY <1>2, <1>3 DEF SeenNow
<1>5. \A i \in Said : msgs[i].said \in Content /\ msgs[i].at <= now
                      /\ <<msgs[i].from, msgs[i].said>> \in Sender \X Content
  BY <1>1 DEF Said, WindowInv
<1>6. Remembered'
  <2> SUFFICES ASSUME NEW i \in Said'
               PROVE  LET last == seen'[<<msgs'[i].from, msgs'[i].said>>]
                      IN  \/ last # Never /\ msgs'[i].at <= last
                          \/ now - msgs'[i].at >= StaleAfter
    BY DEF Remembered
  <2>1. CASE i = n
    BY <2>1, <1>1, <1>2, <1>4
  <2>2. CASE i \in Said
    <3> DEFINE k == <<msgs[i].from, msgs[i].said>>
    <3>1. /\ k \in Sender \X Content /\ msgs[i].at \in Nat /\ msgs[i].at <= now
          /\ \/ seen[k] # Never /\ msgs[i].at <= seen[k]
             \/ now - msgs[i].at >= StaleAfter
      BY <2>2, <1>1, <1>5 DEF RepeatsRefused, Remembered
    <3>2. msgs'[i] = msgs[i]
      BY <2>2, <1>1
    <3> SUFFICES \/ seen'[k] # Never /\ msgs[i].at <= seen'[k]
                 \/ now - msgs[i].at >= StaleAfter
      BY <3>2
    <3> HIDE DEF k
    <3>3. CASE k = <<s, x>>
      BY <3>1, <3>3, <1>2, <1>4
    <3>4. CASE k # <<s, x>>
      <4>1. seen[k] \in Nat \cup {Never}
        BY <1>2, <3>1
      <4> QED BY <3>1, <3>4, <4>1, <1>2, <1>3, <1>4, NatFacts DEF Never
    <3> QED BY <3>3, <3>4
  <2> QED BY <2>1, <2>2, <1>1
<1>7. NoRepeats'
  <2> SUFFICES ASSUME NEW i \in Said', NEW j \in Said', i < j,
                      msgs'[i].from = msgs'[j].from, msgs'[i].said = msgs'[j].said
               PROVE  msgs'[j].at - msgs'[i].at >= StaleAfter
    BY DEF NoRepeats
  <2>1. CASE i \in Said /\ j \in Said
    BY <2>1, <1>1 DEF RepeatsRefused, NoRepeats
  <2>2. CASE i \in Said /\ j = n
    <3> DEFINE k == <<s, x>>
    <3>1. /\ k \in Sender \X Content /\ msgs[i].at \in Nat /\ msgs[i].at <= now
          /\ \/ seen[k] # Never /\ msgs[i].at <= seen[k]
             \/ now - msgs[i].at >= StaleAfter
      BY <2>2, <1>1, <1>5 DEF RepeatsRefused, Remembered
    <3>2. msgs'[i] = msgs[i] /\ msgs'[j].at = now
      BY <2>2, <1>1
    <3>3. seen[k] \in Nat \cup {Never} /\ Swept[k] = Never
      BY <1>2, <3>1
    <3> HIDE DEF k
    <3>4. now - msgs[i].at >= StaleAfter
      BY <3>1, <3>3, <1>2, <1>3, NatFacts DEF Never
    <3> QED BY <3>2, <3>4
  <2>3. CASE i = n
    BY <2>3, <1>1
  <2> QED BY <2>1, <2>2, <2>3, <1>1
<1> QED BY <1>4, <1>6, <1>7 DEF RepeatsRefused

-----------------------------------------------------------------------------
(* Chains.                                                                 *)

Below == OpToRel(<, Nat)

LEMMA Least ==
  ASSUME NEW S \in SUBSET Nat, S # {}
  PROVE  \E x \in S : \A y \in S : x <= y
<1>1. IsWellFoundedOn(Below, Nat)
  BY NatLessThanWellFounded DEF Below
<1>2. PICK x \in S : \A y \in S : ~(<<y, x>> \in Below)
  BY <1>1, WFMin
<1>3. ASSUME NEW y \in S PROVE x <= y
  <2>1. <<y, x>> \in Below <=> y < x
    BY DEF OpToRel, Below
  <2> QED BY <1>2, <2>1
<1> QED BY <1>3

LEMMA Largest ==
  ASSUME NEW n \in Nat, NEW S \in SUBSET (0..n), S # {}
  PROVE  \E x \in S : \A y \in S : y <= x
<1> DEFINE T == {n - x : x \in S}
<1>1. T \in SUBSET Nat /\ T # {}
  <2>1. \A x \in S : n - x \in Nat
    OBVIOUS
  <2> QED BY <2>1
<1>2. PICK z \in T : \A y \in T : z <= y
  BY <1>1, Least
<1>3. PICK x \in S : z = n - x
  OBVIOUS
<1>4. ASSUME NEW y \in S PROVE y <= x
  <2>1. n - y \in T
    OBVIOUS
  <2>2. z <= n - y
    BY <1>2, <2>1
  <2> HIDE DEF T
  <2>3. n - x <= n - y
    BY <1>3, <2>2
  <2>4. x \in 0..n /\ y \in 0..n
    OBVIOUS
  <2> QED BY <2>3, <2>4
<1> QED BY <1>4

\* Along a chain the hops grow, and a hop is at most MaxHops.
LEMMA ChainsAreShort == ConversationTypeOK /\ HopsCounted => ChainsEnd
<1> SUFFICES ASSUME ConversationTypeOK, HopsCounted,
                    NEW C \in SUBSET DOMAIN msgs, Chain(C)
             PROVE  Cardinality(C) <= MaxHops + 1
  BY DEF ChainsEnd
<1> DEFINE hop(i) == msgs[i].hop
<1>1. /\ C \subseteq 1..Len(msgs) /\ Len(msgs) \in Nat
      /\ \A i \in C : i \in Nat /\ hop(i) \in 0..MaxHops
  BY MessageFacts, NatFacts DEF HopsCounted
<1>2. ASSUME NEW j \in C, NEW i \in C, i < j,
             \A k \in C, l \in C : k < l /\ l < j => hop(k) < hop(l)
      PROVE  hop(i) < hop(j)
  <2> DEFINE P == {k \in C : k < j}
  <2>1. P \in SUBSET (0..Len(msgs)) /\ P # {}
    BY <1>1, <1>2
  <2>2. PICK p \in P : \A k \in P : k <= p
    BY <1>1, <2>1, Largest
  <2>3. Answers(j, p)
    <3>1. p \in C /\ p < j /\ \A k \in C : k <= p \/ j <= k
      BY <1>1, <2>2
    <3> QED BY <3>1 DEF Chain
  <2>4. hop(j) = hop(p) + 1
    BY <2>3 DEF Answers, HopsCounted
  <2>5. i = p \/ (i < p /\ p < j /\ p \in C)
    BY <1>1, <1>2, <2>2
  <2>6. hop(i) <= hop(p)
    BY <1>1, <1>2, <2>5
  <2> QED BY <1>1, <2>2, <2>4, <2>6
<1>3. \A i, j \in C : i < j => hop(i) < hop(j)
  <2> DEFINE B == {j \in C : \E i \in C : i < j /\ ~(hop(i) < hop(j))}
  <2>1. B \in SUBSET Nat
    BY <1>1
  <2> SUFFICES ASSUME B # {} PROVE FALSE
    OBVIOUS
  <2>2. PICK j \in B : \A l \in B : j <= l
    BY <2>1, Least
  <2>3. PICK i \in C : i < j /\ ~(hop(i) < hop(j))
    BY <2>2
  <2>4. ASSUME NEW k \in C, NEW l \in C, k < l, l < j PROVE hop(k) < hop(l)
    <3>1. l \notin B
      <4>1. j \in Nat /\ l \in Nat /\ ~(j <= l)
        BY <1>1, <2>1, <2>4
      <4> QED BY <2>2, <4>1
    <3> QED BY <2>4, <3>1
  <2> HIDE DEF hop
  <2> QED BY <1>2, <2>2, <2>3, <2>4
<1> DEFINE f == [i \in C |-> hop(i)]
<1>4. f \in [C -> 0..MaxHops]
  BY <1>1
<1>5. \A i, j \in C : f[i] = f[j] => i = j
  BY <1>1, <1>3
<1>6. f \in Injection(C, 0..MaxHops)
  BY <1>4, <1>5 DEF Injection, IsInjective
<1>7. IsFiniteSet(0..MaxHops) /\ Cardinality(0..MaxHops) = MaxHops + 1
  BY FS_Interval, NatFacts
<1> QED BY <1>6, <1>7, FS_Injection

-----------------------------------------------------------------------------
(* Sends.                                                                  *)

LEMMA MembersFacts ==
  ASSUME ConversationTypeOK
  PROVE  Members \subseteq Session /\ IsFiniteSet(Members) /\ Cardinality(Members) \in Nat
<1>1. /\ DOMAIN roster = 1..Len(roster) /\ Len(roster) \in Nat
      /\ \A i \in DOMAIN roster : roster[i] \in Session
  BY DEF ConversationTypeOK
<1>2. Members \subseteq Session
  BY <1>1 DEF Members
<1>3. IsFiniteSet(DOMAIN roster)
  BY <1>1, FS_Interval
<1> DEFINE f == [i \in DOMAIN roster |-> roster[i]]
<1>4. IsFiniteSet(Members)
  <2>1. f \in Surjection(DOMAIN roster, Members)
    BY DEF Surjection, Members
  <2> QED BY <1>3, <2>1, FS_Surjection
<1> QED BY <1>2, <1>4, FS_CardinalityType

LEMMA RecipientFacts ==
  ASSUME ConversationTypeOK, NEW s, NEW R \in Recipients(s)
  PROVE  /\ R \subseteq Members \ ({s} \cup lost) /\ Cardinality(R) \in Nat
         /\ First(R) \subseteq R
<1>1. R \subseteq Members \ ({s} \cup lost)
  BY DEF Recipients
<1>2. IsFiniteSet(R)
  BY <1>1, MembersFacts, FS_Subset
<1> QED BY <1>1, <1>2, FS_CardinalityType DEF First

LEMMA SendKeepsGate ==
  ASSUME ConversationTypeOK, GateInv, NEW s \in Sender, NEW x \in Content,
         NEW p \in 0..Len(msgs), NEW R \in Recipients(s), Send(s, x, R, p)
  PROVE  /\ GateInv' /\ msgs' \in Seq(Message)
         /\ rate' \in [start : Nat, count : 0..RateLimit]
         /\ seen' \in [Sender \X Content -> Nat \cup {Never}]
<1> DEFINE m == [from |-> s, said |-> x, at |-> now,
                 upto |-> Envelopes + Cardinality(R),
                 parent |-> p, linked |-> Found(p), hop |-> Hop(p)]
           n == Len(msgs) + 1
<1>1. /\ msgs' = Append(msgs, m) /\ now' = now
      /\ rate' = Counted(rate) /\ Counted(rate).count <= RateLimit
      /\ Swept[<<s, x>>] = Never /\ seen' = SeenNow(s, x)
      /\ Hop(p) <= MaxHops /\ Len(msgs) < MaxSend
  BY DEF Send
<1>2. Envelopes \in Nat /\ now \in Nat /\ Cardinality(R) \in Nat
  BY MessageFacts, RecipientFacts DEF Envelopes, ConversationTypeOK
<1>3. /\ Found(p) => p \in DOMAIN msgs /\ Hop(p) = msgs[p].hop + 1
      /\ Hop(p) \in Nat /\ Found(p) \in BOOLEAN /\ p \in 0..MaxSend
  BY <1>1, MessageFacts, NatFacts DEF Found, Hop, Nothing
<1>4. m \in Message
  BY <1>2, <1>3 DEF Message
<1>5. m.hop <= MaxHops /\ (m.linked => m.parent \in DOMAIN msgs /\ m.hop = msgs[m.parent].hop + 1)
  BY <1>1, <1>3
<1>6. m.from = s /\ m.said = x /\ m.at = now
  OBVIOUS
<1> HIDE DEF m
<1>7. SaidLast(m, n) /\ msgs' \in Seq(Message)
  BY <1>1, <1>4, <1>6, SaidLastHolds
<1> HIDE DEF n
<1>8. WindowInv' /\ rate' \in [start : Nat, count : 0..RateLimit]
  BY <1>1, <1>7, WindowKeeps DEF GateInv
<1>9. RateKept'
  BY <1>1, <1>7, <1>8, RateKeeps DEF GateInv
<1>10. RepeatsRefused' /\ seen' \in [Sender \X Content -> Nat \cup {Never}]
  BY <1>1, <1>6, <1>7, RepeatsKeep DEF GateInv
<1>11. HopsCounted'
  BY <1>1, <1>4, <1>5, HopsKeep DEF GateInv
<1> QED BY <1>7, <1>8, <1>9, <1>10, <1>11 DEF GateInv

-----------------------------------------------------------------------------
(* The clock.                                                              *)

Clock == [active : Session \cup {NoSession}, since : Nat, elapsed : [Session -> Nat]]

\* Handing the clock over and halting it charge who had it, at no loss.
LEMMA HandingFacts ==
  ASSUME ConversationTypeOK, SegmentBegan, now' = now, NEW t \in Session,
         \/ clock' = HandTo(clock, t) \/ clock' = Halt(clock)
         \/ clock.active = NoSession /\ clock' = [clock EXCEPT !.active = t, !.since = now]
         \/ clock' = clock
  PROVE  /\ clock' \in Clock /\ SegmentBegan'
         /\ \A s \in Session : Used(s)' = Used(s)
<1>1. /\ clock \in Clock /\ now \in Nat /\ NoSession \notin Session
  BY ConversationAssumption DEF ConversationTypeOK, Clock
<1>2. /\ clock.active \in Session \cup {NoSession} /\ clock.since \in Nat
      /\ clock.elapsed \in [Session -> Nat]
      /\ clock.active \in Session => clock.since <= now
  BY <1>1 DEF Clock, SegmentBegan
<1>3. /\ Fold(clock) \in Clock
      /\ \A s \in Session : Fold(clock).elapsed[s] = Used(s)
  <2>1. CASE clock.active = NoSession
    BY <2>1, <1>1, <1>2 DEF Fold, Used
  <2>2. CASE clock.active \in Session
    <3> DEFINE a == clock.active
               e == [clock.elapsed EXCEPT ![a] = @ + (now - clock.since)]
    <3>1. e \in [Session -> Nat] /\ \A s \in Session : e[s] = Used(s)
      BY <2>2, <1>1, <1>2 DEF Used
    <3>2. Fold(clock) = [clock EXCEPT !.elapsed = e]
      BY <2>2, <1>1 DEF Fold, Clock
    <3> HIDE DEF e
    <3> QED BY <3>1, <3>2, <1>1 DEF Clock
  <2> QED BY <2>1, <2>2, <1>2
<1>4. CASE clock' = HandTo(clock, t)
  <2>1. /\ clock' = [Fold(clock) EXCEPT !.active = t, !.since = now]
    BY <1>4 DEF HandTo
  <2>2. /\ clock' \in Clock /\ clock'.active = t /\ clock'.since = now
        /\ clock'.elapsed = Fold(clock).elapsed
    BY <2>1, <1>1, <1>3 DEF Clock
  <2>3. \A s \in Session : Fold(clock).elapsed[s] \in Nat
    BY <1>3 DEF Clock
  <2> QED BY <2>2, <2>3, <1>1, <1>3 DEF Used, SegmentBegan
<1>5. CASE clock' = Halt(clock)
  <2>1. /\ clock' = [Fold(clock) EXCEPT !.active = NoSession, !.since = 0]
    BY <1>5 DEF Halt
  <2>2. /\ clock' \in Clock /\ clock'.active = NoSession
        /\ clock'.elapsed = Fold(clock).elapsed
    BY <2>1, <1>1, <1>3 DEF Clock
  <2>3. \A s \in Session : Fold(clock).elapsed[s] \in Nat
    BY <1>3 DEF Clock
  <2> QED BY <2>2, <2>3, <1>1, <1>3 DEF Used, SegmentBegan
<1>6. CASE clock.active = NoSession /\ clock' = [clock EXCEPT !.active = t, !.since = now]
  <2>1. /\ clock' \in Clock /\ clock'.active = t /\ clock'.since = now
        /\ clock'.elapsed = clock.elapsed
    BY <1>6, <1>1 DEF Clock
  <2> QED BY <2>1, <1>1, <1>2, <1>6 DEF Used, SegmentBegan
<1>7. CASE clock' = clock
  BY <1>7, <1>1 DEF Used, SegmentBegan
<1> QED BY <1>4, <1>5, <1>6, <1>7

\* Who has the clock then.
LEMMA HandedFacts ==
  ASSUME ConversationTypeOK
  PROVE  /\ \A t : HandTo(clock, t).active = t
         /\ Halt(clock).active = NoSession
         /\ \A t : [clock EXCEPT !.active = t, !.since = now].active = t
<1>1. clock \in Clock
  BY DEF ConversationTypeOK, Clock
<1>2. /\ DOMAIN clock = {"active", "since", "elapsed"}
      /\ DOMAIN Fold(clock) = {"active", "since", "elapsed"}
  BY <1>1 DEF Clock, Fold
<1> QED BY <1>2 DEF HandTo, Halt

LEMMA ActiveFacts ==
  ASSUME ConversationTypeOK, ClockInv
  PROVE  /\ clock \in Clock /\ clock.active \in Session \cup {NoSession}
         /\ NoSession \notin Session
         /\ clock.active # NoSession => live /\ clock.active \in Members
  BY ConversationAssumption DEF ConversationTypeOK, Clock, ClockInv, ClockHasMember

\* The handed clock belongs to a member, or to nobody.
LEMMA ClockKeeps ==
  ASSUME ConversationTypeOK, ClockInv, now' = now, NEW t \in Session,
         \/ clock' = HandTo(clock, t) \/ clock' = Halt(clock)
         \/ clock.active = NoSession /\ clock' = [clock EXCEPT !.active = t, !.since = now]
         \/ clock' = clock,
         ranFor' = ranFor,
         clock'.active # NoSession => live' /\ clock'.active \in Members',
         RolesDiffer'
  PROVE  clock' \in Clock /\ ClockInv'
<1>1. clock' \in Clock /\ SegmentBegan' /\ \A s \in Session : Used(s)' = Used(s)
  BY HandingFacts DEF ClockInv
<1>2. ClockConserves'
  BY <1>1 DEF ClockInv, ClockConserves
<1> QED BY <1>1, <1>2 DEF ClockInv, ClockHasMember

LEMMA TimeKeeps ==
  ASSUME ConversationInv, TimePasses
  PROVE  ConversationInv'
<1>1. /\ now' = now + 1 /\ now < MaxTime
      /\ ranFor' = IF clock.active = NoSession THEN ranFor
                   ELSE [ranFor EXCEPT ![clock.active] = @ + 1]
      /\ UNCHANGED <<live, paused, roster, label, lost, rate, seen, clock, msgs, moves>>
  BY DEF TimePasses
<1>2. ConversationTypeOK /\ ClockInv /\ now \in Nat /\ ranFor \in [Session -> Nat]
  BY DEF ConversationInv, ConversationTypeOK
<1>3. /\ clock.active \in Session \cup {NoSession} /\ NoSession \notin Session
      /\ clock.since \in Nat /\ clock.elapsed \in [Session -> Nat]
      /\ clock.active # NoSession => clock.since <= now
  BY <1>2, ActiveFacts DEF Clock, ClockInv, SegmentBegan
<1>4. ranFor' \in [Session -> Nat]
  BY <1>1, <1>2, <1>3
<1>5. ConversationTypeOK'
  BY <1>1, <1>2, <1>4, NatFacts DEF ConversationTypeOK
<1>6. GateInv'
  BY <1>1, TimeKeepsGate DEF ConversationInv
<1>7. SegmentBegan'
  BY <1>1, <1>2, <1>3 DEF SegmentBegan
<1>8. ClockConserves'
  <2> SUFFICES ASSUME NEW s \in Session PROVE Used(s)' = ranFor'[s]
    BY DEF ClockConserves
  <2>1. Used(s) = ranFor[s]
    BY <1>2 DEF ClockInv, ClockConserves
  <2>2. Used(s)' = Used(s) + (IF clock.active = s THEN 1 ELSE 0)
    BY <1>1, <1>2, <1>3 DEF Used
  <2>3. ranFor'[s] = ranFor[s] + (IF clock.active = s THEN 1 ELSE 0)
    BY <1>1, <1>2, <1>3
  <2> QED BY <2>1, <2>2, <2>3
<1>9. ClockHasMember' /\ RolesDiffer'
  BY <1>1, <1>2 DEF ClockInv, ClockHasMember, RolesDiffer, Members
<1> QED BY <1>5, <1>6, <1>7, <1>8, <1>9 DEF ConversationInv, ClockInv

-----------------------------------------------------------------------------
(* The operations that are no sends.                                       *)

LEMMA ClockOpsKeep ==
  ASSUME ConversationInv, NEW s \in Session, moves' \in 0..MaxMoves,
         StartClock(s) \/ StopClock(s) \/ \E t \in Session : SwitchClock(s, t)
  PROVE  ConversationInv'
<1>1. /\ ConversationTypeOK /\ ClockInv /\ GateInv
      /\ live /\ s \in Members /\ Members \subseteq Session /\ NoSession \notin Session
  BY MembersFacts, ConversationAssumption
  DEF ConversationInv, StartClock, StopClock, SwitchClock
<1>2. UNCHANGED <<now, live, paused, roster, label, lost, rate, seen, msgs, ranFor>>
  BY DEF StartClock, StopClock, SwitchClock, SetClock
<1>3. PICK t \in Members :
        \/ clock' = HandTo(clock, t) \/ clock' = Halt(clock)
        \/ clock.active = NoSession /\ clock' = [clock EXCEPT !.active = t, !.since = now]
  BY <1>1 DEF StartClock, StopClock, SwitchClock, SetClock
<1>4. Members' = Members /\ RolesDiffer'
  BY <1>1, <1>2 DEF Members, RolesDiffer, ClockInv
<1>5. clock'.active \in {t, NoSession}
  BY <1>1, <1>3, HandedFacts
<1>6. clock' \in Clock /\ ClockInv'
  BY <1>1, <1>2, <1>3, <1>4, <1>5, ClockKeeps
<1>7. ConversationTypeOK'
  BY <1>1, <1>2, <1>6 DEF ConversationTypeOK, Clock
<1> QED BY <1>1, <1>2, <1>6, <1>7, GateUnchanged DEF ConversationInv

LEMMA ResetKeeps ==
  ASSUME ConversationInv, NEW s \in Session, moves' \in 0..MaxMoves, ResetClock(s)
  PROVE  ConversationInv'
<1>1. /\ clock' = Stopped /\ ranFor' = [t \in Session |-> 0]
      /\ UNCHANGED <<now, live, paused, roster, label, lost, rate, seen, msgs>>
  BY DEF ResetClock, SetClock
<1>2. ConversationTypeOK /\ ClockInv /\ GateInv /\ NoSession \notin Session
  BY ConversationAssumption DEF ConversationInv
<1>3. /\ clock' \in Clock /\ clock'.active = NoSession
      /\ clock'.elapsed = [t \in Session |-> 0]
  BY <1>1 DEF Stopped, Clock
<1>4. ConversationTypeOK'
  BY <1>1, <1>2, <1>3 DEF ConversationTypeOK, Clock
<1>5. ClockConserves'
  BY <1>1, <1>2, <1>3 DEF ClockConserves, Used
<1>6. (SegmentBegan /\ ClockHasMember /\ RolesDiffer)'
  BY <1>1, <1>2, <1>3 DEF SegmentBegan, ClockHasMember, ClockInv, RolesDiffer, Members
<1> QED BY <1>1, <1>2, <1>4, <1>5, <1>6, GateUnchanged DEF ConversationInv, ClockInv

LEMMA JoinKeepsConversation ==
  ASSUME ConversationInv, NEW s \in Session, NEW l \in Label, moves' \in 0..MaxMoves,
         Join(s, l)
  PROVE  ConversationInv'
<1>1. /\ s \notin Members /\ \A t \in Members : Role[label[t]] # Role[l]
      /\ roster' = Append(roster, s) /\ label' = [label EXCEPT ![s] = l]
      /\ UNCHANGED <<now, live, paused, lost, rate, seen, clock, msgs, ranFor>>
  BY DEF Join, SameRole
<1>2. /\ ConversationTypeOK /\ ClockInv /\ GateInv /\ roster \in Seq(Session)
      /\ \A i, j \in DOMAIN roster : roster[i] = roster[j] => i = j
      /\ label \in [Session -> Label] /\ Members \subseteq Session
  BY MembersFacts DEF ConversationInv, ConversationTypeOK
<1>3. /\ roster' \in Seq(Session) /\ Len(roster') = Len(roster) + 1
      /\ DOMAIN roster' = DOMAIN roster \cup {Len(roster) + 1}
      /\ roster'[Len(roster) + 1] = s
      /\ \A i \in DOMAIN roster : roster'[i] = roster[i]
  BY <1>1, <1>2
<1>4. /\ Members' = Members \cup {s}
      /\ \A i, j \in DOMAIN roster' : roster'[i] = roster'[j] => i = j
  BY <1>1, <1>2, <1>3 DEF Members
<1>5. /\ label' \in [Session -> Label] /\ label'[s] = l
      /\ \A t \in Members : label'[t] = label[t]
  BY <1>1, <1>2
<1>6. RolesDiffer'
  BY <1>1, <1>2, <1>4, <1>5 DEF RolesDiffer, ClockInv
<1>7. ConversationTypeOK'
  BY <1>1, <1>2, <1>3, <1>4, <1>5 DEF ConversationTypeOK
<1>8. ClockInv'
  BY <1>1, <1>2, <1>4, <1>6, ActiveFacts, ClockKeeps
<1> QED BY <1>1, <1>2, <1>7, <1>8, GateUnchanged DEF ConversationInv

\* A member goes: the others keep their order, and the clock is not its own.
LEMMA RemovedFacts ==
  ASSUME ConversationTypeOK, ClockInv, NEW s \in Session, s \in Members, Removed(s)
  PROVE  /\ roster' \in Seq(Session) /\ Members' = Members \ {s}
         /\ \A i, j \in DOMAIN roster' : roster'[i] = roster'[j] => i = j
         /\ lost' \subseteq Session
         /\ clock' \in {clock, Halt(clock)} /\ clock'.active # s
         /\ clock'.active # NoSession => clock' = clock
<1>1. PICK k \in DOMAIN roster :
        /\ roster[k] = s
        /\ roster' = [i \in 1..(Len(roster) - 1) |-> roster[IF i < k THEN i ELSE i + 1]]
  BY DEF Removed, ClosedUp
<1>2. /\ roster \in Seq(Session) /\ DOMAIN roster = 1..Len(roster) /\ Len(roster) \in Nat
      /\ \A i, j \in DOMAIN roster : roster[i] = roster[j] => i = j
      /\ lost \subseteq Session /\ k \in 1..Len(roster)
  <2>1. /\ roster \in Seq(Session) /\ lost \subseteq Session
        /\ \A i, j \in DOMAIN roster : roster[i] = roster[j] => i = j
    BY DEF ConversationTypeOK
  <2>2. DOMAIN roster = 1..Len(roster) /\ Len(roster) \in Nat
    BY <2>1
  <2> QED BY <2>1, <2>2
<1> DEFINE n == Len(roster) - 1
           was(i) == IF i < k THEN i ELSE i + 1
<1>3. /\ n \in Nat /\ \A i \in 1..n : was(i) \in DOMAIN roster /\ was(i) # k
      /\ \A i, j \in 1..n : was(i) = was(j) => i = j
  BY <1>2
<1>4. \A j \in DOMAIN roster : j # k => \E i \in 1..n : was(i) = j
  <2> TAKE j \in DOMAIN roster
  <2>1. CASE j < k
    BY <2>1, <1>2
  <2>2. CASE j > k
    <3>1. j - 1 \in 1..n /\ was(j - 1) = j
      BY <2>2, <1>2
    <3> QED BY <3>1
  <2> QED BY <2>1, <2>2, <1>2
<1>5. /\ DOMAIN roster' = 1..n /\ \A i \in 1..n : roster'[i] = roster[was(i)]
  BY <1>1, <1>2
<1> HIDE DEF was, n
<1>6. /\ \A i \in 1..n : roster'[i] \in Session
      /\ \A i, j \in DOMAIN roster' : roster'[i] = roster'[j] => i = j
  BY <1>2, <1>3, <1>5
<1>7. roster' \in Seq(Session)
  <2>1. roster' = [i \in 1..n |-> roster'[i]]
    BY <1>1 DEF n
  <2> QED BY <2>1, <1>3, <1>6
<1>8. Members' = Members \ {s}
  <2>1. ASSUME NEW y \in Members' PROVE y \in Members /\ y # s
    <3>1. PICK i \in 1..n : y = roster[was(i)]
      BY <1>5 DEF Members
    <3>2. was(i) \in DOMAIN roster /\ was(i) # k
      BY <1>3
    <3> QED BY <1>1, <1>2, <3>1, <3>2 DEF Members
  <2>2. ASSUME NEW y \in Members, y # s PROVE y \in Members'
    <3>1. PICK j \in DOMAIN roster : y = roster[j]
      BY DEF Members
    <3>2. PICK i \in 1..n : was(i) = j
      BY <1>1, <1>4, <2>2, <3>1
    <3> QED BY <1>5, <3>1, <3>2 DEF Members
  <2> QED BY <2>1, <2>2
<1>9. /\ clock' \in {clock, Halt(clock)} /\ clock'.active # s
      /\ clock'.active # NoSession => clock' = clock
  <2>1. CASE clock.active = s
    <3>1. clock' = Halt(clock)
      BY <2>1 DEF Removed, Without
    <3> QED BY <3>1, HandedFacts, ConversationAssumption
  <2>2. CASE clock.active # s
    BY <2>2 DEF Removed, Without
  <2> QED BY <2>1, <2>2
<1> QED BY <1>2, <1>6, <1>7, <1>8, <1>9 DEF Removed

LEMMA RemovalKeeps ==
  ASSUME ConversationInv, NEW s \in Session, s \in Members, Removed(s),
         moves' \in 0..MaxMoves, live' \in BOOLEAN, live, Members # {s} => live',
         GateInv', msgs' \in Seq(Message),
         UNCHANGED <<now, paused, label, rate, seen, ranFor>>
  PROVE  ConversationInv'
<1>1. ConversationTypeOK /\ ClockInv
  BY DEF ConversationInv
<1>2. /\ roster' \in Seq(Session) /\ Members' = Members \ {s}
      /\ \A i, j \in DOMAIN roster' : roster'[i] = roster'[j] => i = j
      /\ lost' \subseteq Session
      /\ clock' \in {clock, Halt(clock)} /\ clock'.active # s
      /\ clock'.active # NoSession => clock' = clock
  BY <1>1, RemovedFacts
<1>3. RolesDiffer'
  BY <1>1, <1>2 DEF RolesDiffer, ClockInv
<1>4. clock'.active # NoSession => live' /\ clock'.active \in Members'
  BY <1>1, <1>2, ActiveFacts
<1>5. clock' \in Clock /\ ClockInv'
  BY <1>1, <1>2, <1>3, <1>4, ClockKeeps
<1>6. ConversationTypeOK'
  BY <1>1, <1>2, <1>5 DEF ConversationTypeOK, Clock
<1> QED BY <1>5, <1>6 DEF ConversationInv

LEMMA DisconnectKeeps ==
  ASSUME ConversationInv, NEW s \in Session, moves' \in 0..MaxMoves, Disconnect(s)
  PROVE  ConversationInv'
<1>1. /\ s \in Members /\ Removed(s) /\ live /\ live' = (Members # {s})
      /\ UNCHANGED <<now, paused, label, rate, seen, msgs, ranFor>>
  BY DEF Disconnect
<1>2. GateInv' /\ msgs' \in Seq(Message)
  BY <1>1, GateUnchanged DEF ConversationInv, ConversationTypeOK
<1>3. live' \in BOOLEAN /\ (Members # {s} => live')
  BY <1>1
<1> QED BY <1>1, <1>2, <1>3, RemovalKeeps

LEMMA ExpelledKeeps ==
  ASSUME ConversationInv, NEW s \in Sender, NEW t \in Session, moves' \in 0..MaxMoves,
         Expelled(s, t)
  PROVE  ConversationInv'
<1>1. /\ t \in Members /\ Removed(t) /\ live /\ live' = live
      /\ msgs' = IF Members = {t} THEN msgs
                 ELSE Append(msgs, Notice(s, Cardinality(Members) - 1))
      /\ UNCHANGED <<now, paused, label, rate, seen, ranFor>>
  BY DEF Expelled
<1>2. ConversationTypeOK /\ GateInv /\ live \in BOOLEAN
  BY DEF ConversationInv, ConversationTypeOK
<1>3. Cardinality(Members) - 1 \in Nat
  BY <1>1, <1>2, MembersFacts, FS_EmptySet
<1>4. GateInv' /\ msgs' \in Seq(Message)
  <2>1. CASE Members = {t}
    BY <2>1, <1>1, <1>2, GateUnchanged DEF ConversationTypeOK
  <2>2. CASE Members # {t}
    BY <2>2, <1>1, <1>2, <1>3, NoticeKeepsGate
  <2> QED BY <2>1, <2>2
<1> QED BY <1>1, <1>2, <1>4, RemovalKeeps

\* Operations that leave the roster as it is.
LEMMA HostKeeps ==
  ASSUME ConversationInv, moves' \in 0..MaxMoves,
         \/ \E s \in Sender : SetPaused(s)
         \/ \E s \in Session : HostLost(s) \/ HostBack(s)
  PROVE  ConversationInv'
<1>1. /\ ConversationTypeOK /\ ClockInv /\ GateInv /\ Members \subseteq Session
      /\ NoSession \notin Session
  BY MembersFacts, ConversationAssumption DEF ConversationInv
<1>2. /\ UNCHANGED <<now, live, roster, label, rate, seen, msgs, ranFor>>
      /\ paused' \in BOOLEAN /\ lost' \subseteq Session
      /\ clock' \in {clock, Halt(clock)}
  BY <1>1 DEF SetPaused, HostLost, HostBack, Without, ConversationTypeOK
<1>3. Members' = Members /\ RolesDiffer'
  BY <1>1, <1>2 DEF Members, RolesDiffer, ClockInv
<1>4. clock'.active # NoSession => live' /\ clock'.active \in Members'
  BY <1>1, <1>2, <1>3, ActiveFacts, HandedFacts
<1>5. clock' \in Clock /\ ClockInv'
  <2>1. CASE clock' = clock
    BY <2>1, <1>1, <1>2, <1>3 DEF ConversationTypeOK, Clock, ClockInv, ClockHasMember,
       ClockConserves, Used, SegmentBegan
  <2>2. CASE clock' = Halt(clock) /\ clock' # clock
    <3>1. PICK s \in Session : HostLost(s)
      BY <2>2 DEF SetPaused, HostBack
    <3> QED BY <2>2, <3>1, <1>1, <1>2, <1>3, <1>4, ClockKeeps
  <2> QED BY <2>1, <2>2, <1>2
<1>6. ConversationTypeOK'
  BY <1>1, <1>2, <1>5 DEF ConversationTypeOK, Clock
<1> QED BY <1>1, <1>2, <1>5, <1>6, GateUnchanged DEF ConversationInv

LEMMA SendKeepsConversation ==
  ASSUME ConversationInv, NEW s \in Sender, NEW x \in Content,
         NEW p \in 0..Len(msgs), NEW R \in Recipients(s), Send(s, x, R, p)
  PROVE  ConversationInv'
<1>1. ConversationTypeOK /\ ClockInv /\ GateInv /\ Members \subseteq Session
  BY MembersFacts DEF ConversationInv
<1>2. /\ GateInv' /\ msgs' \in Seq(Message)
      /\ rate' \in [start : Nat, count : 0..RateLimit]
      /\ seen' \in [Sender \X Content -> Nat \cup {Never}]
  BY <1>1, SendKeepsGate
<1>3. /\ live
      /\ UNCHANGED <<now, live, paused, roster, label, lost, moves, ranFor>>
  BY DEF Send
<1>4. PICK t \in Members : clock' = HandTo(clock, t)
  BY <1>1, RecipientFacts DEF Send
<1>5. Members' = Members /\ RolesDiffer'
  BY <1>1, <1>3 DEF Members, RolesDiffer, ClockInv
<1>6. clock'.active = t /\ t \in Session
  BY <1>1, <1>4, HandedFacts
<1>7. clock' \in Clock /\ ClockInv'
  BY <1>1, <1>3, <1>4, <1>5, <1>6, ClockKeeps
<1>8. ConversationTypeOK'
  BY <1>1, <1>2, <1>3, <1>7 DEF ConversationTypeOK, Clock
<1> QED BY <1>2, <1>7, <1>8 DEF ConversationInv

-----------------------------------------------------------------------------
LEMMA ConversationInitHolds == ConversationInit => ConversationInv
<1> SUFFICES ASSUME ConversationInit PROVE ConversationInv
  OBVIOUS
<1>1. ConversationTypeOK
  <2>1. (CHOOSE l \in Label : TRUE) \in Label
    BY ConversationAssumption
  <2>2. Stopped \in Clock
    BY DEF Stopped, Clock
  <2>3. seen \in [Sender \X Content -> Nat \cup {Never}]
    BY DEF ConversationInit
  <2>4. label \in [Session -> Label]
    BY <2>1 DEF ConversationInit
  <2>5. roster \in Seq(Session) /\ DOMAIN roster = {} /\ msgs \in Seq(Message)
    BY DEF ConversationInit
  <2>6. /\ clock \in [active : Session \cup {NoSession}, since : Nat,
                      elapsed : [Session -> Nat]]
        /\ ranFor \in [Session -> Nat]
    BY <2>2 DEF ConversationInit, Clock
  <2>7. rate \in [start : Nat, count : 0..RateLimit]
    BY NatFacts DEF ConversationInit
  <2>8. now \in 0..MaxTime /\ moves \in 0..MaxMoves /\ lost \subseteq Session
    BY NatFacts DEF ConversationInit
  <2>9. live \in BOOLEAN /\ paused \in BOOLEAN
    BY DEF ConversationInit
  <2>10. \A i, j \in DOMAIN roster : roster[i] = roster[j] => i = j
    BY <2>5
  <2> QED BY <2>3, <2>4, <2>5, <2>6, <2>7, <2>8, <2>9, <2>10 DEF ConversationTypeOK
<1>2. /\ Said = {} /\ DOMAIN msgs = {} /\ Members = {}
  BY DEF ConversationInit, Said, Members
<1>3. WindowInv
  <2>1. InWindow = {} /\ JustBefore = {}
    BY <1>2 DEF InWindow, JustBefore
  <2> QED BY <1>2, <2>1, FS_EmptySet, NatFacts DEF ConversationInit, WindowInv
<1>4. RateKept
  <2> SUFFICES ASSUME NEW t \in 0..now
               PROVE  Cardinality({i \in Said : msgs[i].at \in t..(t + Window)})
                        <= 2 * RateLimit
    BY DEF RateKept
  <2>1. Cardinality({i \in Said : msgs[i].at \in t..(t + Window)}) = 0
    BY <1>2, FS_EmptySet
  <2> QED BY <2>1, NatFacts
<1>5. RepeatsRefused /\ HopsCounted
  BY <1>2 DEF RepeatsRefused, Remembered, NoRepeats, HopsCounted
<1>6. ClockInv
  BY <1>2 DEF ConversationInit, Stopped, ClockInv, SegmentBegan, ClockConserves, Used,
     ClockHasMember, RolesDiffer
<1> QED BY <1>1, <1>3, <1>4, <1>5, <1>6 DEF ConversationInv, GateInv

LEMMA ConversationNextKeeps ==
  ConversationInv /\ [ConversationNext]_conversationVars => ConversationInv'
<1> SUFFICES ASSUME ConversationInv, [ConversationNext]_conversationVars
             PROVE  ConversationInv'
  OBVIOUS
<1>1. CASE TimePasses
  BY <1>1, TimeKeeps
<1>2. CASE Moves
  <2>1. moves' \in 0..MaxMoves
    BY <1>2, NatFacts DEF Moves, ConversationInv, ConversationTypeOK
  <2>2. ASSUME NEW s \in Session,
               StartClock(s) \/ StopClock(s) \/ \E t \in Session : SwitchClock(s, t)
        PROVE  ConversationInv'
    BY <2>1, <2>2, ClockOpsKeep
  <2>3. ASSUME NEW s \in Session, ResetClock(s) PROVE ConversationInv'
    BY <2>1, <2>3, ResetKeeps
  <2>4. ASSUME NEW s \in Session, NEW l \in Label, Join(s, l) PROVE ConversationInv'
    BY <2>1, <2>4, JoinKeepsConversation
  <2>5. ASSUME NEW s \in Session, Disconnect(s) PROVE ConversationInv'
    BY <2>1, <2>5, DisconnectKeeps
  <2>6. ASSUME NEW s \in Sender, NEW t \in Session, Expelled(s, t)
        PROVE  ConversationInv'
    BY <2>1, <2>6, ExpelledKeeps
  <2>7. ASSUME \/ \E s \in Sender : SetPaused(s)
               \/ \E s \in Session : HostLost(s) \/ HostBack(s)
        PROVE  ConversationInv'
    BY <2>1, <2>7, HostKeeps
  <2> QED BY <1>2, <2>2, <2>3, <2>4, <2>5, <2>6, <2>7
          DEF Moves, Kick, RemoveAsOperator, Sender
<1>3. CASE Sends
  BY <1>3, SendKeepsConversation DEF Sends
<1>4. CASE UNCHANGED conversationVars
  <2>1. ConversationTypeOK' /\ GateInv'
    BY <1>4, GateUnchanged DEF conversationVars, ConversationInv, ConversationTypeOK
  <2>2. ClockInv'
    BY <1>4 DEF conversationVars, ConversationInv, ClockInv, SegmentBegan, ClockConserves,
       Used, ClockHasMember, RolesDiffer, Members
  <2> QED BY <2>1, <2>2 DEF ConversationInv
<1> QED BY <1>1, <1>2, <1>3, <1>4 DEF ConversationNext

\* The invariant holds in every reachable state.
THEOREM ConversationInvariant == ConversationSpec => []ConversationInv
<1> QED BY ConversationInitHolds, ConversationNextKeeps, PTL DEF ConversationSpec

\* The gate in front of a send (enqueueMessage): no stretch of a rate window
\* has more than twice the limit in it, nothing is said twice within the
\* stale window and no chain of replies is longer than its limit, for any
\* limits, members and contents.
THEOREM GateIsKept == ConversationSpec => []GateHolds
<1>1. ConversationInv => GateHolds
  BY ChainsAreShort DEF ConversationInv, GateInv, RepeatsRefused, GateHolds
<1> QED BY <1>1, ConversationInvariant, PTL

\* The clock charges each member what it had the clock, and nobody who is
\* not a member; a role has one member (timerAction, removeMember, joinChannel).
THEOREM ClockIsSound == ConversationSpec => []ClockSound
<1>1. ConversationInv => ClockSound
  BY DEF ConversationInv, ClockInv, ClockSound
<1> QED BY <1>1, ConversationInvariant, PTL
=============================================================================
