------------------------ MODULE NativeDeliveryProofs ------------------------
(***************************************************************************)
(* Theorems about NativeDelivery, for any number of hooks, spawned turns,  *)
(* native sessions, members and sends, and every combination of faults.    *)
(*                                                                         *)
(* The invariant counts, for each envelope, how often it was heard and who *)
(* is still going to say it: the hooks that have it, the turns that will   *)
(* be spawned with it, and the queue it waits in.  All of them together    *)
(* are one more than the times it was put back, at most.                   *)
(***************************************************************************)
EXTENDS NativeDelivery, MailboxProofs

HookRecord ==
  [phase : {"none", "entering", "drained", "committing", "answering"},
   native : Native \cup {NoNative}, event : Event,
   member : Session \cup {NoMember}, ids : Seq(Msg), parts : SUBSET Msg]

RunRecord ==
  [phase : {"none", "next", "checking", "draining", "spawning",
            "committing", "failed"},
   todo : SUBSET Session, member : Session \cup {NoMember},
   native : Native \cup {NoNative}, ids : Seq(Msg)]

\* A hook has a batch of its member.
HooksOK ==
  /\ hook \in [Hook -> HookRecord]
  /\ \A k \in Hook : IsBatch(hook[k].member, hook[k].ids)

\* The phases in which a member is reserved.
Busy == {"checking", "draining", "spawning", "committing", "failed"}

\* What can be said of the record of one delivery.
RunFits(x) ==
  /\ x \in RunRecord
  /\ IsBatch(x.member, x.ids)
  /\ Len(x.ids) <= ArgvRoom
  /\ x.phase \in Busy => x.member \in Session

\* A reserved member has one delivery.
RunsOK ==
  /\ run \in [Run -> RunRecord]
  /\ \A k \in Run : RunFits(run[k])
  /\ \A j, k \in Run :
       j # k /\ run[j].member = run[k].member => run[j].member = NoMember

\* Only a row of a roster is bound, and a native session as one member.
BoundOK ==
  /\ bound \in [Channel -> [Session -> Native \cup {NoNative}]]
  /\ \A c \in Channel, r \in Session :
       bound[c][r] # NoNative => Active(file, c) /\ r \in Members(file, c)
  /\ \A c, d \in Channel, r, s \in Session :
       bound[c][r] = bound[d][s] /\ bound[c][r] # NoNative => r = s

CountsOK ==
  /\ ended \subseteq Native
  /\ late \subseteq Channel \X Session
  /\ heard \in [Msg -> Nat] /\ back \in [Msg -> Nat]
  /\ lost \subseteq Msg
  /\ plan \in Plans
  /\ faults \in 0..MaxFaults /\ churn \in 0..MaxChurn

\* A model is still going to be given m by this hook, by this turn, or
\* because it waits in its queue.
HookOwed(x, m) ==
  \/ x.phase = "drained" /\ m \in Elems(x.ids)
  \/ x.phase \in {"committing", "answering"} /\ m \in x.parts
RunOwed(x, m) == x.phase = "spawning" /\ m \in Elems(x.ids)
Waits(s, m) == IF s.status[m] \in {"unsent", "pending"} THEN 1 ELSE 0

HookOwes(m) == {k \in Hook : HookOwed(hook[k], m)}
RunOwes(m) == {k \in Run : RunOwed(run[k], m)}
Owed(m) ==
  Cardinality(HookOwes(m)) + Cardinality(RunOwes(m)) + Waits(file, m)

HandedOnce == \A m \in Msg : heard[m] + Owed(m) <= 1 + back[m]

\* Whoever drained m is yet to settle it.
HookKeeps(x, m) == x.phase \in {"drained", "committing"} /\ m \in Elems(x.ids)
RunKeeps(x, m) ==
  x.phase \in {"spawning", "committing", "failed"} /\ m \in Elems(x.ids)
HeldBySome(m) ==
  \/ \E k \in Hook : HookKeeps(hook[k], m)
  \/ \E k \in Run : RunKeeps(run[k], m)

FlightHeld == \A m \in InFlight(Msg) : m \in lost \/ HeldBySome(m)

NativeInv ==
  /\ Sound(file) /\ HooksOK /\ RunsOK /\ BoundOK /\ CountsOK
  /\ HandedOnce /\ FlightHeld

-----------------------------------------------------------------------------
(***************************************************************************)
(* The invariant says what the runs check.                                 *)
(***************************************************************************)
LEMMA OwedFacts ==
  ASSUME NEW S, S \in SUBSET Hook \/ S \in SUBSET Run
  PROVE  IsFiniteSet(S) /\ Cardinality(S) \in Nat
<1>1. IsFiniteSet(S)
  BY NativeAssumption, FS_Subset
<1> QED BY <1>1, FS_CardinalityType

LEMMA OwedType ==
  ASSUME NEW m \in Msg
  PROVE  /\ Cardinality(HookOwes(m)) \in Nat /\ Cardinality(RunOwes(m)) \in Nat
         /\ Owed(m) \in Nat
<1>1. HookOwes(m) \in SUBSET Hook /\ RunOwes(m) \in SUBSET Run
  BY DEF HookOwes, RunOwes
<1>2. Cardinality(HookOwes(m)) \in Nat /\ Cardinality(RunOwes(m)) \in Nat
  BY <1>1, OwedFacts
<1> QED BY <1>2 DEF Owed, Waits

LEMMA NativeTypes == NativeInv => TypeOK
BY DEF NativeInv, Sound, HooksOK, RunsOK, BoundOK, CountsOK, HookRecord, RunRecord,
       TypeOK

LEMMA NativeMail == NativeInv => MailAccounted
<1> SUFFICES ASSUME NativeInv PROVE MailAccounted
  OBVIOUS
<1>1. RepeatsAccounted
  <2> SUFFICES ASSUME NEW m \in Msg PROVE heard[m] <= 1 + back[m]
    BY DEF RepeatsAccounted
  <2>1. heard[m] \in Nat /\ back[m] \in Nat /\ heard[m] + Owed(m) <= 1 + back[m]
    BY DEF NativeInv, CountsOK, HandedOnce
  <2> QED BY <2>1, OwedType
<1>2. InFlightIsHeld
  BY DEF NativeInv, FlightHeld, HeldBySome, HookKeeps, RunKeeps, InFlightIsHeld
<1> QED BY <1>1, <1>2, NativeTypes DEF MailAccounted

LEMMA NativeTurns == NativeInv => TurnsApart
<1> SUFFICES ASSUME NativeInv PROVE TurnsApart
  OBVIOUS
<1>1. OneTurnEach /\ BatchFits
  BY NativeAssumption DEF NativeInv, RunsOK, RunFits, Busy, OneTurnEach, BatchFits
<1>2. OneMemberEach
  <2> SUFFICES ASSUME NEW h \in Native
               PROVE  Cardinality({row[2] : row \in BoundRows(h)}) <= 1
    BY DEF OneMemberEach
  <2> DEFINE R == {row[2] : row \in BoundRows(h)}
  <2>1. \A r, s \in R : r = s
    BY NativeAssumption DEF NativeInv, BoundOK, BoundRows, Rows
  <2>2. R = {} \/ \E r : R = {r}
    BY <2>1
  <2> HIDE DEF R
  <2>3. Cardinality(R) \in {0, 1}
    BY <2>2, FS_EmptySet, FS_Singleton
  <2> QED BY <2>3 DEF R
<1> QED BY <1>1, <1>2 DEF TurnsApart

-----------------------------------------------------------------------------
(***************************************************************************)
(* What the change of one hook or of one delivery changes.                 *)
(***************************************************************************)
IdleFits ==
  /\ IdleHook \in HookRecord /\ IsBatch(IdleHook.member, IdleHook.ids)
  /\ RunFits(IdleRun) /\ IdleRun.member = NoMember

LEMMA IdleRecords == IdleFits
<1>1. /\ <<>> \in Seq(Msg) /\ Len(<<>>) = 0 /\ Elems(<<>>) = {}
      /\ \A r : IsBatch(r, <<>>)
  BY EmptyFacts DEF IsBatch
<1>2. IdleHook \in HookRecord /\ IdleHook.ids = <<>> /\ IdleHook.parts = {}
  BY <1>1 DEF IdleHook, HookRecord, Event
<1>3. /\ IdleRun \in RunRecord /\ IdleRun.ids = <<>> /\ IdleRun.member = NoMember
      /\ IdleRun.phase \notin Busy
  BY <1>1 DEF IdleRun, RunRecord, Busy
<1> QED BY <1>1, <1>2, <1>3, NativeAssumption DEF IdleFits, RunFits

\* A hook changes.
HookTurns(k, x) == k \in Hook /\ hook' = [hook EXCEPT ![k] = x]

LEMMA HookStep ==
  ASSUME HooksOK, NEW k \in Hook, NEW x \in HookRecord, HookTurns(k, x),
         IsBatch(x.member, x.ids)
  PROVE  HooksOK'
<1>1. \A j \in Hook : hook'[j] = IF j = k THEN x ELSE hook[j]
  BY DEF HooksOK, HookTurns
<1> QED BY <1>1 DEF HooksOK, HookTurns

LEMMA HookOwesStep ==
  ASSUME HooksOK, NEW k \in Hook, NEW x, HookTurns(k, x), NEW m \in Msg
  PROVE  /\ HookOwed(hook[k], m) /\ HookOwed(x, m)
              => Cardinality(HookOwes(m)') = Cardinality(HookOwes(m))
         /\ HookOwed(hook[k], m) /\ ~HookOwed(x, m)
              => Cardinality(HookOwes(m)') = Cardinality(HookOwes(m)) - 1
         /\ ~HookOwed(hook[k], m) /\ HookOwed(x, m)
              => Cardinality(HookOwes(m)') = Cardinality(HookOwes(m)) + 1
         /\ ~HookOwed(hook[k], m) /\ ~HookOwed(x, m)
              => Cardinality(HookOwes(m)') = Cardinality(HookOwes(m))
<1>1. \A j \in Hook : hook'[j] = IF j = k THEN x ELSE hook[j]
  BY DEF HooksOK, HookTurns
<1>2. HookOwes(m) \in SUBSET Hook /\ IsFiniteSet(HookOwes(m))
  BY OwedFacts DEF HookOwes
<1>3. HookOwes(m)' = {j \in Hook : HookOwed(hook'[j], m)}
  BY DEF HookOwes
<1>4. HookOwes(m)' = IF HookOwed(x, m) THEN HookOwes(m) \cup {k}
                     ELSE HookOwes(m) \ {k}
  BY <1>1, <1>3 DEF HookOwes
<1>5. k \in HookOwes(m) <=> HookOwed(hook[k], m)
  BY DEF HookOwes
<1>6. /\ Cardinality(HookOwes(m) \cup {k})
           = IF k \in HookOwes(m) THEN Cardinality(HookOwes(m)) ELSE Cardinality(HookOwes(m)) + 1
      /\ Cardinality(HookOwes(m) \ {k})
           = IF k \in HookOwes(m) THEN Cardinality(HookOwes(m)) - 1 ELSE Cardinality(HookOwes(m))
  BY <1>2, FS_AddElement, FS_RemoveElement
<1> QED BY <1>4, <1>5, <1>6

\* A delivery changes.
RunTurns(k, x) == k \in Run /\ run' = [run EXCEPT ![k] = x]

LEMMA RunStep ==
  ASSUME RunsOK, NEW k \in Run, NEW x, RunFits(x), RunTurns(k, x),
         \/ x.member \in {NoMember, run[k].member}
         \/ \A j \in Run : run[j].member # x.member
  PROVE  RunsOK'
<1>1. \A j \in Run : run'[j] = IF j = k THEN x ELSE run[j]
  BY DEF RunsOK, RunTurns
<1>2. run' \in [Run -> RunRecord] /\ \A j \in Run : RunFits(run'[j])
  BY <1>1 DEF RunsOK, RunFits, RunTurns
<1>3. \A i, j \in Run :
        i # j /\ run'[i].member = run'[j].member => run'[i].member = NoMember
  BY <1>1 DEF RunsOK
<1> QED BY <1>2, <1>3 DEF RunsOK

LEMMA RunOwesStep ==
  ASSUME RunsOK, NEW k \in Run, NEW x, RunTurns(k, x), NEW m \in Msg
  PROVE  /\ RunOwed(run[k], m) /\ RunOwed(x, m)
              => Cardinality(RunOwes(m)') = Cardinality(RunOwes(m))
         /\ RunOwed(run[k], m) /\ ~RunOwed(x, m)
              => Cardinality(RunOwes(m)') = Cardinality(RunOwes(m)) - 1
         /\ ~RunOwed(run[k], m) /\ RunOwed(x, m)
              => Cardinality(RunOwes(m)') = Cardinality(RunOwes(m)) + 1
         /\ ~RunOwed(run[k], m) /\ ~RunOwed(x, m)
              => Cardinality(RunOwes(m)') = Cardinality(RunOwes(m))
<1>1. \A j \in Run : run'[j] = IF j = k THEN x ELSE run[j]
  BY DEF RunsOK, RunTurns
<1>2. RunOwes(m) \in SUBSET Run /\ IsFiniteSet(RunOwes(m))
  BY OwedFacts DEF RunOwes
<1>3. RunOwes(m)' = {j \in Run : RunOwed(run'[j], m)}
  BY DEF RunOwes
<1>4. RunOwes(m)' = IF RunOwed(x, m) THEN RunOwes(m) \cup {k}
                    ELSE RunOwes(m) \ {k}
  BY <1>1, <1>3 DEF RunOwes
<1>5. k \in RunOwes(m) <=> RunOwed(run[k], m)
  BY DEF RunOwes
<1>6. /\ Cardinality(RunOwes(m) \cup {k})
           = IF k \in RunOwes(m) THEN Cardinality(RunOwes(m)) ELSE Cardinality(RunOwes(m)) + 1
      /\ Cardinality(RunOwes(m) \ {k})
           = IF k \in RunOwes(m) THEN Cardinality(RunOwes(m)) - 1 ELSE Cardinality(RunOwes(m))
  BY <1>2, FS_AddElement, FS_RemoveElement
<1> QED BY <1>4, <1>5, <1>6

LEMMA SameOwes ==
  /\ hook' = hook => \A m \in Msg : HookOwes(m)' = HookOwes(m)
  /\ run' = run => \A m \in Msg : RunOwes(m)' = RunOwes(m)
BY DEF HookOwes, RunOwes

\* Who holds an envelope after the change.
LEMMA HeldAfterHook ==
  ASSUME HooksOK, NEW k \in Hook, NEW x, HookTurns(k, x), run' = run, NEW m \in Msg
  PROVE  /\ HeldBySome(m) /\ (HookKeeps(hook[k], m) => HookKeeps(x, m))
              => HeldBySome(m)'
         /\ HookKeeps(x, m) => HeldBySome(m)'
<1>1. \A j \in Hook : hook'[j] = IF j = k THEN x ELSE hook[j]
  BY DEF HooksOK, HookTurns
<1>2. HeldBySome(m)' <=> \/ \E j \in Hook : HookKeeps(hook'[j], m)
                         \/ \E j \in Run : RunKeeps(run[j], m)
  BY DEF HeldBySome
<1> QED BY <1>1, <1>2 DEF HeldBySome

LEMMA HeldAfterRun ==
  ASSUME RunsOK, NEW k \in Run, NEW x, RunTurns(k, x), hook' = hook, NEW m \in Msg
  PROVE  /\ HeldBySome(m) /\ (RunKeeps(run[k], m) => RunKeeps(x, m))
              => HeldBySome(m)'
         /\ RunKeeps(x, m) => HeldBySome(m)'
<1>1. \A j \in Run : run'[j] = IF j = k THEN x ELSE run[j]
  BY DEF RunsOK, RunTurns
<1>2. HeldBySome(m)' <=> \/ \E j \in Hook : HookKeeps(hook[j], m)
                         \/ \E j \in Run : RunKeeps(run'[j], m)
  BY DEF HeldBySome
<1> QED BY <1>1, <1>2 DEF HeldBySome

-----------------------------------------------------------------------------
(***************************************************************************)
(* What an operation on the file changes.                                  *)
(***************************************************************************)
\* Nothing starts to wait and nothing is handed over.
Calm(s, t) ==
  \A m \in Msg : /\ Waits(t, m) <= Waits(s, m)
                 /\ t.status[m] = "in_flight" => s.status[m] = "in_flight"

LEMMA WaitsType == \A s, m : Waits(s, m) \in {0, 1}
BY DEF Waits

LEMMA SparesCalm ==
  ASSUME NEW s, NEW t, Spares(s, t), HandsNone(s, t)
  PROVE  Calm(s, t)
BY DEF Spares, HandsNone, Calm, Waits

LEMMA SameStatusCalm ==
  ASSUME NEW s, NEW t, t.status = s.status
  PROVE  Calm(s, t)
BY DEF Calm, Waits

\* Marks, cooldowns and arrivals.
LEMMA MarksFacts ==
  ASSUME NEW s, Sound(s), NEW c \in Channel, NEW r \in Session
  PROVE  /\ MarkStale(s, r).status = s.status /\ SameRooms(s, MarkStale(s, r))
         /\ ClearStale(s, r).status = s.status /\ SameRooms(s, ClearStale(s, r))
         /\ EndCooldown(s, c, r).status = s.status
         /\ SameRooms(s, EndCooldown(s, c, r))
BY DEF Sound, State, MarkStale, ClearStale, EndCooldown, SameRooms

\* A member's leaving closes the session or leaves the others in it.
LEMMA DisconnectFacts ==
  ASSUME NEW s, Sound(s), NEW c \in Channel, NEW r \in Session
  PROVE  LET t == Disconnect(s, c, r)
         IN  /\ Calm(s, t)
             /\ \A d \in Channel, q \in Session :
                  /\ Active(s, d) /\ q \in Members(s, d) /\ (d # c \/ q # r)
                  => Active(t, d) /\ q \in Members(t, d)
<1> DEFINE u == RemoveMember(s, c, r)
           t == Disconnect(s, c, r)
<1>1. /\ SendsNone(s, u) /\ HandsNone(s, u) /\ u.life = s.life
      /\ \A d \in Channel : Members(s, d) \ {r} \subseteq Members(u, d)
  BY RemoveMemberRooms
<1>2. Sound(u)
  BY RemoveMemberSound
<1>3. u.members = [s.members EXCEPT ![c] = Filter(s.members[c], Session \ {r})]
  BY DEF Sound, State, RemoveMember
<1>4. \A d \in Channel \ {c} : Members(u, d) = Members(s, d)
  BY <1>3 DEF Sound, State, Members
<1>5. t = IF u.members[c] = <<>> THEN Close(u, c) ELSE u
  BY DEF Disconnect
<1> HIDE DEF u, t
<1>6. /\ Close(u, c).life = [u.life EXCEPT ![c] = "gone"]
      /\ Close(u, c).members = [u.members EXCEPT ![c] = <<>>]
      /\ Close(u, c).status = u.status
  BY <1>2 DEF Sound, State, Close
<1>7. Calm(s, t)
  <2>1. Spares(s, u)
    BY RemoveMemberSpares DEF u
  <2>2. Calm(s, u)
    BY <1>1, <2>1, SparesCalm
  <2> QED BY <1>5, <1>6, <2>2 DEF Calm, Waits
<1>8. ASSUME NEW d \in Channel, NEW q \in Session,
             Active(s, d), q \in Members(s, d), d # c \/ q # r
      PROVE  Active(t, d) /\ q \in Members(t, d)
  <2>1. Active(u, d) /\ q \in Members(u, d)
    BY <1>1, <1>4, <1>8 DEF Active
  <2>2. CASE t = u
    BY <2>1, <2>2
  <2>3. CASE t # u
    <3>1. u.members[c] = <<>> /\ t = Close(u, c)
      BY <1>5, <2>3
    <3>2. d # c
      BY <2>1, <3>1, EmptyFacts DEF Members
    <3>3. t.life[d] = u.life[d] /\ t.members[d] = u.members[d]
      BY <1>2, <1>6, <3>1, <3>2 DEF Sound, State
    <3> QED BY <2>1, <3>3 DEF Active, Members
  <2> QED BY <2>2, <2>3
<1> QED BY <1>7, <1>8 DEF t

LEMMA EnqueueCalm ==
  ASSUME NEW s, Sound(s), NEW c \in Channel, NEW R
  PROVE  Calm(s, Enqueue(s, c, R))
BY EnqueueSpares, EnqueueRooms, SparesCalm

LEMMA CommitCalm ==
  ASSUME NEW s, Sound(s), NEW r, NEW ids, IsBatch(r, ids)
  PROVE  /\ Calm(s, Commit(s, r, ids)) /\ SameRooms(s, Commit(s, r, ids))
         /\ \A m \in Elems(ids) : Commit(s, r, ids).status[m] # "in_flight"
<1> DEFINE t == Commit(s, r, ids)
<1>1. /\ t.status = [m \in Msg |-> IF m \in Elems(ids) /\ s.status[m] = "in_flight"
                                      /\ m[2] = r
                                   THEN "delivered" ELSE s.status[m]]
      /\ SameRooms(s, t)
  BY DEF Sound, State, Commit, SameRooms
<1>2. \A m \in Elems(ids) : m \in Msg /\ m[2] = r
  BY DEF IsBatch, Elems
<1> HIDE DEF t
<1>3. Calm(s, t) /\ \A m \in Elems(ids) : t.status[m] # "in_flight"
  BY <1>1, <1>2 DEF Calm, Waits
<1> QED BY <1>1, <1>3 DEF t

\* A drain hands over its batch, which waited, and nothing else.
LEMMA DrainHands ==
  ASSUME NEW s, Sound(s), NEW r \in Session
  PROVE  LET t == Drain(s, r)
             B == Elems(Batch(s, r))
         IN  /\ SameRooms(s, t)
             /\ \A m \in Msg \ B :
                  /\ Waits(t, m) <= Waits(s, m)
                  /\ t.status[m] = "in_flight" => s.status[m] = "in_flight"
             /\ \A m \in B : Waits(s, m) = 1 /\ Waits(t, m) = 0
<1> DEFINE t == Drain(s, r)
           B == Elems(Batch(s, r))
           T == At(s, r, Taken(s, r))
<1>1. SameRooms(s, t) /\ Spares(s, t)
  BY DrainRooms, DrainSpares
<1>2. B = T
  <2>1. s.queues[r] \in Seq(Msg) /\ Taken(s, r) \subseteq DOMAIN s.queues[r]
    BY QueueType, DrainSorts DEF Sound
  <2> QED BY <2>1, PickFacts DEF Batch, At
<1>3. \A m \in B : m \in Msg /\ s.status[m] = "pending" /\ t.status[m] = "in_flight"
  BY BatchQueued, BatchHandedOver
<1>4. \A m \in Msg : t.status[m] = "in_flight" => s.status[m] = "in_flight" \/ m \in T
  BY DEF Sound, State, Drain, DrainAs
<1> HIDE DEF t, B, T
<1>5. \A m \in Msg \ B : /\ Waits(t, m) <= Waits(s, m)
                         /\ t.status[m] = "in_flight" => s.status[m] = "in_flight"
  BY <1>1, <1>2, <1>4 DEF Spares, Waits
<1>6. \A m \in B : Waits(s, m) = 1 /\ Waits(t, m) = 0
  BY <1>3 DEF Waits
<1> QED BY <1>1, <1>5, <1>6 DEF t, B

\* What a requeue or a sweep puts back did not wait.
PutsBack(s, t, D) ==
  /\ \A m \in Msg \cap D : Waits(s, m) = 0 /\ t.status[m] # "in_flight"
  /\ \A m \in Msg \ D : t.status[m] = s.status[m]

LEMMA RequeuePutsBack ==
  ASSUME NEW s, Sound(s), NEW r \in Session, NEW ids, IsBatch(r, ids)
  PROVE  /\ PutsBack(s, Requeue(s, r, ids), Retryable(s, ids))
         /\ SameRooms(s, Requeue(s, r, ids))
<1> DEFINE t == Requeue(s, r, ids)
           D == Retryable(s, ids)
<1>1. /\ t.status = [m \in Msg |-> IF m \in D
                                   THEN IF Spent(s, m) THEN "failed" ELSE "pending"
                                   ELSE s.status[m]]
      /\ SameRooms(s, t)
  <2>1. SameRooms(s, t)
    BY RequeueIdles DEF Idles
  <2>2. t.status = [m \in Msg |-> IF m \in D
                                  THEN IF Spent(s, m) THEN "failed" ELSE "pending"
                                  ELSE s.status[m]]
    BY DEF Sound, State, Requeue
  <2> QED BY <2>1, <2>2
<1>2. \A m \in D : s.status[m] \in {"delivered", "in_flight"}
  BY DEF Retryable
<1> HIDE DEF t, D
<1>3. PutsBack(s, t, D)
  BY <1>1, <1>2 DEF PutsBack, Waits
<1> QED BY <1>1, <1>3 DEF t, D

LEMMA SweepPutsBack ==
  ASSUME NEW s, Sound(s)
  PROVE  PutsBack(s, Sweep(s), Sweepable(s)) /\ SameRooms(s, Sweep(s))
<1> DEFINE t == Sweep(s)
           D == Sweepable(s)
<1>1. /\ t.status = [m \in Msg |-> IF m \in D THEN "pending" ELSE s.status[m]]
      /\ SameRooms(s, t)
  BY SweepIdles DEF Idles, Sound, State, Sweep
<1>2. \A m \in D : s.status[m] = "in_flight"
  BY DEF Sweepable
<1> HIDE DEF t, D
<1>3. PutsBack(s, t, D)
  BY <1>1, <1>2 DEF PutsBack, Waits
<1> QED BY <1>1, <1>3 DEF t, D

-----------------------------------------------------------------------------
(***************************************************************************)
(* The invariant after a step of nobody, of a hook, and of a delivery.     *)
(***************************************************************************)
One(b) == IF b THEN 1 ELSE 0

LEMMA BoundKept ==
  ASSUME BoundOK, bound' = bound, SameRooms(file, file')
  PROVE  BoundOK'
BY DEF BoundOK, SameRooms, Active, Members

LEMMA FaultKept ==
  ASSUME CountsOK, NEW kind, Fault(kind)
  PROVE  faults' \in 0..MaxFaults
BY NativeAssumption DEF CountsOK, Fault

LEMMA FileKeeps ==
  ASSUME NativeInv, UNCHANGED <<hook, run>>,
         Sound(file'), BoundOK', CountsOK', lost \subseteq lost',
         \A m \in Msg :
           /\ heard'[m] + Waits(file', m) + back[m]
                <= heard[m] + Waits(file, m) + back'[m]
           /\ file'.status[m] = "in_flight" => file.status[m] = "in_flight"
  PROVE  NativeInv'
<1>1. HooksOK' /\ RunsOK'
  BY DEF NativeInv, HooksOK, RunsOK
<1>2. HandedOnce'
  <2> SUFFICES ASSUME NEW m \in Msg PROVE heard'[m] + Owed(m)' <= 1 + back'[m]
    BY DEF HandedOnce
  <2>1. /\ heard[m] \in Nat /\ heard'[m] \in Nat /\ back[m] \in Nat /\ back'[m] \in Nat
        /\ heard[m] + Owed(m) <= 1 + back[m]
    BY DEF NativeInv, CountsOK, HandedOnce
  <2>2. Owed(m)' = Cardinality(HookOwes(m)) + Cardinality(RunOwes(m)) + Waits(file', m)
    BY SameOwes DEF Owed, Waits
  <2> QED BY <2>1, <2>2, OwedType, WaitsType DEF Owed
<1>3. FlightHeld'
  BY DEF NativeInv, FlightHeld, InFlight, HeldBySome
<1> QED BY <1>1, <1>2, <1>3 DEF NativeInv

LEMMA HookKeepsInv ==
  ASSUME NativeInv, NEW k \in Hook, NEW x \in HookRecord, HookTurns(k, x), run' = run,
         IsBatch(x.member, x.ids),
         Sound(file'), BoundOK', CountsOK', back' = back, lost \subseteq lost',
         \A m \in Msg :
           /\ heard'[m] + One(HookOwed(x, m)) + Waits(file', m)
                <= heard[m] + One(HookOwed(hook[k], m)) + Waits(file, m)
           /\ file'.status[m] = "in_flight" =>
                \/ m \in lost' \/ HookKeeps(x, m)
                \/ file.status[m] = "in_flight" /\ ~HookKeeps(hook[k], m)
  PROVE  NativeInv'
<1>1. HooksOK /\ HooksOK' /\ RunsOK'
  BY HookStep DEF NativeInv, RunsOK
<1>2. HandedOnce'
  <2> SUFFICES ASSUME NEW m \in Msg PROVE heard'[m] + Owed(m)' <= 1 + back'[m]
    BY DEF HandedOnce
  <2>1. /\ heard[m] \in Nat /\ heard'[m] \in Nat /\ back[m] \in Nat
        /\ heard[m] + Owed(m) <= 1 + back[m]
    BY DEF NativeInv, CountsOK, HandedOnce
  <2>2. Owed(m)' = Cardinality(HookOwes(m)') + Cardinality(RunOwes(m)) + Waits(file', m)
    BY SameOwes DEF Owed, Waits
  <2>3. Cardinality(HookOwes(m)') = Cardinality(HookOwes(m)) + One(HookOwed(x, m))
                                      - One(HookOwed(hook[k], m))
    BY <1>1, HookOwesStep, OwedType DEF One
  <2> QED BY <2>1, <2>2, <2>3, OwedType, WaitsType DEF Owed, One
<1>3. FlightHeld'
  <2> SUFFICES ASSUME NEW m \in Msg, file'.status[m] = "in_flight"
               PROVE  m \in lost' \/ HeldBySome(m)'
    BY DEF FlightHeld, InFlight
  <2>1. file.status[m] = "in_flight" => m \in lost \/ HeldBySome(m)
    BY DEF NativeInv, FlightHeld, InFlight
  <2> QED BY <1>1, <2>1, HeldAfterHook
<1> QED BY <1>1, <1>2, <1>3 DEF NativeInv

LEMMA RunKeepsInv ==
  ASSUME NativeInv, NEW k \in Run, NEW x, RunFits(x), RunTurns(k, x), hook' = hook,
         \/ x.member \in {NoMember, run[k].member}
         \/ \A j \in Run : run[j].member # x.member,
         Sound(file'), BoundOK', CountsOK', lost \subseteq lost',
         \A m \in Msg :
           /\ heard'[m] + One(RunOwed(x, m)) + Waits(file', m) + back[m]
                <= heard[m] + One(RunOwed(run[k], m)) + Waits(file, m) + back'[m]
           /\ file'.status[m] = "in_flight" =>
                \/ m \in lost' \/ RunKeeps(x, m)
                \/ file.status[m] = "in_flight" /\ ~RunKeeps(run[k], m)
  PROVE  NativeInv'
<1>1. RunsOK /\ RunsOK' /\ HooksOK'
  BY RunStep DEF NativeInv, HooksOK
<1>2. HandedOnce'
  <2> SUFFICES ASSUME NEW m \in Msg PROVE heard'[m] + Owed(m)' <= 1 + back'[m]
    BY DEF HandedOnce
  <2>1. /\ heard[m] \in Nat /\ heard'[m] \in Nat /\ back[m] \in Nat /\ back'[m] \in Nat
        /\ heard[m] + Owed(m) <= 1 + back[m]
    BY DEF NativeInv, CountsOK, HandedOnce
  <2>2. Owed(m)' = Cardinality(HookOwes(m)) + Cardinality(RunOwes(m)') + Waits(file', m)
    BY SameOwes DEF Owed, Waits
  <2>3. Cardinality(RunOwes(m)') = Cardinality(RunOwes(m)) + One(RunOwed(x, m))
                                     - One(RunOwed(run[k], m))
    BY <1>1, RunOwesStep, OwedType DEF One
  <2> QED BY <2>1, <2>2, <2>3, OwedType, WaitsType DEF Owed, One
<1>3. FlightHeld'
  <2> SUFFICES ASSUME NEW m \in Msg, file'.status[m] = "in_flight"
               PROVE  m \in lost' \/ HeldBySome(m)'
    BY DEF FlightHeld, InFlight
  <2>1. file.status[m] = "in_flight" => m \in lost \/ HeldBySome(m)
    BY DEF NativeInv, FlightHeld, InFlight
  <2> QED BY <1>1, <2>1, HeldAfterRun
<1> QED BY <1>1, <1>2, <1>3 DEF NativeInv

-----------------------------------------------------------------------------
(***************************************************************************)
(* The steps of members and of time.                                       *)
(***************************************************************************)
LEMMA InvFacts ==
  ASSUME NativeInv
  PROVE  /\ Sound(file) /\ HooksOK /\ RunsOK /\ BoundOK /\ CountsOK
         /\ \A m \in Msg : heard[m] \in Nat /\ back[m] \in Nat
BY DEF NativeInv, CountsOK

LEMMA JoinKeeps ==
  ASSUME NativeInv, NEW r \in Session, NEW c \in Channel, Join(r, c)
  PROVE  NativeInv'
<1>1. Sound(file) /\ Sound(file') /\ BoundOK /\ CountsOK
  BY InvFacts, JoinChannelSound DEF Join
<1>2. /\ file'.status = file.status /\ file'.life = file.life
      /\ \A d \in Channel : Members(file, d) \subseteq Members(file', d)
  BY <1>1, JoinRooms DEF Join
<1>3. BoundOK'
  BY <1>1, <1>2 DEF Join, BoundOK, Active
<1>4. CountsOK'
  BY <1>1, NativeAssumption DEF Join, Churn, CountsOK, history
<1>5. Calm(file, file')
  BY <1>2, SameStatusCalm
<1> QED BY <1>1, <1>3, <1>4, <1>5, InvFacts, WaitsType, FileKeeps DEF Join, history, Calm

LEMMA LeaveKeeps ==
  ASSUME NativeInv, NEW r \in Session, NEW c \in Channel, Leave(r, c)
  PROVE  NativeInv'
<1>1. Sound(file) /\ Sound(file') /\ BoundOK /\ CountsOK
  BY InvFacts, DisconnectSound DEF Leave
<1>2. /\ Calm(file, file')
      /\ \A d \in Channel, q \in Session :
           /\ Active(file, d) /\ q \in Members(file, d) /\ (d # c \/ q # r)
           => Active(file', d) /\ q \in Members(file', d)
  BY <1>1, DisconnectFacts DEF Leave
<1>3. BoundOK'
  <2>1. /\ bound \in [Channel -> [Session -> Native \cup {NoNative}]]
        /\ bound' = [bound EXCEPT ![c][r] = NoNative]
    BY <1>1 DEF BoundOK, Leave
  <2>2. /\ bound' \in [Channel -> [Session -> Native \cup {NoNative}]]
        /\ \A d \in Channel, q \in Session :
             bound'[d][q] = IF d = c /\ q = r THEN NoNative ELSE bound[d][q]
    BY <2>1
  <2>3. \A d \in Channel, q \in Session :
          bound'[d][q] # NoNative => Active(file', d) /\ q \in Members(file', d)
    BY <1>1, <1>2, <2>2 DEF BoundOK
  <2>4. \A d, e \in Channel, q, s \in Session :
          bound'[d][q] = bound'[e][s] /\ bound'[d][q] # NoNative => q = s
    BY <1>1, <2>2 DEF BoundOK
  <2> QED BY <2>2, <2>3, <2>4 DEF BoundOK, Active, Members
<1>4. CountsOK'
  BY <1>1, NativeAssumption DEF Leave, Churn, CountsOK, history
<1> QED BY <1>1, <1>2, <1>3, <1>4, InvFacts, WaitsType, FileKeeps DEF Leave, history, Calm

LEMMA CooldownKeeps ==
  ASSUME NativeInv, NEW r \in Session, NEW c \in Channel, CooldownEnds(c, r)
  PROVE  NativeInv'
<1>1. Sound(file) /\ Sound(file') /\ BoundOK /\ CountsOK
  BY InvFacts, TimeSound DEF CooldownEnds
<1>2. SameRooms(file, file') /\ Calm(file, file')
  BY <1>1, MarksFacts, SameStatusCalm DEF CooldownEnds
<1>3. BoundOK' /\ CountsOK'
  BY <1>1, <1>2, BoundKept DEF CooldownEnds, CountsOK, history
<1> QED BY <1>1, <1>2, <1>3, InvFacts, WaitsType, FileKeeps
        DEF CooldownEnds, history, Calm

LEMMA CountFacts ==
  ASSUME NEW f \in [Msg -> Nat], NEW S
  PROVE  /\ Count(f, S) \in [Msg -> Nat]
         /\ \A m \in Msg : /\ m \in S => Count(f, S)[m] = f[m] + 1
                           /\ m \notin S => Count(f, S)[m] = f[m]
BY DEF Count

LEMMA SweepsKeep ==
  ASSUME NativeInv, PluginSweeps
  PROVE  NativeInv'
<1>1. Sound(file) /\ Sound(file') /\ BoundOK /\ CountsOK
  BY InvFacts, SweepSound DEF PluginSweeps
<1>2. SameRooms(file, file') /\ PutsBack(file, file', Sweepable(file))
  BY <1>1, SweepPutsBack DEF PluginSweeps
<1>3. /\ back' \in [Msg -> Nat]
      /\ \A m \in Msg : /\ m \in Sweepable(file) => back'[m] = back[m] + 1
                        /\ m \notin Sweepable(file) => back'[m] = back[m]
  BY <1>1, CountFacts DEF PluginSweeps, CountsOK
<1>4. faults' \in 0..MaxFaults
  BY <1>1, FaultKept DEF PluginSweeps
<1>5. BoundOK' /\ CountsOK'
  BY <1>1, <1>2, <1>3, <1>4, BoundKept DEF PluginSweeps, CountsOK
<1>6. ASSUME NEW m \in Msg
      PROVE  /\ heard'[m] + Waits(file', m) + back[m]
                  <= heard[m] + Waits(file, m) + back'[m]
             /\ file'.status[m] = "in_flight" => file.status[m] = "in_flight"
  <2>1. heard'[m] = heard[m] /\ heard[m] \in Nat /\ back[m] \in Nat
    BY InvFacts DEF PluginSweeps
  <2>2. CASE m \in Sweepable(file)
    BY <1>2, <1>3, <2>1, <2>2, WaitsType DEF PutsBack
  <2>3. CASE m \notin Sweepable(file)
    BY <1>2, <1>3, <2>1, <2>3, WaitsType DEF PutsBack, Waits
  <2> QED BY <2>2, <2>3
<1> QED BY <1>1, <1>5, <1>6, FileKeeps DEF PluginSweeps

\* The deliveries of a send that are not made at once.
LEMMA SendKeeps ==
  ASSUME NativeInv, NEW r \in Session, NEW c \in Channel, NEW R \in SUBSET Session,
         NEW k \in Run, SendMail(r, c, R, k)
  PROVE  NativeInv'
<1>1. Sound(file) /\ Sound(file') /\ BoundOK /\ CountsOK /\ RunsOK
  BY InvFacts, EnqueueSound DEF SendMail, CanSend
<1>2. SameRooms(file, file') /\ Calm(file, file')
  BY <1>1, EnqueueRooms, EnqueueCalm DEF SendMail
<1>3. BoundOK' /\ CountsOK'
  BY <1>1, <1>2, BoundKept DEF SendMail, CountsOK, history
<1>4. CASE run' = run
  BY <1>1, <1>2, <1>3, <1>4, InvFacts, WaitsType, FileKeeps
  DEF SendMail, history, Calm
<1>5. CASE run' # run
  <2> DEFINE x == [IdleRun EXCEPT !.phase = "next", !.todo = R]
  <2>1. RunFits(x) /\ x.member = NoMember /\ x.phase = "next"
    BY IdleRecords DEF IdleFits, RunFits, IdleRun, RunRecord, Busy
  <2>2. RunTurns(k, x)
    BY <1>5 DEF SendMail, RunTurns
  <2> HIDE DEF x
  <2>3. \A m \in Msg : ~RunOwed(run[k], m) /\ ~RunOwed(x, m) /\ ~RunKeeps(run[k], m)
    BY <2>1 DEF SendMail, RunOwed, RunKeeps
  <2>4. \A m \in Msg :
          /\ heard'[m] + One(RunOwed(x, m)) + Waits(file', m) + back[m]
               <= heard[m] + One(RunOwed(run[k], m)) + Waits(file, m) + back'[m]
          /\ file'.status[m] = "in_flight" =>
               file.status[m] = "in_flight" /\ ~RunKeeps(run[k], m)
    BY <1>2, <2>3, InvFacts, WaitsType DEF SendMail, history, Calm, One
  <2> QED BY <1>1, <1>3, <2>1, <2>2, <2>4, RunKeepsInv DEF SendMail, history
<1> QED BY <1>4, <1>5

-----------------------------------------------------------------------------
(***************************************************************************)
(* The steps of a hook.                                                    *)
(***************************************************************************)
\* Who a native session is.
LEMMA ResolvedFacts ==
  ASSUME BoundOK, NEW h \in Native
  PROVE  /\ \A r \in Resolved(h) : r \in Session
         /\ Resolved(h) = {} =>
              \A c \in Channel, r \in Session : bound[c][r] # h
<1> DEFINE R == {row[2] : row \in BoundRows(h)}
<1>1. \A r, s \in R : r = s
  BY NativeAssumption DEF BoundOK, BoundRows, Rows
<1>2. \A r \in R : r \in Session
  BY DEF BoundRows, Rows
<1>3. ASSUME NEW c \in Channel, NEW r \in Session, bound[c][r] = h PROVE r \in R
  <2>1. <<c, r>> \in BoundRows(h)
    BY <1>3, NativeAssumption DEF BoundOK, BoundRows, Rows
  <2>2. <<c, r>>[2] = r
    OBVIOUS
  <2> QED BY <2>1, <2>2
<1>4. Resolved(h) = IF Cardinality(R) = 1 THEN R ELSE {}
  BY DEF Resolved
<1> HIDE DEF R
<1>5. ASSUME NEW r \in R PROVE R = {r}
  BY <1>1
<1>6. ASSUME NEW r \in R PROVE r \in Resolved(h)
  BY <1>4, <1>5, FS_Singleton
<1> QED BY <1>2, <1>3, <1>4, <1>6

LEMMA HookType ==
  ASSUME NativeInv, NEW k \in Hook
  PROVE  /\ hook[k] \in HookRecord /\ IsBatch(hook[k].member, hook[k].ids)
         /\ Elems(hook[k].ids) \subseteq Msg
BY DEF NativeInv, HooksOK, IsBatch, Elems

\* A hook that ends owes nothing.
LEMMA IdleOwesNothing ==
  \A m : ~HookOwed(IdleHook, m) /\ ~HookKeeps(IdleHook, m)
BY DEF HookOwed, HookKeeps, IdleHook

LEMMA FireKeeps ==
  ASSUME NativeInv, NEW k \in Hook, NEW h \in Native, NEW event \in Event,
         Fire(k, h, event)
  PROVE  NativeInv'
<1> DEFINE x == [IdleHook EXCEPT !.phase = "entering", !.native = h, !.event = event]
<1>1. x \in HookRecord /\ IsBatch(x.member, x.ids) /\ x.phase = "entering"
  BY IdleRecords DEF IdleFits, IdleHook, HookRecord
<1>2. HookTurns(k, x)
  BY DEF Fire, HookTurns
<1> HIDE DEF x
<1>3. \A m \in Msg : /\ ~HookOwed(x, m) /\ ~HookOwed(hook[k], m)
                     /\ ~HookKeeps(hook[k], m)
  BY <1>1 DEF Fire, HookOwed, HookKeeps
<1>4. Sound(file') /\ BoundOK' /\ CountsOK'
  BY InvFacts, BoundKept DEF Fire, CountsOK, SameRooms
<1>5. \A m \in Msg :
        /\ heard'[m] + One(HookOwed(x, m)) + Waits(file', m)
             <= heard[m] + One(HookOwed(hook[k], m)) + Waits(file, m)
        /\ file'.status[m] = "in_flight" =>
             file.status[m] = "in_flight" /\ ~HookKeeps(hook[k], m)
  BY <1>3, InvFacts, WaitsType DEF Fire, One
<1> QED BY <1>1, <1>2, <1>4, <1>5, HookKeepsInv DEF Fire

\* A hook that ends without hearing, on a file that only became calmer.
LEMMA EndKeeps ==
  ASSUME NativeInv, NEW k \in Hook, HookEnds(k), run' = run,
         Sound(file'), SameRooms(file, file'), Calm(file, file'),
         UNCHANGED <<bound, heard, back>>, CountsOK', lost \subseteq lost',
         \A m \in Msg : HookKeeps(hook[k], m) /\ file'.status[m] = "in_flight"
                          => m \in lost'
  PROVE  NativeInv'
<1>1. IdleHook \in HookRecord /\ IsBatch(IdleHook.member, IdleHook.ids)
      /\ HookTurns(k, IdleHook)
  BY IdleRecords DEF IdleFits, HookEnds, HookTurns
<1>2. BoundOK'
  BY InvFacts, BoundKept
<1>3. \A m \in Msg :
        /\ heard'[m] + One(HookOwed(IdleHook, m)) + Waits(file', m)
             <= heard[m] + One(HookOwed(hook[k], m)) + Waits(file, m)
        /\ file'.status[m] = "in_flight" =>
             \/ m \in lost'
             \/ file.status[m] = "in_flight" /\ ~HookKeeps(hook[k], m)
  BY InvFacts, IdleOwesNothing, WaitsType DEF Calm, One
<1> QED BY <1>1, <1>2, <1>3, HookKeepsInv

\* A hook that hears of its member drains its queue.
LEMMA DrainedFacts ==
  ASSUME NEW s, Sound(s), NEW r \in Session
  PROVE  LET u == ClearStale(s, r)
             t == Drain(u, r)
         IN  /\ Sound(t) /\ SameRooms(s, t) /\ IsBatch(r, Batch(u, r))
             /\ \A m \in Msg \ Elems(Batch(u, r)) :
                  /\ Waits(t, m) <= Waits(s, m)
                  /\ t.status[m] = "in_flight" => s.status[m] = "in_flight"
             /\ \A m \in Elems(Batch(u, r)) : Waits(s, m) = 1 /\ Waits(t, m) = 0
<1> DEFINE u == ClearStale(s, r)
           t == Drain(u, r)
<1>1. Sound(u)
  BY ClearStaleSound
<1>2. /\ u.status = s.status
      /\ u.life = s.life /\ u.members = s.members /\ u.paused = s.paused
  BY DEF Sound, State, ClearStale
<1>3. Sound(u) /\ u.status = s.status
      /\ u.life = s.life /\ u.members = s.members /\ u.paused = s.paused
  BY <1>1, <1>2
<1>4. \A m : Waits(u, m) = Waits(s, m)
  BY <1>3 DEF Waits
<1> HIDE DEF u
<1>5. Sound(t) /\ IsBatch(r, Batch(u, r))
  BY <1>3, DrainSound, BatchFacts
<1>6. /\ SameRooms(u, t)
      /\ \A m \in Msg \ Elems(Batch(u, r)) :
           /\ Waits(t, m) <= Waits(u, m)
           /\ t.status[m] = "in_flight" => u.status[m] = "in_flight"
      /\ \A m \in Elems(Batch(u, r)) : Waits(u, m) = 1 /\ Waits(t, m) = 0
  BY <1>3, DrainHands
<1> HIDE DEF t
<1>7. SameRooms(s, t)
  BY <1>3, <1>6 DEF SameRooms
<1> QED BY <1>3, <1>4, <1>5, <1>6, <1>7 DEF u, t

LEMMA DrainedKeeps ==
  ASSUME NativeInv, NEW k \in Hook, NEW r \in Session, hook[k].phase = "entering",
         Drained(k, r), BoundOK', CountsOK', UNCHANGED <<run, heard, back, lost>>
  PROVE  NativeInv'
<1> DEFINE u == ClearStale(file, r)
           ids == Batch(u, r)
           x == IF ids = <<>> THEN IdleHook
                ELSE [hook[k] EXCEPT !.phase = "drained", !.member = r, !.ids = ids]
<1>1. /\ Sound(file') /\ IsBatch(r, ids)
      /\ \A m \in Msg \ Elems(ids) :
           /\ Waits(file', m) <= Waits(file, m)
           /\ file'.status[m] = "in_flight" => file.status[m] = "in_flight"
      /\ \A m \in Elems(ids) : Waits(file, m) = 1 /\ Waits(file', m) = 0
  BY InvFacts, DrainedFacts DEF Drained
<1>2. HookTurns(k, x)
  BY DEF Drained, HookTurns
<1> HIDE DEF ids
<1>3. x \in HookRecord /\ IsBatch(x.member, x.ids)
  <2>1. CASE ids = <<>>
    BY <2>1, IdleRecords DEF IdleFits
  <2>2. CASE ids # <<>>
    <3>1. ids \in Seq(Msg)
      BY <1>1 DEF IsBatch
    <3>2. /\ x \in HookRecord /\ x.member = r /\ x.ids = ids
      BY <2>2, <3>1, HookType DEF HookRecord
    <3> QED BY <1>1, <3>2
  <2> QED BY <2>1, <2>2
<1>4. \A m \in Msg : /\ HookOwed(x, m) => m \in Elems(ids)
                     /\ m \in Elems(ids) => HookKeeps(x, m)
  <2>1. CASE ids = <<>>
    BY <2>1, IdleOwesNothing, EmptyFacts
  <2>2. CASE ids # <<>>
    <3>1. x.phase = "drained" /\ x.ids = ids
      BY <2>2, HookType DEF HookRecord
    <3> HIDE DEF x
    <3> QED BY <3>1 DEF HookOwed, HookKeeps
  <2> QED BY <2>1, <2>2
<1>5. \A m \in Msg : ~HookOwed(hook[k], m) /\ ~HookKeeps(hook[k], m)
  BY DEF HookOwed, HookKeeps
<1> HIDE DEF x
<1>6. ASSUME NEW m \in Msg
      PROVE  /\ heard'[m] + One(HookOwed(x, m)) + Waits(file', m)
                  <= heard[m] + One(HookOwed(hook[k], m)) + Waits(file, m)
             /\ file'.status[m] = "in_flight" =>
                  \/ HookKeeps(x, m)
                  \/ file.status[m] = "in_flight" /\ ~HookKeeps(hook[k], m)
  <2>1. heard[m] \in Nat
    BY InvFacts
  <2>2. CASE m \in Elems(ids)
    BY <1>1, <1>4, <2>1, <2>2 DEF One
  <2>3. CASE m \notin Elems(ids)
    BY <1>1, <1>4, <1>5, <2>1, <2>3, WaitsType DEF One
  <2> QED BY <2>2, <2>3
<1> QED BY <1>1, <1>2, <1>3, <1>6, HookKeepsInv

LEMMA DrainedRooms ==
  ASSUME NativeInv, NEW k \in Hook, NEW r \in Session, Drained(k, r)
  PROVE  SameRooms(file, file')
BY InvFacts, DrainedFacts DEF Drained

LEMMA DrainedCounts ==
  ASSUME NativeInv, NEW k \in Hook, NEW r \in Session, Drained(k, r),
         UNCHANGED <<heard, back, lost, plan, faults, churn>>
  PROVE  CountsOK'
<1>1. ended' \subseteq ended /\ late' \subseteq late
  BY DEF Drained
<1>2. CountsOK
  BY InvFacts
<1> QED BY <1>1, <1>2 DEF CountsOK

LEMMA EntersKeeps ==
  ASSUME NativeInv, NEW k \in Hook, HookEnters(k)
  PROVE  NativeInv'
<1> DEFINE h == hook[k].native
<1>0. /\ hook[k].phase = "entering" /\ UNCHANGED <<run, heard, back, lost>>
      /\ faults' = faults /\ churn' = churn /\ plan' = plan
      /\ h \in Native \cup {NoNative}
  BY HookType DEF HookEnters, HookRecord
<1>1. \A g \in Native \cup {NoNative} : \A r \in Resolved(g) : r \in Session
  BY DEF Resolved, BoundRows, Rows
<1>2. CASE HookOfKnown(k)
  <2>1. PICK r \in Resolved(h) : Drained(k, r)
    BY <1>2 DEF HookOfKnown
  <2>2. r \in Session
    BY <1>0, <1>1
  <2>3. BoundOK' /\ CountsOK'
    BY <1>0, <1>2, <2>1, <2>2, DrainedRooms, DrainedCounts, InvFacts, BoundKept
    DEF HookOfKnown
  <2> QED BY <1>0, <2>1, <2>2, <2>3, DrainedKeeps
<1>3. CASE HookBinds(k)
  <2>1. PICK row \in Bindable(h) : /\ bound' = [bound EXCEPT ![row[1]][row[2]] = h]
                                   /\ Drained(k, row[2])
    BY <1>3 DEF HookBinds
  <2>2. /\ row[1] \in Channel /\ row[2] \in Session
        /\ Active(file, row[1]) /\ row[2] \in Members(file, row[1])
    BY DEF Bindable, Unbound, Rows
  <2>3. SameRooms(file, file')
    BY <2>1, <2>2, DrainedRooms
  <2>4. bound \in [Channel -> [Session -> Native \cup {NoNative}]]
    BY InvFacts DEF BoundOK
  <2>5. /\ bound' \in [Channel -> [Session -> Native \cup {NoNative}]]
        /\ \A d \in Channel, q \in Session :
             bound'[d][q] = IF d = row[1] /\ q = row[2] THEN h ELSE bound[d][q]
    BY <1>0, <2>1, <2>2, <2>4
  <2>6. h # NoNative => \A d \in Channel, q \in Session : bound[d][q] # h
    BY <1>0, <1>3, InvFacts, ResolvedFacts DEF HookBinds
  <2>7. \A d \in Channel, q \in Session :
          bound'[d][q] # NoNative => Active(file, d) /\ q \in Members(file, d)
    BY <2>2, <2>5, InvFacts DEF BoundOK
  <2>8. \A d, e \in Channel, q, s \in Session :
          bound'[d][q] = bound'[e][s] /\ bound'[d][q] # NoNative => q = s
    BY <2>5, <2>6, InvFacts DEF BoundOK
  <2>9. BoundOK'
    BY <2>3, <2>5, <2>7, <2>8 DEF BoundOK, SameRooms, Active, Members
  <2>10. CountsOK'
    BY <1>0, <2>1, <2>2, DrainedCounts
  <2> QED BY <1>0, <2>1, <2>2, <2>9, <2>10, DrainedKeeps
<1>4. CASE HookOfNobody(k)
  <2>1. HookEnds(k) /\ UNCHANGED <<file, bound, ended, late>>
    BY <1>4 DEF HookOfNobody
  <2>2. Sound(file') /\ SameRooms(file, file') /\ Calm(file, file') /\ CountsOK'
    BY <1>0, <2>1, InvFacts, SameStatusCalm DEF SameRooms, CountsOK
  <2>3. \A m \in Msg : ~HookKeeps(hook[k], m)
    BY <1>0 DEF HookKeeps
  <2> QED BY <1>0, <2>1, <2>2, <2>3, EndKeeps
<1> QED BY <1>2, <1>3, <1>4 DEF HookEnters

LEMMA MarksKeep ==
  ASSUME NativeInv, NEW k \in Hook, HookMarksStale(k)
  PROVE  NativeInv'
<1>1. \A r \in Resolved(hook[k].native) : r \in Session
  BY DEF Resolved, BoundRows, Rows
<1>2. /\ Sound(file') /\ file'.status = file.status /\ SameRooms(file, file')
  <2>1. CASE file' = file
    BY <2>1, InvFacts DEF SameRooms
  <2>2. CASE file' # file
    <3>1. PICK r \in Session : file' = MarkStale(file, r)
      BY <1>1, <2>2 DEF HookMarksStale
    <3>2. Sound(MarkStale(file, r))
      BY InvFacts, MarkStaleSound
    <3>3. /\ MarkStale(file, r).status = file.status
          /\ SameRooms(file, MarkStale(file, r))
      BY InvFacts DEF Sound, State, MarkStale, SameRooms
    <3> QED BY <3>1, <3>2, <3>3
  <2> QED BY <2>1, <2>2
<1>3. Calm(file, file') /\ CountsOK'
  <2>1. late' \subseteq Channel \X Session
    <3>1. late \subseteq Channel \X Session
      BY InvFacts DEF CountsOK
    <3>2. Rows \subseteq Channel \X Session
      BY DEF Rows
    <3> QED BY <3>1, <3>2 DEF HookMarksStale
  <2>2. CountsOK /\ UNCHANGED <<ended, heard, back, lost, faults, churn, plan>>
    BY InvFacts DEF HookMarksStale
  <2>3. CountsOK'
    BY <2>1, <2>2 DEF CountsOK
  <2> QED BY <1>2, <2>3, InvFacts, SameStatusCalm
<1>4. \A m \in Msg : ~HookKeeps(hook[k], m)
  BY DEF HookMarksStale, HookKeeps
<1> QED BY <1>2, <1>3, <1>4, EndKeeps DEF HookMarksStale, history

LEMMA ReadsKeep ==
  ASSUME NativeInv, NEW k \in Hook, HookReads(k)
  PROVE  NativeInv'
<1> DEFINE parts == Elems(hook[k].ids) \cap Persisted(file)
           x == [hook[k] EXCEPT !.phase = "committing", !.parts = parts]
<1>1. /\ Sound(file') /\ SameRooms(file, file') /\ Calm(file, file')
      /\ BoundOK' /\ CountsOK'
  BY InvFacts, SameStatusCalm, BoundKept DEF HookReads, history, SameRooms, CountsOK
<1>2. CASE parts = {}
  <2>1. \A m \in Msg : HookKeeps(hook[k], m) => file.status[m] # "in_flight"
    BY <1>2 DEF HookKeeps, Persisted
  <2> QED BY <1>1, <1>2, <2>1, EndKeeps DEF HookReads, history
<1>3. CASE parts # {}
  <2>1. x \in HookRecord /\ x.member = hook[k].member /\ x.ids = hook[k].ids
        /\ x.phase = "committing" /\ x.parts = parts
    BY HookType DEF HookRecord, Persisted
  <2>2. HookTurns(k, x)
    BY <1>3, InvFacts DEF HookReads, HookTurns, HooksOK, HookRecord
  <2> HIDE DEF x
  <2>3. \A m \in Msg : /\ HookOwed(x, m) => HookOwed(hook[k], m)
                       /\ HookKeeps(hook[k], m) => HookKeeps(x, m)
    BY <2>1 DEF HookReads, HookOwed, HookKeeps
  <2>4. \A m \in Msg :
          /\ heard'[m] + One(HookOwed(x, m)) + Waits(file', m)
               <= heard[m] + One(HookOwed(hook[k], m)) + Waits(file, m)
          /\ file'.status[m] = "in_flight" =>
               \/ HookKeeps(x, m)
               \/ file.status[m] = "in_flight" /\ ~HookKeeps(hook[k], m)
    BY <2>3, InvFacts, WaitsType DEF HookReads, history, One
  <2> QED BY <1>1, <2>1, <2>2, <2>4, HookType, HookKeepsInv DEF HookReads, history
<1> QED BY <1>2, <1>3

LEMMA CommitsKeep ==
  ASSUME NativeInv, NEW k \in Hook, HookCommits(k)
  PROVE  NativeInv'
<1> DEFINE x == [hook[k] EXCEPT !.phase = "answering"]
<1>1. /\ Sound(file') /\ SameRooms(file, file') /\ Calm(file, file')
      /\ \A m \in Elems(hook[k].ids) : file'.status[m] # "in_flight"
  BY InvFacts, HookType, CommitSound, CommitCalm DEF HookCommits, Committed
<1>2. BoundOK' /\ CountsOK'
  BY <1>1, InvFacts, BoundKept DEF HookCommits, history, CountsOK
<1>3. x \in HookRecord /\ x.member = hook[k].member /\ x.ids = hook[k].ids
      /\ x.phase = "answering" /\ x.parts = hook[k].parts
  BY HookType DEF HookRecord
<1>4. HookTurns(k, x)
  BY InvFacts DEF HookCommits, HookTurns, HooksOK, HookRecord
<1> HIDE DEF x
<1>5. \A m \in Msg : /\ HookOwed(x, m) => HookOwed(hook[k], m)
                     /\ HookKeeps(hook[k], m) => file'.status[m] # "in_flight"
  BY <1>1, <1>3 DEF HookCommits, HookOwed, HookKeeps
<1>6. \A m \in Msg :
        /\ heard'[m] + One(HookOwed(x, m)) + Waits(file', m)
             <= heard[m] + One(HookOwed(hook[k], m)) + Waits(file, m)
        /\ file'.status[m] = "in_flight" =>
             file.status[m] = "in_flight" /\ ~HookKeeps(hook[k], m)
  BY <1>1, <1>5, InvFacts, WaitsType DEF HookCommits, history, Calm, One
<1> QED BY <1>1, <1>2, <1>3, <1>4, <1>6, HookType, HookKeepsInv DEF HookCommits, history

LEMMA AnswersKeep ==
  ASSUME NativeInv, NEW k \in Hook, HookAnswers(k)
  PROVE  NativeInv'
<1>1. Sound(file') /\ BoundOK' /\ file' = file
  BY InvFacts, BoundKept DEF HookAnswers, SameRooms
<1>2. /\ heard' \in [Msg -> Nat]
      /\ \A m \in Msg : /\ m \in hook[k].parts => heard'[m] = heard[m] + 1
                        /\ m \notin hook[k].parts => heard'[m] = heard[m]
  BY InvFacts, CountFacts DEF HookAnswers, CountsOK
<1>3. CountsOK'
  BY <1>2, InvFacts DEF HookAnswers, CountsOK
<1>4. HookTurns(k, IdleHook) /\ IdleHook \in HookRecord
      /\ IsBatch(IdleHook.member, IdleHook.ids)
  BY IdleRecords DEF HookAnswers, HookEnds, HookTurns, IdleFits
<1>5. \A m \in Msg : /\ m \in hook[k].parts => HookOwed(hook[k], m)
                     /\ ~HookKeeps(hook[k], m)
  BY DEF HookAnswers, HookOwed, HookKeeps
<1>6. \A m \in Msg :
        /\ heard'[m] + One(HookOwed(IdleHook, m)) + Waits(file', m)
             <= heard[m] + One(HookOwed(hook[k], m)) + Waits(file, m)
        /\ file'.status[m] = "in_flight" =>
             file.status[m] = "in_flight" /\ ~HookKeeps(hook[k], m)
  BY <1>1, <1>2, <1>5, InvFacts, IdleOwesNothing, WaitsType DEF One
<1> QED BY <1>1, <1>3, <1>4, <1>6, HookKeepsInv DEF HookAnswers

LEMMA HookFailsKeeps ==
  ASSUME NativeInv, NEW k \in Hook, HookFails(k)
  PROVE  NativeInv'
<1>1. Sound(file') /\ SameRooms(file, file') /\ Calm(file, file')
  BY InvFacts, SameStatusCalm DEF HookFails, SameRooms
<1>2. InFlight(Elems(hook[k].ids)) \subseteq Msg
  BY HookType DEF InFlight
<1>3. CountsOK' /\ lost \subseteq lost'
  BY <1>2, InvFacts, FaultKept DEF HookFails, CountsOK
<1>4. \A m \in Msg : HookKeeps(hook[k], m) /\ file'.status[m] = "in_flight"
                       => m \in lost'
  BY DEF HookFails, HookKeeps, InFlight
<1> QED BY <1>1, <1>3, <1>4, EndKeeps DEF HookFails

-----------------------------------------------------------------------------
(***************************************************************************)
(* The steps of a spawned delivery.                                        *)
(***************************************************************************)
LEMMA RunType ==
  ASSUME NativeInv, NEW k \in Run
  PROVE  /\ RunFits(run[k]) /\ run[k] \in RunRecord
         /\ IsBatch(run[k].member, run[k].ids)
         /\ run[k].phase \in Busy => run[k].member \in Session
         /\ Elems(run[k].ids) \subseteq Msg
BY DEF NativeInv, RunsOK, RunFits, IsBatch, Elems

\* Between two recipients nothing is owed.
Between(x) ==
  /\ RunFits(x) /\ x.member = NoMember
  /\ \A m : ~RunOwed(x, m) /\ ~RunKeeps(x, m)

LEMMA NextBetween ==
  ASSUME NEW todo \in SUBSET Session
  PROVE  Between([IdleRun EXCEPT !.phase = IF todo = {} THEN "none" ELSE "next",
                                 !.todo = todo])
<1> DEFINE x == [IdleRun EXCEPT !.phase = IF todo = {} THEN "none" ELSE "next",
                                !.todo = todo]
<1>1. /\ x \in RunRecord /\ x.member = NoMember /\ x.ids = IdleRun.ids
      /\ x.phase \in {"none", "next"} /\ IdleRun.member = NoMember
  BY IdleRecords DEF IdleFits, RunFits, IdleRun, RunRecord
<1>2. RunFits(IdleRun)
  BY IdleRecords DEF IdleFits
<1> HIDE DEF x
<1>3. RunFits(x)
  BY <1>1, <1>2 DEF RunFits, Busy
<1>4. \A m : ~RunOwed(x, m) /\ ~RunKeeps(x, m)
  BY <1>1 DEF RunOwed, RunKeeps
<1>5. Between(x)
  BY <1>1, <1>3, <1>4 DEF Between
<1> QED BY <1>5 DEF x

LEMMA ContinueBetween ==
  ASSUME NativeInv, NEW k \in Run, Continue(k)
  PROVE  Between(NextRecipient(k)) /\ RunTurns(k, NextRecipient(k))
<1>1. run[k].todo \in SUBSET Session
  BY RunType DEF RunRecord
<1> QED BY <1>1, NextBetween DEF Continue, NextRecipient, RunTurns

\* A delivery goes on to its next recipient without hearing.
LEMMA ContinueKeeps ==
  ASSUME NativeInv, NEW k \in Run, NEW x, Between(x), RunTurns(k, x), hook' = hook,
         Sound(file'), SameRooms(file, file'), CountsOK', lost \subseteq lost',
         UNCHANGED <<bound, heard>>,
         \A m \in Msg : Waits(file', m) + back[m] <= Waits(file, m) + back'[m],
         \A m \in Msg : file'.status[m] = "in_flight" =>
           \/ m \in lost'
           \/ file.status[m] = "in_flight" /\ ~RunKeeps(run[k], m)
  PROVE  NativeInv'
<1>1. BoundOK'
  BY InvFacts, BoundKept
<1>2. RunFits(x) /\ x.member = NoMember /\ \A m : ~RunOwed(x, m)
  BY DEF Between
<1>3. \A m \in Msg :
        heard'[m] + One(RunOwed(x, m)) + Waits(file', m) + back[m]
          <= heard[m] + One(RunOwed(run[k], m)) + Waits(file, m) + back'[m]
  <2> SUFFICES ASSUME NEW m \in Msg
               PROVE  heard'[m] + One(RunOwed(x, m)) + Waits(file', m) + back[m]
                        <= heard[m] + One(RunOwed(run[k], m)) + Waits(file, m)
                             + back'[m]
    OBVIOUS
  <2>1. heard[m] \in Nat /\ back[m] \in Nat /\ back'[m] \in Nat
    BY InvFacts DEF CountsOK
  <2> QED BY <1>2, <2>1, WaitsType DEF One
<1> QED BY <1>1, <1>2, <1>3, RunKeepsInv

\* A delivery that has no mail goes on, or looks at its member.
LEMMA IdleTurnKeeps ==
  ASSUME NativeInv, NEW k \in Run, NEW x, RunFits(x), RunTurns(k, x),
         \/ x.member \in {NoMember, run[k].member}
         \/ \A j \in Run : run[j].member # x.member,
         \A m \in Msg : ~RunOwed(x, m) /\ ~RunKeeps(run[k], m),
         UNCHANGED <<file, bound, hook, history, faults, churn>>
  PROVE  NativeInv'
<1>1. Sound(file') /\ BoundOK' /\ CountsOK'
  BY InvFacts, BoundKept DEF SameRooms, history, CountsOK
<1>2. \A m \in Msg :
        /\ heard'[m] + One(RunOwed(x, m)) + Waits(file', m) + back[m]
             <= heard[m] + One(RunOwed(run[k], m)) + Waits(file, m) + back'[m]
        /\ file'.status[m] = "in_flight" =>
             file.status[m] = "in_flight" /\ ~RunKeeps(run[k], m)
  BY InvFacts, WaitsType DEF history, One
<1> QED BY <1>1, <1>2, RunKeepsInv DEF history

LEMMA LookUpKeeps ==
  ASSUME NativeInv, NEW k \in Run, NEW r \in Session, LookUp(k, r)
  PROVE  NativeInv'
<1> DEFINE rest == run[k].todo \ {r}
           skip == [IdleRun EXCEPT !.phase = IF rest = {} THEN "none" ELSE "next",
                                   !.todo = rest]
<1>1. run[k].phase = "next" /\ rest \in SUBSET Session
      /\ UNCHANGED <<file, bound, hook, history, faults, churn>>
  BY RunType DEF LookUp, RunRecord
<1>2. \A m \in Msg : ~RunKeeps(run[k], m)
  BY <1>1 DEF RunKeeps
<1>3. CASE run' = [run EXCEPT ![k] = skip]
  <2>1. Between(skip) /\ RunTurns(k, skip)
    BY <1>1, <1>3, NextBetween DEF RunTurns
  <2> HIDE DEF skip
  <2> QED BY <1>1, <1>2, <2>1, IdleTurnKeeps DEF Between
<1>4. CASE run' # [run EXCEPT ![k] = skip]
  <2>1. PICK row \in Rows :
          /\ row[2] = r /\ ~Refusal(row)
          /\ run' = [run EXCEPT ![k] =
               [phase |-> "checking", todo |-> rest, member |-> r,
                native |-> bound[row[1]][r], ids |-> <<>>]]
    BY <1>4 DEF LookUp
  <2> DEFINE x == [phase |-> "checking", todo |-> rest, member |-> r,
                   native |-> bound[row[1]][r], ids |-> <<>>]
  <2>2. bound[row[1]][r] \in Native \cup {NoNative}
    BY InvFacts DEF BoundOK, Rows
  <2>3. x \in RunRecord /\ x.member = r /\ x.ids = <<>> /\ x.phase = "checking"
    BY <1>1, <2>2, EmptyFacts DEF RunRecord
  <2>4. RunTurns(k, x)
    BY <2>1 DEF RunTurns
  <2> HIDE DEF x
  <2>5. RunFits(x)
    BY <2>3, EmptyFacts, NativeAssumption DEF RunFits, IsBatch
  <2>6. \A j \in Run : run[j].member # x.member
    BY <2>1, <2>3 DEF Refusal, Reserved
  <2>7. \A m \in Msg : ~RunOwed(x, m)
    BY <2>3 DEF RunOwed
  <2> QED BY <1>1, <1>2, <2>4, <2>5, <2>6, <2>7, IdleTurnKeeps
<1> QED BY <1>3, <1>4

\* The same delivery in another phase.
LEMMA PhaseFacts ==
  ASSUME NativeInv, NEW k \in Run, run[k].phase \in Busy, NEW p \in Busy
  PROVE  LET x == [run[k] EXCEPT !.phase = p]
         IN  /\ RunFits(x) /\ x.member = run[k].member /\ x.ids = run[k].ids
             /\ x.phase = p
             /\ run' = [run EXCEPT ![k].phase = p] => RunTurns(k, x)
<1> DEFINE x == [run[k] EXCEPT !.phase = p]
<1>1. /\ x \in RunRecord /\ x.member = run[k].member /\ x.ids = run[k].ids
      /\ x.phase = p
  BY RunType DEF RunRecord, Busy
<1>2. run' = [run EXCEPT ![k].phase = p] => RunTurns(k, x)
  BY DEF RunTurns
<1> HIDE DEF x
<1>3. RunFits(x)
  BY <1>1, RunType DEF RunFits
<1> QED BY <1>1, <1>2, <1>3 DEF x

LEMMA CheckKeeps ==
  ASSUME NativeInv, NEW k \in Run, CheckSize(k)
  PROVE  NativeInv'
<1>1. run[k].phase = "checking" /\ run[k].phase \in Busy
      /\ UNCHANGED <<file, bound, hook, history, faults, churn>>
  BY DEF CheckSize, Busy
<1>2. \A m \in Msg : ~RunKeeps(run[k], m)
  BY <1>1 DEF RunKeeps
<1>3. CASE Continue(k)
  BY <1>1, <1>2, <1>3, ContinueBetween, IdleTurnKeeps DEF Between
<1>4. CASE run' = [run EXCEPT ![k].phase = "draining"]
  <2> DEFINE x == [run[k] EXCEPT !.phase = "draining"]
  <2>1. /\ RunFits(x) /\ x.member = run[k].member /\ x.phase = "draining"
        /\ RunTurns(k, x)
    BY <1>1, <1>4, PhaseFacts DEF Busy
  <2> HIDE DEF x
  <2>2. \A m \in Msg : ~RunOwed(x, m)
    BY <2>1 DEF RunOwed
  <2> QED BY <1>1, <1>2, <2>1, <2>2, IdleTurnKeeps
<1> QED BY <1>3, <1>4 DEF CheckSize

\* A batch is of different envelopes that are pending, so it has no more of
\* them than were counted.
LEMMA BatchSize ==
  ASSUME NEW s, Sound(s), NEW r \in Session
  PROVE  LET P == {m \in Elems(s.queues[r]) : s.status[m] = "pending"}
         IN  /\ Len(Batch(s, r)) <= Cardinality(P)
             /\ Len(Batch(s, r)) \in Nat /\ Cardinality(P) \in Nat
<1> DEFINE q == s.queues[r]
           P == {m \in Elems(q) : s.status[m] = "pending"}
           b == Batch(s, r)
<1>1. q \in Seq(Msg)
  BY QueueType DEF Sound
<1>2. IsFiniteSet(P)
  <2>1. IsFiniteSet(1..Len(q)) /\ DOMAIN q = 1..Len(q)
    <3> HIDE DEF q
    <3>1. Len(q) \in Nat /\ DOMAIN q = 1..Len(q)
      BY <1>1
    <3>2. IsFiniteSet(1..Len(q))
      BY <3>1, FS_Interval
    <3> QED BY <3>1, <3>2
  <2>2. [i \in 1..Len(q) |-> q[i]] \in Surjection(1..Len(q), Elems(q))
    <3> HIDE DEF q
    <3>1. Elems(q) = {q[i] : i \in 1..Len(q)}
      BY <2>1 DEF Elems
    <3> QED BY <3>1 DEF Surjection
  <2>3. IsFiniteSet(Elems(q))
    BY <2>1, <2>2, FS_Surjection
  <2> QED BY <2>3, FS_Subset
<1>3. b \in Seq(Msg) /\ Distinct(b)
  BY BatchFacts DEF IsBatch
<1>4. \A m \in Elems(b) : m \in P
  <2>1. Elems(b) = {q[i] : i \in Taken(s, r)} /\ Taken(s, r) \subseteq DOMAIN q
    BY <1>1, DrainSorts, PickFacts DEF Batch
  <2>2. \A m \in Elems(b) : m \in Elems(q)
    BY <2>1 DEF Elems
  <2> QED BY <2>2, BatchQueued
<1> HIDE DEF P, b, q
<1>5. DOMAIN b = 1..Len(b) /\ Len(b) \in Nat
  BY <1>3
<1>6. [i \in 1..Len(b) |-> b[i]] \in Injection(1..Len(b), P)
  BY <1>3, <1>4, <1>5 DEF Elems, Distinct, Injection, IsInjective
<1>7. Cardinality(1..Len(b)) = Len(b)
  <2>1. Cardinality(1..Len(b)) = IF 1 > Len(b) THEN 0 ELSE Len(b) - 1 + 1
    BY <1>5, FS_Interval
  <2> QED BY <1>5, <2>1
<1>8. Len(b) <= Cardinality(P) /\ Cardinality(P) \in Nat
  BY <1>2, <1>6, <1>7, FS_Injection, FS_CardinalityType
<1> QED BY <1>5, <1>8 DEF P, b, q

LEMMA DrainKeeps ==
  ASSUME NativeInv, NEW k \in Run, DrainForSpawn(k)
  PROVE  NativeInv'
<1> DEFINE r == run[k].member
           ids == Batch(file, r)
<1>1. /\ run[k].phase = "draining" /\ run[k].phase \in Busy /\ r \in Session
      /\ UNCHANGED <<bound, hook, history, faults, churn>>
  BY RunType DEF DrainForSpawn, Busy
<1>2. \A m \in Msg : ~RunKeeps(run[k], m) /\ ~RunOwed(run[k], m)
  BY <1>1 DEF RunKeeps, RunOwed
<1>3. CASE ~StillFits(r)
  BY <1>1, <1>2, <1>3, ContinueBetween, IdleTurnKeeps DEF DrainForSpawn, Between
<1>4. CASE StillFits(r)
  <2>1. /\ file' = Drain(file, r)
        /\ IF ids = <<>> THEN Continue(k)
           ELSE run' = [run EXCEPT ![k].phase = "spawning", ![k].ids = ids]
    BY <1>4 DEF DrainForSpawn
  <2>2. Sound(file') /\ IsBatch(r, ids)
    BY <1>1, <2>1, InvFacts, DrainSound, BatchFacts
  <2>3. /\ SameRooms(file, file')
        /\ \A m \in Msg \ Elems(ids) :
             /\ Waits(file', m) <= Waits(file, m)
             /\ file'.status[m] = "in_flight" => file.status[m] = "in_flight"
        /\ \A m \in Elems(ids) : Waits(file, m) = 1 /\ Waits(file', m) = 0
    BY <1>1, <2>1, InvFacts, DrainHands
  <2>4. Len(ids) <= ArgvRoom
    <3>1. LET P == {m \in Elems(file.queues[r]) : file.status[m] = "pending"}
          IN  /\ Len(ids) <= Cardinality(P)
              /\ Len(ids) \in Nat /\ Cardinality(P) \in Nat
      BY <1>1, InvFacts, BatchSize
    <3> QED BY <1>4, <3>1, NativeAssumption DEF StillFits, Fits
  <2>5. BoundOK' /\ CountsOK'
    BY <1>1, <2>3, InvFacts, BoundKept DEF history, CountsOK
  <2> HIDE DEF ids
  <2>6. CASE ids = <<>>
    <3>1. \A m \in Msg :
            /\ Waits(file', m) + back[m] <= Waits(file, m) + back'[m]
            /\ file'.status[m] = "in_flight" =>
                 file.status[m] = "in_flight" /\ ~RunKeeps(run[k], m)
      BY <1>1, <1>2, <2>3, <2>6, EmptyFacts, InvFacts, WaitsType DEF history
    <3>2. Between(NextRecipient(k)) /\ RunTurns(k, NextRecipient(k))
      BY <2>1, <2>6, ContinueBetween
    <3> QED BY <1>1, <2>2, <2>3, <2>5, <3>1, <3>2, ContinueKeeps DEF history
  <2>7. CASE ids # <<>>
    <3> DEFINE x == [run[k] EXCEPT !.phase = "spawning", !.ids = ids]
    <3>0. ids \in Seq(Msg)
      BY <2>2 DEF IsBatch
    <3>1. /\ x \in RunRecord /\ x.member = r /\ x.ids = ids
          /\ x.phase = "spawning"
      BY <3>0, RunType DEF RunRecord
    <3>2. RunTurns(k, x)
      BY <2>1, <2>7, InvFacts DEF RunTurns, RunsOK, RunRecord
    <3> HIDE DEF x
    <3>3. RunFits(x)
      BY <1>1, <2>2, <2>4, <3>1 DEF RunFits
    <3>4. \A m \in Msg : /\ RunOwed(x, m) <=> m \in Elems(ids)
                         /\ m \in Elems(ids) => RunKeeps(x, m)
      BY <3>1 DEF RunOwed, RunKeeps
    <3>5. ASSUME NEW m \in Msg
          PROVE  /\ heard'[m] + One(RunOwed(x, m)) + Waits(file', m) + back[m]
                      <= heard[m] + One(RunOwed(run[k], m)) + Waits(file, m) + back'[m]
                 /\ file'.status[m] = "in_flight" =>
                      \/ RunKeeps(x, m)
                      \/ file.status[m] = "in_flight" /\ ~RunKeeps(run[k], m)
      <4>1. /\ heard[m] \in Nat /\ back[m] \in Nat
            /\ heard'[m] = heard[m] /\ back'[m] = back[m]
        BY <1>1, InvFacts DEF history
      <4>2. CASE m \in Elems(ids)
        BY <1>2, <2>3, <3>4, <4>1, <4>2 DEF One
      <4>3. CASE m \notin Elems(ids)
        BY <1>2, <2>3, <3>4, <4>1, <4>3, WaitsType DEF One
      <4> QED BY <4>2, <4>3
    <3>6. x.member \in {NoMember, run[k].member}
      BY <3>1
    <3> QED BY <1>1, <2>2, <2>5, <3>2, <3>3, <3>5, <3>6, RunKeepsInv DEF history
  <2> QED BY <2>6, <2>7
<1> QED BY <1>3, <1>4

LEMMA SpawnKeeps ==
  ASSUME NativeInv, NEW k \in Run, NEW p \in {"committing", "failed"},
         run[k].phase = "spawning", Phase(k, p),
         heard' \in {heard, Count(heard, Elems(run[k].ids))},
         faults' \in 0..MaxFaults,
         UNCHANGED <<file, bound, hook, ended, late, back, lost, churn, plan>>
  PROVE  NativeInv'
<1> DEFINE x == [run[k] EXCEPT !.phase = p]
<1>1. heard' \in [Msg -> Nat]
  BY InvFacts, CountFacts DEF CountsOK
<1>2. \A m \in Msg : /\ m \in Elems(run[k].ids) => heard'[m] <= heard[m] + 1
                     /\ m \notin Elems(run[k].ids) => heard'[m] = heard[m]
  BY InvFacts, CountFacts DEF CountsOK
<1>3. Sound(file') /\ BoundOK' /\ CountsOK'
  BY <1>1, InvFacts, BoundKept DEF SameRooms, CountsOK
<1>4. /\ RunFits(x) /\ x.member = run[k].member /\ x.ids = run[k].ids
      /\ x.phase = p /\ RunTurns(k, x)
  <2>1. run[k].phase \in Busy /\ p \in Busy
    BY DEF Busy
  <2>2. run' = [run EXCEPT ![k].phase = p]
    BY DEF Phase
  <2> QED BY <2>1, <2>2, PhaseFacts
<1> HIDE DEF x
<1>5. \A m \in Msg : /\ RunOwed(run[k], m) <=> m \in Elems(run[k].ids)
                     /\ ~RunOwed(x, m)
                     /\ RunKeeps(run[k], m) => RunKeeps(x, m)
  BY <1>4 DEF RunOwed, RunKeeps
<1>6. ASSUME NEW m \in Msg
      PROVE  /\ heard'[m] + One(RunOwed(x, m)) + Waits(file', m) + back[m]
                  <= heard[m] + One(RunOwed(run[k], m)) + Waits(file, m) + back'[m]
             /\ file'.status[m] = "in_flight" =>
                  \/ RunKeeps(x, m)
                  \/ file.status[m] = "in_flight" /\ ~RunKeeps(run[k], m)
  <2>1. /\ heard[m] \in Nat /\ heard'[m] \in Nat /\ back[m] \in Nat
        /\ back'[m] = back[m] /\ file' = file
    BY <1>1, InvFacts
  <2>2. CASE m \in Elems(run[k].ids)
    BY <1>2, <1>5, <2>1, <2>2, WaitsType DEF One
  <2>3. CASE m \notin Elems(run[k].ids)
    BY <1>2, <1>5, <2>1, <2>3, WaitsType DEF One
  <2> QED BY <2>2, <2>3
<1>7. x.member \in {NoMember, run[k].member}
  BY <1>4
<1> QED BY <1>3, <1>4, <1>6, <1>7, RunKeepsInv

LEMMA TurnKeeps ==
  ASSUME NativeInv, NEW k \in Run, SpawnRuns(k) \/ SpawnFails(k)
  PROVE  NativeInv'
<1>1. CASE SpawnRuns(k)
  <2>1. faults' \in 0..MaxFaults
    BY <1>1, InvFacts DEF SpawnRuns, CountsOK
  <2> QED BY <1>1, <2>1, SpawnKeeps DEF SpawnRuns
<1>2. CASE SpawnFails(k)
  <2>1. faults' \in 0..MaxFaults
    BY <1>2, InvFacts, FaultKept DEF SpawnFails
  <2> QED BY <1>2, <2>1, SpawnKeeps DEF SpawnFails
<1> QED BY <1>1, <1>2

LEMMA SpawnCommitsKeeps ==
  ASSUME NativeInv, NEW k \in Run, SpawnCommits(k)
  PROVE  NativeInv'
<1>1. /\ Sound(file') /\ SameRooms(file, file') /\ Calm(file, file')
      /\ \A m \in Elems(run[k].ids) : file'.status[m] # "in_flight"
  BY InvFacts, RunType, CommitSound, CommitCalm DEF SpawnCommits, Committed
<1>2. CountsOK'
  BY InvFacts DEF SpawnCommits, history, CountsOK
<1>3. Between(NextRecipient(k)) /\ RunTurns(k, NextRecipient(k))
  BY ContinueBetween DEF SpawnCommits
<1>4. \A m \in Msg :
        /\ Waits(file', m) + back[m] <= Waits(file, m) + back'[m]
        /\ file'.status[m] = "in_flight" =>
             file.status[m] = "in_flight" /\ ~RunKeeps(run[k], m)
  BY <1>1, InvFacts, WaitsType DEF SpawnCommits, history, Calm, RunKeeps
<1> QED BY <1>1, <1>2, <1>3, <1>4, ContinueKeeps DEF SpawnCommits, history

LEMMA CommitFailsKeeps ==
  ASSUME NativeInv, NEW k \in Run, CommitFails(k)
  PROVE  NativeInv'
<1> DEFINE x == [run[k] EXCEPT !.phase = "failed"]
<1>1. Sound(file') /\ BoundOK' /\ CountsOK' /\ lost \subseteq lost'
  BY InvFacts, BoundKept, FaultKept DEF CommitFails, history, SameRooms, CountsOK
<1>2. /\ RunFits(x) /\ x.member = run[k].member /\ x.ids = run[k].ids
      /\ x.phase = "failed" /\ RunTurns(k, x)
  BY PhaseFacts DEF CommitFails, Busy, Phase
<1> HIDE DEF x
<1>3. \A m \in Msg : /\ ~RunOwed(x, m)
                     /\ RunKeeps(run[k], m) => RunKeeps(x, m)
  BY <1>2 DEF RunOwed, RunKeeps
<1>4. \A m \in Msg :
        /\ heard'[m] + One(RunOwed(x, m)) + Waits(file', m) + back[m]
             <= heard[m] + One(RunOwed(run[k], m)) + Waits(file, m) + back'[m]
        /\ file'.status[m] = "in_flight" =>
             \/ RunKeeps(x, m)
             \/ file.status[m] = "in_flight" /\ ~RunKeeps(run[k], m)
  BY <1>3, InvFacts, WaitsType DEF CommitFails, history, One
<1>5. x.member \in {NoMember, run[k].member}
  BY <1>2
<1> QED BY <1>1, <1>2, <1>4, <1>5, RunKeepsInv DEF CommitFails, history

LEMMA RequeuesKeep ==
  ASSUME NativeInv, NEW k \in Run, RequeueBatch(k)
  PROVE  NativeInv'
<1> DEFINE D == Retryable(file, run[k].ids)
<1>1. run[k].member \in Session /\ IsBatch(run[k].member, run[k].ids)
  BY RunType DEF RequeueBatch, Busy
<1>2. /\ Sound(file') /\ SameRooms(file, file') /\ PutsBack(file, file', D)
  BY <1>1, InvFacts, RequeueSound, RequeuePutsBack DEF RequeueBatch
<1>3. \A m \in Msg : RunKeeps(run[k], m) /\ file.status[m] = "in_flight" => m \in D
  BY DEF RunKeeps, Retryable
<1> HIDE DEF D
<1>4. /\ back' \in [Msg -> Nat]
      /\ \A m \in Msg : /\ m \in D => back'[m] = back[m] + 1
                        /\ m \notin D => back'[m] = back[m]
  BY InvFacts, CountFacts DEF RequeueBatch, CountsOK, D
<1>5. CountsOK'
  BY <1>4, InvFacts DEF RequeueBatch, CountsOK
<1>6. Between(NextRecipient(k)) /\ RunTurns(k, NextRecipient(k))
  BY ContinueBetween DEF RequeueBatch
<1>7. ASSUME NEW m \in Msg
      PROVE  /\ Waits(file', m) + back[m] <= Waits(file, m) + back'[m]
             /\ file'.status[m] = "in_flight" =>
                  file.status[m] = "in_flight" /\ ~RunKeeps(run[k], m)
  <2>1. back[m] \in Nat
    BY InvFacts
  <2>2. CASE m \in D
    BY <1>2, <1>4, <2>1, <2>2, WaitsType DEF PutsBack
  <2>3. CASE m \notin D
    <3>1. file'.status[m] = file.status[m] /\ Waits(file', m) = Waits(file, m)
      BY <1>2, <2>3 DEF PutsBack, Waits
    <3> QED BY <1>3, <1>4, <2>1, <2>3, <3>1, WaitsType
  <2> QED BY <2>2, <2>3
<1> QED BY <1>2, <1>5, <1>6, <1>7, ContinueKeeps DEF RequeueBatch

LEMMA RequeueFailsKeeps ==
  ASSUME NativeInv, NEW k \in Run, RequeueFails(k)
  PROVE  NativeInv'
<1>1. Sound(file') /\ SameRooms(file, file')
  BY InvFacts DEF RequeueFails, SameRooms
<1>2. InFlight(Elems(run[k].ids)) \subseteq Msg
  BY RunType DEF InFlight
<1>3. CountsOK' /\ lost \subseteq lost'
  BY <1>2, InvFacts, FaultKept DEF RequeueFails, CountsOK
<1>4. Between(NextRecipient(k)) /\ RunTurns(k, NextRecipient(k))
  BY ContinueBetween DEF RequeueFails
<1>5. \A m \in Msg :
        /\ Waits(file', m) + back[m] <= Waits(file, m) + back'[m]
        /\ file'.status[m] = "in_flight" =>
             \/ m \in lost'
             \/ file.status[m] = "in_flight" /\ ~RunKeeps(run[k], m)
  BY InvFacts, WaitsType DEF RequeueFails, RunKeeps, InFlight
<1> QED BY <1>1, <1>3, <1>4, <1>5, ContinueKeeps DEF RequeueFails

\* The server goes with all it has in hand.
LEMMA ExitKeeps ==
  ASSUME NativeInv, ServerExits
  PROVE  NativeInv'
<1> DEFINE mail(K) == UNION {Elems(run[k].ids) : k \in K}
<1>1. PICK K \in SUBSET {k \in Run : run[k].phase = "spawning"} :
        heard' = Count(heard, mail(K))
  BY DEF ServerExits
<1>2. /\ lost' = lost \cup InFlight(mail(Run))
      /\ run' = [k \in Run |-> IdleRun]
      /\ UNCHANGED <<file, bound, hook, ended, late, back, churn, plan>>
      /\ Fault("exit")
  BY DEF ServerExits
<1>3. \A k \in Run, m \in Msg : m \in Elems(run[k].ids) => m \in mail(Run)
  OBVIOUS
<1>4. \A m \in Msg : m \in mail(K) => \E k \in Run : RunOwed(run[k], m)
  BY DEF RunOwed
<1>5. mail(Run) \subseteq Msg
  BY RunType
<1> HIDE DEF mail
<1>6. /\ heard' \in [Msg -> Nat]
      /\ \A m \in Msg : /\ m \in mail(K) => heard'[m] = heard[m] + 1
                        /\ m \notin mail(K) => heard'[m] = heard[m]
  BY <1>1, InvFacts, CountFacts DEF CountsOK
<1>7. CountsOK' /\ lost \subseteq lost'
  BY <1>2, <1>5, <1>6, InvFacts, FaultKept DEF CountsOK, InFlight
<1>8. Sound(file') /\ HooksOK' /\ BoundOK'
  BY <1>2, InvFacts, BoundKept DEF HooksOK, SameRooms
<1>9. RunsOK'
  BY <1>2, IdleRecords DEF RunsOK, IdleFits, RunFits
<1>10. HandedOnce'
  <2> SUFFICES ASSUME NEW m \in Msg PROVE heard'[m] + Owed(m)' <= 1 + back'[m]
    BY DEF HandedOnce
  <2>1. /\ heard[m] \in Nat /\ back[m] \in Nat /\ back'[m] = back[m]
        /\ heard[m] + Owed(m) <= 1 + back[m]
    BY <1>2, InvFacts DEF NativeInv, HandedOnce
  <2>2. RunOwes(m)' = {}
    BY <1>2 DEF RunOwes, RunOwed, IdleRun
  <2>3. Owed(m)' = Cardinality(HookOwes(m)) + Waits(file, m)
    <3>1. Cardinality(RunOwes(m)') = 0
      BY <2>2, FS_EmptySet
    <3>2. HookOwes(m)' = HookOwes(m) /\ file' = file
      BY <1>2, SameOwes
    <3> QED BY <3>1, <3>2, OwedType, WaitsType DEF Owed
  <2>4. m \in mail(K) => Cardinality(RunOwes(m)) >= 1
    <3>1. m \in mail(K) => RunOwes(m) # {}
      BY <1>4 DEF RunOwes
    <3>2. IsFiniteSet(RunOwes(m))
      BY OwedFacts DEF RunOwes
    <3> QED BY <3>1, <3>2, FS_EmptySet, OwedType
  <2>5. heard'[m] <= heard[m] + Cardinality(RunOwes(m)) /\ heard'[m] \in Nat
    BY <1>6, <2>1, <2>4, OwedType
  <2> QED BY <2>1, <2>3, <2>5, OwedType, WaitsType DEF Owed
<1>11. FlightHeld'
  <2> SUFFICES ASSUME NEW m \in Msg, file.status[m] = "in_flight"
               PROVE  m \in lost' \/ HeldBySome(m)'
    BY <1>2 DEF FlightHeld, InFlight
  <2>1. m \in lost \/ HeldBySome(m)
    BY DEF NativeInv, FlightHeld, InFlight
  <2>2. ASSUME NEW k \in Run, RunKeeps(run[k], m) PROVE m \in lost'
    BY <1>2, <1>3, <2>2 DEF RunKeeps, InFlight
  <2> QED BY <1>2, <2>1, <2>2 DEF HeldBySome
<1> QED BY <1>7, <1>8, <1>9, <1>10, <1>11 DEF NativeInv

-----------------------------------------------------------------------------
(***************************************************************************)
(* The theorems.                                                           *)
(***************************************************************************)
LEMMA NativeInitHolds == Init => NativeInv
<1> SUFFICES ASSUME Init PROVE NativeInv
  OBVIOUS
<1>1. file \in State
  <2>1. Rooms[plan] \in [Channel -> Seq(Session)]
    BY NativeAssumption DEF Init
  <2>2. [r \in Session |-> <<>>] \in [Session -> Seq(Msg)]
    BY EmptyFacts
  <2> QED BY <2>1, <2>2 DEF Init, State, Status
<1>2. Queued(file)
  BY EmptyFacts, MsgFacts DEF Init, Queued
<1>3. Fresh(file)
  <2>1. \A m \in Msg : m[1] \in Nat /\ m[1] > 0
    BY MsgFacts, MailboxAssumption DEF Send
  <2> QED BY <2>1 DEF Init, Fresh
<1>4. HooksOK /\ RunsOK
  BY IdleRecords DEF Init, HooksOK, RunsOK, IdleFits, RunFits
<1>5. BoundOK
  <2>1. \A c \in Channel : Active(file, c) /\ Members(file, c) = Elems(Rooms[plan][c])
    BY DEF Init, Active, Members
  <2>2. \A r \in Session : Home[r] \in Native \cup {NoNative}
    BY NativeAssumption
  <2>3. \A c \in Channel, r \in Session :
          /\ bound[c][r] \in Native \cup {NoNative}
          /\ bound[c][r] # NoNative => r \in Elems(Rooms[plan][c]) /\ bound[c][r] = Home[r]
    BY <2>2 DEF Init
  <2>4. bound \in [Channel -> [Session -> Native \cup {NoNative}]]
    BY <2>2 DEF Init
  <2>5. \A c, d \in Channel, r, s \in Session :
          bound[c][r] = bound[d][s] /\ bound[c][r] # NoNative => r = s
    BY <2>3, NativeAssumption
  <2> QED BY <2>1, <2>3, <2>4, <2>5 DEF BoundOK
<1>6. CountsOK
  BY NativeAssumption DEF Init, CountsOK
<1>7. HandedOnce
  <2> SUFFICES ASSUME NEW m \in Msg PROVE heard[m] + Owed(m) <= 1 + back[m]
    BY DEF HandedOnce
  <2>1. HookOwes(m) = {} /\ RunOwes(m) = {}
    BY DEF Init, HookOwes, RunOwes, HookOwed, RunOwed, IdleHook, IdleRun
  <2>2. Cardinality(HookOwes(m)) = 0 /\ Cardinality(RunOwes(m)) = 0
    BY <2>1, FS_EmptySet
  <2>3. heard[m] = 0 /\ back[m] = 0
    BY DEF Init
  <2> QED BY <2>2, <2>3, WaitsType DEF Owed
<1>8. FlightHeld
  BY DEF Init, FlightHeld, InFlight
<1> QED BY <1>1, <1>2, <1>3, <1>4, <1>5, <1>6, <1>7, <1>8 DEF NativeInv, Sound

LEMMA NativeNextKeeps == NativeInv /\ [Next]_vars => NativeInv'
<1> SUFFICES ASSUME NativeInv, [Next]_vars PROVE NativeInv'
  OBVIOUS
<1>1. ASSUME NEW r \in Session, NEW c \in Channel,
             \/ Join(r, c) \/ Leave(r, c) \/ CooldownEnds(c, r)
             \/ \E R \in SUBSET Session, k \in Run : SendMail(r, c, R, k)
      PROVE  NativeInv'
  BY <1>1, JoinKeeps, LeaveKeeps, CooldownKeeps, SendKeeps
<1>2. ASSUME NEW k \in Hook,
             \/ \E h \in Native, event \in Event : Fire(k, h, event)
             \/ HookEnters(k) \/ HookMarksStale(k) \/ HookReads(k)
             \/ HookCommits(k) \/ HookAnswers(k) \/ HookFails(k)
      PROVE  NativeInv'
  BY <1>2, FireKeeps, EntersKeeps, MarksKeep, ReadsKeep, CommitsKeep, AnswersKeep,
     HookFailsKeeps
<1>3. ASSUME NEW k \in Run,
             \/ \E r \in Session : LookUp(k, r)
             \/ CheckSize(k) \/ DrainForSpawn(k) \/ SpawnRuns(k) \/ SpawnFails(k)
             \/ SpawnCommits(k) \/ CommitFails(k) \/ RequeueBatch(k)
             \/ RequeueFails(k)
      PROVE  NativeInv'
  BY <1>3, LookUpKeeps, CheckKeeps, DrainKeeps, TurnKeeps, SpawnCommitsKeeps,
     CommitFailsKeeps, RequeuesKeep, RequeueFailsKeeps
<1>4. CASE UNCHANGED vars
  <2>1. UNCHANGED <<file, bound, hook, run, ended, late, heard, back, lost, plan, faults,
                    churn>>
    BY <1>4 DEF vars
  <2>2. Sound(file') /\ BoundOK' /\ CountsOK'
    BY <2>1, InvFacts, BoundKept DEF SameRooms, CountsOK
  <2>3. \A m \in Msg :
          /\ heard'[m] + Waits(file', m) + back[m]
               <= heard[m] + Waits(file, m) + back'[m]
          /\ file'.status[m] = "in_flight" => file.status[m] = "in_flight"
    BY <2>1, InvFacts, WaitsType
  <2> QED BY <2>1, <2>2, <2>3, FileKeeps
<1> QED BY <1>1, <1>2, <1>3, <1>4, SweepsKeep, ExitKeeps DEF Next

\* What the hooks, the spawn delivery and the engine rely on at every moment.
THEOREM NativeInvariant == Spec => []NativeInv
<1> QED BY NativeInitHolds, NativeNextKeeps, PTL DEF Spec

\* However hooks, spawned turns, sweeps, joins, departures, kills and failed
\* saves interleave, a model is given an envelope once, and once more for each
\* time it was put back; and mail in flight is in the hands of a hook or a turn
\* that will settle it, unless that one failed (drainForHook, deliverSpawn).
THEOREM NativeMailIsAccounted == Spec => []MailAccounted
<1> QED BY NativeInvariant, NativeMail, PTL

\* However many deliveries one server has under way, it resumes the session of
\* a member for one of them at a time, with a batch that fits on the command
\* line; and no native session is bound as two members
\* (activeSpawnDeliveries, spawnArgvBudget, bindPinnedMemberToHostSession).
THEOREM TurnsAreApart == Spec => []TurnsApart
<1> QED BY NativeInvariant, NativeTurns, PTL

-----------------------------------------------------------------------------
(***************************************************************************)
(* Bindings are not stolen, but by a row that was never bound or by a mark *)
(* that came too late.  The argument follows the marks: a mark on a bound  *)
(* row is earned, and no member has one on some of its bound rows only.    *)
(***************************************************************************)
\* A bound row that is marked is bound to a session that ended, or was marked
\* while it had not.
MarksEarned ==
  \A c \in Channel, r \in Session :
    r \in file.stale[c] /\ bound[c][r] # NoNative =>
      bound[c][r] \in ended \/ <<c, r>> \in late

\* A member that is marked is marked on every row on which it is bound.
MarkedTogether ==
  \A c, d \in Channel, r \in Session :
    r \in file.stale[c] /\ bound[d][r] # NoNative => r \in file.stale[d]

Marks == MarksEarned /\ MarkedTogether

\* No mark is set.
MarksNone(s, t) == \A c \in Channel : t.stale[c] \subseteq s.stale[c]

\* Rows that stay bound keep their binding and their mark.
KeepsBound ==
  \A c \in Channel, r \in Session : bound'[c][r] # NoNative =>
    bound'[c][r] = bound[c][r] /\ (r \in file.stale[c] => r \in file'.stale[c])

LEMMA DeliveryMarksSame ==
  ASSUME NEW s, Sound(s)
  PROVE  /\ \A r : Drain(s, r).stale = s.stale
         /\ \A r, ids : Committed(s, r, ids).stale = s.stale
         /\ \A r, ids : Requeue(s, r, ids).stale = s.stale
         /\ Sweep(s).stale = s.stale
         /\ \A c, R : Enqueue(s, c, R).stale = s.stale
         /\ \A c, r : EndCooldown(s, c, r).stale = s.stale
BY DEF Sound, State, Drain, DrainAs, Committed, Commit, Requeue, Sweep, Enqueue,
       EndCooldown

\* A step that sets no mark and binds nobody.
LEMMA UnmarkedKeeps ==
  ASSUME NativeInv, Marks, MarksNone(file, file'), KeepsBound,
         ended \subseteq ended', late \subseteq late'
  PROVE  Marks'
<1>1. MarksEarned'
  BY DEF Marks, MarksEarned, MarksNone, KeepsBound
<1>2. MarkedTogether'
  BY DEF Marks, MarkedTogether, MarksNone, KeepsBound
<1> QED BY <1>1, <1>2 DEF Marks

\* A step that leaves marks and bindings alone.
LEMMA SameMarksKeeps ==
  ASSUME NativeInv, Marks, file'.stale = file.stale, bound' = bound,
         ended \subseteq ended', late \subseteq late'
  PROVE  Marks'
<1>1. MarksNone(file, file') /\ KeepsBound
  BY DEF MarksNone, KeepsBound
<1> QED BY <1>1, UnmarkedKeeps

\* A member that joins has no mark in the new row; one that leaves gives up
\* the row, and a channel that is left empty all its marks.
LEMMA JoinMarks ==
  ASSUME NativeInv, Marks, NEW r \in Session, NEW c \in Channel, Join(r, c)
  PROVE  Marks'
<1>1. /\ file'.stale = [file.stale EXCEPT ![c] = file.stale[c] \ {r}]
      /\ file.stale \in [Channel -> SUBSET Session]
      /\ bound' = bound /\ ended' = ended /\ late' = late
      /\ r \notin Members(file, c)
  BY InvFacts DEF Join, JoinChannel, CanJoin, Sound, State, history
<1>2. bound[c][r] = NoNative
  BY <1>1, InvFacts DEF BoundOK
<1>3. MarksNone(file, file')
  BY <1>1 DEF MarksNone
<1>4. KeepsBound
  BY <1>1, <1>2 DEF KeepsBound
<1> QED BY <1>1, <1>3, <1>4, UnmarkedKeeps

LEMMA LeaveMarks ==
  ASSUME NativeInv, NativeInv', Marks, NEW r \in Session, NEW c \in Channel,
         Leave(r, c)
  PROVE  Marks'
<1> DEFINE u == RemoveMember(file, c, r)
<1>1. /\ u.stale = [file.stale EXCEPT ![c] = file.stale[c] \ {r}]
      /\ file.stale \in [Channel -> SUBSET Session]
  BY InvFacts DEF Sound, State, RemoveMember
<1>2. Sound(u) /\ file' = IF u.members[c] = <<>> THEN Close(u, c) ELSE u
  BY InvFacts, RemoveMemberSound DEF Leave, Disconnect
<1> HIDE DEF u
<1>3. /\ Close(u, c).stale = [u.stale EXCEPT ![c] = {}]
      /\ Close(u, c).life[c] = "gone"
  BY <1>2 DEF Sound, State, Close
<1>4. /\ bound' = [bound EXCEPT ![c][r] = NoNative]
      /\ ended' = ended /\ late' = late
      /\ bound \in [Channel -> [Session -> Native \cup {NoNative}]]
  BY InvFacts DEF Leave, history, BoundOK
<1>5. MarksNone(file, file')
  BY <1>1, <1>2, <1>3 DEF MarksNone
<1>6. KeepsBound
  <2> SUFFICES ASSUME NEW d \in Channel, NEW q \in Session, bound'[d][q] # NoNative
               PROVE  /\ bound'[d][q] = bound[d][q]
                      /\ q \in file.stale[d] => q \in file'.stale[d]
    BY DEF KeepsBound
  <2>1. bound'[d][q] = bound[d][q] /\ ~(d = c /\ q = r)
    BY <1>4
  <2>2. file'.life[d] = "active"
    BY InvFacts DEF NativeInv, BoundOK, Active
  <2>3. CASE file' = u
    BY <1>1, <2>1, <2>3
  <2>4. CASE file' = Close(u, c)
    <3>1. d # c
      BY <1>3, <2>2, <2>4
    <3> QED BY <1>1, <1>2, <1>3, <2>1, <2>4, <3>1 DEF Sound, State
  <2> QED BY <1>2, <2>1, <2>3, <2>4
<1> QED BY <1>4, <1>5, <1>6, UnmarkedKeeps

\* A hook that finds or binds its member clears the marks of that member, and
\* its session counts as running again: no other member is bound to it.
LEMMA DrainedMarks ==
  ASSUME NativeInv, Marks, NEW k \in Hook, NEW r \in Session, Drained(k, r),
         \A c \in Channel, q \in Session : q # r =>
           /\ bound'[c][q] = bound[c][q]
           /\ bound[c][q] # NoNative => bound[c][q] # hook[k].native
  PROVE  Marks'
<1> DEFINE t == ClearStale(file, r)
<1>1. Sound(t) /\ t.stale = [c \in Channel |-> file.stale[c] \ {r}]
  <2>1. Sound(file)
    BY InvFacts
  <2>2. Sound(t)
    BY <2>1, ClearStaleSound
  <2>3. t.stale = [c \in Channel |-> file.stale[c] \ {r}]
    BY <2>1 DEF Sound, State, ClearStale
  <2> QED BY <2>2, <2>3
<1> HIDE DEF t
<1>2. file'.stale = t.stale
  BY <1>1, DeliveryMarksSame DEF Drained, t
<1>3. \A c \in Channel, q \in Session :
        q \in file'.stale[c] <=> q # r /\ q \in file.stale[c]
  BY <1>1, <1>2
<1>4. /\ late' = {row \in late : row[2] # r} /\ ended' = ended \ {hook[k].native}
  BY DEF Drained
<1>5. MarksEarned'
  <2> SUFFICES ASSUME NEW c \in Channel, NEW q \in Session, q \in file'.stale[c],
                      bound'[c][q] # NoNative
               PROVE  bound'[c][q] \in ended' \/ <<c, q>> \in late'
    BY DEF MarksEarned
  <2>1. /\ q # r /\ q \in file.stale[c] /\ bound'[c][q] = bound[c][q]
        /\ bound[c][q] # hook[k].native
    BY <1>3
  <2>2. bound[c][q] \in ended \/ <<c, q>> \in late
    BY <2>1 DEF Marks, MarksEarned
  <2>3. <<c, q>>[2] = q
    OBVIOUS
  <2> QED BY <1>4, <2>1, <2>2, <2>3
<1>6. MarkedTogether'
  BY <1>3 DEF Marks, MarkedTogether
<1> QED BY <1>5, <1>6 DEF Marks

LEMMA EntersMarks ==
  ASSUME NativeInv, Marks, NEW k \in Hook, HookEnters(k)
  PROVE  Marks'
<1> DEFINE h == hook[k].native
<1>1. h \in Native \cup {NoNative}
  BY HookType DEF HookRecord
<1>2. CASE HookOfKnown(k)
  <2>1. PICK r \in Resolved(h) : Drained(k, r)
    BY <1>2 DEF HookOfKnown
  <2>2. PICK row \in Rows : row[2] = r /\ bound[row[1]][r] = h
    BY DEF Resolved, BoundRows
  <2>3. r \in Session /\ row[1] \in Channel
    BY <2>2 DEF Rows
  <2>4. \A c \in Channel, q \in Session :
          q # r /\ bound[c][q] # NoNative => bound[c][q] # h
    BY <2>2, <2>3, InvFacts DEF BoundOK
  <2> QED BY <1>2, <2>1, <2>3, <2>4, DrainedMarks DEF HookOfKnown
<1>3. CASE HookBinds(k)
  <2>1. PICK row \in Bindable(h) : /\ bound' = [bound EXCEPT ![row[1]][row[2]] = h]
                                  /\ Drained(k, row[2])
    BY <1>3 DEF HookBinds
  <2>2. row[1] \in Channel /\ row[2] \in Session
    BY DEF Bindable, Unbound, Rows
  <2>3. \A c \in Channel, q \in Session : q # row[2] => bound'[c][q] = bound[c][q]
    BY <2>1, <2>2, InvFacts DEF BoundOK
  <2>4. h # NoNative => \A c \in Channel, q \in Session : bound[c][q] # h
    BY <1>1, <1>3, InvFacts, ResolvedFacts DEF HookBinds
  <2> QED BY <2>1, <2>2, <2>3, <2>4, DrainedMarks
<1>4. CASE HookOfNobody(k)
  BY <1>4, SameMarksKeeps DEF HookOfNobody
<1> QED BY <1>2, <1>3, <1>4 DEF HookEnters

\* A session that ends marks every row of its member; where it comes too late
\* that is noted.
LEMMA MarkedKeeps ==
  ASSUME NativeInv, Marks, NEW k \in Hook, HookMarksStale(k)
  PROVE  Marks'
<1> DEFINE R == Resolved(hook[k].native)
<1>1. /\ bound' = bound /\ ended' = ended
      /\ late' = late \cup {row \in Rows : /\ row[2] \in R
                                          /\ bound[row[1]][row[2]] \notin ended}
  BY DEF HookMarksStale
<1>2. CASE file' = file
  BY <1>1, <1>2, SameMarksKeeps
<1>3. CASE file' # file
  <2>1. PICK r \in R : file' = MarkStale(file, r)
    BY <1>3 DEF HookMarksStale
  <2>2. \A c \in Channel :
          file'.stale[c] = IF Active(file, c) /\ r \in Members(file, c)
                           THEN file.stale[c] \cup {r} ELSE file.stale[c]
    BY <2>1, InvFacts DEF Sound, State, MarkStale
  <2>3. MarksEarned'
    <3> SUFFICES ASSUME NEW c \in Channel, NEW q \in Session, q \in file'.stale[c],
                        bound[c][q] # NoNative
                 PROVE  bound[c][q] \in ended \/ <<c, q>> \in late'
      BY <1>1 DEF MarksEarned
    <3>1. CASE q \in file.stale[c]
      BY <1>1, <3>1 DEF Marks, MarksEarned
    <3>2. CASE q \notin file.stale[c]
      <4>1. q = r /\ Active(file, c) /\ r \in Members(file, c)
        BY <2>2, <3>2
      <4>2. <<c, q>> \in Rows /\ <<c, q>>[1] = c /\ <<c, q>>[2] = q
        BY <4>1 DEF Rows
      <4> QED BY <1>1, <2>1, <4>1, <4>2
    <3> QED BY <3>1, <3>2
  <2>4. MarkedTogether'
    <3> SUFFICES ASSUME NEW c \in Channel, NEW d \in Channel, NEW q \in Session,
                        q \in file'.stale[c], bound[d][q] # NoNative
                 PROVE  q \in file'.stale[d]
      BY <1>1 DEF MarkedTogether
    <3>1. CASE q = r
      <4>1. Active(file, d) /\ r \in Members(file, d)
        BY <3>1, InvFacts DEF BoundOK
      <4> QED BY <2>2, <3>1, <4>1
    <3>2. CASE q # r
      BY <2>2, <3>2 DEF Marks, MarkedTogether
    <3> QED BY <3>1, <3>2
  <2> QED BY <2>3, <2>4 DEF Marks
<1> QED BY <1>2, <1>3

LEMMA MarksNext ==
  ASSUME NativeInv, NativeInv', Marks, [Next]_vars
  PROVE  Marks'
<1>1. Sound(file)
  BY InvFacts
<1>2. ASSUME NEW r \in Session, NEW c \in Channel,
             \/ Join(r, c) \/ Leave(r, c) \/ CooldownEnds(c, r)
             \/ \E R \in SUBSET Session, k \in Run : SendMail(r, c, R, k)
      PROVE  Marks'
  <2>1. CASE CooldownEnds(c, r)
    BY <1>1, <2>1, DeliveryMarksSame, SameMarksKeeps DEF CooldownEnds, history
  <2>2. CASE \E R \in SUBSET Session, k \in Run : SendMail(r, c, R, k)
    BY <1>1, <2>2, DeliveryMarksSame, SameMarksKeeps DEF SendMail, history
  <2> QED BY <1>2, <2>1, <2>2, JoinMarks, LeaveMarks
<1>3. ASSUME NEW k \in Hook,
             \/ \E h \in Native, event \in Event : Fire(k, h, event)
             \/ HookReads(k) \/ HookAnswers(k) \/ HookFails(k)
      PROVE  Marks'
  <2>1. file' = file /\ bound' = bound /\ ended \subseteq ended' /\ late' = late
    BY <1>3 DEF Fire, HookReads, HookAnswers, HookFails, history
  <2> QED BY <2>1, SameMarksKeeps
<1>4. ASSUME NEW k \in Hook, HookCommits(k)
      PROVE  Marks'
  BY <1>1, <1>4, DeliveryMarksSame, SameMarksKeeps DEF HookCommits, history
<1>5. ASSUME NEW k \in Run,
             \/ \E r \in Session : LookUp(k, r)
             \/ CheckSize(k) \/ DrainForSpawn(k) \/ SpawnRuns(k) \/ SpawnFails(k)
             \/ SpawnCommits(k) \/ CommitFails(k) \/ RequeueBatch(k)
             \/ RequeueFails(k)
      PROVE  Marks'
  <2>1. bound' = bound /\ ended' = ended /\ late' = late
    BY <1>5 DEF LookUp, CheckSize, DrainForSpawn, SpawnRuns, SpawnFails,
       SpawnCommits, CommitFails, RequeueBatch, RequeueFails, history
  <2>2. file'.stale = file.stale
    <3>1. CASE DrainForSpawn(k)
      <4>1. file' = file \/ file' = Drain(file, run[k].member)
        BY <3>1 DEF DrainForSpawn
      <4> QED BY <1>1, <4>1, DeliveryMarksSame
    <3>2. CASE SpawnCommits(k)
      BY <1>1, <3>2, DeliveryMarksSame DEF SpawnCommits
    <3>3. CASE RequeueBatch(k)
      BY <1>1, <3>3, DeliveryMarksSame DEF RequeueBatch
    <3>4. CASE \/ \E r \in Session : LookUp(k, r)
               \/ CheckSize(k) \/ SpawnRuns(k) \/ SpawnFails(k)
               \/ CommitFails(k) \/ RequeueFails(k)
      BY <3>4 DEF LookUp, CheckSize, SpawnRuns, SpawnFails, CommitFails, RequeueFails
    <3> QED BY <1>5, <3>1, <3>2, <3>3, <3>4
  <2> QED BY <2>1, <2>2, SameMarksKeeps
<1>6. CASE PluginSweeps
  BY <1>1, <1>6, DeliveryMarksSame, SameMarksKeeps DEF PluginSweeps
<1>7. CASE ServerExits \/ UNCHANGED vars
  <2>1. file' = file /\ bound' = bound /\ ended' = ended /\ late' = late
    BY <1>7 DEF ServerExits, vars
  <2> QED BY <2>1, SameMarksKeeps
<1> QED BY <1>2, <1>3, <1>4, <1>5, <1>6, <1>7, EntersMarks, MarkedKeeps DEF Next

\* Rows are bound to a native session by a start of it only.
LEMMA BoundByStart ==
  ASSUME NativeInv, NativeInv', [Next]_vars, NEW g \in Native,
         NEW row \in BoundRows(g)' \ BoundRows(g)
  PROVE  /\ row[1] \in Channel /\ row[2] \in Session
         /\ \E k \in Hook, b \in Bindable(g) :
              /\ b[1] = row[1] /\ b[2] = row[2]
              /\ hook[k].native = g /\ HookBinds(k)
<1>1. /\ row \in Channel \X Session /\ bound'[row[1]][row[2]] = g
      /\ row[1] \in Channel /\ row[2] \in Session
  BY DEF BoundRows, Rows
<1>2. bound[row[1]][row[2]] # g
  BY <1>1, InvFacts, NativeAssumption DEF BoundOK, BoundRows, Rows
<1>3. bound \in [Channel -> [Session -> Native \cup {NoNative}]]
  BY InvFacts DEF BoundOK
<1>4. CASE bound' = bound
  BY <1>1, <1>2, <1>4
<1>5. CASE \E c \in Channel, r \in Session : Leave(r, c)
  BY <1>1, <1>2, <1>3, <1>5, NativeAssumption DEF Leave
<1>6. ASSUME NEW k \in Hook, HookBinds(k)
      PROVE  \E b \in Bindable(g) : /\ b[1] = row[1] /\ b[2] = row[2]
                                    /\ hook[k].native = g
  <2>1. PICK b \in Bindable(hook[k].native) :
          bound' = [bound EXCEPT ![b[1]][b[2]] = hook[k].native]
    BY <1>6 DEF HookBinds
  <2>2. b[1] \in Channel /\ b[2] \in Session
    BY DEF Bindable, Unbound, Rows
  <2>3. b[1] = row[1] /\ b[2] = row[2] /\ hook[k].native = g
    BY <1>1, <1>2, <1>3, <2>1, <2>2
  <2> QED BY <2>3
<1>7. \/ bound' = bound \/ \E c \in Channel, r \in Session : Leave(r, c)
      \/ \E k \in Hook : HookBinds(k)
  BY DEF Next, Join, CooldownEnds, SendMail, PluginSweeps, Fire, HookEnters,
     HookOfKnown, HookOfNobody, HookMarksStale, HookReads, HookCommits, HookAnswers,
     HookFails, LookUp, CheckSize, DrainForSpawn, SpawnRuns, SpawnFails, SpawnCommits,
     CommitFails, RequeueBatch, RequeueFails, ServerExits, history, vars
<1> QED BY <1>1, <1>4, <1>5, <1>6, <1>7

\* Who names nobody binds the only row that is left.
LEMMA OnlyUnbound ==
  ASSUME NEW x \in Unbound, NEW y \in Unbound, Cardinality(Unbound) = 1
  PROVE  x = y
<1>1. IsFiniteSet(Channel \X Session)
  BY NativeAssumption, FS_Product
<1>2. Unbound \subseteq Channel \X Session
  BY DEF Unbound, Rows
<1>3. IsFiniteSet(Unbound)
  BY <1>1, <1>2, FS_Subset
<1>4. \E z : Unbound = {z}
  BY <1>3, FS_Singleton
<1> QED BY <1>4

LEMMA BindingFair ==
  ASSUME NativeInv, NativeInv', Marks, [Next]_vars,
         NEW g \in Native, NEW h \in Native, Named(g) = NoMember, h \notin ended,
         NEW row \in BoundRows(g)' \ BoundRows(g), row[2] \in Resolved(h)
  PROVE  bound[row[1]][row[2]] = NoNative \/ row \in late
<1> SUFFICES ASSUME bound[row[1]][row[2]] # NoNative PROVE row \in late
  OBVIOUS
<1>1. PICK k \in Hook, b \in Bindable(g) :
        /\ b[1] = row[1] /\ b[2] = row[2] /\ hook[k].native = g /\ HookBinds(k)
  BY BoundByStart
<1>2. row[1] \in Channel /\ row[2] \in Session /\ row = <<row[1], row[2]>>
  BY DEF BoundRows, Rows
<1>3. b \in Unbound /\ Cardinality(Unbound) = 1
  BY <1>1 DEF Bindable
<1>4. row[2] \in Pinned /\ row[2] \in file.stale[row[1]]
  BY <1>1, <1>3 DEF Unbound
<1>5. PICK other \in Rows : other[2] = row[2] /\ bound[other[1]][row[2]] = h
  BY DEF Resolved, BoundRows
<1>6. other[1] \in Channel /\ h # NoNative
  BY NativeAssumption DEF Rows
<1>7. row[2] \in file.stale[other[1]]
  BY <1>2, <1>4, <1>5, <1>6 DEF Marks, MarkedTogether
<1>8. other \in Unbound
  BY <1>4, <1>5, <1>7 DEF Unbound
<1>9. other = b
  BY <1>3, <1>8, OnlyUnbound
<1>10. bound[row[1]][row[2]] = h
  BY <1>1, <1>5, <1>9
<1>11. <<row[1], row[2]>> \in late
  BY <1>2, <1>4, <1>10, <1>6 DEF Marks, MarksEarned
<1> QED BY <1>2, <1>11

LEMMA InitialMarks == Init => Marks
BY DEF Init, Marks, MarksEarned, MarkedTogether

\* While a native session has not ended since it was last heard, no other one
\* that names nobody becomes its member, but by a row of it that was never
\* bound or by one whose mark came too late ("a fresh Claude session id must
\* not silently steal a binding", hooks.ts).
THEOREM BindingsAreKept == Spec => NotStolen
<1>1. NativeInv /\ NativeInv' /\ Marks /\ [Next]_vars => Marks'
  BY MarksNext
<1>2. NativeInv /\ NativeInv' /\ Marks /\ [Next]_vars =>
        [\A g, h \in Native :
           g # h /\ Named(g) = NoMember /\ h \notin ended =>
             \A row \in BoundRows(g)' \ BoundRows(g) :
               row[2] \in Resolved(h) =>
                 bound[row[1]][row[2]] = NoNative \/ row \in late]_vars
  BY BindingFair
<1> QED BY <1>1, <1>2, InitialMarks, NativeInvariant, PTL DEF Spec, NotStolen

-----------------------------------------------------------------------------
(***************************************************************************)
(* The mail contract.                                                      *)
(***************************************************************************)
\* What a step between two states does, seen as MailContract sees it.
LEMMA ContractStep ==
  ASSUME Sound(file), Honours(file, file'), WithinBudget(file')
  PROVE  Contract!Next
<1>1. /\ file \in State
      /\ \A m \in Msg : file.attempts[m] \in Nat
  BY DEF Sound, State
<1>2. \A m \in Msg :
        /\ Stages(file)[m] = IF file.status[m] \in Refusals THEN "refused"
                             ELSE file.status[m]
        /\ Stages(file)'[m] = IF file'.status[m] \in Refusals THEN "refused"
                              ELSE file'.status[m]
        /\ RoomOf(file)[m] = file.chan[m[1]]
        /\ RoomOf(file)'[m] = file'.chan[m[1]]
  BY DEF Stages, RoomOf
<1>3. ASSUME NEW m \in Msg
      PROVE  Contract!Moves(m)
  <2>1. CASE HandsOver(file, file', m)
             /\ file'.attempts[m] = file.attempts[m] + 1
    <3>1. Contract!HandedOver(m)
      BY <1>2, <2>1
      DEF HandsOver, Out, Refusals, Contract!HandedOver, Contract!From, Contract!To
    <3> QED BY <2>1, <3>1 DEF Contract!Moves
  <2>2. CASE Settles(file, file', m)
             /\ file'.attempts[m] = file.attempts[m]
    <3>1. \/ Contract!Stays(m) \/ Contract!Posted(m) \/ Contract!Accepted(m)
          \/ Contract!PutBack(m) \/ Contract!Refused(m) \/ Contract!Deleted(m)
      BY <1>1, <1>2, <2>2, MailboxAssumption
      DEF Settles, Spent, Out, Refusals, Contract!Stays, Contract!Posted,
          Contract!Accepted, Contract!PutBack, Contract!Refused,
          Contract!Deleted, Contract!From, Contract!To
    <3> QED BY <2>2, <3>1 DEF Contract!Moves
  <2> QED BY <2>1, <2>2 DEF Honours
<1>4. Contract!Handed = HandedIn(file, file')
  BY DEF Contract!Handed, HandedIn
<1>5. ASSUME NEW c \in Channel, file'.life[c] # "gone"
      PROVE  Contract!Charges(c)
  <2>1. {m \in HandedIn(file, file') : RoomOf(file)[m] = c}
          = {m \in HandedIn(file, file') : file.chan[m[1]] = c}
    BY <1>2 DEF HandedIn
  <2>2. Charged(file, file', c)
    BY <1>5 DEF Honours
  <2>3. Budget[c] # 0 => file'.total[c] <= Budget[c]
    BY <1>5 DEF WithinBudget
  <2>4. \A S : Contract!Cardinality(S) = Cardinality(S)
    BY DEF Contract!Cardinality, Cardinality
  <2>5. /\ file'.total[c] = file.total[c]
             + Cardinality({m \in Contract!Handed : RoomOf(file)[m] = c})
        /\ Budget[c] # 0 => file'.total[c] <= Budget[c]
    BY <1>4, <2>1, <2>2, <2>3 DEF Charged
  <2> QED BY <2>4, <2>5 DEF Contract!Charges
<1>6. \A m \in Msg : ~Contract!From(m, {"unsent"}) =>
        RoomOf(file)'[m] = RoomOf(file)[m]
  BY <1>2 DEF Honours, KeepsRooms, Refusals, Contract!From
<1>7. \A c \in Channel : c \in GoneRooms(file)' \/ Contract!Charges(c)
  BY <1>5 DEF GoneRooms
<1>8. GoneRooms(file) \subseteq GoneRooms(file)'
  BY DEF Honours, KeepsRooms, GoneRooms
<1>9. Taking(file)' \subseteq Channel \ GoneRooms(file)'
  BY DEF Taking, Active, GoneRooms
<1>10. \A m, n \in Contract!Handed : m[2] = n[2]
  BY <1>4 DEF Honours
<1> QED BY <1>3, <1>6, <1>7, <1>8, <1>9, <1>10 DEF Contract!Next

LEMMA UnchangedHonours ==
  ASSUME Sound(file), UNCHANGED file
  PROVE  Honours(file, file')
<1>1. SameMailAndBooks(file, file')
  BY DEF SameMailAndBooks, SameBooks
<1> QED BY <1>1, TendsSame, TendsHonours

\* Members, senders and time.
LEMMA MembersHonour ==
  ASSUME Sound(file), NEW r \in Session, NEW c \in Channel
  PROVE  /\ Join(r, c) \/ CooldownEnds(c, r) => Honours(file, file')
         /\ Leave(r, c) => Honours(file, file')
         /\ \A R, k : SendMail(r, c, R, k) => Honours(file, file')
<1>1. ASSUME Join(r, c) \/ CooldownEnds(c, r)
      PROVE  Honours(file, file')
  <2>1. Tends(file, file')
    BY <1>1, RestTends DEF Join, CooldownEnds
  <2> QED BY <2>1, TendsHonours
<1>2. ASSUME Leave(r, c)
      PROVE  Honours(file, file')
  BY <1>2, DisconnectTends, TendsHonours DEF Leave
<1>3. ASSUME NEW R, NEW k, SendMail(r, c, R, k)
      PROVE  Honours(file, file')
  <2>1. Tends(file, file)
    BY TendsSame DEF SameMailAndBooks, SameBooks
  <2> QED BY <1>3, <2>1, EnqueueHonours DEF SendMail
<1> QED BY <1>1, <1>2, <1>3

\* A hook clears the mark of its member and drains in one section, and
\* commits in a second one.
LEMMA HookHonours ==
  ASSUME NativeInv, NEW k \in Hook,
         \/ \E h \in Native, event \in Event : Fire(k, h, event)
         \/ HookEnters(k) \/ HookMarksStale(k) \/ HookReads(k)
         \/ HookCommits(k) \/ HookAnswers(k) \/ HookFails(k)
  PROVE  Honours(file, file')
<1>1. Sound(file)
  BY DEF NativeInv
<1>2. ASSUME NEW r \in Session, Drained(k, r)
      PROVE  Honours(file, file')
  <2> DEFINE t == ClearStale(file, r)
  <2>1. Sound(t) /\ Honours(t, Drain(t, r))
    BY <1>1, ClearStaleSound, DrainHonours
  <2>2. /\ SameBooks(file, t)
        /\ t.status = file.status /\ t.paused = file.paused
    BY <1>1 DEF Sound, State, ClearStale, SameBooks
  <2>3. file' = Drain(t, r)
    BY <1>2 DEF Drained
  <2> HIDE DEF t
  <2> QED BY <2>1, <2>2, <2>3, HonoursFrom
<1>3. CASE HookEnters(k)
  <2>1. CASE HookOfKnown(k)
    <3>1. PICK r \in Resolved(hook[k].native) : Drained(k, r)
      BY <2>1 DEF HookOfKnown
    <3>2. r \in Session
      BY DEF Resolved, BoundRows, Rows
    <3> QED BY <1>2, <3>1, <3>2
  <2>2. CASE HookBinds(k)
    <3>1. PICK row \in Bindable(hook[k].native) : Drained(k, row[2])
      BY <2>2 DEF HookBinds
    <3>2. row[2] \in Session
      BY DEF Bindable, Unbound, Rows
    <3> QED BY <1>2, <3>1, <3>2
  <2>3. CASE HookOfNobody(k)
    BY <1>1, <2>3, UnchangedHonours DEF HookOfNobody
  <2> QED BY <1>3, <2>1, <2>2, <2>3 DEF HookEnters
<1>4. CASE HookMarksStale(k)
  <2>1. file' = file \/ \E r : file' = MarkStale(file, r)
    BY <1>4 DEF HookMarksStale
  <2>2. Honours(file, file) /\ \A r : Tends(file, MarkStale(file, r))
    BY <1>1, RestTends, TendsSame, TendsHonours
    DEF SameMailAndBooks, SameBooks
  <2> QED BY <1>1, <2>1, <2>2, TendsHonours
<1>5. CASE HookCommits(k)
  <2>1. Honours(file, file)
    BY <1>1, TendsSame, TendsHonours DEF SameMailAndBooks, SameBooks
  <2> QED BY <1>1, <1>5, <2>1, CommitHonours DEF HookCommits, Committed
<1>6. CASE \/ \E h \in Native, event \in Event : Fire(k, h, event)
           \/ HookReads(k) \/ HookAnswers(k) \/ HookFails(k)
  <2>1. UNCHANGED file
    BY <1>6 DEF Fire, HookReads, HookAnswers, HookFails
  <2> QED BY <1>1, <2>1, UnchangedHonours
<1> QED BY <1>3, <1>4, <1>5, <1>6

\* A spawn delivery drains in one section and settles in a later one.
LEMMA RunHonours ==
  ASSUME NativeInv, NEW k \in Run,
         \/ \E r \in Session : LookUp(k, r)
         \/ CheckSize(k) \/ DrainForSpawn(k) \/ SpawnRuns(k) \/ SpawnFails(k)
         \/ SpawnCommits(k) \/ CommitFails(k) \/ RequeueBatch(k)
         \/ RequeueFails(k)
  PROVE  Honours(file, file')
<1>1. Sound(file) /\ (run[k].phase \in Busy => run[k].member \in Session)
  BY RunType DEF NativeInv
<1>2. CASE DrainForSpawn(k)
  <2>1. run[k].member \in Session
    BY <1>1, <1>2 DEF DrainForSpawn, Busy
  <2>2. UNCHANGED file \/ file' = Drain(file, run[k].member)
    BY <1>2 DEF DrainForSpawn
  <2> QED BY <1>1, <2>1, <2>2, DrainHonours, UnchangedHonours
<1>3. CASE SpawnCommits(k)
  <2>1. Honours(file, file)
    BY <1>1, TendsSame, TendsHonours DEF SameMailAndBooks, SameBooks
  <2> QED BY <1>1, <1>3, <2>1, CommitHonours DEF SpawnCommits, Committed
<1>4. CASE RequeueBatch(k)
  <2>1. run[k].member \in Session
    BY <1>1, <1>4 DEF RequeueBatch, Busy
  <2> QED BY <1>1, <1>4, <2>1, RequeueHonours DEF RequeueBatch
<1>5. CASE \/ \E r \in Session : LookUp(k, r)
           \/ CheckSize(k) \/ SpawnRuns(k) \/ SpawnFails(k) \/ CommitFails(k)
           \/ RequeueFails(k)
  <2>1. UNCHANGED file
    BY <1>5 DEF LookUp, CheckSize, SpawnRuns, SpawnFails, CommitFails,
                RequeueFails
  <2> QED BY <1>1, <2>1, UnchangedHonours
<1> QED BY <1>2, <1>3, <1>4, <1>5

LEMMA NextHonours ==
  ASSUME NativeInv, [Next]_vars
  PROVE  Honours(file, file')
<1>1. Sound(file)
  BY DEF NativeInv
<1>2. CASE PluginSweeps
  BY <1>1, <1>2, SweepHonours DEF PluginSweeps
<1>3. CASE ServerExits \/ UNCHANGED vars
  <2>1. UNCHANGED file
    BY <1>3 DEF ServerExits, vars
  <2> QED BY <1>1, <2>1, UnchangedHonours
<1>4. ASSUME NEW r \in Session, NEW c \in Channel,
             \/ Join(r, c) \/ Leave(r, c) \/ CooldownEnds(c, r)
             \/ \E R \in SUBSET Session, k \in Run : SendMail(r, c, R, k)
      PROVE  Honours(file, file')
  BY <1>1, <1>4, MembersHonour
<1> QED BY <1>2, <1>3, <1>4, HookHonours, RunHonours DEF Next

\* However hooks, spawned turns, sweeps and failures interleave, the mail
\* moves as MailContract says: it is handed over only while it is pending and
\* from a channel that takes mail, each hand-over is counted and charged, and
\* only the attempt cap ends what was handed out.
THEOREM NativeKeepsContract == Spec => KeepsContract
<1>1. Init => Contract!Init /\ WithinBudget(file)
  <2> SUFFICES ASSUME Init
               PROVE  Contract!Init /\ WithinBudget(file)
    OBVIOUS
  <2>1. /\ file.life = [c \in Channel |-> "active"]
        /\ file.total = [c \in Channel |-> 0]
        /\ file.chan = [n \in Send |-> NoChannel]
        /\ file.status = [m \in Msg |-> "unsent"]
        /\ file.attempts = [m \in Msg |-> 0]
    BY DEF Init
  <2>2. Stages(file) = [m \in Msg |-> "unsent"]
    BY <2>1 DEF Stages, Refusals
  <2>3. RoomOf(file) = [m \in Msg |-> NoChannel]
    BY <2>1, MsgFacts DEF RoomOf
  <2>4. GoneRooms(file) = {} /\ Taking(file) \subseteq Channel
    BY <2>1 DEF GoneRooms, Taking
  <2>5. WithinBudget(file)
    BY <2>1, MailboxAssumption DEF WithinBudget
  <2> QED BY <2>1, <2>2, <2>3, <2>4, <2>5 DEF Contract!Init
<1>2. NativeInv /\ WithinBudget(file) /\ [Next]_vars =>
        [Contract!Next]_(Contract!vars) /\ WithinBudget(file)'
  BY NextHonours, BudgetHonoured, ContractStep DEF NativeInv
<1> QED BY <1>1, <1>2, NativeInvariant, PTL
        DEF Spec, KeepsContract, Contract!Spec

=============================================================================
