--------------------------- MODULE DeliveryProofs ---------------------------
(***************************************************************************)
(* Theorems about Delivery, for any number of processes, sessions,         *)
(* channels and sends, every combination of faults and every bound: types  *)
(* and queues, refusals and budgets, what was heard, and how often.        *)
(***************************************************************************)
EXTENDS Delivery, MailboxProofs

-----------------------------------------------------------------------------
(***************************************************************************)
(* The inductive invariant.  TypeOK and PendingIffQueued are not inductive *)
(* without two facts: the batch of a running call is a list of distinct    *)
(* envelopes of its own recipient (a requeue puts them back in that        *)
(* recipient's queue), and an envelope of a send not made yet has no       *)
(* status (a new send's envelopes are queued without a test).              *)
(***************************************************************************)
ProcessesOK ==
  /\ up \subseteq Instance
  /\ sweeping \subseteq up
  /\ local \in [Instance -> SUBSET Session]
  /\ call \in [Instance -> [Session -> Call]]
  /\ fallback \in [Instance -> SUBSET Session]
  /\ cross \in [Instance -> SUBSET Session]

CallsHoldBatches ==
  \A i \in Instance, r \in Session : IsBatch(r, call[i][r].ids)

ReadersOK ==
  /\ answer \in [Session -> SUBSET Msg]
  /\ heard \in [Msg -> Nat]
  /\ faults \in 0..MaxFaults

IInv == Sound(file) /\ ProcessesOK /\ CallsHoldBatches /\ ReadersOK

\* The inductive invariant says what the checked invariants say.
LEMMA IInvImplies == IInv => TypeOK /\ PendingIffQueued
<1> SUFFICES ASSUME IInv
             PROVE  TypeOK /\ PendingIffQueued
  OBVIOUS
<1>1. TypeOK
  BY DEF IInv, Sound, ProcessesOK, ReadersOK, TypeOK
<1>2. Queued(file)
  BY DEF IInv, Sound
<1>3. PendingIffQueued
  BY <1>2 DEF Queued, Elems, Distinct, PendingIffQueued,
              QueuesHoldPending, QueuedOnce, PendingIsQueued
<1> QED BY <1>1, <1>3

\* A process starts with no call, so with the empty batch.
LEMMA IdleFacts == Idle \in Call /\ \A r \in Session : IsBatch(r, Idle.ids)
BY EmptyFacts DEF Idle, Call, IsBatch

\* The initial file: rosters, and no mail at all.
LEMMA InitialFileSound == Sound(InitialFile)
<1>1. InitialFile \in State
  <2>1. \A c \in Channel : InitialMembers[c] \in Seq(Session)
    BY DeliveryAssumption
  <2>2. InitialMembers \in [Channel -> Seq(Session)]
    BY DeliveryAssumption
  <2>3. [r \in Session |-> << >>] \in [Session -> Seq(Msg)]
    BY EmptyFacts
  <2> QED BY <2>2, <2>3 DEF InitialFile, State, Status
<1>2. Queued(InitialFile)
  BY EmptyFacts, MsgFacts DEF InitialFile, Queued
<1>3. Fresh(InitialFile)
  <2>1. \A m \in Msg : m[1] \in Nat /\ m[1] > 0
    BY MsgFacts, MailboxAssumption DEF Send
  <2> QED BY <2>1 DEF InitialFile, Fresh
<1> QED BY <1>1, <1>2, <1>3 DEF Sound

\* The invariant holds when the first processes run.
LEMMA InitIInv == Init => IInv
<1> SUFFICES ASSUME Init
             PROVE  IInv
  OBVIOUS
<1>1. Sound(file)
  BY InitialFileSound DEF Init
<1>2. ProcessesOK
  BY IdleFacts, DeliveryAssumption DEF Init, ProcessesOK
<1>3. CallsHoldBatches
  BY IdleFacts DEF Init, CallsHoldBatches
<1>4. ReadersOK
  BY DeliveryAssumption DEF Init, ReadersOK
<1> QED BY <1>1, <1>2, <1>3, <1>4 DEF IInv

\* A pruning save keeps the file sound.
LEMMA SavePrunedSound ==
  ASSUME NEW s, Sound(s), SavePruned(s)
  PROVE  Sound(file')
<1>1. PICK D \in Doomed(s) : file' = Purge(s, D)
  BY DEF SavePruned
<1> QED BY <1>1, DoomedFacts, PurgeSound

\* A send goes to sessions.
LEMMA RecipientsType ==
  ASSUME NEW s \in State, NEW c \in Channel, NEW sender,
         NEW R \in RecipientSets(s, c, sender)
  PROVE  R \in SUBSET Session
<1>1. Members(s, c) \subseteq Session
  BY MembersType
<1> QED BY <1>1 DEF RecipientSets

\* Timers are armed for sessions.
LEMMA NotifyType ==
  ASSUME ProcessesOK, NEW i \in Instance, NEW R \in SUBSET Session,
         Notify(i, R)
  PROVE  fallback' \in [Instance -> SUBSET Session]
BY DEF ProcessesOK, Notify

-----------------------------------------------------------------------------
(***************************************************************************)
(* Every action preserves the invariant.                                   *)
(***************************************************************************)
\* An operation of another process: the file stays sound, and at most a
\* cross-server timer is armed.
LEMMA FileStep ==
  ASSUME IInv, Sound(file'),
         fallback' \in [Instance -> SUBSET Session],
         UNCHANGED <<up, sweeping, local, call, cross, answer, heard, faults>>
  PROVE  IInv'
<1>1. ProcessesOK'
  BY DEF IInv, ProcessesOK
<1>2. CallsHoldBatches'
  BY DEF IInv, CallsHoldBatches
<1>3. ReadersOK'
  BY DEF IInv, ReadersOK
<1> QED BY <1>1, <1>2, <1>3 DEF IInv

\* The operations of the tools, the CLI and the GUI, session events and time.
LEMMA OperationsIInv == IInv /\ Operations => IInv'
<1> SUFFICES ASSUME IInv, Operations
             PROVE  IInv'
  OBVIOUS
<1>1. Sound(file) /\ file \in State /\ ProcessesOK
  BY DEF IInv, Sound
<1>2. fallback \in [Instance -> SUBSET Session] /\ up \subseteq Instance
  BY <1>1 DEF ProcessesOK
<1>3. CASE SendMail
  <2>0. PICK c \in Channel :
          /\ CanSend(file, c)
          /\ \E sender \in Members(file, c) \cap Senders :
               \E R \in RecipientSets(file, c, sender) :
                 /\ SavePruned(Enqueue(file, c, R))
                 /\ Quiet \/ \E i \in up : Notify(i, R)
    BY <1>3 DEF SendMail
  <2> PICK sender \in Members(file, c) \cap Senders :
        \E R \in RecipientSets(file, c, sender) :
          /\ SavePruned(Enqueue(file, c, R))
          /\ Quiet \/ \E i \in up : Notify(i, R)
    BY <2>0
  <2>1. PICK R \in RecipientSets(file, c, sender) :
          /\ SavePruned(Enqueue(file, c, R))
          /\ Quiet \/ \E i \in up : Notify(i, R)
    OBVIOUS
  <2>2. R \in SUBSET Session
    BY <1>1, RecipientsType
  <2>3. Sound(Enqueue(file, c, R))
    BY <1>1, <2>0, <2>2, EnqueueSound DEF CanSend
  <2>4. Sound(file')
    BY <2>1, <2>3, SavePrunedSound
  <2>5. fallback' \in [Instance -> SUBSET Session]
    BY <1>1, <1>2, <2>1, <2>2, NotifyType DEF Quiet
  <2> QED BY <1>3, <2>4, <2>5, FileStep DEF SendMail
<1>4. CASE SendAsOperator
  <2>0. PICK c \in Channel :
          /\ CanSend(file, c)
          /\ \E r \in Members(file, c) \ file.stale[c] :
               SavePruned(Enqueue(file, c, {r}))
    BY <1>4 DEF SendAsOperator
  <2>1. PICK r \in Members(file, c) \ file.stale[c] :
          SavePruned(Enqueue(file, c, {r}))
    BY <2>0
  <2>2. {r} \in SUBSET Session
    BY <1>1, MembersType
  <2>3. Sound(Enqueue(file, c, {r}))
    BY <1>1, <2>0, <2>2, EnqueueSound DEF CanSend
  <2>4. Sound(file')
    BY <2>1, <2>3, SavePrunedSound
  <2> QED BY <1>2, <1>4, <2>4, FileStep DEF SendAsOperator, procs
<1>5. CASE KickMember
  <2>0. PICK c \in Channel :
          \E r \in Members(file, c) :
            /\ SavePruned(Kick(file, c, r))
            /\ \/ Quiet
               \/ \E i \in up : Notify(i, Members(Kick(file, c, r), c)
                                            \ Kick(file, c, r).stale[c])
    BY <1>5 DEF KickMember
  <2>1. PICK r \in Members(file, c) :
          /\ SavePruned(Kick(file, c, r))
          /\ \/ Quiet
             \/ \E i \in up : Notify(i, Members(Kick(file, c, r), c)
                                          \ Kick(file, c, r).stale[c])
    BY <2>0
  <2>2. r \in Session
    BY <1>1, MembersType
  <2>3. Sound(Kick(file, c, r))
    BY <1>1, <1>5, <2>2, KickSound DEF KickMember
  <2>4. Sound(file')
    BY <2>1, <2>3, SavePrunedSound
  <2>5. Members(Kick(file, c, r), c) \subseteq Session
    BY <2>3, MembersType DEF Sound
  <2>6. fallback' \in [Instance -> SUBSET Session]
    BY <1>1, <1>2, <2>1, <2>5, NotifyType DEF Quiet
  <2> QED BY <1>5, <2>4, <2>6, FileStep DEF KickMember
<1>6. CASE Leave
  <2>0. PICK c \in Channel :
          \E r \in Members(file, c) : file' = Disconnect(file, c, r)
    BY <1>6 DEF Leave
  <2>1. PICK r \in Members(file, c) : file' = Disconnect(file, c, r)
    BY <2>0
  <2>2. Sound(file')
    BY <1>1, <2>1, MembersType, DisconnectSound
  <2> QED BY <1>2, <1>6, <2>2, FileStep DEF Leave, procs
<1>7. CASE Join
  <2>1. Sound(file')
    BY <1>1, <1>7, JoinChannelSound, OpenChannelSound, CreateChannelSound
    DEF Join
  <2> QED BY <1>2, <1>7, <2>1, FileStep DEF Join, procs
<1>8. CASE PauseOrResume
  <2>1. Sound(file')
    BY <1>1, <1>8, SetPausedSound DEF PauseOrResume
  <2> QED BY <1>2, <1>8, <2>1, FileStep DEF PauseOrResume, procs
<1>9. CASE CloseSession
  <2>1. Sound(file')
    BY <1>1, <1>9, PurgeChannelSound DEF CloseSession
  <2> QED BY <1>2, <1>9, <2>1, FileStep DEF CloseSession, procs
<1>10. CASE SessionEvent
  <2>0. PICK i \in up :
          \E r \in Hosted[i] :
            /\ file' = MarkStale(file, r) \/ file' = ClearStale(file, r)
            /\ local' = [local EXCEPT ![i] = @ \cup {r}]
    BY <1>10 DEF SessionEvent
  <2>1. PICK r \in Hosted[i] :
          /\ file' = MarkStale(file, r) \/ file' = ClearStale(file, r)
          /\ local' = [local EXCEPT ![i] = @ \cup {r}]
    BY <2>0
  <2>2. i \in Instance /\ r \in Session
    BY <1>2, <2>1, DeliveryAssumption
  <2>3. Sound(file')
    BY <1>1, <2>1, <2>2, MarkStaleSound, ClearStaleSound
  <2>4. ProcessesOK'
    BY <1>1, <1>10, <2>1, <2>2 DEF ProcessesOK, SessionEvent
  <2>5. CallsHoldBatches' /\ ReadersOK'
    BY <1>10 DEF IInv, CallsHoldBatches, ReadersOK, SessionEvent
  <2> QED BY <2>3, <2>4, <2>5 DEF IInv
<1>11. CASE TimePasses
  <2>1. Sound(file')
    <3>1. file.cooling \subseteq Channel \X Session
      BY <1>1 DEF State
    <3>2. \A p \in Channel \X Session : p[1] \in Channel /\ p[2] \in Session
      OBVIOUS
    <3> QED BY <1>1, <1>11, <3>1, <3>2, TimeSound DEF TimePasses
  <2> QED BY <1>2, <1>11, <2>1, FileStep DEF TimePasses, procs
<1> QED BY <1>3, <1>4, <1>5, <1>6, <1>7, <1>8, <1>9, <1>10, <1>11
        DEF Operations

\* A step of a controller that changes its own call, timers or retries.
LEMMA ProcessStep ==
  ASSUME IInv, Sound(file'),
         NEW i \in Instance, NEW r \in Session, NEW c \in Call,
         IsBatch(r, c.ids),
         call' = [call EXCEPT ![i][r] = c] \/ UNCHANGED call,
         fallback' \in [Instance -> SUBSET Session],
         cross' \in [Instance -> SUBSET Session],
         heard' \in [Msg -> Nat],
         faults' \in 0..MaxFaults,
         UNCHANGED <<up, sweeping, local, answer>>
  PROVE  IInv'
<1>1. ProcessesOK'
  <2>1. call \in [Instance -> [Session -> Call]]
    BY DEF IInv, ProcessesOK
  <2>2. [call EXCEPT ![i][r] = c] \in [Instance -> [Session -> Call]]
    BY <2>1
  <2>3. call' \in [Instance -> [Session -> Call]]
    BY <2>1, <2>2
  <2> QED BY <2>3 DEF IInv, ProcessesOK
<1>2. CallsHoldBatches'
  <2>1. \A j \in Instance, q \in Session :
          call'[j][q] = call[j][q] \/ (q = r /\ call'[j][q] = c)
    BY DEF IInv, ProcessesOK
  <2> QED BY <2>1 DEF IInv, CallsHoldBatches
<1>3. ReadersOK'
  BY DEF IInv, ReadersOK
<1> QED BY <1>1, <1>2, <1>3 DEF IInv

\* A call in any phase still has its batch.
LEMMA CallFacts ==
  ASSUME IInv, NEW i \in Instance, NEW r \in Session
  PROVE  /\ call[i][r] \in Call
         /\ IsBatch(r, call[i][r].ids)
         /\ \A p \in {"idle", "prompting", "accepted", "failed"} :
              /\ [call[i][r] EXCEPT !.phase = p] \in Call
              /\ [call[i][r] EXCEPT !.phase = p].ids = call[i][r].ids
<1>1. call[i][r] \in Call /\ IsBatch(r, call[i][r].ids)
  BY DEF IInv, ProcessesOK, CallsHoldBatches
<1>2. \A x \in Call : \A p \in {"idle", "prompting", "accepted", "failed"} :
        [x EXCEPT !.phase = p] \in Call /\ [x EXCEPT !.phase = p].ids = x.ids
  BY DEF Call
<1> QED BY <1>1, <1>2

\* Moving a call to another phase keeps its batch.
LEMMA GotoFacts ==
  ASSUME IInv, NEW i \in Instance, NEW r \in Session,
         NEW p \in {"idle", "prompting", "accepted", "failed"}, Goto(i, r, p)
  PROVE  \E c \in Call : /\ IsBatch(r, c.ids)
                         /\ call' = [call EXCEPT ![i][r] = c]
<1> DEFINE c == [call[i][r] EXCEPT !.phase = p]
<1>1. c \in Call /\ IsBatch(r, c.ids)
  BY CallFacts
<1>2. call \in [Instance -> [Session -> Call]]
  BY DEF IInv, ProcessesOK
<1>3. call' = [call EXCEPT ![i][r] = c]
  BY <1>2 DEF Goto
<1> QED BY <1>1, <1>3

\* Counting what the host accepted.
LEMMA HearType ==
  ASSUME ReadersOK, NEW ids, Hear(ids)
  PROVE  heard' \in [Msg -> Nat]
<1>1. heard \in [Msg -> Nat]
  BY DEF ReadersOK
<1> QED BY <1>1 DEF Hear

\* Faults stay within their bound.
LEMMA FaultType ==
  ASSUME ReadersOK, NEW kind, Fault(kind)
  PROVE  faults' \in 0..MaxFaults
BY DeliveryAssumption DEF ReadersOK, Fault

\* Phase 1 hands a call a batch of its own recipient.
LEMMA DrainAndPromptFacts ==
  ASSUME IInv, NEW i \in Instance, NEW r \in Session, NEW b \in BOOLEAN,
         DrainAndPrompt(i, r, b)
  PROVE  /\ Sound(file')
         /\ \E c \in Call : /\ IsBatch(r, c.ids)
                            /\ \/ call' = [call EXCEPT ![i][r] = c]
                               \/ UNCHANGED call
<1>1. Sound(file)
  BY DEF IInv
<1>2. CASE UNCHANGED <<file, call>>
  BY <1>1, <1>2, IdleFacts
<1>3. CASE ~UNCHANGED <<file, call>>
  <2> DEFINE s == Drain(file, r)
             ids == Batch(file, r)
             c == [phase |-> "prompting", ids |-> ids, cross |-> b]
  <2>1. Sound(s) /\ IsBatch(r, ids)
    BY <1>1, DrainSound, BatchFacts
  <2>2. ids \in Seq(Msg)
    BY <2>1 DEF IsBatch
  <2> HIDE DEF s, ids
  <2>3. c \in Call /\ c.ids = ids
    BY <2>2 DEF Call
  <2>4. \/ file' = s /\ UNCHANGED call
        \/ SavePruned(s) /\ call' = [call EXCEPT ![i][r] = c]
    BY <1>3 DEF DrainAndPrompt, s, ids
  <2>5. Sound(file')
    BY <2>1, <2>4, SavePrunedSound
  <2> QED BY <2>1, <2>3, <2>4, <2>5
<1> QED BY <1>2, <1>3

\* Every step of a push controller preserves the invariant.
LEMMA ControllerIInv ==
  ASSUME IInv, NEW i \in Instance, NEW r \in Session, Controller(i, r)
  PROVE  IInv'
<1>1. /\ Sound(file) /\ ProcessesOK /\ ReadersOK
      /\ fallback \in [Instance -> SUBSET Session]
      /\ cross \in [Instance -> SUBSET Session]
      /\ heard \in [Msg -> Nat]
      /\ faults \in 0..MaxFaults
  BY DEF IInv, ProcessesOK, ReadersOK
<1>2. Idle \in Call /\ IsBatch(r, Idle.ids)
  BY IdleFacts
<1>3. IsBatch(r, call[i][r].ids)
  BY CallFacts
<1>4. CASE Deliver(i, r)
  <2>1. DrainAndPrompt(i, r, FALSE)
    BY <1>4 DEF Deliver
  <2>2. Sound(file')
    BY <2>1, DrainAndPromptFacts
  <2>3. PICK c \in Call : /\ IsBatch(r, c.ids)
                          /\ \/ call' = [call EXCEPT ![i][r] = c]
                             \/ UNCHANGED call
    BY <2>1, DrainAndPromptFacts
  <2> QED BY <1>1, <1>4, <2>2, <2>3, ProcessStep DEF Deliver
<1>5. CASE FallbackFires(i, r)
  <2>1. /\ fallback' \in [Instance -> SUBSET Session]
        /\ cross' \in [Instance -> SUBSET Session]
    BY <1>1, <1>5 DEF FallbackFires
  <2>2. Sound(file')
    BY <1>1, <1>5 DEF FallbackFires
  <2> QED BY <1>1, <1>2, <1>5, <2>1, <2>2, ProcessStep DEF FallbackFires
<1>6. CASE DeliverCross(i, r)
  <2>1. DrainAndPrompt(i, r, TRUE) \/ UNCHANGED <<file, call>>
    BY <1>6 DEF DeliverCross
  <2>2. Sound(file')
    BY <1>1, <2>1, DrainAndPromptFacts
  <2>3. PICK c \in Call : /\ IsBatch(r, c.ids)
                          /\ \/ call' = [call EXCEPT ![i][r] = c]
                             \/ UNCHANGED call
    BY <1>2, <2>1, DrainAndPromptFacts
  <2>4. cross' \in [Instance -> SUBSET Session]
    BY <1>1, <1>6 DEF DeliverCross
  <2> QED BY <1>1, <1>6, <2>2, <2>3, <2>4, ProcessStep DEF DeliverCross
<1>7. CASE PromptAccepted(i, r)
  <2>1. PICK c \in Call : IsBatch(r, c.ids) /\ call' = [call EXCEPT ![i][r] = c]
    BY <1>7, GotoFacts DEF PromptAccepted
  <2>2. heard' \in [Msg -> Nat]
    BY <1>1, <1>7, HearType DEF PromptAccepted
  <2>3. Sound(file')
    BY <1>1, <1>7 DEF PromptAccepted
  <2> QED BY <1>1, <1>7, <2>1, <2>2, <2>3, ProcessStep DEF PromptAccepted
<1>8. CASE PromptThrows(i, r)
  <2>1. PICK c \in Call : IsBatch(r, c.ids) /\ call' = [call EXCEPT ![i][r] = c]
    BY <1>8, GotoFacts DEF PromptThrows
  <2>2. Sound(file')
    BY <1>1, <1>8 DEF PromptThrows
  <2> QED BY <1>1, <1>8, <2>1, <2>2, ProcessStep DEF PromptThrows
<1>9. CASE AcknowledgementLost(i, r)
  <2>1. PICK c \in Call : IsBatch(r, c.ids) /\ call' = [call EXCEPT ![i][r] = c]
    BY <1>9, GotoFacts DEF AcknowledgementLost
  <2>2. heard' \in [Msg -> Nat] /\ faults' \in 0..MaxFaults
    BY <1>1, <1>9, HearType, FaultType DEF AcknowledgementLost
  <2>3. Sound(file')
    BY <1>1, <1>9 DEF AcknowledgementLost
  <2> QED BY <1>1, <1>9, <2>1, <2>2, <2>3, ProcessStep DEF AcknowledgementLost
<1>10. CASE CommitBatch(i, r)
  <2>1. Sound(file')
    BY <1>1, <1>10, CommitSound DEF CommitBatch
  <2> QED BY <1>1, <1>2, <1>10, <2>1, ProcessStep DEF CommitBatch, EndCall
<1>11. CASE CommitFails(i, r)
  <2>1. PICK c \in Call : IsBatch(r, c.ids) /\ call' = [call EXCEPT ![i][r] = c]
    BY <1>11, GotoFacts DEF CommitFails
  <2>2. faults' \in 0..MaxFaults
    BY <1>1, <1>11, FaultType DEF CommitFails
  <2>3. Sound(file')
    BY <1>1, <1>11 DEF CommitFails
  <2> QED BY <1>1, <1>11, <2>1, <2>2, <2>3, ProcessStep DEF CommitFails
<1>12. CASE RequeueBatch(i, r)
  <2>1. Sound(file')
    BY <1>1, <1>3, <1>12, RequeueSound DEF RequeueBatch
  <2>2. cross' \in [Instance -> SUBSET Session]
    BY <1>1, <1>12 DEF RequeueBatch
  <2> QED BY <1>1, <1>2, <1>12, <2>1, <2>2, ProcessStep
          DEF RequeueBatch, EndCall
<1>13. CASE RequeueFails(i, r)
  <2>1. faults' \in 0..MaxFaults
    BY <1>1, <1>13, FaultType DEF RequeueFails
  <2>2. Sound(file')
    BY <1>1, <1>13 DEF RequeueFails
  <2> QED BY <1>1, <1>2, <1>13, <2>1, <2>2, ProcessStep
          DEF RequeueFails, EndCall
<1>14. CASE MarkLocal(i, r)
  <2>1. ProcessesOK'
    BY <1>1, <1>14 DEF ProcessesOK, MarkLocal
  <2>2. Sound(file') /\ CallsHoldBatches' /\ ReadersOK'
    BY <1>14 DEF IInv, CallsHoldBatches, ReadersOK, MarkLocal
  <2> QED BY <2>1, <2>2 DEF IInv
<1> QED BY <1>4, <1>5, <1>6, <1>7, <1>8, <1>9, <1>10, <1>11, <1>12, <1>13,
           <1>14 DEF Controller

\* Starting, sweeping and crashing preserve the invariant.
LEMMA LifecycleIInv ==
  ASSUME IInv, NEW i \in Instance, Lifecycle(i)
  PROVE  IInv'
<1>1. Sound(file) /\ ProcessesOK /\ CallsHoldBatches /\ ReadersOK
  BY DEF IInv
<1>2. CASE Start(i)
  <2>1. ProcessesOK'
    BY <1>1, <1>2 DEF ProcessesOK, Start
  <2> QED BY <1>1, <1>2, <2>1
          DEF IInv, CallsHoldBatches, ReadersOK, Start
<1>3. CASE StartupSweep(i)
  <2>1. ProcessesOK'
    BY <1>1, <1>3 DEF ProcessesOK, StartupSweep
  <2>2. Sound(file')
    BY <1>1, <1>3, SweepSound DEF StartupSweep
  <2> QED BY <1>1, <1>3, <2>1, <2>2
          DEF IInv, CallsHoldBatches, ReadersOK, StartupSweep
<1>4. CASE Crash(i)
  <2>1. ProcessesOK'
    BY <1>1, <1>4, IdleFacts DEF ProcessesOK, Crash
  <2>2. CallsHoldBatches'
    <3>1. \A j \in Instance, r \in Session :
            call'[j][r] = Idle \/ call'[j][r] = call[j][r]
      BY <1>1, <1>4 DEF ProcessesOK, Crash
    <3> QED BY <1>1, <3>1, IdleFacts DEF CallsHoldBatches
  <2>3. faults' \in 0..MaxFaults
    BY <1>1, <1>4, FaultType DEF Crash
  <2>4. Sound(file') /\ ReadersOK'
    BY <1>1, <1>4, <2>3 DEF ReadersOK, Crash
  <2> QED BY <2>1, <2>2, <2>4 DEF IInv
<1> QED BY <1>2, <1>3, <1>4 DEF Lifecycle

\* Pulling: drain, prune and commit in one locked section.
LEMMA PullerIInv ==
  ASSUME IInv, NEW r \in Session, Puller(r)
  PROVE  IInv'
<1>1. Sound(file) /\ ProcessesOK /\ CallsHoldBatches /\ ReadersOK
  BY DEF IInv
<1>2. UNCHANGED procs
  BY DEF Puller, Pull, PullAnswered, PullLost
<1>3. ProcessesOK' /\ CallsHoldBatches'
  BY <1>1, <1>2 DEF procs, ProcessesOK, CallsHoldBatches
<1>4. CASE Pull(r)
  <2> DEFINE s == Drain(file, r)
             ids == Batch(file, r)
  <2>1. Sound(s) /\ Elems(ids) \subseteq Msg
    BY <1>1, DrainSound, BatchFacts DEF IsBatch, Elems
  <2> HIDE DEF s, ids
  <2>2. CASE file' = s /\ UNCHANGED answer
    <3>1. ReadersOK'
      BY <1>1, <1>4, <2>2 DEF ReadersOK, Pull
    <3> QED BY <1>3, <2>1, <2>2, <3>1 DEF IInv
  <2>3. CASE \E D \in Doomed(s) :
               /\ file' = Commit(Purge(s, D), r, ids)
               /\ answer' = [answer EXCEPT ![r] = Elems(ids) \ D]
    <3>1. Sound(file')
      BY <2>1, <2>3, DoomedFacts, PurgeSound, CommitSound
    <3>2. ReadersOK'
      BY <1>1, <1>4, <2>1, <2>3 DEF ReadersOK, Pull
    <3> QED BY <1>3, <3>1, <3>2 DEF IInv
  <2> QED BY <1>4, <2>2, <2>3 DEF Pull, s, ids
<1>5. CASE PullAnswered(r)
  <2>1. ReadersOK'
    BY <1>1, <1>5 DEF ReadersOK, PullAnswered
  <2> QED BY <1>1, <1>3, <1>5, <2>1 DEF IInv, PullAnswered
<1>6. CASE PullLost(r)
  <2>1. faults' \in 0..MaxFaults
    BY <1>1, <1>6, FaultType DEF PullLost
  <2>2. ReadersOK'
    BY <1>1, <1>6, <2>1 DEF ReadersOK, PullLost
  <2> QED BY <1>1, <1>3, <1>6, <2>2 DEF IInv, PullLost
<1> QED BY <1>4, <1>5, <1>6 DEF Puller

\* The invariant is inductive.
LEMMA NextIInv == IInv /\ [Next]_vars => IInv'
<1> SUFFICES ASSUME IInv, [Next]_vars
             PROVE  IInv'
  OBVIOUS
<1>1. CASE Operations
  BY <1>1, OperationsIInv
<1>2. ASSUME NEW i \in Instance, Lifecycle(i)
      PROVE  IInv'
  BY <1>2, LifecycleIInv
<1>3. ASSUME NEW i \in Instance, NEW r \in Session, Controller(i, r)
      PROVE  IInv'
  BY <1>3, ControllerIInv
<1>4. ASSUME NEW r \in Session, Puller(r)
      PROVE  IInv'
  BY <1>4, PullerIInv
<1>5. CASE UNCHANGED vars
  BY <1>5 DEF vars, IInv, ProcessesOK, CallsHoldBatches, ReadersOK
<1> QED BY <1>1, <1>2, <1>3, <1>4, <1>5 DEF Next

-----------------------------------------------------------------------------
(***************************************************************************)
(* The theorems.                                                           *)
(***************************************************************************)
\* What engine.ts and the processes around it rely on, at every moment.
THEOREM InductiveInvariant == Spec => []IInv
<1>1. Init => IInv
  BY InitIInv
<1>2. IInv /\ [Next]_vars => IInv'
  BY NextIInv
<1> QED BY <1>1, <1>2, PTL DEF Spec

\* Every step stores values of the types of types.ts, and a queue is a list
\* of envelopes.
THEOREM TypeCorrect == Spec => []TypeOK
<1>1. IInv => TypeOK
  BY IInvImplies
<1> QED BY <1>1, InductiveInvariant, PTL

\* However sends, drains, requeues, sweeps, kicks, purges, prunes, crashes
\* and failed saves interleave, the pending mail is exactly the queued mail:
\* nothing pending is lost from its queue, queued twice, queued for someone
\* else, or queued after it was settled.
THEOREM PendingMailIsQueued == Spec => []PendingIffQueued
<1>1. IInv => PendingIffQueued
  BY IInvImplies
<1> QED BY <1>1, InductiveInvariant, PTL

-----------------------------------------------------------------------------
(***************************************************************************)
(* The actions.                                                            *)
(***************************************************************************)
\* pruneMessages brings nothing back.
LEMMA SavePrunedSpares ==
  ASSUME NEW s, Sound(s), SavePruned(s)
  PROVE  Spares(s, file')
<1>1. PICK D \in Doomed(s) : file' = Purge(s, D)
  BY DEF SavePruned
<1> QED BY <1>1, DoomedFacts, PurgeSpares

\* An operation followed by a pruning save.
LEMMA SavedSpares ==
  ASSUME NEW s, NEW t, Sound(t), Spares(s, t), SavePruned(t)
  PROVE  Spares(s, file')
BY SavePrunedSpares, SparesTransitive

\* No operation of a tool, the CLI or the GUI brings anything back.
LEMMA OperationsSpare ==
  ASSUME Sound(file), Operations
  PROVE  Spares(file, file')
<1>1. file \in State
  BY DEF Sound
<1>2. CASE SendMail
  <2>1. PICK c \in Channel :
          /\ CanSend(file, c)
          /\ \E sender \in Members(file, c) \cap Senders :
               \E R \in RecipientSets(file, c, sender) :
                 SavePruned(Enqueue(file, c, R))
    BY <1>2 DEF SendMail
  <2>2. PICK sender \in Members(file, c) \cap Senders :
          \E R \in RecipientSets(file, c, sender) :
            SavePruned(Enqueue(file, c, R))
    BY <2>1
  <2>3. PICK R \in RecipientSets(file, c, sender) :
          SavePruned(Enqueue(file, c, R))
    BY <2>2
  <2>4. R \in SUBSET Session
    BY <1>1, RecipientsType
  <2>5. Sound(Enqueue(file, c, R))
    BY <2>1, <2>4, EnqueueSound DEF CanSend
  <2> QED BY <2>3, <2>5, EnqueueSpares, SavedSpares
<1>3. CASE SendAsOperator
  <2>1. PICK c \in Channel :
          /\ CanSend(file, c)
          /\ \E r \in Members(file, c) \ file.stale[c] :
               SavePruned(Enqueue(file, c, {r}))
    BY <1>3 DEF SendAsOperator
  <2>2. PICK r \in Members(file, c) \ file.stale[c] :
          SavePruned(Enqueue(file, c, {r}))
    BY <2>1
  <2>3. {r} \in SUBSET Session
    BY <1>1, MembersType
  <2>4. Sound(Enqueue(file, c, {r}))
    BY <2>1, <2>3, EnqueueSound DEF CanSend
  <2> QED BY <2>2, <2>4, EnqueueSpares, SavedSpares
<1>4. CASE KickMember
  <2>1. PICK c \in Channel :
          \E r \in Members(file, c) : SavePruned(Kick(file, c, r))
    BY <1>4 DEF KickMember
  <2>2. PICK r \in Members(file, c) : SavePruned(Kick(file, c, r))
    BY <2>1
  <2>3. r \in Session
    BY <1>1, MembersType
  <2>4. Sound(Kick(file, c, r))
    BY <1>4, <2>3, KickSound DEF KickMember
  <2> QED BY <2>2, <2>3, <2>4, KickSpares, SavedSpares
<1>5. CASE Leave
  <2>1. PICK c \in Channel :
          \E r \in Members(file, c) : file' = Disconnect(file, c, r)
    BY <1>5 DEF Leave
  <2>2. PICK r \in Members(file, c) : file' = Disconnect(file, c, r)
    BY <2>1
  <2>3. r \in Session
    BY <1>1, MembersType
  <2> QED BY <2>2, <2>3, DisconnectSpares
<1>6. CASE CloseSession
  BY <1>6, PurgeChannelSpares DEF CloseSession
<1>7. CASE Join
  <2>1. file'.status = file.status /\ file'.total = file.total
    BY <1>1, <1>7
    DEF Join, State, JoinChannel, OpenChannel, CreateChannel
  <2> QED BY <2>1, SparesSame
<1>8. CASE PauseOrResume
  <2>1. file'.status = file.status /\ file'.total = file.total
    BY <1>1, <1>8 DEF PauseOrResume, State, SetPaused
  <2> QED BY <2>1, SparesSame
<1>9. CASE SessionEvent
  <2>1. file'.status = file.status /\ file'.total = file.total
    BY <1>1, <1>9 DEF SessionEvent, State, MarkStale, ClearStale
  <2> QED BY <2>1, SparesSame
<1>10. CASE TimePasses
  <2>1. file'.status = file.status /\ file'.total = file.total
    BY <1>1, <1>10 DEF TimePasses, State, Age, EndCooldown, Overrun
  <2> QED BY <2>1, SparesSame
<1> QED BY <1>2, <1>3, <1>4, <1>5, <1>6, <1>7, <1>8, <1>9, <1>10
        DEF Operations

\* Phase 1 of a delivery.
LEMMA DrainAndPromptSpares ==
  ASSUME Sound(file), NEW i \in Instance, NEW r \in Session, NEW b,
         DrainAndPrompt(i, r, b)
  PROVE  Spares(file, file')
<1>1. Sound(Drain(file, r)) /\ Spares(file, Drain(file, r))
  BY DrainSound, DrainSpares
<1>2. UNCHANGED file \/ file' = Drain(file, r) \/ SavePruned(Drain(file, r))
  BY DEF DrainAndPrompt
<1> QED BY <1>1, <1>2, SavedSpares, SparesSame

\* No phase of a push delivery brings anything back.
LEMMA ControllerKeeps ==
  ASSUME Sound(file), NEW i \in Instance, NEW r \in Session, Controller(i, r)
  PROVE  Keeps(file, file')
<1>1. CASE Deliver(i, r)
  BY <1>1, DrainAndPromptSpares, SparesKeeps DEF Deliver
<1>2. CASE DeliverCross(i, r)
  <2>1. DrainAndPrompt(i, r, TRUE) \/ UNCHANGED file
    BY <1>2 DEF DeliverCross
  <2> QED BY <2>1, DrainAndPromptSpares, SparesSame, SparesKeeps
<1>3. CASE CommitBatch(i, r)
  BY <1>3, CommitKeeps DEF CommitBatch
<1>4. CASE RequeueBatch(i, r)
  BY <1>4, RequeueContinues, ContinuesKeeps DEF RequeueBatch
<1>5. CASE \/ FallbackFires(i, r) \/ PromptAccepted(i, r) \/ PromptThrows(i, r)
           \/ AcknowledgementLost(i, r) \/ CommitFails(i, r)
           \/ RequeueFails(i, r) \/ MarkLocal(i, r)
  <2>1. UNCHANGED file
    BY <1>5 DEF FallbackFires, PromptAccepted, PromptThrows,
                AcknowledgementLost, CommitFails, RequeueFails, MarkLocal
  <2> QED BY <2>1, SparesSame, SparesKeeps
<1> QED BY <1>1, <1>2, <1>3, <1>4, <1>5 DEF Controller

\* Nor does a pull: it is a drain, a prune and a commit.
LEMMA PullerKeeps ==
  ASSUME Sound(file), NEW r \in Session, Puller(r)
  PROVE  Keeps(file, file')
<1> DEFINE s == Drain(file, r)
<1>1. Sound(s) /\ Keeps(file, s)
  BY DrainSound, DrainSpares, SparesKeeps
<1> HIDE DEF s
<1>2. \/ UNCHANGED file
      \/ file' = s
      \/ \E D \in Doomed(s) : file' = Commit(Purge(s, D), r, Batch(file, r))
  BY DEF Puller, Pull, PullAnswered, PullLost, s
<1>3. ASSUME NEW D \in Doomed(s), NEW ids
      PROVE  Keeps(file, Commit(Purge(s, D), r, ids))
  <2>1. Sound(Purge(s, D)) /\ Keeps(s, Purge(s, D))
    BY <1>1, DoomedFacts, PurgeSound, PurgeSpares, SparesKeeps
  <2>2. Keeps(Purge(s, D), Commit(Purge(s, D), r, ids))
    BY <2>1, CommitKeeps
  <2> QED BY <1>1, <2>1, <2>2, KeepsTransitive
<1> QED BY <1>1, <1>2, <1>3, SparesSame, SparesKeeps

\* No step does.
LEMMA NextKeeps ==
  ASSUME IInv, [Next]_vars
  PROVE  Keeps(file, file')
<1>1. Sound(file)
  BY DEF IInv
<1>2. ASSUME NEW i \in Instance, Lifecycle(i)
      PROVE  Keeps(file, file')
  <2>1. UNCHANGED file \/ file' = Sweep(file)
    BY <1>2 DEF Lifecycle, Start, StartupSweep, Crash
  <2> QED BY <1>1, <2>1, SweepContinues, SparesSame, SparesKeeps,
            ContinuesKeeps
<1>3. CASE UNCHANGED vars
  BY <1>3, SparesSame, SparesKeeps DEF vars
<1> QED BY <1>1, <1>2, <1>3, OperationsSpare, ControllerKeeps, PullerKeeps,
        SparesKeeps DEF Next

-----------------------------------------------------------------------------
(***************************************************************************)
(* The theorems.                                                           *)
(***************************************************************************)
\* A kick, an expired window, a removed channel or the attempt cap is final:
\* no later requeue, sweep or drain, in any process, hands the envelope over.
THEOREM RefusalStands == Spec => RefusalIsFinal
<1>1. IInv /\ [Next]_vars =>
        [\A m \in Msg : file.status[m] \in {"rejected", "stale", "failed"} =>
           file'.status[m] \in {file.status[m], "purged"}]_vars
  BY NextKeeps DEF Keeps, Refused
<1> QED BY <1>1, InductiveInvariant, PTL DEF Spec, RefusalIsFinal

\* The safety ceiling on a conversation holds however many processes drain
\* its members' queues and however large the batches are.
THEOREM BudgetNeverOverrun == Spec => []BudgetKept
<1>1. Init => BudgetKept
  BY MailboxAssumption DEF Init, InitialFile, BudgetKept
<1>2. IInv /\ BudgetKept /\ [Next]_vars => BudgetKept'
  BY NextKeeps DEF Keeps, BudgetKept
<1> QED BY <1>1, <1>2, InductiveInvariant, PTL DEF Spec

-----------------------------------------------------------------------------
(***************************************************************************)
(* "Delivered" means heard, unless a pull answer is lost.  A commit has    *)
(* nothing but its batch to go by, so the invariant must say of the batch  *)
(* of a call whose prompt was accepted that it was heard, or deleted       *)
(* before the prompt was written.                                          *)
(***************************************************************************)
BatchHeard(c) ==
  \A m \in Elems(c.ids) :
    /\ file.status[m] # "unsent"
    /\ c.phase = "accepted" => heard[m] > 0 \/ file.status[m] = "purged"

CallsHeard == \A i \in Instance, r \in Session : BatchHeard(call[i][r])

HInv == CallsHeard /\ DeliveredWasHeard

\* What a step may do to a call without hearing it: nothing, end it, move
\* it on but not to "accepted", or begin it with mail that was sent.
Harmless(c, d) ==
  \/ d = c
  \/ d.ids = << >>
  \/ /\ d.phase # "accepted"
     /\ \A m \in Elems(d.ids) : file.status[m] # "unsent"

\* A step without a commit that forgets nothing the model heard.
LEMMA NothingCommitted ==
  ASSUME IInv, IInv', HInv, Continues(file, file'),
         \A m \in Msg : heard'[m] >= heard[m],
         UNCHANGED answer,
         \A i \in Instance, r \in Session : Harmless(call[i][r], call'[i][r])
  PROVE  HInv'
<1>0. /\ \A m \in Msg : heard[m] \in Nat /\ heard'[m] \in Nat
      /\ \A m \in Msg : m[2] \in Session
  BY MsgFacts DEF IInv, ReadersOK
<1>1. DeliveredWasHeard'
  BY <1>0 DEF HInv, DeliveredWasHeard, Continues
<1>2. CallsHeard'
  <2> SUFFICES ASSUME NEW i \in Instance, NEW r \in Session,
                      NEW m \in Elems(call'[i][r].ids)
               PROVE  /\ file'.status[m] # "unsent"
                      /\ call'[i][r].phase = "accepted" =>
                           heard'[m] > 0 \/ file'.status[m] = "purged"
    BY DEF CallsHeard, BatchHeard
  <2>1. m \in Msg
    BY DEF IInv, CallsHoldBatches, IsBatch, Elems
  <2>2. CASE call'[i][r] = call[i][r]
    <3>1. BatchHeard(call[i][r])
      BY DEF HInv, CallsHeard
    <3> QED BY <1>0, <2>1, <2>2, <3>1
            DEF BatchHeard, Continues, Keeps, Refused
  <2>3. CASE call'[i][r].ids = << >>
    BY <2>3, EmptyFacts
  <2>4. CASE /\ call'[i][r].phase # "accepted"
             /\ \A n \in Elems(call'[i][r].ids) : file.status[n] # "unsent"
    BY <2>1, <2>4 DEF Continues, Keeps
  <2> QED BY <2>2, <2>3, <2>4 DEF Harmless
<1> QED BY <1>1, <1>2 DEF HInv

\* Of the calls only one changes.
LEMMA OtherCalls ==
  ASSUME IInv, NEW i \in Instance, NEW r \in Session, NEW c,
         call' = [call EXCEPT ![i][r] = c]
  PROVE  \A j \in Instance, q \in Session :
           IF j = i /\ q = r THEN call'[j][q] = c ELSE call'[j][q] = call[j][q]
BY DEF IInv, ProcessesOK

\* Sends, departures, closing, time.
LEMMA OperationsHeard ==
  ASSUME IInv, IInv', HInv, Operations
  PROVE  HInv'
<1>1. Continues(file, file')
  BY OperationsSpare, SparesKeeps DEF IInv
<1>2. UNCHANGED <<call, answer, heard>>
  BY DEF Operations, SendMail, SendAsOperator, KickMember, Leave, Join,
         PauseOrResume, CloseSession, SessionEvent, TimePasses, procs
<1>3. \A m \in Msg : heard'[m] >= heard[m]
  BY <1>2 DEF IInv, ReadersOK
<1> QED BY <1>1, <1>2, <1>3, NothingCommitted DEF Harmless

\* What a prompt or an answer adds is only ever added.
LEMMA HearCounts ==
  ASSUME IInv, NEW ids, Hear(ids)
  PROVE  \A m \in Msg :
           /\ heard'[m] >= heard[m]
           /\ m \in Elems(ids) /\ m \in Persisted(file) => heard'[m] > 0
<1>1. \A m \in Msg : heard[m] \in Nat
  BY DEF IInv, ReadersOK
<1> QED BY <1>1 DEF Hear

\* Phase 1.
LEMMA DrainHeard ==
  ASSUME IInv, IInv', HInv, NEW i \in Instance, NEW r \in Session, NEW b,
         DrainAndPrompt(i, r, b), UNCHANGED <<answer, heard>>
  PROVE  HInv'
<1>1. Sound(file)
  BY DEF IInv
<1>2. Continues(file, file')
  BY <1>1, DrainAndPromptSpares, SparesKeeps
<1>3. \A m \in Msg : heard'[m] >= heard[m]
  BY DEF IInv, ReadersOK
<1> DEFINE c == [phase |-> "prompting", ids |-> Batch(file, r), cross |-> b]
<1>4. UNCHANGED call \/ call' = [call EXCEPT ![i][r] = c]
  BY DEF DrainAndPrompt
<1>5. c.phase # "accepted" /\ c.ids = Batch(file, r)
  OBVIOUS
<1>6. \A m \in Elems(Batch(file, r)) : file.status[m] # "unsent"
  BY <1>1, BatchQueued
<1>7. \A x : Harmless(x, c)
  BY <1>5, <1>6 DEF Harmless
<1> HIDE DEF c
<1>8. \A j \in Instance, q \in Session : Harmless(call[j][q], call'[j][q])
  <2>1. CASE UNCHANGED call
    BY <2>1 DEF Harmless
  <2>2. CASE call' = [call EXCEPT ![i][r] = c]
    <3>1. \A j \in Instance, q \in Session :
            IF j = i /\ q = r THEN call'[j][q] = c ELSE call'[j][q] = call[j][q]
      BY <2>2 DEF IInv, ProcessesOK
    <3>2. \A x : Harmless(x, x)
      BY DEF Harmless
    <3> QED BY <1>7, <3>1, <3>2
  <2> QED BY <1>4, <2>1, <2>2
<1> QED BY <1>2, <1>3, <1>8, NothingCommitted

\* A call that goes on without a commit.
LEMMA CallMovesOn ==
  ASSUME IInv, IInv', HInv, NEW i \in Instance, NEW r \in Session, NEW c,
         Continues(file, file'), UNCHANGED answer,
         \A m \in Msg : heard'[m] >= heard[m],
         call' = [call EXCEPT ![i][r] = c],
         c.ids = << >> \/ (c.phase # "accepted" /\ c.ids = call[i][r].ids)
  PROVE  HInv'
<1>1. BatchHeard(call[i][r])
  BY DEF HInv, CallsHeard
<1>2. Harmless(call[i][r], c)
  BY <1>1 DEF Harmless, BatchHeard
<1>3. \A j \in Instance, q \in Session : Harmless(call[j][q], call'[j][q])
  BY <1>2, OtherCalls DEF Harmless
<1> QED BY <1>3, NothingCommitted

\* A call that changes, when what its batch needs is known.
LEMMA CallSettles ==
  ASSUME IInv, IInv', HInv, NEW i \in Instance, NEW r \in Session, NEW c,
         Keeps(file, file'), DeliveredWasHeard',
         \A m \in Msg : heard'[m] >= heard[m],
         call' = [call EXCEPT ![i][r] = c],
         \A m \in Elems(c.ids) :
           /\ file'.status[m] # "unsent"
           /\ c.phase = "accepted" => heard'[m] > 0 \/ file'.status[m] = "purged"
  PROVE  HInv'
<1>1. \A m \in Msg : heard[m] \in Nat /\ heard'[m] \in Nat
  BY DEF IInv, ReadersOK
<1> SUFFICES ASSUME NEW j \in Instance, NEW q \in Session,
                    NEW m \in Elems(call'[j][q].ids)
             PROVE  /\ file'.status[m] # "unsent"
                    /\ call'[j][q].phase = "accepted" =>
                         heard'[m] > 0 \/ file'.status[m] = "purged"
  BY DEF HInv, CallsHeard, BatchHeard
<1>2. CASE j = i /\ q = r
  <2>1. call'[i][r] = c
    BY DEF IInv, ProcessesOK
  <2> QED BY <1>2, <2>1
<1>3. CASE ~(j = i /\ q = r)
  <2>1. call'[j][q] = call[j][q]
    BY <1>3, OtherCalls
  <2>2. m \in Msg
    BY DEF IInv, CallsHoldBatches, IsBatch, Elems
  <2>3. BatchHeard(call[j][q])
    BY DEF HInv, CallsHeard
  <2> QED BY <1>1, <2>1, <2>2, <2>3 DEF BatchHeard, Keeps, Refused
<1> QED BY <1>2, <1>3

\* The phases of a push delivery: only a heard batch is committed.
LEMMA ControllerHeard ==
  ASSUME IInv, IInv', HInv, NEW i \in Instance, NEW r \in Session,
         Controller(i, r)
  PROVE  HInv'
<1>1. Sound(file) /\ \A m \in Msg : heard[m] \in Nat
  BY DEF IInv, ReadersOK
<1>2. UNCHANGED heard => \A m \in Msg : heard'[m] >= heard[m]
  BY <1>1
<1>3. UNCHANGED file => Continues(file, file')
  BY SparesSame, SparesKeeps
<1> DEFINE c(p) == [call[i][r] EXCEPT !.phase = p]
<1>4. \A p \in {"accepted", "failed"} :
        /\ c(p).phase = p /\ c(p).ids = call[i][r].ids
        /\ Goto(i, r, p) => call' = [call EXCEPT ![i][r] = c(p)]
  BY CallFacts DEF Goto, IInv, ProcessesOK, Call
<1> HIDE DEF c
<1>5. CASE Deliver(i, r)
  BY <1>5, DrainHeard DEF Deliver
<1>6. CASE DeliverCross(i, r)
  <2>1. DrainAndPrompt(i, r, TRUE) \/ UNCHANGED <<file, call>>
    BY <1>6 DEF DeliverCross
  <2>2. UNCHANGED <<answer, heard>>
    BY <1>6 DEF DeliverCross
  <2>3. CASE DrainAndPrompt(i, r, TRUE)
    BY <2>2, <2>3, DrainHeard
  <2>4. CASE UNCHANGED <<file, call>>
    BY <1>2, <1>3, <2>2, <2>4, NothingCommitted DEF Harmless
  <2> QED BY <2>1, <2>3, <2>4
<1>7. CASE FallbackFires(i, r) \/ MarkLocal(i, r)
  <2>1. UNCHANGED <<file, call, answer, heard>>
    BY <1>7 DEF FallbackFires, MarkLocal
  <2> QED BY <1>2, <1>3, <2>1, NothingCommitted DEF Harmless
<1>8. CASE PromptAccepted(i, r)
  <2>1. Hear(call[i][r].ids) /\ UNCHANGED <<file, answer>>
    BY <1>8 DEF PromptAccepted
  <2>2. call' = [call EXCEPT ![i][r] = c("accepted")]
    BY <1>4, <1>8 DEF PromptAccepted
  <2>3. \A m \in Msg : heard'[m] >= heard[m] /\ heard'[m] \in Nat
    BY <2>1, HearCounts DEF IInv, ReadersOK
  <2>4. DeliveredWasHeard'
    <3>1. \A m \in Msg : file'.status[m] = file.status[m]
                          /\ answer'[m[2]] = answer[m[2]]
      BY <2>1
    <3> QED BY <1>1, <2>3, <3>1 DEF HInv, DeliveredWasHeard
  <2>5. \A m \in Elems(c("accepted").ids) :
          /\ file'.status[m] # "unsent"
          /\ heard'[m] > 0 \/ file'.status[m] = "purged"
    <3> SUFFICES ASSUME NEW m \in Elems(call[i][r].ids)
                 PROVE  /\ file.status[m] # "unsent"
                        /\ heard'[m] > 0 \/ file.status[m] = "purged"
      BY <1>4, <2>1
    <3>1. m \in Msg /\ file.status[m] # "unsent"
      BY DEF HInv, CallsHeard, BatchHeard, IInv, CallsHoldBatches, IsBatch,
             Elems
    <3>2. m \in Persisted(file) => heard'[m] > 0
      BY <2>1, <3>1, HearCounts
    <3> QED BY <3>1, <3>2 DEF Persisted
  <2> QED BY <1>3, <2>1, <2>2, <2>3, <2>4, <2>5, CallSettles, ContinuesKeeps
<1>9. CASE PromptThrows(i, r) \/ CommitFails(i, r)
  <2>1. Goto(i, r, "failed") /\ UNCHANGED <<file, answer, heard>>
    BY <1>9 DEF PromptThrows, CommitFails
  <2> QED BY <1>2, <1>3, <1>4, <2>1, CallMovesOn
<1>10. CASE AcknowledgementLost(i, r)
  <2>1. Goto(i, r, "failed") /\ Hear(call[i][r].ids)
          /\ UNCHANGED <<file, answer>>
    BY <1>10 DEF AcknowledgementLost
  <2> QED BY <1>3, <1>4, <2>1, HearCounts, CallMovesOn
<1>11. CASE CommitBatch(i, r)
  <2>1. /\ call[i][r].phase = "accepted"
        /\ file' = Commit(file, r, call[i][r].ids)
        /\ call' = [call EXCEPT ![i][r] = Idle]
        /\ UNCHANGED <<answer, heard>>
    BY <1>11 DEF CommitBatch, EndCall
  <2>2. \A m \in Msg : file'.status[m] =
          IF m \in Elems(call[i][r].ids) /\ file.status[m] = "in_flight"
               /\ m[2] = r
          THEN "delivered" ELSE file.status[m]
    BY <1>1, <2>1 DEF Sound, State, Commit
  <2>3. BatchHeard(call[i][r])
    BY DEF HInv, CallsHeard
  <2>4. DeliveredWasHeard'
    BY <2>1, <2>2, <2>3 DEF HInv, DeliveredWasHeard, BatchHeard
  <2>5. Keeps(file, file')
    BY <1>1, <2>1, CommitKeeps
  <2>6. Elems(Idle.ids) = {}
    BY EmptyFacts DEF Idle
  <2> QED BY <1>2, <2>1, <2>4, <2>5, <2>6, CallSettles
<1>12. CASE RequeueBatch(i, r) \/ RequeueFails(i, r)
  <2>1. /\ file' = Requeue(file, r, call[i][r].ids) \/ UNCHANGED file
        /\ call' = [call EXCEPT ![i][r] = Idle]
        /\ UNCHANGED <<answer, heard>>
    BY <1>12 DEF RequeueBatch, RequeueFails, EndCall
  <2>2. Continues(file, file')
    BY <1>1, <1>3, <2>1, RequeueContinues
  <2> QED BY <1>2, <2>1, <2>2, CallMovesOn DEF Idle
<1> QED BY <1>5, <1>6, <1>7, <1>8, <1>9, <1>10, <1>11, <1>12 DEF Controller

\* Processes start, sweep and die.
LEMMA LifecycleHeard ==
  ASSUME IInv, IInv', HInv, NEW i \in Instance, Lifecycle(i)
  PROVE  HInv'
<1>1. Sound(file) /\ \A m \in Msg : heard[m] \in Nat
  BY DEF IInv, ReadersOK
<1>2. UNCHANGED <<answer, heard>>
  BY DEF Lifecycle, Start, StartupSweep, Crash
<1>3. Continues(file, file')
  <2>1. UNCHANGED file \/ file' = Sweep(file)
    BY DEF Lifecycle, Start, StartupSweep, Crash
  <2> QED BY <1>1, <2>1, SweepContinues, SparesSame, SparesKeeps
<1>4. \A j \in Instance, q \in Session :
        call'[j][q] = call[j][q] \/ call'[j][q] = Idle
  BY DEF Lifecycle, Start, StartupSweep, Crash, IInv, ProcessesOK
<1>5. Idle.ids = << >>
  BY DEF Idle
<1> QED BY <1>1, <1>2, <1>3, <1>4, <1>5, NothingCommitted DEF Harmless

\* A pull commits what its answer holds; the answer is heard unless lost.
LEMMA PullerHeard ==
  ASSUME IInv, IInv', HInv, NEW r \in Session, Puller(r),
         "pull" \notin FaultKinds
  PROVE  HInv'
<1>1. Sound(file) /\ \A m \in Msg : heard[m] \in Nat
  BY DEF IInv, ReadersOK
<1>2. answer \in [Session -> SUBSET Msg] /\ \A m \in Msg : m[2] \in Session
  BY MsgFacts DEF IInv, ReadersOK
<1>3. Keeps(file, file')
  BY <1>1, PullerKeeps
<1>4. UNCHANGED call
  BY DEF Puller, Pull, PullAnswered, PullLost, procs
<1>5. \A m \in Msg : heard'[m] >= heard[m]
  BY <1>1 DEF Puller, Pull, PullAnswered, PullLost
<1>6. DeliveredWasHeard'
  <2>1. CASE PullAnswered(r)
    <3>1. file' = file
          /\ \A m \in Msg : heard'[m] = IF m \in answer[r] THEN heard[m] + 1
                                         ELSE heard[m]
      BY <2>1 DEF PullAnswered
    <3>2. \A q \in Session : q # r => answer'[q] = answer[q]
      BY <1>2, <2>1 DEF PullAnswered
    <3> QED BY <1>1, <1>2, <3>1, <3>2 DEF HInv, DeliveredWasHeard
  <2>2. CASE PullLost(r)
    BY <2>2 DEF PullLost, Fault
  <2>3. CASE Pull(r)
    <3> DEFINE s == Drain(file, r)
               ids == Batch(file, r)
    <3>1. Sound(s) /\ Continues(file, s)
      BY <1>1, DrainSound, DrainSpares, SparesKeeps
    <3>2. UNCHANGED heard
      BY <2>3 DEF Pull
    <3>3. \/ file' = s /\ UNCHANGED answer
          \/ \E D \in Doomed(s) :
               /\ file' = Commit(Purge(s, D), r, ids)
               /\ answer' = [answer EXCEPT ![r] = Elems(ids) \ D]
      BY <2>3 DEF Pull
    <3>4. answer[r] = {}
      BY <2>3 DEF Pull
    <3> HIDE DEF s, ids
    <3>5. CASE file' = s /\ UNCHANGED answer
      BY <3>1, <3>2, <3>5 DEF HInv, DeliveredWasHeard, Continues
    <3>6. ASSUME NEW D \in Doomed(s),
                 file' = Commit(Purge(s, D), r, ids),
                 answer' = [answer EXCEPT ![r] = Elems(ids) \ D]
          PROVE  DeliveredWasHeard'
      <4>1. Sound(Purge(s, D))
        BY <3>1, DoomedFacts, PurgeSound
      <4>2. \A m \in Msg : Purge(s, D).status[m] =
              IF m \in D THEN "purged" ELSE s.status[m]
        BY <3>1 DEF Sound, State, Purge
      <4>3. \A m \in Msg : file'.status[m] =
              IF m \in Elems(ids) /\ Purge(s, D).status[m] = "in_flight"
                   /\ m[2] = r
              THEN "delivered" ELSE Purge(s, D).status[m]
        BY <3>6, <4>1 DEF Sound, State, Commit
      <4>4. answer'[r] = Elems(ids) \ D
            /\ \A q \in Session : q # r => answer'[q] = answer[q]
        BY <1>2, <3>6
      <4> SUFFICES ASSUME NEW m \in Msg, file'.status[m] = "delivered"
                   PROVE  heard'[m] > 0 \/ m \in answer'[m[2]]
        BY DEF DeliveredWasHeard
      <4>5. CASE m \in Elems(ids) /\ m \notin D /\ m[2] = r
        BY <4>4, <4>5
      <4>6. CASE ~(m \in Elems(ids) /\ m \notin D /\ m[2] = r)
        <5>1. m \notin D /\ s.status[m] = "delivered"
          BY <4>2, <4>3, <4>6
        <5>2. heard[m] > 0 \/ m \in answer[m[2]]
          BY <3>1, <5>1 DEF HInv, DeliveredWasHeard, Continues
        <5> QED BY <1>2, <3>2, <3>4, <4>4, <5>2
      <4> QED BY <4>5, <4>6
    <3> QED BY <3>3, <3>5, <3>6
  <2> QED BY <2>1, <2>2, <2>3 DEF Puller
<1>7. CallsHeard'
  <2> SUFFICES ASSUME NEW i \in Instance, NEW q \in Session,
                      NEW m \in Elems(call[i][q].ids)
               PROVE  /\ file'.status[m] # "unsent"
                      /\ call[i][q].phase = "accepted" =>
                           heard'[m] > 0 \/ file'.status[m] = "purged"
    BY <1>4 DEF CallsHeard, BatchHeard
  <2>1. m \in Msg /\ BatchHeard(call[i][q])
    BY DEF IInv, CallsHoldBatches, IsBatch, Elems, HInv, CallsHeard
  <2>2. heard'[m] >= heard[m] /\ heard[m] \in Nat /\ heard'[m] \in Nat
    BY <1>1, <1>5, <2>1 DEF IInv, ReadersOK
  <2> QED BY <1>3, <2>1, <2>2 DEF BatchHeard, Keeps, Refused
<1> QED BY <1>6, <1>7 DEF HInv

\* Mail recorded as delivered was accepted by a host, or its answer is on its
\* way, and the file stays well formed, whatever crashes, failed saves, lost acknowledgements, late starts and
\* sweeps come between the drain and the commit (deliverPendingInner, pull).
THEOREM DeliveredIsHeard ==
  ASSUME "pull" \notin FaultKinds
  PROVE  Spec => []DeliveriesSound
<1>1. Init => HInv
  <2> SUFFICES ASSUME Init PROVE HInv
    OBVIOUS
  <2>1. \A i \in Instance, r \in Session : Elems(call[i][r].ids) = {}
    BY EmptyFacts DEF Init, Idle
  <2>2. \A m \in Msg : file.status[m] = "unsent"
    BY DEF Init, InitialFile
  <2> QED BY <2>1, <2>2 DEF HInv, CallsHeard, BatchHeard, DeliveredWasHeard
<1>2. IInv /\ HInv /\ [Next]_vars => HInv'
  <2> SUFFICES ASSUME IInv, HInv, [Next]_vars PROVE HInv'
    OBVIOUS
  <2>1. IInv'
    BY NextIInv
  <2>2. CASE UNCHANGED vars
    BY <2>2 DEF vars, HInv, CallsHeard, BatchHeard, DeliveredWasHeard
  <2>3. CASE Next
    BY <2>1, <2>3, OperationsHeard, LifecycleHeard, ControllerHeard,
       PullerHeard DEF Next
  <2> QED BY <2>2, <2>3
<1>3. IInv /\ HInv => DeliveriesSound
  BY IInvImplies DEF HInv, DeliveriesSound
<1> QED BY <1>1, <1>2, <1>3, InductiveInvariant, PTL DEF Spec

-----------------------------------------------------------------------------
(***************************************************************************)
(* At most once to the model.  While no startup sweep takes a batch away   *)
(* from a call that still runs, every envelope has one owner: its queue, a *)
(* call, a pull answer, or nobody any more.  So what a call requeues was   *)
(* not committed by another, and an envelope is heard again only if a      *)
(* fault made its owner requeue what the model had already heard.  Plugin  *)
(* processes may start late, crash and host what they like.                *)
(***************************************************************************)
\* plugin.ts sweeps once, when a process starts.
NoLateSweep == [][~\E i \in Instance : StartupSweep(i)]_vars

Owned(i, r) == Elems(call[i][r].ids)

\* Two processes never hold the same envelope.
BatchesApart ==
  \A i, j \in Instance, r \in Session : i # j => Owned(i, r) \cap Owned(j, r) = {}

\* Prompts not accepted, or accepted for a fault already counted.
Unpaid == {"prompting", "failed"}

\* A batch is in flight until its call settles it.
BatchesOut ==
  \A i \in Instance, r \in Session : \A m \in Owned(i, r) :
    /\ file.status[m] \in {"in_flight", "purged"}
    /\ call[i][r].phase \in Unpaid /\ file.status[m] = "in_flight" =>
         heard[m] <= faults

\* A pull answer holds mail of its recipient that is committed.
AnswersCommitted ==
  \A r \in Session : \A m \in answer[r] :
    m[2] = r /\ file.status[m] \in {"delivered", "purged"} /\ heard[m] <= faults

\* Mail that waits was heard for a fault each time it was.
WaitingPaid ==
  \A m \in Msg : file.status[m] \in {"unsent", "pending"} => heard[m] <= faults

OneOwner ==
  /\ BatchesApart /\ BatchesOut /\ AnswersCommitted /\ WaitingPaid
  /\ RepeatsAccounted

\* The numbers, and whose the envelopes are.
LEMMA OwnerFacts ==
  ASSUME IInv
  PROVE  /\ faults \in Nat
         /\ \A m \in Msg : heard[m] \in Nat /\ m[2] \in Session
         /\ \A i \in Instance, r \in Session : \A m \in Owned(i, r) :
              m \in Msg /\ m[2] = r
         /\ \A r \in Session : answer[r] \subseteq Msg
<1>1. \A i \in Instance, r \in Session : IsBatch(r, call[i][r].ids)
  BY DEF IInv, CallsHoldBatches
<1>2. \A i \in Instance, r \in Session : \A m \in Owned(i, r) :
        m \in Msg /\ m[2] = r
  BY <1>1 DEF IsBatch, Owned, Elems
<1>3. faults \in Nat
  BY DeliveryAssumption DEF IInv, ReadersOK
<1> QED BY <1>2, <1>3, MsgFacts DEF IInv, ReadersOK

\* No step adds to a call but a drain.
LEMMA OwnedAfter ==
  ASSUME IInv, NEW i \in Instance, NEW r \in Session, NEW c,
         call' = [call EXCEPT ![i][r] = c]
  PROVE  /\ Owned(i, r)' = Elems(c.ids) /\ call'[i][r].phase = c.phase
         /\ \A j \in Instance, q \in Session : ~(j = i /\ q = r) =>
              Owned(j, q)' = Owned(j, q) /\ call'[j][q].phase = call[j][q].phase
<1>1. call'[i][r] = c
  BY DEF IInv, ProcessesOK
<1>2. \A j \in Instance, q \in Session :
        ~(j = i /\ q = r) => call'[j][q] = call[j][q]
  BY OtherCalls
<1> QED BY <1>1, <1>2 DEF Owned

\* A call that is over holds nothing.
LEMMA OwnedNone ==
  ASSUME IInv, NEW i \in Instance, NEW r \in Session,
         call' = [call EXCEPT ![i][r] = Idle]
  PROVE  /\ Owned(i, r)' = {}
         /\ \A j \in Instance, q \in Session : ~(j = i /\ q = r) =>
              Owned(j, q)' = Owned(j, q) /\ call'[j][q].phase = call[j][q].phase
<1>1. call'[i][r].ids = << >>
  BY DEF IInv, ProcessesOK, Idle
<1>2. \A j \in Instance, q \in Session :
        ~(j = i /\ q = r) => call'[j][q] = call[j][q]
  BY DEF IInv, ProcessesOK
<1> QED BY <1>1, <1>2, EmptyFacts DEF Owned

\* A step that hears nothing, settles nothing and hands nothing over.
LEMMA NothingHeard ==
  ASSUME IInv, IInv', OneOwner, Spares(file, file'), UNCHANGED heard,
         faults' >= faults,
         \A r \in Session : answer'[r] \subseteq answer[r],
         \A i \in Instance, r \in Session :
           \/ Owned(i, r)' = {}
           \/ /\ Owned(i, r)' = Owned(i, r)
              /\ call'[i][r].phase \in Unpaid => call[i][r].phase \in Unpaid
  PROVE  OneOwner'
<1> USE OwnerFacts
<1>1. BatchesApart'
  BY DEF OneOwner, BatchesApart
<1>2. faults' \in Nat
  BY DeliveryAssumption DEF IInv, ReadersOK
<1>3. BatchesOut'
  <2> SUFFICES ASSUME NEW i \in Instance, NEW r \in Session,
                      NEW m \in Owned(i, r)'
               PROVE  /\ file'.status[m] \in {"in_flight", "purged"}
                      /\ call'[i][r].phase \in Unpaid /\ file'.status[m] = "in_flight"
                           => heard'[m] <= faults'
    BY DEF BatchesOut
  <2>1. m \in Msg /\ m \in Owned(i, r)
        /\ (call'[i][r].phase \in Unpaid => call[i][r].phase \in Unpaid)
    OBVIOUS
  <2>2. /\ file.status[m] \in {"in_flight", "purged"}
        /\ call[i][r].phase \in Unpaid /\ file.status[m] = "in_flight" =>
             heard[m] <= faults
    BY <2>1 DEF OneOwner, BatchesOut
  <2>3. file'.status[m] \in {file.status[m], "purged"}
    BY <2>1, <2>2 DEF Spares, Continues, Keeps, Refused, Out
  <2> QED BY <1>2, <2>1, <2>2, <2>3
<1>4. AnswersCommitted'
  <2> SUFFICES ASSUME NEW r \in Session, NEW m \in answer'[r]
               PROVE  /\ m[2] = r /\ file'.status[m] \in {"delivered", "purged"}
                      /\ heard'[m] <= faults'
    BY DEF AnswersCommitted
  <2>1. m \in Msg /\ m \in answer[r]
    OBVIOUS
  <2>2. m[2] = r /\ file.status[m] \in {"delivered", "purged"}
        /\ heard[m] <= faults
    BY <2>1 DEF OneOwner, AnswersCommitted
  <2>3. file'.status[m] \in {"delivered", "purged"}
    BY <2>1, <2>2 DEF Spares, Continues, Keeps, Refused, Out
  <2> QED BY <1>2, <2>1, <2>2, <2>3
<1>5. WaitingPaid'
  BY <1>2 DEF OneOwner, WaitingPaid, Spares
<1>6. RepeatsAccounted'
  BY <1>2 DEF OneOwner, RepeatsAccounted
<1> QED BY <1>1, <1>3, <1>4, <1>5, <1>6 DEF OneOwner

\* A call of which the host heard the batch, or not, and moves on.
LEMMA BatchHeardOnce ==
  ASSUME IInv, IInv', OneOwner, NEW i \in Instance, NEW r \in Session, NEW c,
         call' = [call EXCEPT ![i][r] = c], c.ids = call[i][r].ids,
         UNCHANGED <<file, answer>>, faults' >= faults,
         \A m \in Msg : ~(m \in Owned(i, r) /\ file.status[m] = "in_flight") =>
           heard'[m] = heard[m],
         \A m \in Owned(i, r) : file.status[m] = "in_flight" =>
           /\ heard'[m] <= 1 + faults'
           /\ c.phase \in Unpaid => heard'[m] <= faults'
  PROVE  OneOwner'
<1> USE OwnerFacts
<1>1. \A j \in Instance, q \in Session : Owned(j, q)' = Owned(j, q)
  BY OwnedAfter DEF Owned
<1>2. faults' \in Nat /\ \A m \in Msg : heard'[m] \in Nat
  BY DeliveryAssumption DEF IInv, ReadersOK
<1>3. BatchesApart'
  BY <1>1 DEF OneOwner, BatchesApart
<1>4. BatchesOut'
  <2> SUFFICES ASSUME NEW j \in Instance, NEW q \in Session,
                      NEW m \in Owned(j, q)
               PROVE  /\ file'.status[m] \in {"in_flight", "purged"}
                      /\ call'[j][q].phase \in Unpaid /\ file'.status[m] = "in_flight"
                           => heard'[m] <= faults'
    BY <1>1 DEF BatchesOut
  <2>1. m \in Msg /\ m[2] = q
    OBVIOUS
  <2>2. /\ file.status[m] \in {"in_flight", "purged"}
        /\ call[j][q].phase \in Unpaid /\ file.status[m] = "in_flight" =>
             heard[m] <= faults
    BY DEF OneOwner, BatchesOut
  <2>3. CASE j = i /\ q = r
    <3>0. call'[i][r].phase = c.phase
      BY DEF IInv, ProcessesOK
    <3>1. call'[j][q].phase = c.phase /\ m \in Owned(i, r)
      BY <2>3, <3>0
    <3>2. /\ file' = file
          /\ file.status[m] = "in_flight" /\ c.phase \in Unpaid =>
               heard'[m] <= faults'
      BY <3>1
    <3> QED BY <2>2, <3>1, <3>2
  <2>4. CASE ~(j = i /\ q = r)
    <3>1. call'[j][q].phase = call[j][q].phase
      BY <2>4, OwnedAfter
    <3>2. m \notin Owned(i, r)
      BY <2>1, <2>4 DEF OneOwner, BatchesApart
    <3> QED BY <1>2, <2>1, <2>2, <3>1, <3>2
  <2> QED BY <2>3, <2>4
<1>5. AnswersCommitted'
  BY <1>2 DEF OneOwner, AnswersCommitted
<1>6. WaitingPaid'
  BY <1>2 DEF OneOwner, WaitingPaid
<1>7. RepeatsAccounted'
  BY <1>2 DEF OneOwner, RepeatsAccounted
<1> QED BY <1>3, <1>4, <1>5, <1>6, <1>7 DEF OneOwner

\* A call that settles its batch: its own envelopes in flight, and no other.
LEMMA BatchSettledOnce ==
  ASSUME IInv, IInv', OneOwner, NEW i \in Instance, NEW r \in Session,
         EndCall(i, r), UNCHANGED <<answer, heard, faults>>,
         \A m \in Msg : file'.status[m] # file.status[m] =>
           /\ m \in Owned(i, r) /\ file.status[m] = "in_flight"
           /\ file'.status[m] \in {"unsent", "pending"} =>
                call[i][r].phase \in Unpaid
  PROVE  OneOwner'
<1>1. /\ Owned(i, r)' = {}
      /\ \A j \in Instance, q \in Session : ~(j = i /\ q = r) =>
           Owned(j, q)' = Owned(j, q) /\ call'[j][q].phase = call[j][q].phase
  BY OwnedNone DEF EndCall
<1> USE OwnerFacts
<1>2. \A j \in Instance, q \in Session : Owned(j, q)' \subseteq Owned(j, q)
  BY <1>1
<1>3. BatchesApart'
  BY <1>2 DEF OneOwner, BatchesApart
<1>4. BatchesOut'
  <2> SUFFICES ASSUME NEW j \in Instance, NEW q \in Session,
                      NEW m \in Owned(j, q)', ~(j = i /\ q = r)
               PROVE  /\ file'.status[m] \in {"in_flight", "purged"}
                      /\ call'[j][q].phase \in Unpaid /\ file'.status[m] = "in_flight"
                           => heard'[m] <= faults'
    BY <1>1 DEF BatchesOut
  <2>1. m \in Owned(j, q) /\ call'[j][q].phase = call[j][q].phase
    BY <1>1
  <2>2. m \in Msg /\ m \notin Owned(i, r)
    BY <2>1 DEF OneOwner, BatchesApart
  <2>3. file'.status[m] = file.status[m]
    BY <2>2
  <2> QED BY <2>1, <2>3 DEF OneOwner, BatchesOut
<1>5. AnswersCommitted'
  BY DEF OneOwner, AnswersCommitted
<1>6. WaitingPaid'
  BY DEF OneOwner, WaitingPaid, BatchesOut
<1>7. RepeatsAccounted'
  BY DEF OneOwner, RepeatsAccounted
<1> QED BY <1>3, <1>4, <1>5, <1>6, <1>7 DEF OneOwner

\* A drain takes mail that waits, so mail no other call holds.
LEMMA BatchTakenOnce ==
  ASSUME IInv, IInv', OneOwner, NEW i \in Instance, NEW r \in Session, NEW c,
         call' = [call EXCEPT ![i][r] = c], c.phase = "prompting",
         Spares(file, file'), UNCHANGED <<answer, heard, faults>>,
         \A m \in Elems(c.ids) : /\ m \in Msg /\ file.status[m] = "pending"
                                 /\ file'.status[m] \in {"in_flight", "purged"}
  PROVE  OneOwner'
<1>1. /\ Owned(i, r)' = Elems(c.ids) /\ call'[i][r].phase = c.phase
      /\ \A j \in Instance, q \in Session : ~(j = i /\ q = r) =>
           Owned(j, q)' = Owned(j, q) /\ call'[j][q].phase = call[j][q].phase
  BY OwnedAfter
<1> USE OwnerFacts
<1>2. \A j \in Instance, q \in Session : Elems(c.ids) \cap Owned(j, q) = {}
  BY DEF OneOwner, BatchesOut
<1>3. BatchesApart'
  <2> SUFFICES ASSUME NEW j \in Instance, NEW k \in Instance,
                      NEW q \in Session, j # k
               PROVE  Owned(j, q)' \cap Owned(k, q)' = {}
    BY DEF BatchesApart
  <2>1. CASE q = r /\ (j = i \/ k = i)
    BY <1>1, <1>2, <2>1
  <2>2. CASE ~(q = r /\ (j = i \/ k = i))
    BY <1>1, <2>2 DEF OneOwner, BatchesApart
  <2> QED BY <2>1, <2>2
<1>4. BatchesOut'
  <2> SUFFICES ASSUME NEW j \in Instance, NEW q \in Session,
                      NEW m \in Owned(j, q)'
               PROVE  /\ file'.status[m] \in {"in_flight", "purged"}
                      /\ call'[j][q].phase \in Unpaid /\ file'.status[m] = "in_flight"
                           => heard'[m] <= faults'
    BY DEF BatchesOut
  <2>1. CASE j = i /\ q = r
    <3>1. m \in Elems(c.ids)
      BY <1>1, <2>1
    <3>2. m \in Msg /\ file.status[m] = "pending"
      BY <3>1
    <3>3. heard[m] <= faults
      BY <3>2 DEF OneOwner, WaitingPaid
    <3> QED BY <3>1, <3>3
  <2>2. CASE ~(j = i /\ q = r)
    <3>1. m \in Owned(j, q) /\ call'[j][q].phase = call[j][q].phase
      BY <1>1, <2>2
    <3>2. m \in Msg
      BY <3>1
    <3>3. /\ file.status[m] \in {"in_flight", "purged"}
          /\ call[j][q].phase \in Unpaid /\ file.status[m] = "in_flight" =>
               heard[m] <= faults
      BY <3>1 DEF OneOwner, BatchesOut
    <3>4. file'.status[m] \in {file.status[m], "purged"}
      BY <3>2, <3>3 DEF Spares, Continues, Keeps, Refused, Out
    <3> QED BY <3>1, <3>3, <3>4
  <2> QED BY <2>1, <2>2
<1>5. AnswersCommitted'
  <2> SUFFICES ASSUME NEW q \in Session, NEW m \in answer[q]
               PROVE  /\ m[2] = q /\ file'.status[m] \in {"delivered", "purged"}
                      /\ heard[m] <= faults
    BY DEF AnswersCommitted
  <2>1. m \in Msg /\ m[2] = q /\ file.status[m] \in {"delivered", "purged"}
        /\ heard[m] <= faults
    BY DEF OneOwner, AnswersCommitted
  <2> QED BY <2>1 DEF Spares, Continues, Keeps, Refused, Out
<1>6. WaitingPaid'
  BY DEF OneOwner, WaitingPaid, Spares
<1>7. RepeatsAccounted'
  BY DEF OneOwner, RepeatsAccounted
<1> QED BY <1>3, <1>4, <1>5, <1>6, <1>7 DEF OneOwner

\* Phase 1 of a push delivery.
LEMMA DrainAndPromptOnce ==
  ASSUME IInv, IInv', OneOwner, NEW i \in Instance, NEW r \in Session, NEW b,
         DrainAndPrompt(i, r, b), UNCHANGED <<answer, heard, faults>>
  PROVE  OneOwner'
<1> DEFINE s == Drain(file, r)
           ids == Batch(file, r)
           c == [phase |-> "prompting", ids |-> ids, cross |-> b]
<1>1. Sound(file) /\ Sound(s) /\ Spares(file, file')
  BY DrainSound, DrainAndPromptSpares DEF IInv
<1>2. \A m \in Elems(ids) :
        m \in Msg /\ file.status[m] = "pending" /\ s.status[m] = "in_flight"
  BY <1>1, BatchQueued, BatchHandedOver
<1>3. c.phase = "prompting" /\ c.ids = ids
  OBVIOUS
<1>4. \/ UNCHANGED call
      \/ SavePruned(s) /\ call' = [call EXCEPT ![i][r] = c]
  BY DEF DrainAndPrompt
<1> HIDE DEF s, ids, c
<1>5. CASE UNCHANGED call
  BY <1>1, <1>5, OwnerFacts, NothingHeard DEF Owned
<1>6. CASE SavePruned(s) /\ call' = [call EXCEPT ![i][r] = c]
  <2>1. Spares(s, file')
    BY <1>1, <1>6, SavePrunedSpares
  <2>2. \A m \in Elems(ids) : file'.status[m] \in {"in_flight", "purged"}
    BY <1>2, <2>1 DEF Spares, Out
  <2> QED BY <1>1, <1>2, <1>3, <1>6, <2>2, BatchTakenOnce
<1> QED BY <1>4, <1>5, <1>6

\* The phases of a push delivery.
LEMMA ControllerOnce ==
  ASSUME IInv, IInv', OneOwner, NEW i \in Instance, NEW r \in Session,
         Controller(i, r)
  PROVE  OneOwner'
<1> USE OwnerFacts
<1>1. Sound(file)
  BY DEF IInv
<1>2. UNCHANGED file => Spares(file, file')
  BY SparesSame
<1>3. UNCHANGED call =>
        \A j \in Instance, q \in Session :
          Owned(j, q)' = Owned(j, q) /\ call'[j][q].phase = call[j][q].phase
  BY DEF Owned
<1> DEFINE c(p) == [call[i][r] EXCEPT !.phase = p]
<1>4. \A p \in {"accepted", "failed"} :
        /\ c(p).phase = p /\ c(p).ids = call[i][r].ids
        /\ Goto(i, r, p) => call' = [call EXCEPT ![i][r] = c(p)]
  BY CallFacts DEF Goto, IInv, ProcessesOK, Call
<1> HIDE DEF c
<1>5. /\ faults' \in Nat /\ \A m \in Msg : heard'[m] \in Nat
      /\ \A m \in Owned(i, r) : m \in Msg /\ heard[m] <= 1 + faults
  BY DeliveryAssumption
     DEF OneOwner, RepeatsAccounted, IInv, ReadersOK
<1>6. \A m \in Owned(i, r) :
        file.status[m] = "in_flight" /\ call[i][r].phase \in Unpaid =>
          heard[m] <= faults
  BY DEF OneOwner, BatchesOut
<1>7. \A kind : Fault(kind) => faults' = faults + 1
  BY DEF Fault
<1>8. CASE Deliver(i, r)
  BY <1>8, DrainAndPromptOnce DEF Deliver
<1>9. CASE DeliverCross(i, r)
  <2>1. UNCHANGED <<answer, heard, faults>>
    BY <1>9 DEF DeliverCross
  <2>2. DrainAndPrompt(i, r, TRUE) \/ UNCHANGED <<file, call>>
    BY <1>9 DEF DeliverCross
  <2>3. CASE DrainAndPrompt(i, r, TRUE)
    BY <2>1, <2>3, DrainAndPromptOnce
  <2>4. CASE UNCHANGED <<file, call>>
    BY <1>2, <1>3, <2>1, <2>4, NothingHeard
  <2> QED BY <2>2, <2>3, <2>4
<1>10. CASE FallbackFires(i, r) \/ MarkLocal(i, r)
  <2>1. UNCHANGED <<file, call, answer, heard, faults>>
    BY <1>10 DEF FallbackFires, MarkLocal
  <2> QED BY <1>2, <1>3, <2>1, NothingHeard
<1>11. ASSUME NEW p \in {"accepted", "failed"}, Goto(i, r, p),
              Hear(call[i][r].ids), call[i][r].phase = "prompting",
              UNCHANGED <<file, answer>>,
              p = "failed" => faults' = faults + 1,
              p = "accepted" => faults' = faults
       PROVE  OneOwner'
  <2>1. \A m \in Msg : heard'[m] =
          IF m \in Owned(i, r) /\ m \in Persisted(file)
          THEN heard[m] + 1 ELSE heard[m]
    BY <1>11 DEF Hear, Owned
  <2>2. \A m \in Owned(i, r) :
          m \in Persisted(file) <=> file.status[m] = "in_flight"
    BY DEF OneOwner, BatchesOut, Persisted
  <2>3. \A m \in Owned(i, r) : file.status[m] = "in_flight" =>
          heard'[m] = heard[m] + 1 /\ heard[m] <= faults
    BY <1>6, <1>11, <2>1, <2>2 DEF Unpaid
  <2>4. faults' >= faults
        /\ \A m \in Owned(i, r) : file.status[m] = "in_flight" =>
             /\ heard'[m] <= 1 + faults'
             /\ c(p).phase \in Unpaid => heard'[m] <= faults'
    BY <1>4, <1>5, <1>11, <2>3 DEF Unpaid
  <2> QED BY <1>4, <1>11, <2>1, <2>2, <2>4, BatchHeardOnce
<1>12. CASE PromptAccepted(i, r)
  BY <1>11, <1>12 DEF PromptAccepted
<1>13. CASE AcknowledgementLost(i, r)
  BY <1>7, <1>11, <1>13 DEF AcknowledgementLost
<1>14. CASE PromptThrows(i, r)
  <2>1. /\ call[i][r].phase \in Unpaid /\ Goto(i, r, "failed")
        /\ UNCHANGED <<file, answer, heard, faults>>
    BY <1>14 DEF PromptThrows, Unpaid
  <2>2. \A m \in Owned(i, r) : file.status[m] = "in_flight" =>
          heard'[m] <= faults'
    BY <1>6, <2>1
  <2>3. \A m \in Owned(i, r) : heard'[m] <= 1 + faults'
    BY <1>5, <2>1
  <2> QED BY <1>4, <2>1, <2>2, <2>3, BatchHeardOnce
<1>15. CASE CommitFails(i, r)
  <2>1. /\ Goto(i, r, "failed") /\ faults' = faults + 1
        /\ UNCHANGED <<file, answer, heard>>
    BY <1>7, <1>15 DEF CommitFails
  <2>2. \A m \in Owned(i, r) : heard'[m] <= faults' /\ heard'[m] <= 1 + faults'
    BY <1>5, <2>1
  <2> QED BY <1>4, <2>1, <2>2, BatchHeardOnce
<1>16. CASE CommitBatch(i, r)
  <2>1. /\ file' = Commit(file, r, call[i][r].ids) /\ EndCall(i, r)
        /\ UNCHANGED <<answer, heard, faults>>
    BY <1>16 DEF CommitBatch
  <2>2. \A m \in Msg : file'.status[m] =
          IF m \in Owned(i, r) /\ file.status[m] = "in_flight" /\ m[2] = r
          THEN "delivered" ELSE file.status[m]
    BY <1>1, <2>1 DEF Sound, State, Commit, Owned
  <2> QED BY <2>1, <2>2, BatchSettledOnce
<1>17. CASE RequeueBatch(i, r)
  <2>1. /\ file' = Requeue(file, r, call[i][r].ids) /\ EndCall(i, r)
        /\ UNCHANGED <<answer, heard, faults>> /\ call[i][r].phase \in Unpaid
    BY <1>17 DEF RequeueBatch, Unpaid
  <2>2. \A m \in Msg : file'.status[m] =
          IF m \in Owned(i, r) /\ file.status[m] \in {"delivered", "in_flight"}
          THEN IF Spent(file, m) THEN "failed" ELSE "pending"
          ELSE file.status[m]
    BY <1>1, <2>1 DEF Sound, State, Requeue, Retryable, Owned
  <2>3. \A m \in Owned(i, r) : file.status[m] # "delivered"
    BY DEF OneOwner, BatchesOut
  <2> QED BY <2>1, <2>2, <2>3, BatchSettledOnce
<1>18. CASE RequeueFails(i, r)
  <2>1. /\ call' = [call EXCEPT ![i][r] = Idle] /\ faults' = faults + 1
        /\ UNCHANGED <<file, answer, heard>>
    BY <1>7, <1>18 DEF RequeueFails, EndCall
  <2>2. /\ Owned(i, r)' = {}
        /\ \A j \in Instance, q \in Session : ~(j = i /\ q = r) =>
             Owned(j, q)' = Owned(j, q) /\ call'[j][q].phase = call[j][q].phase
    BY <2>1, OwnedNone
  <2> QED BY <1>2, <2>1, <2>2, NothingHeard
<1> QED BY <1>8, <1>9, <1>10, <1>12, <1>13, <1>14, <1>15, <1>16, <1>17,
           <1>18 DEF Controller

\* Processes start and die.
LEMMA LifecycleOnce ==
  ASSUME IInv, IInv', OneOwner, NEW i \in Instance, Start(i) \/ Crash(i)
  PROVE  OneOwner'
<1>1. UNCHANGED <<file, answer, heard>> /\ Spares(file, file')
  BY SparesSame DEF Start, Crash
<1>2. faults' >= faults
  BY OwnerFacts DEF Start, Crash, Fault
<1>3. \A j \in Instance, q \in Session :
        call'[j][q] = call[j][q] \/ call'[j][q] = Idle
  <2>1. CASE Start(i)
    BY <2>1 DEF Start
  <2>2. CASE Crash(i)
    <3>1. call \in [Instance -> [Session -> Call]]
      BY DEF IInv, ProcessesOK
    <3>2. call' = [call EXCEPT ![i] = [q \in Session |-> Idle]]
      BY <2>2 DEF Crash
    <3> QED BY <3>1, <3>2
  <2> QED BY <2>1, <2>2
<1>4. Elems(Idle.ids) = {}
  BY EmptyFacts DEF Idle
<1>5. \A j \in Instance, q \in Session :
        \/ Owned(j, q)' = {}
        \/ Owned(j, q)' = Owned(j, q) /\ call'[j][q].phase = call[j][q].phase
  BY <1>3, <1>4 DEF Owned
<1> QED BY <1>1, <1>2, <1>5, NothingHeard

\* A pull commits mail that waits, and hears it when the answer is out.
LEMMA PullerOnce ==
  ASSUME IInv, IInv', OneOwner, NEW r \in Session, Puller(r)
  PROVE  OneOwner'
<1> USE OwnerFacts
<1>1. Sound(file) /\ answer \in [Session -> SUBSET Msg]
  BY DEF IInv, ReadersOK
<1>2. \A j \in Instance, q \in Session :
        Owned(j, q)' = Owned(j, q) /\ call'[j][q].phase = call[j][q].phase
  BY DEF Owned, Puller, Pull, PullAnswered, PullLost, procs
<1>3. faults' \in Nat /\ \A m \in Msg : heard'[m] \in Nat
  BY DeliveryAssumption DEF IInv, ReadersOK
<1>4. BatchesApart'
  BY <1>2 DEF OneOwner, BatchesApart
<1>5. CASE PullLost(r)
  <2>1. UNCHANGED <<file, heard>> /\ faults' = faults + 1
        /\ \A q \in Session : answer'[q] \subseteq answer[q]
    BY <1>1, <1>5 DEF PullLost, Fault
  <2> QED BY <1>2, <2>1, SparesSame, NothingHeard
<1>6. CASE PullAnswered(r)
  <2>1. UNCHANGED <<file, faults>>
        /\ \A m \in Msg : heard'[m] =
             IF m \in answer[r] THEN heard[m] + 1 ELSE heard[m]
    BY <1>6 DEF PullAnswered
  <2>2. answer'[r] = {} /\ \A q \in Session : q # r => answer'[q] = answer[q]
    BY <1>1, <1>6 DEF PullAnswered
  <2>3. \A m \in answer[r] : m[2] = r /\ heard[m] <= faults
          /\ file.status[m] \in {"delivered", "purged"}
    BY DEF OneOwner, AnswersCommitted
  <2>4. BatchesOut'
    BY <1>2, <2>1, <2>3 DEF OneOwner, BatchesOut
  <2>5. AnswersCommitted'
    BY <2>1, <2>2, <2>3 DEF OneOwner, AnswersCommitted
  <2>6. WaitingPaid'
    BY <2>1, <2>3 DEF OneOwner, WaitingPaid
  <2>7. RepeatsAccounted'
    BY <1>3, <2>1, <2>3 DEF OneOwner, RepeatsAccounted
  <2> QED BY <1>4, <2>4, <2>5, <2>6, <2>7 DEF OneOwner
<1>7. CASE Pull(r)
  <2> DEFINE s == Drain(file, r)
             ids == Batch(file, r)
  <2>1. Sound(s) /\ Spares(file, s)
    BY <1>1, DrainSound, DrainSpares
  <2>2. \A m \in Elems(ids) : /\ m \in Msg /\ m[2] = r
                              /\ file.status[m] = "pending"
                              /\ s.status[m] = "in_flight"
    BY <1>1, BatchQueued, BatchHandedOver
  <2>3. UNCHANGED <<heard, faults>>
    BY <1>7 DEF Pull, procs
  <2>4. \/ file' = s /\ UNCHANGED answer
        \/ \E D \in Doomed(s) :
             /\ file' = Commit(Purge(s, D), r, ids)
             /\ answer' = [answer EXCEPT ![r] = Elems(ids) \ D]
    BY <1>7 DEF Pull
  <2> HIDE DEF s, ids
  <2>5. CASE file' = s /\ UNCHANGED answer
    BY <1>2, <2>1, <2>3, <2>5, NothingHeard
  <2>6. ASSUME NEW D \in Doomed(s), file' = Commit(Purge(s, D), r, ids),
               answer' = [answer EXCEPT ![r] = Elems(ids) \ D]
        PROVE  OneOwner'
    <3> DEFINE t == Purge(s, D)
    <3>1. Sound(t) /\ Spares(s, t)
      BY <2>1, DoomedFacts, PurgeSound, PurgeSpares
    <3>2. Spares(file, t)
      BY <2>1, <3>1, SparesTransitive
    <3>3. \A m \in Msg : t.status[m] = IF m \in D THEN "purged" ELSE s.status[m]
      BY <2>1 DEF Sound, State, Purge
    <3> HIDE DEF t
    <3>4. \A m \in Msg : file'.status[m] =
            IF m \in Elems(ids) /\ t.status[m] = "in_flight" /\ m[2] = r
            THEN "delivered" ELSE t.status[m]
      BY <2>6, <3>1 DEF Sound, State, Commit, t
    <3>5. answer'[r] = Elems(ids) \ D
          /\ \A q \in Session : q # r => answer'[q] = answer[q]
      BY <1>1, <2>6
    <3>6. \A m \in Msg : file.status[m] \in Out =>
            file'.status[m] \in {file.status[m], "purged"}
      <4> SUFFICES ASSUME NEW m \in Msg, file.status[m] \in Out
                   PROVE  file'.status[m] \in {file.status[m], "purged"}
        OBVIOUS
      <4>1. m \notin Elems(ids)
        BY <2>2 DEF Out
      <4> QED BY <3>2, <3>4, <4>1 DEF Spares
    <3>7. \A m \in Msg : file.status[m] = "purged" => file'.status[m] = "purged"
      BY <2>2, <3>2, <3>4 DEF Spares, Continues, Keeps, Refused
    <3>8. \A m \in Msg : file'.status[m] \in {"unsent", "pending"} =>
            file.status[m] \in {"unsent", "pending"}
      BY <3>2, <3>4 DEF Spares
    <3>9. BatchesOut'
      <4> SUFFICES ASSUME NEW j \in Instance, NEW q \in Session,
                          NEW m \in Owned(j, q)
                   PROVE  /\ file'.status[m] \in {"in_flight", "purged"}
                          /\ call[j][q].phase \in Unpaid
                               /\ file'.status[m] = "in_flight" =>
                               heard[m] <= faults
        BY <1>2, <2>3 DEF BatchesOut
      <4>1. /\ m \in Msg /\ file.status[m] \in {"in_flight", "purged"}
            /\ call[j][q].phase \in Unpaid /\ file.status[m] = "in_flight" =>
                 heard[m] <= faults
        BY DEF OneOwner, BatchesOut
      <4> QED BY <3>6, <3>7, <4>1 DEF Out
    <3>10. AnswersCommitted'
      <4> SUFFICES ASSUME NEW q \in Session, NEW m \in answer'[q]
                   PROVE  /\ m[2] = q
                          /\ file'.status[m] \in {"delivered", "purged"}
                          /\ heard[m] <= faults
        BY <2>3 DEF AnswersCommitted
      <4>1. CASE q = r
        <5>1. m \in Elems(ids) /\ m \notin D
          BY <3>5, <4>1
        <5>2. m \in Msg /\ m[2] = r /\ t.status[m] = "in_flight"
          BY <2>2, <3>3, <5>1
        <5>3. heard[m] <= faults
          BY <2>2, <5>1 DEF OneOwner, WaitingPaid
        <5> QED BY <3>4, <4>1, <5>1, <5>2, <5>3
      <4>2. CASE q # r
        <5>1. m \in answer[q] /\ m \in Msg
          BY <3>5, <4>2
        <5>2. m[2] = q /\ file.status[m] \in {"delivered", "purged"}
              /\ heard[m] <= faults
          BY <5>1 DEF OneOwner, AnswersCommitted
        <5> QED BY <3>6, <3>7, <5>1, <5>2 DEF Out
      <4> QED BY <4>1, <4>2
    <3>11. WaitingPaid'
      BY <2>3, <3>8 DEF OneOwner, WaitingPaid
    <3>12. RepeatsAccounted'
      BY <2>3 DEF OneOwner, RepeatsAccounted
    <3> QED BY <1>4, <3>9, <3>10, <3>11, <3>12 DEF OneOwner
  <2> QED BY <2>4, <2>5, <2>6
<1> QED BY <1>5, <1>6, <1>7 DEF Puller

\* Tools, events and time own nothing.
LEMMA OperationsOnce ==
  ASSUME IInv, IInv', OneOwner, Operations
  PROVE  OneOwner'
<1>1. Spares(file, file')
  BY OperationsSpare DEF IInv
<1>2. UNCHANGED <<call, answer, heard, faults>>
  BY DEF Operations, SendMail, SendAsOperator, KickMember, Leave, Join,
         PauseOrResume, CloseSession, SessionEvent, TimePasses, procs
<1>3. \A i \in Instance, r \in Session :
        Owned(i, r)' = Owned(i, r) /\ call'[i][r].phase = call[i][r].phase
  BY <1>2 DEF Owned
<1> QED BY <1>1, <1>2, <1>3, OwnerFacts, NothingHeard

\* One owner is inductive as long as nobody sweeps.
LEMMA NextOnce ==
  ASSUME IInv, OneOwner, [Next]_vars,
         [~\E i \in Instance : StartupSweep(i)]_vars
  PROVE  OneOwner'
<1>1. IInv'
  BY NextIInv
<1>2. CASE UNCHANGED vars
  BY <1>2 DEF vars, OneOwner, BatchesApart, BatchesOut, AnswersCommitted,
              WaitingPaid, RepeatsAccounted, Owned
<1>3. CASE Next /\ ~\E i \in Instance : StartupSweep(i)
  BY <1>1, <1>3, OperationsOnce, ControllerOnce, LifecycleOnce, PullerOnce
     DEF Next, Lifecycle
<1> QED BY <1>2, <1>3

\* In the initial state nobody owns anything.
LEMMA InitOnce == Init => OneOwner
<1> SUFFICES ASSUME Init PROVE OneOwner
  OBVIOUS
<1>1. \A i \in Instance, r \in Session : Owned(i, r) = {}
  BY EmptyFacts DEF Init, Idle, Owned
<1>2. /\ \A r \in Session : answer[r] = {}
      /\ \A m \in Msg : heard[m] = 0
      /\ faults = 0
  BY DEF Init
<1> QED BY <1>1, <1>2 DEF OneOwner, BatchesApart, BatchesOut,
           AnswersCommitted, WaitingPaid, RepeatsAccounted

\* Every envelope has one owner until a startup sweep.
THEOREM OneOwnerEach == Spec /\ NoLateSweep => []OneOwner
<1>1. IInv /\ OneOwner /\ [Next]_vars
        /\ [~\E i \in Instance : StartupSweep(i)]_vars => OneOwner'
  BY NextOnce
<1> QED BY <1>1, InitOnce, InductiveInvariant, PTL DEF Spec, NoLateSweep

\* Without a late sweep a model hears an envelope again only when a save, an
\* acknowledgement or a pull answer failed, once for each of them.
THEOREM RepeatsPaidFor == Spec /\ NoLateSweep => []RepeatsAccounted
<1>1. OneOwner => RepeatsAccounted
  BY DEF OneOwner
<1> QED BY <1>1, OneOwnerEach, PTL

\* Without a late sweep nothing committed is ever pending again: the requeue
\* of a failed prompt, which also takes delivered envelopes back, never
\* finds one (requeueFailedDelivery, commitDelivery).
THEOREM CommittedStays == Spec /\ NoLateSweep => NeverResurrected
<1>1. ASSUME IInv, OneOwner, [Next]_vars,
             [~\E i \in Instance : StartupSweep(i)]_vars,
             NEW m \in Msg, file.status[m] = "delivered"
      PROVE  file'.status[m] \in {"delivered", "purged"}
  <2>1. Sound(file)
    BY <1>1 DEF IInv
  <2>2. Spares(file, file') => file'.status[m] \in {"delivered", "purged"}
    BY <1>1 DEF Spares, Out
  <2>3. UNCHANGED file => file'.status[m] \in {"delivered", "purged"}
    BY <1>1
  <2>4. CASE Operations
    BY <2>1, <2>2, <2>4, OperationsSpare
  <2>5. ASSUME NEW i \in Instance, NEW r \in Session, Controller(i, r)
        PROVE  file'.status[m] \in {"delivered", "purged"}
    <3>1. CASE Deliver(i, r)
      BY <2>1, <2>2, <3>1, DrainAndPromptSpares DEF Deliver
    <3>2. CASE DeliverCross(i, r)
      BY <2>1, <2>2, <2>3, <3>2, DrainAndPromptSpares DEF DeliverCross
    <3>3. CASE CommitBatch(i, r)
      BY <1>1, <2>1, <3>3 DEF CommitBatch, Commit, Sound, State
    <3>4. CASE RequeueBatch(i, r)
      <4>1. m \notin Owned(i, r)
        BY <1>1 DEF OneOwner, BatchesOut
      <4>2. m \notin Retryable(file, call[i][r].ids)
        BY <4>1 DEF Retryable, Owned
      <4> QED BY <1>1, <2>1, <3>4, <4>2
              DEF RequeueBatch, Requeue, Sound, State
    <3>5. CASE \/ FallbackFires(i, r) \/ PromptAccepted(i, r)
               \/ PromptThrows(i, r) \/ AcknowledgementLost(i, r)
               \/ CommitFails(i, r) \/ RequeueFails(i, r) \/ MarkLocal(i, r)
      <4>1. UNCHANGED file
        BY <3>5 DEF FallbackFires, PromptAccepted, PromptThrows,
                    AcknowledgementLost, CommitFails, RequeueFails, MarkLocal
      <4> QED BY <2>3, <4>1
    <3> QED BY <2>5, <3>1, <3>2, <3>3, <3>4, <3>5 DEF Controller
  <2>6. ASSUME NEW r \in Session, Puller(r)
        PROVE  file'.status[m] \in {"delivered", "purged"}
    <3> DEFINE s == Drain(file, r)
    <3>1. Sound(s) /\ Spares(file, s)
      BY <2>1, DrainSound, DrainSpares
    <3> HIDE DEF s
    <3>2. \/ UNCHANGED file
          \/ file' = s
          \/ \E D \in Doomed(s) : file' = Commit(Purge(s, D), r, Batch(file, r))
      BY <2>6 DEF Puller, Pull, PullAnswered, PullLost, s
    <3>3. ASSUME NEW D \in Doomed(s), NEW ids
          PROVE  Commit(Purge(s, D), r, ids).status[m] \in {"delivered", "purged"}
      <4>1. Sound(Purge(s, D)) /\ Spares(file, Purge(s, D))
        BY <3>1, DoomedFacts, PurgeSound, PurgeSpares, SparesTransitive
      <4>2. Purge(s, D).status[m] \in {"delivered", "purged"}
        BY <1>1, <4>1 DEF Spares, Out
      <4> QED BY <4>1, <4>2 DEF Commit, Sound, State
    <3> QED BY <2>2, <2>3, <3>1, <3>2, <3>3
  <2>7. ASSUME NEW i \in Instance, Start(i) \/ Crash(i)
        PROVE  UNCHANGED file
    BY <2>7 DEF Start, Crash
  <2>8. CASE UNCHANGED vars
    BY <2>3, <2>8 DEF vars
  <2> QED BY <1>1, <2>3, <2>4, <2>5, <2>6, <2>7, <2>8 DEF Next, Lifecycle
<1>2. IInv /\ OneOwner /\ [Next]_vars
        /\ [~\E i \in Instance : StartupSweep(i)]_vars =>
        [\A m \in Msg : file.status[m] = "delivered" =>
           file'.status[m] \in {"delivered", "purged"}]_vars
  BY <1>1
<1> QED BY <1>2, OneOwnerEach, InductiveInvariant, PTL
        DEF Spec, NoLateSweep, NeverResurrected

-----------------------------------------------------------------------------
(***************************************************************************)
(* The mail contract.                                                      *)
(***************************************************************************)
\* What a step between two states does, seen as MailContract sees it.
LEMMA ContractStep ==
  ASSUME Sound(file), Honours(file, file'), WithinBudget(file')
  PROVE  Contract!Next
<1>1. /\ file \in State
      /\ \A m \in Msg : file.attempts[m] \in Nat
  BY DEF Sound, State
<1>2. \A m \in Msg :
        /\ Stages(file)[m] = IF file.status[m] \in Refusals THEN "refused"
                             ELSE file.status[m]
        /\ Stages(file)'[m] = IF file'.status[m] \in Refusals THEN "refused"
                              ELSE file'.status[m]
        /\ RoomOf(file)[m] = file.chan[m[1]]
        /\ RoomOf(file)'[m] = file'.chan[m[1]]
  BY DEF Stages, RoomOf
<1>3. ASSUME NEW m \in Msg
      PROVE  Contract!Moves(m)
  <2>1. CASE HandsOver(file, file', m)
             /\ file'.attempts[m] = file.attempts[m] + 1
    <3>1. Contract!HandedOver(m)
      BY <1>2, <2>1
      DEF HandsOver, Out, Refusals, Contract!HandedOver, Contract!From, Contract!To
    <3> QED BY <2>1, <3>1 DEF Contract!Moves
  <2>2. CASE Settles(file, file', m)
             /\ file'.attempts[m] = file.attempts[m]
    <3>1. \/ Contract!Stays(m) \/ Contract!Posted(m) \/ Contract!Accepted(m)
          \/ Contract!PutBack(m) \/ Contract!Refused(m) \/ Contract!Deleted(m)
      BY <1>1, <1>2, <2>2, MailboxAssumption
      DEF Settles, Spent, Out, Refusals, Contract!Stays, Contract!Posted,
          Contract!Accepted, Contract!PutBack, Contract!Refused,
          Contract!Deleted, Contract!From, Contract!To
    <3> QED BY <2>2, <3>1 DEF Contract!Moves
  <2> QED BY <2>1, <2>2 DEF Honours
<1>4. Contract!Handed = HandedIn(file, file')
  BY DEF Contract!Handed, HandedIn
<1>5. ASSUME NEW c \in Channel, file'.life[c] # "gone"
      PROVE  Contract!Charges(c)
  <2>1. {m \in HandedIn(file, file') : RoomOf(file)[m] = c}
          = {m \in HandedIn(file, file') : file.chan[m[1]] = c}
    BY <1>2 DEF HandedIn
  <2>2. Charged(file, file', c)
    BY <1>5 DEF Honours
  <2>3. Budget[c] # 0 => file'.total[c] <= Budget[c]
    BY <1>5 DEF WithinBudget
  <2>4. \A S : Contract!Cardinality(S) = Cardinality(S)
    BY DEF Contract!Cardinality, Cardinality
  <2>5. /\ file'.total[c] = file.total[c]
             + Cardinality({m \in Contract!Handed : RoomOf(file)[m] = c})
        /\ Budget[c] # 0 => file'.total[c] <= Budget[c]
    BY <1>4, <2>1, <2>2, <2>3 DEF Charged
  <2> QED BY <2>4, <2>5 DEF Contract!Charges
<1>6. \A m \in Msg : ~Contract!From(m, {"unsent"}) =>
        RoomOf(file)'[m] = RoomOf(file)[m]
  BY <1>2 DEF Honours, KeepsRooms, Refusals, Contract!From
<1>7. \A c \in Channel : c \in GoneRooms(file)' \/ Contract!Charges(c)
  BY <1>5 DEF GoneRooms
<1>8. GoneRooms(file) \subseteq GoneRooms(file)'
  BY DEF Honours, KeepsRooms, GoneRooms
<1>9. Taking(file)' \subseteq Channel \ GoneRooms(file)'
  BY DEF Taking, Active, GoneRooms
<1>10. \A m, n \in Contract!Handed : m[2] = n[2]
  BY <1>4 DEF Honours
<1> QED BY <1>3, <1>6, <1>7, <1>8, <1>9, <1>10 DEF Contract!Next

LEMMA SavedHonours ==
  ASSUME NEW t, Sound(t), Honours(file, t), SavePruned(t)
  PROVE  Honours(file, file')
<1>1. PICK D \in Doomed(t) : file' = Purge(t, D)
  BY DEF SavePruned
<1> QED BY <1>1, DoomedFacts, PrunedHonours

LEMMA UnchangedHonours ==
  ASSUME Sound(file), UNCHANGED file
  PROVE  Honours(file, file')
<1>1. SameMailAndBooks(file, file')
  BY DEF SameMailAndBooks, SameBooks
<1> QED BY <1>1, TendsSame, TendsHonours

\* The operations of the tools, the CLI and the GUI.
LEMMA OperationsHonour ==
  ASSUME Sound(file), Operations
  PROVE  Honours(file, file')
<1>1. file \in State
  BY DEF Sound
<1>2. Tends(file, file)
  BY TendsSame DEF SameMailAndBooks, SameBooks
<1>3. CASE SendMail
  <2>1. PICK c \in Channel :
          /\ CanSend(file, c)
          /\ \E sender \in Members(file, c) \cap Senders :
               \E R \in RecipientSets(file, c, sender) :
                 SavePruned(Enqueue(file, c, R))
    BY <1>3 DEF SendMail
  <2>2. PICK sender \in Members(file, c) \cap Senders :
          \E R \in RecipientSets(file, c, sender) :
            SavePruned(Enqueue(file, c, R))
    BY <2>1
  <2>3. PICK R \in RecipientSets(file, c, sender) :
          SavePruned(Enqueue(file, c, R))
    BY <2>2
  <2>4. R \in SUBSET Session
    BY <1>1, RecipientsType
  <2>5. Sound(Enqueue(file, c, R))
    BY <2>1, <2>4, EnqueueSound DEF CanSend
  <2>6. Honours(file, Enqueue(file, c, R))
    BY <1>2, EnqueueHonours
  <2> QED BY <2>3, <2>5, <2>6, SavedHonours
<1>4. CASE SendAsOperator
  <2>1. PICK c \in Channel :
          /\ CanSend(file, c)
          /\ \E r \in Members(file, c) \ file.stale[c] :
               SavePruned(Enqueue(file, c, {r}))
    BY <1>4 DEF SendAsOperator
  <2>2. PICK r \in Members(file, c) \ file.stale[c] :
          SavePruned(Enqueue(file, c, {r}))
    BY <2>1
  <2>3. {r} \in SUBSET Session
    BY <1>1, MembersType
  <2>4. Sound(Enqueue(file, c, {r}))
    BY <2>1, <2>3, EnqueueSound DEF CanSend
  <2>5. Honours(file, Enqueue(file, c, {r}))
    BY <1>2, EnqueueHonours
  <2> QED BY <2>2, <2>4, <2>5, SavedHonours
<1>5. CASE KickMember
  <2>1. PICK c \in Channel :
          \E r \in Members(file, c) : SavePruned(Kick(file, c, r))
    BY <1>5 DEF KickMember
  <2>2. PICK r \in Members(file, c) : SavePruned(Kick(file, c, r))
    BY <2>1
  <2>3. r \in Session
    BY <1>1, MembersType
  <2>4. Sound(Kick(file, c, r))
    BY <1>5, <2>3, KickSound DEF KickMember
  <2>5. Honours(file, Kick(file, c, r))
    BY <2>3, KickHonours
  <2> QED BY <2>2, <2>4, <2>5, SavedHonours
<1>6. CASE Leave
  <2>1. PICK c \in Channel :
          \E r \in Members(file, c) : file' = Disconnect(file, c, r)
    BY <1>6 DEF Leave
  <2>2. PICK r \in Members(file, c) : file' = Disconnect(file, c, r)
    BY <2>1
  <2>3. r \in Session
    BY <1>1, MembersType
  <2> QED BY <2>2, <2>3, DisconnectTends, TendsHonours
<1>7. CASE CloseSession
  BY <1>7, PurgeChannelTends, TendsHonours DEF CloseSession
<1>8. CASE Join
  <2>1. \E c \in Channel, r \in Session :
          \/ file' = JoinChannel(file, c, r)
          \/ /\ CanCreate(file, c)
             /\ file' = OpenChannel(file, c) \/ file' = CreateChannel(file, c, r)
    BY <1>8 DEF Join
  <2>2. Tends(file, file')
    BY <2>1, RestTends
  <2> QED BY <2>2, TendsHonours
<1>9. CASE PauseOrResume
  <2>1. \E c, b : file' = SetPaused(file, c, b)
    BY <1>9 DEF PauseOrResume
  <2>2. Tends(file, file')
    BY <2>1, RestTends
  <2> QED BY <2>2, TendsHonours
<1>10. CASE SessionEvent
  <2>1. \E r : file' = MarkStale(file, r) \/ file' = ClearStale(file, r)
    BY <1>10 DEF SessionEvent
  <2>2. Tends(file, file')
    BY <2>1, RestTends
  <2> QED BY <2>2, TendsHonours
<1>11. CASE TimePasses
  <2>1. \/ file' = Age(file)
        \/ \E c, r : file' = EndCooldown(file, c, r)
        \/ \E c : file' = Overrun(file, c)
    BY <1>11 DEF TimePasses
  <2>2. Tends(file, file')
    BY <2>1, RestTends
  <2> QED BY <2>2, TendsHonours
<1> QED BY <1>3, <1>4, <1>5, <1>6, <1>7, <1>8, <1>9, <1>10, <1>11
        DEF Operations

\* The phases of a push delivery.
LEMMA ControllerHonours ==
  ASSUME Sound(file), NEW i \in Instance, NEW r \in Session, Controller(i, r)
  PROVE  Honours(file, file')
<1>1. ASSUME NEW b, DrainAndPrompt(i, r, b)
      PROVE  Honours(file, file')
  <2>1. Sound(Drain(file, r)) /\ Honours(file, Drain(file, r))
    BY DrainSound, DrainHonours
  <2>2. UNCHANGED file \/ file' = Drain(file, r) \/ SavePruned(Drain(file, r))
    BY <1>1 DEF DrainAndPrompt
  <2> QED BY <2>1, <2>2, SavedHonours, UnchangedHonours
<1>2. CASE Deliver(i, r)
  BY <1>1, <1>2 DEF Deliver
<1>3. CASE DeliverCross(i, r)
  <2>1. DrainAndPrompt(i, r, TRUE) \/ UNCHANGED file
    BY <1>3 DEF DeliverCross
  <2> QED BY <1>1, <2>1, UnchangedHonours
<1>4. CASE CommitBatch(i, r)
  <2>1. file' = Commit(file, r, call[i][r].ids)
    BY <1>4 DEF CommitBatch
  <2>2. Honours(file, file)
    BY TendsSame, TendsHonours DEF SameMailAndBooks, SameBooks
  <2> QED BY <2>1, <2>2, CommitHonours
<1>5. CASE RequeueBatch(i, r)
  BY <1>5, RequeueHonours DEF RequeueBatch
<1>6. CASE \/ FallbackFires(i, r) \/ PromptAccepted(i, r) \/ PromptThrows(i, r)
           \/ AcknowledgementLost(i, r) \/ CommitFails(i, r)
           \/ RequeueFails(i, r) \/ MarkLocal(i, r)
  <2>1. UNCHANGED file
    BY <1>6 DEF FallbackFires, PromptAccepted, PromptThrows,
                AcknowledgementLost, CommitFails, RequeueFails, MarkLocal
  <2> QED BY <2>1, UnchangedHonours
<1> QED BY <1>2, <1>3, <1>4, <1>5, <1>6 DEF Controller

\* A pull: a drain, a prune and a commit.
LEMMA PullerHonours ==
  ASSUME Sound(file), NEW r \in Session, Puller(r)
  PROVE  Honours(file, file')
<1> DEFINE s == Drain(file, r)
<1>1. Sound(s) /\ Honours(file, s)
  BY DrainSound, DrainHonours
<1> HIDE DEF s
<1>2. \/ UNCHANGED file
      \/ file' = s
      \/ \E D \in Doomed(s) : file' = Commit(Purge(s, D), r, Batch(file, r))
  BY DEF Puller, Pull, PullAnswered, PullLost, s
<1>3. ASSUME NEW D \in Doomed(s), NEW ids
      PROVE  Honours(file, Commit(Purge(s, D), r, ids))
  <2>1. Sound(Purge(s, D)) /\ Honours(file, Purge(s, D))
    BY <1>1, DoomedFacts, PurgeSound, PrunedHonours
  <2> QED BY <2>1, CommitHonours
<1> QED BY <1>1, <1>2, <1>3, UnchangedHonours

LEMMA NextHonours ==
  ASSUME IInv, [Next]_vars
  PROVE  Honours(file, file')
<1>1. Sound(file)
  BY DEF IInv
<1>2. ASSUME NEW i \in Instance, Lifecycle(i)
      PROVE  Honours(file, file')
  <2>1. UNCHANGED file \/ file' = Sweep(file)
    BY <1>2 DEF Lifecycle, Start, StartupSweep, Crash
  <2> QED BY <1>1, <2>1, SweepHonours, UnchangedHonours
<1>3. CASE UNCHANGED vars
  BY <1>1, <1>3, UnchangedHonours DEF vars
<1> QED BY <1>1, <1>2, <1>3, OperationsHonour, ControllerHonours,
        PullerHonours DEF Next

\* Whatever a plugin, a pull, a user or a crash does, and in whatever order,
\* the mail moves as MailContract says: it is handed over only while it is
\* pending and from a channel that takes mail, each hand-over is counted and
\* charged, and only the attempt cap or an operator ends what was handed out.
THEOREM DeliveryKeepsContract == Spec => KeepsContract
<1>1. Init => Contract!Init /\ WithinBudget(file)
  <2> SUFFICES ASSUME Init
               PROVE  Contract!Init /\ WithinBudget(file)
    OBVIOUS
  <2>1. file = InitialFile
    BY DEF Init
  <2>2. Stages(file) = [m \in Msg |-> "unsent"]
    BY <2>1 DEF InitialFile, Stages, Refusals
  <2>3. RoomOf(file) = [m \in Msg |-> NoChannel]
    BY <2>1, MsgFacts DEF InitialFile, RoomOf
  <2>4. GoneRooms(file) = {} /\ Taking(file) \subseteq Channel
    BY <2>1 DEF InitialFile, GoneRooms, Taking
  <2>5. WithinBudget(file)
    BY <2>1, MailboxAssumption DEF InitialFile, WithinBudget
  <2> QED BY <2>1, <2>2, <2>3, <2>4, <2>5 DEF InitialFile, Contract!Init
<1>2. IInv /\ WithinBudget(file) /\ [Next]_vars =>
        [Contract!Next]_(Contract!vars) /\ WithinBudget(file)'
  BY NextHonours, BudgetHonoured, ContractStep DEF IInv
<1> QED BY <1>1, <1>2, InductiveInvariant, PTL
        DEF Spec, KeepsContract, Contract!Spec

=============================================================================
