----------------------- MODULE ManagedDeliveryProofs -----------------------
(***************************************************************************)
(* Theorems about ManagedDelivery, for any number of agents, sessions,     *)
(* controllers, channels and sends, and any plans, faults and emergency    *)
(* calls.                                                                  *)
(***************************************************************************)
EXTENDS ManagedDelivery, MailboxProofs

-----------------------------------------------------------------------------
(***************************************************************************)
(* Types, and whose the envelopes of a tick are: a tick that drained holds *)
(* a batch of the session it visits, any other tick none.                  *)
(***************************************************************************)
Holding == {"drained", "returning", "prompting", "heard", "settling"}

Owned(k) == Elems(tick[k].ids)

Holds(t) ==
  /\ IsBatch(t.host, t.ids)
  /\ IF t.phase \in Holding THEN Elems(t.ids) # {} ELSE t.ids = << >>

TicksOK == tick \in [Controller -> Tick] /\ \A k \in Controller : Holds(tick[k])

RestOK ==
  /\ agents \in [Agent -> AgentRecord]
  /\ closed \subseteq Controller
  /\ current \in Controller \cup {NoController}
  /\ acp = IF "acp" \in plan THEN Agent ELSE {}
  /\ conn \in [Host -> {"down", "idle", "running", "stale"}]
  /\ acts \in [Agent -> {"none", "stop", "stopped", "restart", "resumed"}]
  /\ switch \in [stop : {"none", "pausing"},
                 resume : {"none", "unpausing", "clearing"}]
  /\ memory \in Coordination
  /\ disk \in Coordination
  /\ heard \in [Msg -> Nat]
  /\ removed \subseteq Host
  /\ byUser \subseteq Channel
  /\ crossed \in BOOLEAN
  /\ plan \in Plans
  /\ faults \in 0..MaxFaults
  /\ switches \in 0..MaxSwitches

IInv == Sound(file) /\ TicksOK /\ RestOK

\* The inductive invariant says what the type invariant says.
LEMMA IInvTypes == IInv => TypeOK
BY DEF IInv, Sound, TicksOK, RestOK, TypeOK

\* An agent and its session, to begin with.
LEMMA IdleTickFacts == IdleTick \in Tick /\ Holds(IdleTick)
<1>1. (CHOOSE a \in Agent : TRUE) \in Agent /\ (CHOOSE h \in Host : TRUE) \in Host
  <2>1. Agent # {} /\ HomeHost \in [Agent -> Host]
    BY ManagedAssumption
  <2>2. PICK a \in Agent : HomeHost[a] \in Host
    BY <2>1
  <2> QED BY <2>1, <2>2
<1>2. << >> \in Seq(Msg) /\ Elems(<< >>) = {} /\ \A r : IsBatch(r, << >>)
  BY EmptyFacts DEF IsBatch
<1> QED BY <1>1, <1>2 DEF IdleTick, Tick, Phase, Holds, Holding

\* Mail for an agent's session is for a managed session.
LEMMA HostsAreSessions == Host \subseteq Session
BY ManagedAssumption, MailboxAssumption

\* The invariant holds when the coordinator starts.
LEMMA InitIInv == Init => IInv
<1> SUFFICES ASSUME Init
             PROVE  IInv
  OBVIOUS
<1>1. Sound(file)
  <2>1. file.status = [m \in Msg |-> "unsent"]
        /\ file.queues = [r \in Session |-> << >>] /\ file.sent = 0
    BY DEF Init
  <2>2. [r \in Session |-> << >>] \in [Session -> Seq(Msg)]
    BY EmptyFacts
  <2>3. InitialMembers \in [Channel -> Seq(Session)]
    BY ManagedAssumption
  <2>4. file \in State
    <3> DEFINE members == InitialMembers
               queues == [r \in Session |-> << >>]
               f == [life |-> [c \in Channel |-> "active"],
                     paused |-> {},
                     members |-> members,
                     stale |-> [c \in Channel |-> {}],
                     total |-> [c \in Channel |-> 0],
                     cooling |-> {}, overtime |-> {}, sent |-> 0, aged |-> 0,
                     chan |-> [n \in Send |-> NoChannel],
                     status |-> [m \in Msg |-> "unsent"],
                     attempts |-> [m \in Msg |-> 0],
                     queues |-> queues]
    <3>1. file = f
      BY DEF Init
    <3>2. members \in [Channel -> Seq(Session)] /\ queues \in [Session -> Seq(Msg)]
      BY <2>2, <2>3
    <3> HIDE DEF members, queues
    <3>3. f \in State
      BY <3>2 DEF State, Status
    <3> QED BY <3>1, <3>3
  <2>5. Queued(file)
    BY <2>1, EmptyFacts, MsgFacts DEF Queued
  <2>6. \A m \in Msg : m[1] \in Nat /\ m[1] > 0
    BY MsgFacts, MailboxAssumption DEF Send
  <2>7. Fresh(file)
    BY <2>1, <2>6 DEF Fresh
  <2> QED BY <2>4, <2>5, <2>7 DEF Sound
<1>2. TicksOK
  BY IdleTickFacts DEF Init, TicksOK
<1>3. agents \in [Agent -> AgentRecord]
  <2>1. NoAgent \in AgentRecord
    BY DEF NoAgent, AgentRecord, AgentStatus
  <2>2. \A x \in AgentRecord : \A h \in Host :
          [x EXCEPT !.status = "idle", !.host = h] \in AgentRecord
    BY DEF AgentRecord, AgentStatus
  <2>3. \A a \in Agent : HomeHost[a] \in Host
    BY ManagedAssumption
  <2>4. agents = [a \in Agent |-> [NoAgent EXCEPT !.status = "idle",
                                                !.host = HomeHost[a]]]
    BY DEF Init
  <2> QED BY <2>1, <2>2, <2>3, <2>4
<1>4. RestOK
  <2>1. /\ closed = Controller /\ current = NoController
        /\ acp = IF "acp" \in plan THEN Agent ELSE {}
        /\ conn = [h \in Host |-> "idle"] /\ acts = [a \in Agent |-> "none"]
        /\ switch = [stop |-> "none", resume |-> "none"]
        /\ memory = [stopped |-> FALSE, paused |-> {}] /\ disk = memory
        /\ heard = [m \in Msg |-> 0] /\ removed = {} /\ byUser = {}
        /\ crossed = FALSE /\ plan \in Plans /\ faults = 0 /\ switches = 0
    BY DEF Init
  <2>2. memory \in Coordination /\ disk \in Coordination
    BY <2>1 DEF Coordination
  <2>3. /\ conn \in [Host -> {"down", "idle", "running", "stale"}]
        /\ acts \in [Agent -> {"none", "stop", "stopped", "restart", "resumed"}]
        /\ switch \in [stop : {"none", "pausing"},
                       resume : {"none", "unpausing", "clearing"}]
        /\ heard \in [Msg -> Nat]
    BY <2>1
  <2>4. faults \in 0..MaxFaults /\ switches \in 0..MaxSwitches
    BY <2>1, ManagedAssumption
  <2> QED BY <1>3, <2>1, <2>2, <2>3, <2>4 DEF RestOK
<1> QED BY <1>1, <1>2, <1>4 DEF IInv

-----------------------------------------------------------------------------
(***************************************************************************)
(* The steps of a tick change its own record only.                         *)
(***************************************************************************)
\* What a step leaves of the other variables' types.
LEMMA RestKept ==
  ASSUME RestOK, agents' \in [Agent -> AgentRecord],
         conn' \in [Host -> {"down", "idle", "running", "stale"}],
         faults' \in 0..MaxFaults, heard' \in [Msg -> Nat],
         UNCHANGED <<closed, current, acts, acp, removed, plan, coordination>>
  PROVE  RestOK'
BY DEF RestOK, coordination

\* A fault is one of the bounded number.
LEMMA FaultType ==
  ASSUME RestOK, NEW kind, Fault(kind)
  PROVE  faults' \in 0..MaxFaults
BY ManagedAssumption DEF RestOK, Fault

\* One tick changes, to a record that is in order.
LEMMA TickStep ==
  ASSUME TicksOK, NEW k \in Controller, NEW t \in Tick, Holds(t),
         tick' = [tick EXCEPT ![k] = t]
  PROVE  TicksOK'
BY DEF TicksOK

\* The records the loop writes.
LEMMA TickRecords ==
  ASSUME TicksOK, NEW k \in Controller
  PROVE  /\ tick[k] \in Tick /\ Holds(tick[k])
         /\ \A p \in Phase : Step(k, p) =>
              tick' = [tick EXCEPT ![k] = [tick[k] EXCEPT !.phase = p]]
         /\ \A p \in Phase :
              /\ [tick[k] EXCEPT !.phase = p] \in Tick
              /\ (p \in Holding <=> tick[k].phase \in Holding) =>
                   Holds([tick[k] EXCEPT !.phase = p])
         /\ [IdleTick EXCEPT !.phase = "next", !.todo = tick[k].todo] \in Tick
         /\ Holds([IdleTick EXCEPT !.phase = "next", !.todo = tick[k].todo])
<1>1. tick[k] \in Tick /\ Holds(tick[k]) /\ tick \in [Controller -> Tick]
  BY DEF TicksOK
<1>2. \A p \in Phase : Step(k, p) =>
        tick' = [tick EXCEPT ![k] = [tick[k] EXCEPT !.phase = p]]
  BY <1>1 DEF Step
<1>3. \A x \in Tick : \A p \in Phase :
        /\ [x EXCEPT !.phase = p] \in Tick
        /\ Holds(x) /\ (p \in Holding <=> x.phase \in Holding) =>
             Holds([x EXCEPT !.phase = p])
  <2> SUFFICES ASSUME NEW x \in Tick, NEW p \in Phase
               PROVE  /\ [x EXCEPT !.phase = p] \in Tick
                      /\ Holds(x) /\ (p \in Holding <=> x.phase \in Holding) =>
                           Holds([x EXCEPT !.phase = p])
    OBVIOUS
  <2> DEFINE y == [x EXCEPT !.phase = p]
  <2>1. y \in Tick /\ y.phase = p /\ y.host = x.host /\ y.ids = x.ids
    BY DEF Tick
  <2> HIDE DEF y
  <2>2. Holds(x) /\ (p \in Holding <=> x.phase \in Holding) => Holds(y)
    BY <2>1 DEF Holds
  <2> QED BY <2>1, <2>2 DEF y
<1>4. \A x \in Tick : \A d \in SUBSET (Agent \X Host) :
        /\ [x EXCEPT !.phase = "next", !.todo = d] \in Tick
        /\ Holds(x) /\ x.phase \notin Holding =>
             Holds([x EXCEPT !.phase = "next", !.todo = d])
  <2> SUFFICES ASSUME NEW x \in Tick, NEW d \in SUBSET (Agent \X Host)
               PROVE  /\ [x EXCEPT !.phase = "next", !.todo = d] \in Tick
                      /\ Holds(x) /\ x.phase \notin Holding =>
                           Holds([x EXCEPT !.phase = "next", !.todo = d])
    OBVIOUS
  <2> DEFINE y == [x EXCEPT !.phase = "next", !.todo = d]
  <2>1. /\ y \in Tick /\ y.phase = "next"
        /\ y.host = x.host /\ y.ids = x.ids
    BY DEF Tick, Phase
  <2> HIDE DEF y
  <2>2. Holds(x) /\ x.phase \notin Holding => Holds(y)
    BY <2>1 DEF Holds, Holding
  <2> QED BY <2>1, <2>2 DEF y
<1>5. IdleTick.phase \notin Holding /\ tick[k].todo \in SUBSET (Agent \X Host)
  BY <1>1 DEF IdleTick, Holding, Tick
<1> QED BY <1>1, <1>2, <1>3, <1>4, <1>5, IdleTickFacts

\* A call that moves a tick on within the loop, with or without its batch.
LEMMA StepTicks ==
  ASSUME TicksOK, NEW k \in Controller, NEW p \in Phase,
         p \in Holding <=> tick[k].phase \in Holding, Step(k, p)
  PROVE  TicksOK'
BY TickRecords, TickStep

\* The loop goes on, or the tick ends.
LEMMA LoopTicks ==
  ASSUME TicksOK, NEW k \in Controller, Continue(k) \/ End(k)
  PROVE  TicksOK'
<1>1. CASE Continue(k)
  <2> DEFINE t == [IdleTick EXCEPT !.phase = "next", !.todo = tick[k].todo]
  <2>1. t \in Tick /\ Holds(t)
    BY TickRecords
  <2>2. tick' = [tick EXCEPT ![k] = t]
    BY <1>1 DEF Continue
  <2> HIDE DEF t
  <2> QED BY <2>1, <2>2, TickStep
<1>2. CASE End(k)
  BY <1>2, IdleTickFacts, TickStep DEF End
<1> QED BY <1>1, <1>2

\* What a prompt was worth.
LEMMA SettleTicks ==
  ASSUME TicksOK, NEW k \in Controller, tick[k].phase \in Holding,
         NEW o \in {"delivered", "failed", "uncertain"}, Settle(k, o)
  PROVE  TicksOK'
<1> DEFINE t == [tick[k] EXCEPT !.phase = "settling", !.outcome = o]
<1>1. tick[k] \in Tick /\ Holds(tick[k]) /\ tick \in [Controller -> Tick]
  BY DEF TicksOK
<1>2. /\ t \in Tick /\ t.phase = "settling"
      /\ t.ids = tick[k].ids /\ t.host = tick[k].host
  BY <1>1 DEF Tick, Phase
<1>3. tick' = [tick EXCEPT ![k] = t]
  BY <1>1 DEF Settle
<1> HIDE DEF t
<1>4. Holds(t)
  BY <1>1, <1>2 DEF Holds, Holding
<1> QED BY <1>2, <1>3, <1>4, TickStep

\* The interval timer and the head of the loop.
LEMMA VisitTicks ==
  ASSUME TicksOK, RestOK, NEW k \in Controller, TimerFires(k) \/ Visit(k)
  PROVE  TicksOK'
<1>1. CASE TimerFires(k)
  <2> DEFINE d == {<<a, agents[a].host>> :
                     a \in {b \in Agent :
                              /\ agents[b].host # NoHost
                              /\ agents[b].status \notin
                                   {"none", "stopped", "failed"}}}
             t == [IdleTick EXCEPT !.phase = "next", !.todo = d]
  <2>1. \A a \in Agent : agents[a].host \in Host \cup {NoHost}
    BY DEF RestOK, AgentRecord
  <2>2. d \in SUBSET (Agent \X Host)
    BY <2>1
  <2>3. tick' = [tick EXCEPT ![k] = t]
    BY <1>1, Zenon DEF TimerFires
  <2> HIDE DEF d
  <2>4. IdleTick \in Tick /\ Holds(IdleTick) /\ IdleTick.ids = << >>
    BY IdleTickFacts DEF IdleTick
  <2>5. /\ t \in Tick /\ t.phase = "next"
        /\ t.ids = IdleTick.ids /\ t.host = IdleTick.host
    BY <2>2, <2>4 DEF Tick, Phase
  <2> HIDE DEF t
  <2>6. Holds(t)
    BY <2>4, <2>5 DEF Holds, Holding
  <2> QED BY <2>3, <2>5, <2>6, TickStep
<1>2. CASE Visit(k)
  <2>1. CASE End(k)
    BY <2>1, LoopTicks
  <2>2. ASSUME NEW v \in tick[k].todo,
               tick' = [tick EXCEPT ![k].phase = "asking",
                                    ![k].todo = @ \ {v},
                                    ![k].agent = v[1],
                                    ![k].host = v[2]]
        PROVE  TicksOK'
    <3> DEFINE t == [tick[k] EXCEPT !.phase = "asking", !.todo = @ \ {v},
                                    !.agent = v[1], !.host = v[2]]
    <3>1. tick[k] \in Tick /\ Holds(tick[k]) /\ tick \in [Controller -> Tick]
      BY DEF TicksOK
    <3>2. v[1] \in Agent /\ v[2] \in Host
      BY <3>1 DEF Tick
    <3>3. t \in Tick /\ t.ids = tick[k].ids /\ t.phase = "asking"
      BY <3>1, <3>2 DEF Tick, Phase
    <3>4. tick[k].ids = << >>
      BY <1>2, <3>1 DEF Visit, In, Holds, Holding
    <3>5. Holds(t)
      BY <3>3, <3>4, EmptyFacts DEF Holds, Holding, IsBatch
    <3>6. tick' = [tick EXCEPT ![k] = t]
      BY <2>2, <3>1
    <3> HIDE DEF t
    <3> QED BY <3>3, <3>5, <3>6, TickStep
  <2> QED BY <1>2, <2>1, <2>2 DEF Visit
<1> QED BY <1>1, <1>2

\* The host's report.
LEMMA AskTicks ==
  ASSUME TicksOK, NEW k \in Controller, In(k, "asking"),
         NEW s \in {"idle", "running", "stale"},
         tick' = [tick EXCEPT ![k].phase = "noting", ![k].seen = s]
  PROVE  TicksOK'
<1> DEFINE t == [tick[k] EXCEPT !.phase = "noting", !.seen = s]
<1>1. tick[k] \in Tick /\ Holds(tick[k]) /\ tick \in [Controller -> Tick]
  BY DEF TicksOK
<1>2. \A x \in Tick : x.phase \notin Holding /\ Holds(x) =>
        LET y == [x EXCEPT !.phase = "noting", !.seen = s]
        IN  y \in Tick /\ Holds(y)
  <2> SUFFICES ASSUME NEW x \in Tick, x.phase \notin Holding, Holds(x)
               PROVE  LET y == [x EXCEPT !.phase = "noting", !.seen = s]
                      IN  y \in Tick /\ Holds(y)
    OBVIOUS
  <2> DEFINE y == [x EXCEPT !.phase = "noting", !.seen = s]
  <2>1. /\ y \in Tick /\ y.phase = "noting"
        /\ y.host = x.host /\ y.ids = x.ids
    BY DEF Tick, Phase
  <2> HIDE DEF y
  <2>2. Holds(y)
    BY <2>1 DEF Holds, Holding
  <2> QED BY <2>1, <2>2 DEF y
<1>3. t \in Tick /\ Holds(t)
  BY <1>1, <1>2 DEF In, Holding
<1>4. tick' = [tick EXCEPT ![k] = t]
  BY <1>1
<1> HIDE DEF t
<1> QED BY <1>3, <1>4, TickStep

-----------------------------------------------------------------------------
(***************************************************************************)
(* The drain for an agent: an ordinary drain of a queue in which the mail  *)
(* of channels the session is no member of is held.                        *)
(***************************************************************************)
LEMMA ReachingSound ==
  ASSUME NEW s, Sound(s), NEW h
  PROVE  /\ Sound(Reaching(s, h))
         /\ Reaching(s, h).status = s.status /\ Reaching(s, h).total = s.total
         /\ Reaching(s, h).life = s.life /\ Reaching(s, h).members = s.members
         /\ Reaching(s, h).paused = s.paused
<1>1. Elsewhere(s, h) \subseteq Channel
  BY DEF Elsewhere
<1>2. Reaching(s, h) \in State
  BY <1>1 DEF Sound, State, Reaching
<1> QED BY <1>2, SameMail DEF Sound, State, Reaching

\* What it hands over was pending and is the session's own; nothing else
\* that was sent before comes back.
LEMMA DrainManagedFacts ==
  ASSUME NEW s, Sound(s), NEW h \in Session
  PROVE  /\ Sound(DrainManaged(s, h))
         /\ Spares(s, DrainManaged(s, h))
         /\ IsBatch(h, Batch(Reaching(s, h), h))
         /\ \A m \in Elems(Batch(Reaching(s, h), h)) :
              /\ m \in Msg /\ m[2] = h /\ s.status[m] = "pending"
              /\ DrainManaged(s, h).status[m] = "in_flight"
         /\ DrainManaged(s, h).life = s.life
         /\ DrainManaged(s, h).members = s.members
         /\ DrainManaged(s, h).paused = s.paused
<1> DEFINE u == Reaching(s, h)
           d == Drain(u, h)
           t == DrainManaged(s, h)
<1>1. /\ Sound(u) /\ u.status = s.status /\ u.total = s.total
      /\ u.life = s.life /\ u.members = s.members /\ u.paused = s.paused
  BY ReachingSound
<1>2. t = [d EXCEPT !.overtime = s.overtime]
  BY DEF DrainManaged
<1> HIDE DEF u, t
<1>3. d.life = u.life /\ d.members = u.members /\ d.paused = u.paused
  BY <1>1 DEF Drain, DrainAs, Sound, State
<1>4. /\ Sound(d) /\ Spares(u, d) /\ IsBatch(h, Batch(u, h))
      /\ \A m \in Elems(Batch(u, h)) :
           m \in Msg /\ m[2] = h /\ u.status[m] = "pending"
           /\ d.status[m] = "in_flight"
  BY <1>1, DrainSound, DrainSpares, BatchFacts, BatchQueued, BatchHandedOver
<1> HIDE DEF d
<1>5. s.overtime \in SUBSET Channel
  BY DEF Sound, State
<1>6. t \in State
  BY <1>2, <1>4, <1>5 DEF Sound, State
<1>7. /\ t.status = d.status /\ t.queues = d.queues /\ t.sent = d.sent
      /\ t.chan = d.chan /\ t.total = d.total /\ t.life = d.life
      /\ t.members = d.members /\ t.paused = d.paused
  BY <1>2, <1>4 DEF Sound, State
<1>8. Sound(t)
  BY <1>4, <1>6, <1>7, SameMail
<1>9. Spares(s, u) /\ Spares(d, t)
  BY <1>1, <1>7, SparesSame
<1>10. Spares(s, t)
  BY <1>4, <1>9, SparesTransitive
<1> QED BY <1>1, <1>3, <1>4, <1>7, <1>8, <1>10 DEF u, t

\* Also when pruneMessages runs with the save.
LEMMA DrainedFacts ==
  ASSUME IInv, NEW k \in Controller, DrainForAgent(k)
  PROVE  \/ UNCHANGED file /\ Continue(k)
         \/ /\ Sound(file') /\ Spares(file, file') /\ Continue(k)
         \/ LET h == tick[k].host
                ids == Batch(Reaching(file, h), h)
            IN  /\ Sound(file') /\ Spares(file, file') /\ IsBatch(h, ids)
                /\ Elems(ids) # {}
                /\ tick' = [tick EXCEPT ![k] =
                              [tick[k] EXCEPT !.phase = "drained", !.ids = ids]]
                /\ \A m \in Elems(ids) :
                     /\ m \in Msg /\ m[2] = h /\ file.status[m] = "pending"
                     /\ file'.status[m] \in {"in_flight", "purged"}
<1> DEFINE h == tick[k].host
           ids == Batch(Reaching(file, h), h)
           s == DrainManaged(file, h)
<1>1. Sound(file) /\ tick \in [Controller -> Tick] /\ h \in Session
  BY HostsAreSessions DEF IInv, TicksOK, Tick
<1>2. /\ Sound(s) /\ Spares(file, s) /\ IsBatch(h, ids)
      /\ \A m \in Elems(ids) :
           /\ m \in Msg /\ m[2] = h /\ file.status[m] = "pending"
           /\ s.status[m] = "in_flight"
  BY <1>1, DrainManagedFacts
<1>3. CASE ~Clear(k)
  BY <1>3 DEF DrainForAgent
<1>4. CASE Clear(k)
  <2>1. PICK D \in Doomed(s) :
          /\ file' = Purge(s, IF ids = << >> THEN {} ELSE D)
          /\ IF ids = << >>
             THEN Continue(k)
             ELSE tick' = [tick EXCEPT ![k].phase = "drained", ![k].ids = ids]
    BY <1>4 DEF DrainForAgent
  <2> HIDE DEF s, ids
  <2>2. (IF ids = << >> THEN {} ELSE D) \in SUBSET Persisted(s)
    BY DoomedFacts
  <2>3. Sound(file') /\ Spares(s, file')
    BY <1>2, <2>1, <2>2, PurgeSound, PurgeSpares
  <2>4. Spares(file, file')
    BY <1>2, <2>3, SparesTransitive
  <2>5. CASE ids = << >>
    BY <2>1, <2>3, <2>4, <2>5
  <2>6. CASE ids # << >>
    <3>1. tick' = [tick EXCEPT ![k] =
                     [tick[k] EXCEPT !.phase = "drained", !.ids = ids]]
      BY <1>1, <2>1, <2>6
    <3>2. \A m \in Elems(ids) : file'.status[m] \in {"in_flight", "purged"}
      BY <1>2, <2>3 DEF Spares, Out
    <3>3. Elems(ids) # {}
      <4>1. ids \in Seq(Msg)
        BY <1>2 DEF IsBatch
      <4>2. Len(ids) \in Nat /\ DOMAIN ids = 1..Len(ids) /\ Len(ids) # 0
        BY <2>6, <4>1
      <4>3. 1 \in DOMAIN ids
        BY <4>2
      <4> QED BY <4>3 DEF Elems
    <3> QED BY <1>2, <2>3, <2>4, <3>1, <3>2, <3>3 DEF ids
  <2> QED BY <2>5, <2>6
<1> QED BY <1>3, <1>4

\* The loop keeps the invariant.
LEMMA LoopIInv ==
  ASSUME IInv, NEW k \in Controller, TimerFires(k) \/ Loop(k)
  PROVE  IInv'
<1>1. Sound(file) /\ TicksOK /\ RestOK
  BY DEF IInv
<1>2. /\ tick[k] \in Tick /\ Holds(tick[k]) /\ tick[k].host \in Session
      /\ tick[k].agent \in Agent /\ tick[k].host \in Host
  BY <1>1, HostsAreSessions DEF TicksOK, Tick
<1>3. IsBatch(tick[k].host, tick[k].ids) /\ Elems(tick[k].ids) \subseteq Msg
  BY <1>2 DEF Holds, IsBatch, Elems
<1>4. \A x \in {"down", "idle", "running", "stale"} :
        Set(tick[k].host, x) =>
          conn' \in [Host -> {"down", "idle", "running", "stale"}]
  BY <1>1 DEF RestOK, Set
<1>5. conn[tick[k].host] \in {"down", "idle", "running", "stale"}
  BY <1>1, <1>2 DEF RestOK
<1>6. ASSUME UNCHANGED <<agents, closed, current, acts, hosts, coordination,
                         faults>>
      PROVE  RestOK'
  BY <1>1, <1>6 DEF RestOK, hosts, history, coordination
<1>7. CASE TimerFires(k)
  <2>1. TicksOK'
    BY <1>1, <1>7, VisitTicks
  <2>2. RestOK'
    BY <1>1, <1>7
    DEF RestOK, TimerFires, hosts, history, coordination
  <2> QED BY <1>1, <1>7, <2>1, <2>2 DEF IInv, TimerFires
<1>8. CASE Visit(k)
  <2>1. TicksOK'
    BY <1>1, <1>8, VisitTicks
  <2> QED BY <1>1, <1>6, <1>8, <2>1 DEF IInv, Visit
<1>9. CASE HostReports(k)
  <2>1. Reported(tick[k].host) \in {"idle", "running", "stale"}
    BY <1>5 DEF Reported
  <2>2. TicksOK'
    BY <1>1, <1>9, <2>1, AskTicks DEF HostReports
  <2>3. RestOK'
    BY <1>1, <1>4, <1>9, <2>1, RestKept DEF HostReports, history, RestOK
  <2> QED BY <1>1, <1>9, <2>2, <2>3 DEF IInv, HostReports
<1>10. CASE HostUnreachable(k)
  <2>1. TicksOK'
    BY <1>1, <1>10, AskTicks DEF HostUnreachable
  <2>2. faults' \in 0..MaxFaults
    BY <1>1, <1>10, FaultType DEF HostUnreachable
  <2>3. RestOK'
    BY <1>1, <1>10, <2>2, RestKept DEF HostUnreachable, hosts, history, RestOK
  <2> QED BY <1>1, <1>10, <2>1, <2>3 DEF IInv, HostUnreachable
<1>11. CASE Note(k)
  <2>1. tick[k].seen \in AgentStatus
    BY <1>2 DEF Tick, AgentStatus
  <2>2. agents' \in [Agent -> AgentRecord]
    BY <1>1, <1>2, <1>11, <2>1
    DEF Note, Observe, SetStatus, RestOK, AgentRecord
  <2>3. RestOK'
    BY <1>1, <1>11, <2>2, RestKept DEF Note, hosts, history, RestOK
  <2>4. TicksOK'
    <3>1. CASE Step(k, "draining")
      BY <1>1, <1>11, <3>1, StepTicks DEF Note, In, Phase, Holding
    <3>2. CASE Continue(k)
      BY <1>1, <3>2, LoopTicks
    <3> QED BY <1>11, <3>1, <3>2 DEF Note
  <2> QED BY <1>1, <1>11, <2>3, <2>4 DEF IInv, Note
<1>12. CASE DrainForAgent(k)
  <2>1. RestOK'
    BY <1>6, <1>12 DEF DrainForAgent
  <2>2. CASE Continue(k) /\ Sound(file')
    <3>1. TicksOK'
      BY <1>1, <2>2, LoopTicks
    <3> QED BY <2>1, <2>2, <3>1 DEF IInv
  <2>3. ASSUME NEW ids, Sound(file'), IsBatch(tick[k].host, ids),
               Elems(ids) # {},
               tick' = [tick EXCEPT ![k] =
                          [tick[k] EXCEPT !.phase = "drained", !.ids = ids]]
        PROVE  IInv'
    <3> DEFINE t == [tick[k] EXCEPT !.phase = "drained", !.ids = ids]
    <3>1. ids \in Seq(Msg)
      BY <2>3 DEF IsBatch
    <3>2. t \in Tick /\ t.ids = ids /\ t.phase = "drained"
          /\ t.host = tick[k].host
      BY <1>2, <3>1 DEF Tick, Phase
    <3> HIDE DEF t
    <3>3. Holds(t)
      BY <2>3, <3>2 DEF Holds, Holding
    <3>4. TicksOK'
      BY <1>1, <2>3, <3>2, <3>3, TickStep DEF t
    <3> QED BY <2>1, <2>3, <3>4 DEF IInv
  <2>4. \/ Continue(k) /\ Sound(file')
        \/ /\ Sound(file')
           /\ IsBatch(tick[k].host,
                      Batch(Reaching(file, tick[k].host), tick[k].host))
           /\ Elems(Batch(Reaching(file, tick[k].host), tick[k].host)) # {}
           /\ tick' = [tick EXCEPT ![k] =
                [tick[k] EXCEPT !.phase = "drained",
                  !.ids = Batch(Reaching(file, tick[k].host), tick[k].host)]]
    BY <1>1, <1>12, DrainedFacts
  <2> QED BY <2>2, <2>3, <2>4
<1>13. CASE StartPrompt(k)
  <2>1. tick[k].phase \in Holding
    BY <1>13 DEF StartPrompt, In, Holding
  <2>2. TicksOK'
    <3>1. CASE Step(k, "returning") \/ Step(k, "prompting")
      BY <1>1, <2>1, <3>1, StepTicks DEF Phase, Holding
    <3>2. CASE Settle(k, "failed")
      BY <1>1, <2>1, <3>2, SettleTicks
    <3> QED BY <1>13, <3>1, <3>2 DEF StartPrompt
  <2>3. conn' \in [Host -> {"down", "idle", "running", "stale"}]
    <3>1. CASE UNCHANGED conn
      BY <1>1, <3>1 DEF RestOK
    <3>2. CASE Set(tick[k].host,
                   IF IsAcp(k) THEN "running" ELSE conn[tick[k].host])
      BY <1>4, <1>5, <3>2
    <3> QED BY <1>13, <3>1, <3>2 DEF StartPrompt
  <2>4. RestOK'
    BY <1>1, <1>13, <2>3, RestKept DEF StartPrompt, history, RestOK
  <2> QED BY <1>1, <1>13, <2>2, <2>4 DEF IInv, StartPrompt
<1>14. CASE GiveBack(k)
  <2>1. Sound(file')
    BY <1>1, <1>2, <1>3, <1>14, RequeueSound DEF GiveBack
  <2>2. TicksOK'
    BY <1>1, <1>14, LoopTicks DEF GiveBack
  <2> QED BY <1>6, <1>14, <2>1, <2>2 DEF IInv, GiveBack
<1>15. CASE HostHears(k)
  <2>1. TicksOK'
    BY <1>1, <1>15, StepTicks DEF HostHears, In, Phase, Holding
  <2>2. heard' \in [Msg -> Nat]
    BY <1>1, <1>15 DEF HostHears, RestOK
  <2>3. conn' \in [Host -> {"down", "idle", "running", "stale"}]
    BY <1>4, <1>15 DEF HostHears
  <2>4. RestOK'
    BY <1>1, <1>15, <2>2, <2>3, RestKept DEF HostHears, RestOK
  <2> QED BY <1>1, <1>15, <2>1, <2>4 DEF IInv, HostHears
<1>16. \A x \in {"down", "idle", "running", "stale"} : Turned(k, x) =>
         conn' \in [Host -> {"down", "idle", "running", "stale"}]
  BY <1>4, <1>5 DEF Turned
<1>17. CASE HostAnswers(k)
  <2>1. TicksOK'
    BY <1>1, <1>17, SettleTicks DEF HostAnswers, In, Holding
  <2>2. conn' \in [Host -> {"down", "idle", "running", "stale"}]
    BY <1>16, <1>17 DEF HostAnswers
  <2>3. RestOK'
    BY <1>1, <1>17, <2>2, RestKept DEF HostAnswers, history, RestOK
  <2> QED BY <1>1, <1>17, <2>1, <2>3 DEF IInv, HostAnswers
<1>18. CASE HostRejects(k) \/ OutcomeUnknown(k)
  <2>1. tick[k].phase \in Holding
    BY <1>18 DEF HostRejects, OutcomeUnknown, In, Holding
  <2>2. TicksOK'
    BY <1>1, <1>18, <2>1, SettleTicks DEF HostRejects, OutcomeUnknown
  <2>3. conn' \in [Host -> {"down", "idle", "running", "stale"}]
    BY <1>16, <1>18 DEF HostRejects, OutcomeUnknown
  <2>4. faults' \in 0..MaxFaults
    BY <1>1, <1>18, FaultType DEF HostRejects, OutcomeUnknown
  <2>5. RestOK'
    BY <1>1, <1>18, <2>3, <2>4, RestKept
    DEF HostRejects, OutcomeUnknown, history, RestOK
  <2> QED BY <1>1, <1>18, <2>2, <2>5 DEF IInv, HostRejects, OutcomeUnknown
<1>19. CASE SettleBatch(k)
  <2>1. TicksOK'
    BY <1>1, <1>19, LoopTicks DEF SettleBatch
  <2>2. tick[k].outcome \in {"delivered", "failed", "uncertain"}
    BY <1>2 DEF Tick
  <2>3. \/ file' = Commit(file, tick[k].host, tick[k].ids)
        \/ file' = Requeue(file, tick[k].host, tick[k].ids)
        \/ file' = file
    BY <1>19, <2>2 DEF SettleBatch
  <2>4. Sound(file')
    BY <1>1, <1>2, <1>3, <2>3, CommitSound, RequeueSound
  <2> QED BY <1>6, <1>19, <2>1, <2>4 DEF IInv, SettleBatch
<1>20. CASE SettleFails(k)
  <2>1. TicksOK'
    BY <1>1, <1>20, LoopTicks DEF SettleFails
  <2>2. faults' \in 0..MaxFaults
    BY <1>1, <1>20, FaultType DEF SettleFails
  <2>3. RestOK'
    BY <1>1, <1>20, <2>2, RestKept DEF SettleFails, hosts, history, RestOK
  <2> QED BY <1>1, <1>20, <2>1, <2>3 DEF IInv, SettleFails
<1> QED BY <1>7, <1>8, <1>9, <1>10, <1>11, <1>12, <1>13, <1>14, <1>15, <1>17,
           <1>18, <1>19, <1>20 DEF Loop

-----------------------------------------------------------------------------
(***************************************************************************)
(* The other actions leave the ticks alone, or end them all.               *)
(***************************************************************************)
\* Operations on agents and their hosts.
LEMMA AgentsIInv ==
  ASSUME IInv, NEW a \in Agent,
         BeginStop(a) \/ BeginRestart(a) \/ Operate(a) \/ TurnEnds(a)
  PROVE  IInv'
<1>1. Sound(file) /\ TicksOK /\ RestOK
  BY DEF IInv
<1>2. UNCHANGED <<file, tick>>
  BY DEF Operate, BeginStop, HostStops, MarkStopped, BeginRestart, HostResumes,
         Adopt, Replace, HostRefuses, TurnEnds, loop
<1>3. Sound(file') /\ TicksOK'
  BY <1>1, <1>2 DEF TicksOK
<1>4. acts' \in [Agent -> {"none", "stop", "stopped", "restart", "resumed"}]
  <2>1. acts \in [Agent -> {"none", "stop", "stopped", "restart", "resumed"}]
    BY <1>1 DEF RestOK
  <2>2. \/ UNCHANGED acts
        \/ \E step \in {"none", "stop", "stopped", "restart", "resumed"} :
             Act(a, step)
    BY DEF Operate, BeginStop, HostStops, MarkStopped, BeginRestart,
           HostResumes, Adopt, Replace, HostRefuses, TurnEnds
  <2> QED BY <2>1, <2>2 DEF Act
<1>5. agents' \in [Agent -> AgentRecord]
  <2>1. \A x \in AgentRecord : \A h \in Host : \A s \in AgentStatus :
          /\ [x EXCEPT !.status = s] \in AgentRecord
          /\ [x EXCEPT !.host = h, !.status = s] \in AgentRecord
    BY DEF AgentRecord
  <2>2. agents \in [Agent -> AgentRecord]
    BY <1>1 DEF RestOK
  <2>3. \A s \in AgentStatus : SetStatus(agents, a, s) \in [Agent -> AgentRecord]
    <3> SUFFICES ASSUME NEW s \in AgentStatus
                 PROVE  SetStatus(agents, a, s) \in [Agent -> AgentRecord]
      OBVIOUS
    <3> DEFINE x == [agents[a] EXCEPT !.status = s]
    <3>1. x \in AgentRecord
      <4>1. agents[a] \in AgentRecord
        BY <2>2
      <4> QED BY <4>1 DEF AgentRecord
    <3>2. SetStatus(agents, a, s) = [agents EXCEPT ![a] = x]
      BY <2>2 DEF SetStatus
    <3> HIDE DEF x
    <3> QED BY <2>2, <3>1, <3>2
  <2>4. \A h \in Host : SetHost(agents, a, h) \in [Agent -> AgentRecord]
    <3> SUFFICES ASSUME NEW h \in Host
                 PROVE  SetHost(agents, a, h) \in [Agent -> AgentRecord]
      OBVIOUS
    <3> DEFINE x == [agents[a] EXCEPT !.host = h, !.status = "running"]
    <3>1. x \in AgentRecord
      BY <2>1, <2>2 DEF AgentStatus
    <3>2. SetHost(agents, a, h) = [agents EXCEPT ![a] = x]
      BY <2>2 DEF SetHost
    <3> HIDE DEF x
    <3> QED BY <2>2, <3>1, <3>2
  <2>5. \/ UNCHANGED agents
        \/ agents' = SetStatus(agents, a, "stopped")
        \/ agents' = SetStatus(agents, a, "running")
        \/ \E h \in Host : agents' = SetHost(agents, a, h)
    BY DEF Operate, BeginStop, HostStops, MarkStopped, BeginRestart,
           HostResumes, Adopt, Replace, HostRefuses, TurnEnds
  <2> QED BY <2>2, <2>3, <2>4, <2>5 DEF AgentStatus
<1>6. conn' \in [Host -> {"down", "idle", "running", "stale"}]
  <2>1. conn \in [Host -> {"down", "idle", "running", "stale"}]
    BY <1>1 DEF RestOK
  <2>2. CASE HostStops(a)
    BY <2>1, <2>2 DEF HostStops, Set
  <2>3. CASE HostResumes(a)
    <3>1. \A h \in Host : Reported(h) \in {"down", "idle", "running", "stale"}
      BY <2>1 DEF Reported
    <3> DEFINE h == agents[a].host
    <3>2. conn' = [conn EXCEPT ![h] = Reported(h)]
      BY <2>3 DEF HostResumes, Set
    <3> HIDE DEF h
    <3> QED BY <2>1, <3>1, <3>2
  <2>4. CASE TurnEnds(a)
    BY <2>1, <2>4 DEF TurnEnds, Set
  <2>5. CASE UNCHANGED conn
    BY <2>1, <2>5
  <2> QED BY <2>2, <2>3, <2>4, <2>5
          DEF Operate, BeginStop, MarkStopped, BeginRestart, Adopt, Replace,
              HostRefuses, hosts
<1>7. UNCHANGED faults \/ Fault("status")
  BY DEF Operate, BeginStop, HostStops, MarkStopped, BeginRestart, HostResumes,
         Adopt, Replace, HostRefuses, TurnEnds
<1>8. faults' \in 0..MaxFaults
  BY <1>1, <1>7, FaultType DEF RestOK
<1>9. UNCHANGED <<closed, current, acp, heard, removed, plan, switch, memory,
                  disk, byUser, crossed, switches>>
  BY DEF Operate, BeginStop, HostStops, MarkStopped, BeginRestart, HostResumes,
         Adopt, Replace, HostRefuses, TurnEnds, loop, hosts, history,
         coordination
<1>10. RestOK'
  BY <1>1, <1>4, <1>5, <1>6, <1>8, <1>9 DEF RestOK
<1> QED BY <1>3, <1>10 DEF IInv

Emergency ==
  \/ EmergencyStop \/ EmergencyPauses \/ EmergencyHalfSaved
  \/ EmergencyResume \/ EmergencyUnpauses \/ EmergencyClears

\* Of state.json they change which channels are paused.
LEMMA EmergencyFile ==
  ASSUME Sound(file), memory \in Coordination, Emergency
  PROVE  /\ Sound(file') /\ file'.status = file.status
         /\ file'.total = file.total /\ file'.sent = file.sent
         /\ file'.life = file.life /\ file'.members = file.members
<1>1. file \in State /\ file.paused \in SUBSET Channel
      /\ ToPause \in SUBSET Channel
  BY DEF Sound, State, ToPause
<1>2. UNCHANGED file \/ \E P \in SUBSET Channel : file' = [file EXCEPT !.paused = P]
  <2>1. CASE EmergencyPauses \/ EmergencyHalfSaved
    <3>1. file' = [file EXCEPT !.paused = file.paused \cup ToPause]
      BY <1>1, <2>1 DEF EmergencyPauses, EmergencyHalfSaved, State
    <3> QED BY <1>1, <3>1
  <2>2. CASE EmergencyUnpauses
    <3>1. file' = [file EXCEPT !.paused = file.paused \ memory.paused]
      BY <1>1, <2>2 DEF EmergencyUnpauses, State
    <3> QED BY <1>1, <3>1
  <2>3. CASE EmergencyStop \/ EmergencyResume \/ EmergencyClears
    BY <2>3 DEF EmergencyStop, EmergencyResume, EmergencyClears
  <2> QED BY <2>1, <2>2, <2>3 DEF Emergency
<1>3. CASE UNCHANGED file
  BY <1>3
<1>4. ASSUME NEW P \in SUBSET Channel, file' = [file EXCEPT !.paused = P]
      PROVE  /\ file' \in State /\ file'.status = file.status
             /\ file'.queues = file.queues /\ file'.chan = file.chan
             /\ file'.total = file.total /\ file'.sent = file.sent
             /\ file'.life = file.life /\ file'.members = file.members
  BY <1>1, <1>4 DEF State
<1> QED BY <1>2, <1>3, <1>4, SameMail

\* Emergency stop and resume.
LEMMA EmergencyIInv ==
  ASSUME IInv, Emergency
  PROVE  IInv'
<1>1. Sound(file) /\ TicksOK /\ RestOK
  BY DEF IInv
<1>2. Sound(file')
  BY <1>1, EmergencyFile DEF RestOK
<1>3. UNCHANGED <<tick, agents, acts, acp, conn, heard, removed, plan, byUser>>
  BY DEF Emergency, EmergencyStop, EmergencyPauses, EmergencyHalfSaved,
         EmergencyResume, EmergencyUnpauses, EmergencyClears, loop, hosts,
         history
<1>4. TicksOK'
  BY <1>1, <1>3 DEF TicksOK
<1>5. memory' \in Coordination /\ disk' \in Coordination
  <2>1. /\ memory \in Coordination /\ disk \in Coordination
        /\ ToPause \subseteq Channel
    BY <1>1 DEF RestOK, ToPause
  <2>2. CASE EmergencyStop
    BY <2>1, <2>2 DEF EmergencyStop, Coordination
  <2>3. CASE EmergencyPauses
    BY <2>1, <2>3 DEF EmergencyPauses, Coordination
  <2>4. CASE EmergencyHalfSaved
    BY <2>1, <2>4 DEF EmergencyHalfSaved, Coordination
  <2>5. CASE EmergencyResume
    BY <2>1, <2>5 DEF EmergencyResume
  <2>6. CASE EmergencyUnpauses
    BY <2>1, <2>6 DEF EmergencyUnpauses, Coordination
  <2>7. CASE EmergencyClears
    BY <2>1, <2>7 DEF EmergencyClears, Coordination
  <2> QED BY <2>2, <2>3, <2>4, <2>5, <2>6, <2>7 DEF Emergency
<1>6. switch' \in [stop : {"none", "pausing"},
                   resume : {"none", "unpausing", "clearing"}]
  BY <1>1 DEF RestOK, Emergency, EmergencyStop, EmergencyPauses,
              EmergencyHalfSaved, EmergencyResume, EmergencyUnpauses,
              EmergencyClears
<1>7. UNCHANGED faults \/ Fault("disk")
  BY DEF Emergency, EmergencyStop, EmergencyPauses, EmergencyHalfSaved,
         EmergencyResume, EmergencyUnpauses, EmergencyClears
<1>8. faults' \in 0..MaxFaults
  BY <1>1, <1>7, FaultType DEF RestOK
<1>9. Switching \/ UNCHANGED switches
  BY DEF Emergency, EmergencyStop, EmergencyPauses, EmergencyHalfSaved,
         EmergencyResume, EmergencyUnpauses, EmergencyClears
<1>10. switches' \in 0..MaxSwitches
  BY <1>1, <1>9, ManagedAssumption DEF RestOK, Switching
<1>11. crossed' \in BOOLEAN
  BY <1>1 DEF RestOK, Emergency, EmergencyStop, EmergencyPauses,
              EmergencyHalfSaved, EmergencyResume, EmergencyUnpauses,
              EmergencyClears, Switching
<1>12. closed' \subseteq Controller /\ current' \in Controller \cup {NoController}
  BY <1>1 DEF RestOK, Emergency, EmergencyStop, EmergencyPauses,
              EmergencyHalfSaved, EmergencyResume, EmergencyUnpauses,
              EmergencyClears, loop
<1>13. RestOK'
  BY <1>1, <1>3, <1>5, <1>6, <1>8, <1>10, <1>11, <1>12 DEF RestOK
<1> QED BY <1>2, <1>4, <1>13 DEF IInv

\* The coordinator dies and starts again.
LEMMA CrashIInv ==
  ASSUME IInv, Crash
  PROVE  IInv'
<1>1. Sound(file) /\ TicksOK /\ RestOK
  BY DEF IInv
<1>2. TicksOK'
  BY IdleTickFacts DEF TicksOK, Crash
<1>3. faults' \in 0..MaxFaults
  BY <1>1, FaultType DEF Crash
<1>4. conn' \in [Host -> {"down", "idle", "running", "stale"}]
  BY <1>1 DEF RestOK, Crash
<1>5. RestOK'
  BY <1>1, <1>3, <1>4 DEF RestOK, Crash, history
<1> QED BY <1>1, <1>2, <1>5 DEF IInv, Crash

Mail ==
  \/ SendMail \/ KickAgent \/ LinkAgent \/ PauseOrUnpause \/ PluginSweeps
  \/ CooldownEnds

\* A send or a kick with the prune that saves it.
LEMMA SendKickFacts ==
  ASSUME Sound(file), SendMail \/ KickAgent
  PROVE  Sound(file') /\ Spares(file, file')
<1>1. file \in State
  BY DEF Sound
<1>2. ASSUME NEW t, Sound(t), Spares(file, t), NEW D \in Doomed(t),
             file' = Purge(t, D)
      PROVE  Sound(file') /\ Spares(file, file')
  BY <1>2, DoomedFacts, PurgeSound, PurgeSpares, SparesTransitive
<1>3. CASE SendMail
  <2>1. PICK c \in Channel :
          /\ CanSend(file, c)
          /\ \E sender \in Members(file, c) \cap Senders :
               \E R \in RecipientSets(file, c, sender) :
                 \E D \in Doomed(Enqueue(file, c, R)) :
                   file' = Purge(Enqueue(file, c, R), D)
    BY <1>3 DEF SendMail
  <2>2. PICK sender \in Members(file, c) \cap Senders :
          \E R \in RecipientSets(file, c, sender) :
            \E D \in Doomed(Enqueue(file, c, R)) :
              file' = Purge(Enqueue(file, c, R), D)
    BY <2>1
  <2>3. PICK R \in RecipientSets(file, c, sender) :
          \E D \in Doomed(Enqueue(file, c, R)) :
            file' = Purge(Enqueue(file, c, R), D)
    BY <2>2
  <2>4. R \in SUBSET Session
    BY <1>1, MembersType DEF RecipientSets
  <2>5. Sound(Enqueue(file, c, R))
    BY <2>1, <2>4, EnqueueSound DEF CanSend
  <2>6. Spares(file, Enqueue(file, c, R))
    BY EnqueueSpares
  <2> QED BY <1>2, <2>3, <2>5, <2>6
<1>4. CASE KickAgent
  <2>1. PICK c \in Channel :
          \E r \in Members(file, c) \cap Host :
            \E D \in Doomed(Kick(file, c, r)) : file' = Purge(Kick(file, c, r), D)
    BY <1>4 DEF KickAgent
  <2>2. PICK r \in Members(file, c) \cap Host :
          \E D \in Doomed(Kick(file, c, r)) : file' = Purge(Kick(file, c, r), D)
    BY <2>1
  <2>3. r \in Session
    BY <1>1, MembersType
  <2>4. Sound(Kick(file, c, r)) /\ Spares(file, Kick(file, c, r))
    BY <1>4, <2>3, KickSound, KickSpares DEF KickAgent
  <2> QED BY <1>2, <2>2, <2>4
<1> QED BY <1>3, <1>4

\* The operations of users, members and plugins.
LEMMA MailIInv ==
  ASSUME IInv, Mail
  PROVE  IInv'
<1>1. Sound(file) /\ TicksOK /\ RestOK
  BY DEF IInv
<1>2. UNCHANGED <<tick, agents, closed, current, acts, acp, conn, heard, plan,
                  switch, memory, disk, crossed, faults, switches>>
  BY DEF Mail, SendMail, KickAgent, LinkAgent, PauseOrUnpause, PluginSweeps,
         CooldownEnds, loop, hosts, history, coordination
<1>3. removed' \subseteq Host /\ byUser' \subseteq Channel
  BY <1>1 DEF RestOK, Mail, SendMail, KickAgent, LinkAgent, PauseOrUnpause,
              PluginSweeps, CooldownEnds, hosts, history, coordination
<1>4. TicksOK' /\ RestOK'
  BY <1>1, <1>2, <1>3 DEF TicksOK, RestOK
<1>5. Sound(file')
  <2>1. CASE SendMail \/ KickAgent
    BY <1>1, <2>1, SendKickFacts
  <2>2. CASE LinkAgent
    <3>1. PICK a \in Agent, c \in Channel :
            /\ agents[a].host # NoHost
            /\ file' = JoinChannel(file, c, agents[a].host)
      BY <2>2 DEF LinkAgent
    <3>2. agents[a].host \in Session
      BY <1>1, <3>1, HostsAreSessions DEF RestOK, AgentRecord
    <3> QED BY <1>1, <3>1, <3>2, JoinChannelSound
  <2>3. CASE PauseOrUnpause
    BY <1>1, <2>3, SetPausedSound DEF PauseOrUnpause
  <2>4. CASE PluginSweeps
    BY <1>1, <2>4, SweepSound DEF PluginSweeps
  <2>5. CASE CooldownEnds
    <3>1. PICK p \in file.cooling : file' = EndCooldown(file, p[1], p[2])
      BY <2>5 DEF CooldownEnds
    <3>2. p[1] \in Channel /\ p[2] \in Session
      BY <1>1 DEF Sound, State
    <3> QED BY <1>1, <3>1, <3>2, TimeSound
  <2> QED BY <2>1, <2>2, <2>3, <2>4, <2>5 DEF Mail
<1> QED BY <1>4, <1>5 DEF IInv

\* The invariant is inductive.
LEMMA NextIInv == IInv /\ [Next]_vars => IInv'
<1> SUFFICES ASSUME IInv, [Next]_vars
             PROVE  IInv'
  OBVIOUS
<1>1. CASE UNCHANGED vars
  BY <1>1 DEF vars, history, IInv, TicksOK, RestOK
<1>2. ASSUME NEW k \in Controller, TimerFires(k) \/ Loop(k)
      PROVE  IInv'
  BY <1>2, LoopIInv
<1>3. ASSUME NEW a \in Agent,
             BeginStop(a) \/ BeginRestart(a) \/ Operate(a) \/ TurnEnds(a)
      PROVE  IInv'
  BY <1>3, AgentsIInv
<1> QED BY <1>1, <1>2, <1>3, EmergencyIInv, CrashIInv, MailIInv
        DEF Next, Emergency, Mail

\* The records, queues and ticks are what the code takes them for.
THEOREM InductiveInvariant == Spec => []IInv
<1> QED BY InitIInv, NextIInv, PTL DEF Spec

\* The records, queues and ticks have the types the code declares.
THEOREM TypeCorrect == Spec => []TypeOK
<1> QED BY InductiveInvariant, IInvTypes, PTL

-----------------------------------------------------------------------------
(***************************************************************************)
(* What a step does to state.json: who sends, who hands over, who joins.   *)
(***************************************************************************)
\* The drain hands over the session's own mail, if the agent is clear for it.
LEMMA DrainedRooms ==
  ASSUME IInv, NEW k \in Controller, DrainForAgent(k)
  PROVE  /\ SendsNone(file, file') /\ SameRooms(file, file')
         /\ \A m \in Msg : file'.status[m] = "in_flight" =>
              \/ file.status[m] = "in_flight"
              \/ m[2] = tick[k].host /\ Clear(k)
<1> DEFINE h == tick[k].host
           u == Reaching(file, h)
           d == Drain(u, h)
           s == DrainManaged(file, h)
<1>1. Sound(file) /\ h \in Session
  BY HostsAreSessions DEF IInv, TicksOK, Tick
<1>2. CASE ~Clear(k)
  BY <1>2 DEF DrainForAgent, SendsNone, SameRooms
<1>3. CASE Clear(k)
  <2>1. /\ Sound(u) /\ u.status = file.status
        /\ u.life = file.life /\ u.members = file.members
        /\ u.paused = file.paused
    BY <1>1, ReachingSound
  <2>2. Sound(s)
    BY <1>1, DrainManagedFacts
  <2>3. /\ s.status = d.status /\ s.life = d.life /\ s.members = d.members
        /\ s.paused = d.paused
    <3>1. s = [d EXCEPT !.overtime = file.overtime]
      BY DEF DrainManaged
    <3>2. d \in State
      BY <1>1, <2>1, DrainSound DEF Sound
    <3> HIDE DEF s, d
    <3> QED BY <3>1, <3>2 DEF State
  <2> HIDE DEF u
  <2>4. /\ SendsNone(u, d) /\ SameRooms(u, d)
        /\ \A m \in Msg : d.status[m] = "in_flight" =>
             u.status[m] = "in_flight" \/ m[2] = h
    BY <1>1, <2>1, DrainRooms
  <2>5. PICK D \in Doomed(s) :
          file' = Purge(s, IF Batch(Reaching(file, h), h) = << >> THEN {} ELSE D)
    BY <1>3 DEF DrainForAgent
  <2> DEFINE E == IF Batch(Reaching(file, h), h) = << >> THEN {} ELSE D
  <2>6. E \in SUBSET Persisted(s) /\ file' = Purge(s, E)
    BY <2>5, DoomedFacts
  <2> HIDE DEF s, d, E
  <2>7. Idles(s, file')
    BY <2>2, <2>6, PurgeIdles
  <2>8. SendsNone(file, file')
    BY <2>1, <2>3, <2>4, <2>7 DEF Idles, SendsNone
  <2>9. SameRooms(file, file')
    BY <2>1, <2>3, <2>4, <2>7 DEF Idles, SameRooms
  <2>10. \A m \in Msg : file'.status[m] = "in_flight" =>
           file.status[m] = "in_flight" \/ m[2] = h
    BY <2>1, <2>3, <2>4, <2>7 DEF Idles, HandsNone
  <2> QED BY <1>3, <2>8, <2>9, <2>10
<1> QED BY <1>2, <1>3

\* The other steps of the loop settle a batch at most.
LEMMA LoopIdles ==
  ASSUME IInv, NEW k \in Controller, TimerFires(k) \/ Loop(k),
         ~DrainForAgent(k)
  PROVE  /\ Idles(file, file') /\ Keeps(file, file')
         /\ \A m \in Msg : m \notin Owned(k) => file'.status[m] = file.status[m]
<1>1. Sound(file) /\ tick[k].host \in Session
  BY HostsAreSessions DEF IInv, TicksOK, Tick
<1>2. CASE UNCHANGED file
  BY <1>2 DEF Idles, SendsNone, HandsNone, SameRooms, Keeps
<1>3. CASE file' = Commit(file, tick[k].host, tick[k].ids)
  <2>1. file'.status = [m \in Msg |->
          IF m \in Elems(tick[k].ids) /\ file.status[m] = "in_flight"
             /\ m[2] = tick[k].host
          THEN "delivered" ELSE file.status[m]]
    BY <1>1, <1>3 DEF Sound, State, Commit
  <2>2. \A m \in Msg : m \notin Owned(k) => file'.status[m] = file.status[m]
    BY <2>1 DEF Owned
  <2> QED BY <1>1, <1>3, <2>2, CommitIdles, CommitKeeps
<1>4. CASE file' = Requeue(file, tick[k].host, tick[k].ids)
  <2>1. file'.status = [m \in Msg |->
          IF m \in Retryable(file, tick[k].ids)
          THEN IF Spent(file, m) THEN "failed" ELSE "pending"
          ELSE file.status[m]]
    BY <1>1, <1>4 DEF Sound, State, Requeue
  <2>2. \A m \in Msg : m \notin Owned(k) => file'.status[m] = file.status[m]
    BY <2>1 DEF Owned, Retryable
  <2> QED BY <1>1, <1>4, <2>2, RequeueIdles, RequeueContinues, ContinuesKeeps
<1>5. \/ UNCHANGED file
      \/ file' = Commit(file, tick[k].host, tick[k].ids)
      \/ file' = Requeue(file, tick[k].host, tick[k].ids)
  <2>1. CASE SettleBatch(k)
    <3>1. tick[k].outcome \in {"delivered", "failed", "uncertain"}
      BY DEF IInv, TicksOK, Tick
    <3> QED BY <2>1, <3>1 DEF SettleBatch
  <2>2. CASE ~SettleBatch(k)
    BY <2>2 DEF Loop, TimerFires, Visit, HostReports, HostUnreachable, Note,
                StartPrompt, GiveBack, HostHears, HostAnswers, HostRejects,
                OutcomeUnknown, SettleFails
  <2> QED BY <2>1, <2>2
<1> QED BY <1>2, <1>3, <1>4, <1>5

\* Operations on agents, emergencies and crashes are not about mail.
LEMMA AgentsFile ==
  ASSUME NEW a \in Agent,
         BeginStop(a) \/ BeginRestart(a) \/ Operate(a) \/ TurnEnds(a)
  PROVE  UNCHANGED <<file, tick, closed, current, switch, memory, disk, byUser,
                     crossed, heard, removed, plan, acp>>
BY DEF Operate, BeginStop, HostStops, MarkStopped, BeginRestart, HostResumes,
       Adopt, Replace, HostRefuses, TurnEnds, loop, hosts, history,
       coordination

\* Sends and kicks add mail for members and take the one who is kicked out.
LEMMA SendKickRooms ==
  ASSUME IInv, SendMail \/ KickAgent
  PROVE  /\ HandsNone(file, file')
         /\ file'.life = file.life /\ file'.paused = file.paused
         /\ \A r \in Host \ removed' : IsMember(file, r) => IsMember(file', r)
         /\ \A m \in Msg : file'.status[m] # "unsent" /\ m[2] \in Host \ removed' =>
              file.status[m] # "unsent" \/ IsMember(file', m[2])
<1>1. Sound(file) /\ file \in State
  BY DEF IInv, Sound
<1>2. CASE SendMail
  <2>1. PICK c \in Channel :
          /\ CanSend(file, c)
          /\ \E sender \in Members(file, c) \cap Senders :
               \E R \in RecipientSets(file, c, sender) :
                 \E D \in Doomed(Enqueue(file, c, R)) :
                   file' = Purge(Enqueue(file, c, R), D)
    BY <1>2 DEF SendMail
  <2>2. PICK sender \in Members(file, c) \cap Senders :
          \E R \in RecipientSets(file, c, sender) :
            \E D \in Doomed(Enqueue(file, c, R)) :
              file' = Purge(Enqueue(file, c, R), D)
    BY <2>1
  <2>3. PICK R \in RecipientSets(file, c, sender) :
          \E D \in Doomed(Enqueue(file, c, R)) :
            file' = Purge(Enqueue(file, c, R), D)
    BY <2>2
  <2> DEFINE s == Enqueue(file, c, R)
  <2>4. PICK D \in Doomed(s) : file' = Purge(s, D)
    BY <2>3
  <2>5. R \subseteq Members(file, c) /\ R \in SUBSET Session
    BY <1>1, MembersType DEF RecipientSets
  <2>6. Sound(s) /\ Active(file, c)
    BY <1>1, <2>1, <2>5, EnqueueSound DEF CanSend
  <2>7. /\ HandsNone(file, s) /\ SameRooms(file, s)
        /\ \A m \in Msg : s.status[m] # "unsent" =>
             file.status[m] # "unsent" \/ m[2] \in R
    BY <1>1, EnqueueRooms
  <2> HIDE DEF s
  <2>8. Idles(s, file')
    BY <2>4, <2>6, DoomedFacts, PurgeIdles
  <2>9. SameRooms(file, file') /\ HandsNone(file, file')
    BY <2>7, <2>8 DEF Idles, SameRooms, HandsNone
  <2>10. \A r : IsMember(file, r) <=> IsMember(file', r)
    BY <2>9 DEF SameRooms, IsMember, Active, Members
  <2>11. \A r \in R : IsMember(file, r)
    BY <2>5, <2>6 DEF IsMember
  <2>12. \A m \in Msg : file'.status[m] # "unsent" =>
           file.status[m] # "unsent" \/ m[2] \in R
    BY <2>7, <2>8 DEF Idles, SendsNone
  <2> QED BY <2>9, <2>10, <2>11, <2>12 DEF SameRooms
<1>3. CASE KickAgent
  <2>1. PICK c \in Channel :
          \E r \in Members(file, c) \cap Host :
            /\ Active(file, c)
            /\ \E D \in Doomed(Kick(file, c, r)) : file' = Purge(Kick(file, c, r), D)
            /\ removed' = removed \cup {r}
    BY <1>3 DEF KickAgent
  <2>2. PICK r \in Members(file, c) \cap Host :
          /\ Active(file, c)
          /\ \E D \in Doomed(Kick(file, c, r)) : file' = Purge(Kick(file, c, r), D)
          /\ removed' = removed \cup {r}
    BY <2>1
  <2> DEFINE t == RemoveMember(file, c, r)
             s == Kick(file, c, r)
  <2>3. PICK D \in Doomed(s) : file' = Purge(s, D)
    BY <2>2
  <2>4. r \in Session /\ file.sent < MaxSend
    BY <1>1, <1>3, MembersType DEF KickAgent
  <2>5. Sound(t) /\ Sound(s)
    BY <1>1, <2>4, RemoveMemberSound, KickSound
  <2>6. /\ SendsNone(file, t) /\ HandsNone(file, t)
        /\ t.life = file.life /\ t.paused = file.paused
        /\ \A d \in Channel : Members(file, d) \ {r} \subseteq Members(t, d)
    BY <1>1, RemoveMemberRooms
  <2>7. s = t \/ s = Enqueue(t, c, Members(t, c))
    BY DEF Kick
  <2> HIDE DEF t
  <2>8. /\ HandsNone(t, s) /\ SameRooms(t, s)
        /\ \A m \in Msg : s.status[m] # "unsent" =>
             t.status[m] # "unsent" \/ m[2] \in Members(t, c)
    <3>1. CASE s = t
      BY <3>1 DEF HandsNone, SameRooms
    <3>2. CASE s = Enqueue(t, c, Members(t, c))
      BY <2>5, <3>2, EnqueueRooms
    <3> QED BY <2>7, <3>1, <3>2
  <2> HIDE DEF s
  <2>9. Idles(s, file')
    BY <2>3, <2>5, DoomedFacts, PurgeIdles
  <2>10. /\ HandsNone(file, file')
         /\ file'.life = file.life /\ file'.paused = file.paused
         /\ file'.members = t.members
    BY <2>6, <2>8, <2>9 DEF Idles, SameRooms, HandsNone
  <2>11. \A q \in Host \ removed' : q # r
    BY <2>2
  <2>12. \A q \in Host \ removed' : IsMember(file, q) => IsMember(file', q)
    BY <2>6, <2>10, <2>11 DEF IsMember, Active, Members
  <2>13. \A q \in Members(t, c) : IsMember(file', q)
    BY <2>2, <2>10 DEF IsMember, Active, Members
  <2>14. \A m \in Msg : file'.status[m] # "unsent" =>
           file.status[m] # "unsent" \/ m[2] \in Members(t, c)
    BY <2>6, <2>8, <2>9 DEF Idles, SendsNone
  <2> QED BY <2>10, <2>12, <2>13, <2>14
<1> QED BY <1>2, <1>3

\* The other operations of users and members on the file.
LEMMA MailRooms ==
  ASSUME IInv, LinkAgent \/ PluginSweeps \/ CooldownEnds \/ PauseOrUnpause
  PROVE  /\ SendsNone(file, file') /\ HandsNone(file, file')
         /\ file'.life = file.life
         /\ LinkAgent \/ PluginSweeps \/ CooldownEnds =>
              file'.paused = file.paused
         /\ \A r : IsMember(file, r) => IsMember(file', r)
<1>1. Sound(file)
  BY DEF IInv
<1> DEFINE Rooms == /\ SendsNone(file, file') /\ HandsNone(file, file')
                    /\ file'.life = file.life
                    /\ \A r : IsMember(file, r) => IsMember(file', r)
<1>2. ASSUME LinkAgent
      PROVE  Rooms /\ file'.paused = file.paused
  <2>1. PICK a \in Agent, c \in Channel :
          /\ agents[a].host # NoHost
          /\ file' = JoinChannel(file, c, agents[a].host)
    BY <1>2 DEF LinkAgent
  <2>2. agents[a].host \in Session
    BY <2>1, HostsAreSessions DEF IInv, RestOK, AgentRecord
  <2>3. /\ file'.status = file.status
        /\ file'.life = file.life /\ file'.paused = file.paused
        /\ \A d \in Channel : Members(file, d) \subseteq Members(file', d)
    BY <1>1, <2>1, <2>2, JoinRooms
  <2>4. \A r : IsMember(file, r) => IsMember(file', r)
    BY <2>3 DEF IsMember, Active
  <2> QED BY <2>3, <2>4 DEF SendsNone, HandsNone
<1>3. ASSUME PauseOrUnpause
      PROVE  Rooms
  <2>1. PICK c \in Channel, paused \in BOOLEAN : file' = SetPaused(file, c, paused)
    BY <1>3 DEF PauseOrUnpause
  <2>2. /\ file'.status = file.status /\ file'.life = file.life
        /\ file'.members = file.members
    BY <1>1, <2>1 DEF Sound, State, SetPaused
  <2> QED BY <1>3, <2>2 DEF SendsNone, HandsNone, IsMember, Active, Members
<1>4. ASSUME PluginSweeps \/ CooldownEnds
      PROVE  Rooms /\ file'.paused = file.paused
  <2>1. Idles(file, file')
    BY <1>1, <1>4, SweepIdles, EndCooldownIdles DEF PluginSweeps, CooldownEnds
  <2> QED BY <2>1 DEF Idles, SameRooms, IsMember, Active, Members
<1> QED BY <1>2, <1>3, <1>4

-----------------------------------------------------------------------------
(***************************************************************************)
(* The emergency stop.  A controller that is not closed is the current     *)
(* one, and there is none while the memory says stopped; what is paused is *)
(* accounted for by users or by orchestrator.json as long as no stop and   *)
(* resume overlap.                                                         *)
(***************************************************************************)
Closed ==
  /\ Controller \ closed \subseteq {current}
  /\ memory.stopped => current = NoController

Pauses ==
  ~crossed =>
    /\ byUser \subseteq file.paused
    /\ byUser \cap disk.paused = {}
    /\ file.paused \subseteq byUser \cup disk.paused
    /\ switch.stop = "none" \/ switch.resume = "none"
    /\ switch.stop = "none" /\ switch.resume # "clearing" => memory = disk
    /\ switch.stop = "pausing" => memory = [disk EXCEPT !.stopped = TRUE]
    /\ switch.resume = "clearing" => disk = [stopped |-> FALSE, paused |-> {}]

\* Every controller is closed when the coordinator starts.
LEMMA InitPauses == Init => Closed /\ Pauses
<1> SUFFICES ASSUME Init
             PROVE  Closed /\ Pauses
  OBVIOUS
<1>1. /\ closed = Controller /\ current = NoController
      /\ switch = [stop |-> "none", resume |-> "none"]
      /\ memory = [stopped |-> FALSE, paused |-> {}] /\ disk = memory
      /\ byUser = {} /\ file.paused = {}
  BY DEF Init
<1> QED BY <1>1 DEF Closed, Pauses

\* Only emergency calls, crashes and the timer open or close controllers.
LEMMA NextClosed ==
  ASSUME IInv, Closed, [Next]_vars
  PROVE  Closed'
<1>1. CASE UNCHANGED <<closed, current, memory>>
  BY <1>1 DEF Closed
<1>2. ASSUME NEW k \in Controller, TimerFires(k)
      PROVE  Closed'
  <2>1. memory'.stopped => current' = NoController
    BY <1>2 DEF TimerFires, coordination
  <2>2. Controller \ closed' \subseteq {current'}
    <3>1. /\ current' = k
          /\ closed' = IF current = NoController THEN closed \ {k} ELSE closed
          /\ current # NoController => k = current
      BY <1>2 DEF TimerFires
    <3>2. Controller \ closed \subseteq {current} /\ NoController \notin Controller
      BY ManagedAssumption DEF Closed
    <3> QED BY <3>1, <3>2
  <2> QED BY <2>1, <2>2 DEF Closed
<1>3. ASSUME NEW k \in Controller, Loop(k)
      PROVE  UNCHANGED <<closed, current, memory>>
  BY <1>3 DEF Loop, Visit, HostReports, HostUnreachable, Note, DrainForAgent,
              StartPrompt, GiveBack, HostHears, HostAnswers, HostRejects,
              OutcomeUnknown, SettleBatch, SettleFails, coordination
<1>4. CASE Emergency
  <2>1. memory \in Coordination /\ closed \subseteq Controller
    BY DEF IInv, RestOK
  <2>2. CASE EmergencyStop
    BY <2>1, <2>2 DEF EmergencyStop, Closed, Coordination
  <2>3. CASE EmergencyPauses \/ EmergencyHalfSaved
    <3>1. UNCHANGED <<closed, current>> /\ memory'.stopped = memory.stopped
      BY <2>1, <2>3 DEF EmergencyPauses, EmergencyHalfSaved, Coordination, loop
    <3> QED BY <3>1 DEF Closed
  <2>4. CASE EmergencyResume \/ EmergencyUnpauses
    BY <1>1, <2>4 DEF EmergencyResume, EmergencyUnpauses, loop
  <2>5. CASE EmergencyClears
    BY <2>5 DEF EmergencyClears, Closed, loop
  <2> QED BY <1>4, <2>2, <2>3, <2>4, <2>5 DEF Emergency
<1>5. CASE Crash
  BY <1>5 DEF Crash, Closed
<1>6. CASE Mail
  BY <1>1, <1>6 DEF Mail, SendMail, KickAgent, LinkAgent, PauseOrUnpause,
                    PluginSweeps, CooldownEnds, loop, coordination
<1>7. CASE UNCHANGED vars
  BY <1>1, <1>7 DEF vars
<1> QED BY <1>1, <1>2, <1>3, <1>4, <1>5, <1>6, <1>7, AgentsFile
        DEF Next, Emergency, Mail

\* Steps that are not about pauses.
LEMMA PausesKept ==
  ASSUME Pauses, file'.paused = file.paused,
         UNCHANGED <<switch, memory, disk, byUser, crossed>>
  PROVE  Pauses'
BY DEF Pauses

\* An emergency stop takes over what is not paused, its resume gives back
\* what the memory lists, which is what the file lists.
LEMMA EmergencyPausesKept ==
  ASSUME IInv, Pauses, Emergency
  PROVE  Pauses'
<1>1. /\ memory \in Coordination /\ disk \in Coordination
      /\ file \in State
      /\ switch \in [stop : {"none", "pausing"},
                     resume : {"none", "unpausing", "clearing"}]
      /\ byUser \subseteq Channel /\ crossed \in BOOLEAN
  BY DEF IInv, RestOK, Sound
<1>2. CASE EmergencyStop
  <2>1. /\ switch.stop = "none" /\ switch' = [switch EXCEPT !.stop = "pausing"]
        /\ memory' = [memory EXCEPT !.stopped = TRUE]
        /\ crossed' = (crossed \/ switch.stop # "none" \/ switch.resume # "none")
        /\ UNCHANGED <<file, disk, byUser>>
    BY <1>2 DEF EmergencyStop, Switching
  <2> SUFFICES ASSUME ~crossed'
               PROVE  Pauses'
    BY DEF Pauses
  <2>2. ~crossed /\ switch.resume = "none"
    BY <1>1, <2>1
  <2>3. memory = disk
    BY <2>1, <2>2 DEF Pauses
  <2>4. switch'.stop = "pausing" /\ switch'.resume = "none"
    BY <1>1, <2>1, <2>2
  <2> QED BY <2>1, <2>2, <2>3, <2>4 DEF Pauses
<1>3. CASE EmergencyPauses
  <2>1. /\ switch.stop = "pausing" /\ switch' = [switch EXCEPT !.stop = "none"]
        /\ file'.paused = file.paused \cup ToPause
        /\ memory' = [memory EXCEPT !.paused = memory.paused \cup ToPause]
        /\ disk' = [stopped |-> TRUE, paused |-> memory.paused \cup ToPause]
        /\ UNCHANGED <<byUser, crossed>>
    BY <1>1, <1>3 DEF EmergencyPauses, State
  <2> SUFFICES ASSUME ~crossed
               PROVE  Pauses'
    BY <2>1 DEF Pauses
  <2>2. memory = [disk EXCEPT !.stopped = TRUE] /\ switch.resume = "none"
    BY <2>1 DEF Pauses
  <2>3. memory.paused = disk.paused /\ memory.stopped = TRUE
    BY <1>1, <2>2 DEF Coordination
  <2>4. memory' = disk'
    <3>1. memory' \in Coordination /\ disk' \in Coordination
      BY EmergencyIInv DEF IInv, RestOK
    <3>2. memory'.stopped = disk'.stopped /\ memory'.paused = disk'.paused
      BY <1>1, <2>1, <2>3 DEF Coordination
    <3> QED BY <3>1, <3>2 DEF Coordination
  <2>5. switch'.stop = "none" /\ switch'.resume = "none"
    BY <1>1, <2>1, <2>2
  <2>6. ToPause \cap file.paused = {}
    BY DEF ToPause
  <2>7. disk'.paused = disk.paused \cup ToPause
    BY <2>1, <2>3
  <2>8. /\ byUser \subseteq file.paused /\ byUser \cap disk.paused = {}
        /\ file.paused \subseteq byUser \cup disk.paused
    BY DEF Pauses
  <2>9. /\ byUser \subseteq file'.paused
        /\ byUser \cap disk'.paused = {}
        /\ file'.paused \subseteq byUser \cup disk'.paused
    BY <2>1, <2>6, <2>7, <2>8
  <2> QED BY <2>1, <2>4, <2>5, <2>9 DEF Pauses
<1>4. CASE EmergencyHalfSaved
  BY <1>4 DEF EmergencyHalfSaved, Pauses
<1>5. CASE EmergencyResume
  <2>1. /\ switch.resume = "none"
        /\ switch' = [switch EXCEPT !.resume = "unpausing"]
        /\ crossed' = (crossed \/ switch.stop # "none" \/ switch.resume # "none")
        /\ UNCHANGED <<file, memory, disk, byUser>>
    BY <1>5 DEF EmergencyResume, Switching
  <2> SUFFICES ASSUME ~crossed'
               PROVE  Pauses'
    BY DEF Pauses
  <2>2. ~crossed /\ switch.stop = "none"
    BY <1>1, <2>1
  <2>3. switch'.stop = "none" /\ switch'.resume = "unpausing"
    BY <1>1, <2>1, <2>2
  <2> QED BY <2>1, <2>2, <2>3 DEF Pauses
<1>6. CASE EmergencyUnpauses
  <2>1. /\ switch.resume = "unpausing"
        /\ switch' = [switch EXCEPT !.resume = "clearing"]
        /\ file'.paused = file.paused \ memory.paused
        /\ disk' = [stopped |-> FALSE, paused |-> {}]
        /\ UNCHANGED <<memory, byUser, crossed>>
    BY <1>1, <1>6 DEF EmergencyUnpauses, State
  <2> SUFFICES ASSUME ~crossed
               PROVE  Pauses'
    BY <2>1 DEF Pauses
  <2>2. switch.stop = "none" /\ memory = disk
    BY <2>1 DEF Pauses
  <2>3. switch'.stop = "none" /\ switch'.resume = "clearing"
    BY <1>1, <2>1, <2>2
  <2>4. /\ byUser \subseteq file.paused /\ byUser \cap disk.paused = {}
        /\ file.paused \subseteq byUser \cup disk.paused
    BY DEF Pauses
  <2>5. byUser \subseteq file'.paused /\ file'.paused \subseteq byUser
    BY <2>1, <2>2, <2>4
  <2> QED BY <2>1, <2>3, <2>5 DEF Pauses
<1>7. CASE EmergencyClears
  <2>1. /\ switch.resume = "clearing"
        /\ switch' = [switch EXCEPT !.resume = "none"]
        /\ memory' = [stopped |-> FALSE, paused |-> {}]
        /\ UNCHANGED <<file, disk, byUser, crossed>>
    BY <1>7 DEF EmergencyClears
  <2> SUFFICES ASSUME ~crossed
               PROVE  Pauses'
    BY <2>1 DEF Pauses
  <2>2. switch.stop = "none" /\ disk = [stopped |-> FALSE, paused |-> {}]
    BY <2>1 DEF Pauses
  <2>3. switch'.stop = "none" /\ switch'.resume = "none"
    BY <1>1, <2>1, <2>2
  <2> QED BY <2>1, <2>2, <2>3 DEF Pauses
<1> QED BY <1>2, <1>3, <1>4, <1>5, <1>6, <1>7 DEF Emergency

\* A crash forgets a stop under way, and with it the stop's memory.
LEMMA CrashPausesKept ==
  ASSUME Pauses, Crash
  PROVE  Pauses'
<1>1. /\ switch' = [stop |-> "none", resume |-> "none"] /\ memory' = disk
      /\ UNCHANGED <<file, disk, byUser, crossed>>
  BY DEF Crash
<1> QED BY <1>1 DEF Pauses

\* A user's pause is the user's own unless a stop holds the channel.
LEMMA UserPausesKept ==
  ASSUME IInv, Pauses, PauseOrUnpause
  PROVE  Pauses'
<1>1. file \in State
  BY DEF IInv, Sound
<1>2. PICK c \in Channel, paused \in BOOLEAN :
        /\ file' = SetPaused(file, c, paused)
        /\ byUser' = IF ~paused THEN byUser \ {c}
                     ELSE IF c \in file.paused \cup disk.paused THEN byUser
                     ELSE byUser \cup {c}
  BY DEF PauseOrUnpause
<1>3. UNCHANGED <<switch, memory, disk, crossed>>
  BY DEF PauseOrUnpause
<1>4. file'.paused = IF paused THEN file.paused \cup {c} ELSE file.paused \ {c}
  BY <1>1, <1>2 DEF SetPaused, State
<1> SUFFICES ASSUME ~crossed
             PROVE  Pauses'
  BY <1>3 DEF Pauses
<1>5. /\ byUser \subseteq file.paused /\ byUser \cap disk.paused = {}
      /\ file.paused \subseteq byUser \cup disk.paused
  BY DEF Pauses
<1>6. /\ byUser' \subseteq file'.paused
      /\ byUser' \cap disk.paused = {}
      /\ file'.paused \subseteq byUser' \cup disk.paused
  BY <1>2, <1>4, <1>5
<1> QED BY <1>3, <1>6 DEF Pauses

\* The accounts are kept.
LEMMA NextPauses ==
  ASSUME IInv, Pauses, [Next]_vars
  PROVE  Pauses'
<1>1. ASSUME NEW k \in Controller, TimerFires(k) \/ Loop(k)
      PROVE  Pauses'
  <2>1. file'.paused = file.paused
    BY <1>1, LoopIdles, DrainedRooms DEF Idles, SameRooms
  <2>2. UNCHANGED <<switch, memory, disk, byUser, crossed>>
    BY <1>1 DEF TimerFires, Loop, Visit, HostReports, HostUnreachable, Note,
                DrainForAgent, StartPrompt, GiveBack, HostHears, HostAnswers,
                HostRejects, OutcomeUnknown, SettleBatch, SettleFails,
                coordination
  <2> QED BY <2>1, <2>2, PausesKept
<1>2. ASSUME NEW a \in Agent,
             BeginStop(a) \/ BeginRestart(a) \/ Operate(a) \/ TurnEnds(a)
      PROVE  Pauses'
  BY <1>2, AgentsFile, PausesKept
<1>3. CASE SendMail \/ KickAgent \/ LinkAgent \/ PluginSweeps \/ CooldownEnds
  <2>1. file'.paused = file.paused
    BY <1>3, SendKickRooms, MailRooms
  <2>2. UNCHANGED <<switch, memory, disk, byUser, crossed>>
    BY <1>3 DEF SendMail, KickAgent, LinkAgent, PluginSweeps, CooldownEnds,
                coordination
  <2> QED BY <2>1, <2>2, PausesKept
<1>4. CASE UNCHANGED vars
  BY <1>4, PausesKept DEF vars
<1> QED BY <1>1, <1>2, <1>3, <1>4, EmergencyPausesKept, CrashPausesKept,
           UserPausesKept
        DEF Next, Emergency

\* Both hold throughout.
LEMMA StopInvariant == Spec => [](IInv /\ Closed /\ Pauses)
<1>1. Init => IInv /\ Closed /\ Pauses
  BY InitIInv, InitPauses
<1>2. IInv /\ Closed /\ Pauses /\ [Next]_vars => (IInv /\ Closed /\ Pauses)'
  BY NextIInv, NextClosed, NextPauses
<1> QED BY <1>1, <1>2, PTL DEF Spec

\* An emergency stop and its resume do not touch what users paused, and a
\* channel paused by the stop is one the resume will know.
THEOREM PausesKeptApart == Spec => []PausesAccounted
<1>1. Pauses => PausesAccounted
  <2> SUFFICES ASSUME Pauses, ~crossed
               PROVE  PausesAccounted
    BY DEF PausesAccounted
  <2> QED BY DEF Pauses, PausesAccounted
<1> QED BY <1>1, StopInvariant, PTL

\* With every controller closed no drain goes through, and nothing else
\* hands mail over.
LEMMA NothingHandedOver ==
  ASSUME IInv, closed = Controller, [Next]_vars
  PROVE  HandsNone(file, file')
<1>1. ASSUME NEW k \in Controller, TimerFires(k) \/ Loop(k)
      PROVE  HandsNone(file, file')
  <2>1. CASE DrainForAgent(k)
    <3>1. ~Clear(k)
      BY DEF Clear
    <3> QED BY <2>1, <3>1, DrainedRooms DEF HandsNone
  <2>2. CASE ~DrainForAgent(k)
    BY <1>1, <2>2, LoopIdles DEF Idles
  <2> QED BY <2>1, <2>2
<1>2. ASSUME NEW a \in Agent,
             BeginStop(a) \/ BeginRestart(a) \/ Operate(a) \/ TurnEnds(a)
      PROVE  HandsNone(file, file')
  BY <1>2, AgentsFile DEF HandsNone
<1>3. CASE Emergency
  BY <1>3, EmergencyFile DEF HandsNone, IInv, RestOK
<1>4. CASE Crash \/ UNCHANGED vars
  BY <1>4 DEF Crash, vars, HandsNone
<1>5. CASE Mail
  BY <1>5, SendKickRooms, MailRooms DEF Mail
<1> QED BY <1>1, <1>2, <1>3, <1>4, <1>5 DEF Next, Emergency, Mail

\* Only the agent's own restart gives a stopped agent another status.
LEMMA StoppedStays ==
  ASSUME IInv, [Next]_vars, NEW a \in Agent, agents[a].status = "stopped",
         acts[a] \notin {"restart", "resumed"}
  PROVE  agents'[a].status = "stopped"
<1>1. agents \in [Agent -> AgentRecord]
  BY DEF IInv, RestOK
<1>2. CASE UNCHANGED agents
  BY <1>2
<1>3. ASSUME NEW k \in Controller, Note(k)
      PROVE  agents'[a].status = "stopped"
  <2>1. agents' = Observe(agents, tick[k].agent, tick[k].host, tick[k].seen)
    BY <1>3 DEF Note
  <2>2. CASE tick[k].agent = a
    BY <2>1, <2>2 DEF Observe
  <2>3. CASE tick[k].agent # a
    BY <1>1, <2>1, <2>3 DEF Observe, SetStatus
  <2> QED BY <2>2, <2>3
<1>4. ASSUME NEW b \in Agent, BeginStop(b) \/ BeginRestart(b) \/ Operate(b)
                              \/ TurnEnds(b)
      PROVE  agents'[a].status = "stopped"
  <2>1. CASE MarkStopped(b)
    <3>1. agents' = [agents EXCEPT ![b].status = "stopped"]
      BY <2>1 DEF MarkStopped, SetStatus
    <3> QED BY <1>1, <3>1 DEF AgentRecord
  <2>2. CASE Adopt(b) \/ Replace(b)
    <3>1. b # a
      BY <2>2 DEF Adopt, Replace
    <3>2. agents'[a] = agents[a]
      BY <1>1, <2>2, <3>1 DEF Adopt, Replace, SetStatus, SetHost
    <3> QED BY <3>2
  <2>3. CASE BeginStop(b) \/ BeginRestart(b) \/ HostStops(b) \/ HostResumes(b)
             \/ HostRefuses(b) \/ TurnEnds(b)
    <3>1. UNCHANGED agents
      BY <2>3 DEF BeginStop, BeginRestart, HostStops, HostResumes,
                  HostRefuses, TurnEnds
    <3> QED BY <3>1
  <2> QED BY <1>4, <2>1, <2>2, <2>3 DEF Operate
<1>5. ASSUME NEW k \in Controller, TimerFires(k) \/ Loop(k), ~Note(k)
      PROVE  UNCHANGED agents
  BY <1>5 DEF TimerFires, Loop, Visit, HostReports, HostUnreachable,
              DrainForAgent, StartPrompt, GiveBack, HostHears, HostAnswers,
              HostRejects, OutcomeUnknown, SettleBatch, SettleFails
<1>6. CASE Emergency \/ Crash \/ Mail \/ UNCHANGED vars
  <2>1. UNCHANGED agents
    BY <1>6 DEF Emergency, EmergencyStop, EmergencyPauses, EmergencyHalfSaved,
                EmergencyResume, EmergencyUnpauses, EmergencyClears, Crash,
                Mail, SendMail, KickAgent, LinkAgent, PauseOrUnpause,
                PluginSweeps, CooldownEnds, vars
  <2> QED BY <2>1
<1> QED BY <1>2, <1>3, <1>4, <1>5, <1>6 DEF Next, Loop, Emergency, Mail

\* While an emergency stop is in force nothing is handed over, also when a
\* user unpauses a channel or the coordinator was restarted; and what a tick
\* observed before a stop does not bring a stopped agent back.
THEOREM StopIsKept == Spec => StopHolds
<1>1. ASSUME IInv, Closed, Pauses, [Next]_vars, StopInForce,
             NEW m \in Msg, file.status[m] = "pending"
      PROVE  file'.status[m] # "in_flight"
  <2>1. memory = disk
    BY <1>1 DEF StopInForce, Pauses
  <2>2. memory.stopped
    BY <1>1, <2>1 DEF StopInForce
  <2>3. current = NoController /\ closed \subseteq Controller
    BY <1>1, <2>2 DEF Closed, IInv, RestOK
  <2>4. Controller \ closed \subseteq {NoController}
    BY <1>1, <2>3 DEF Closed
  <2>5. closed = Controller
    <3>1. NoController \notin Controller
      BY ManagedAssumption
    <3>2. \A k \in Controller : k \in closed
      BY <2>4, <3>1
    <3> QED BY <2>3, <3>2
  <2> QED BY <1>1, <2>5, NothingHandedOver DEF HandsNone
<1>2. (IInv /\ Closed /\ Pauses) /\ [Next]_vars =>
        [/\ StopInForce =>
              \A m \in Msg : file.status[m] = "pending" =>
                file'.status[m] # "in_flight"
         /\ \A a \in Agent :
              agents[a].status = "stopped"
              /\ acts[a] \notin {"restart", "resumed"}
                => agents'[a].status = "stopped"]_vars
  BY <1>1, StoppedStays
<1> QED BY <1>2, StopInvariant, PTL DEF Spec, StopHolds

-----------------------------------------------------------------------------
(***************************************************************************)
(* Who is on a roster: only agents' sessions are handed mail by ticks, and *)
(* a session that was sent mail is a member until it is removed.  So no    *)
(* sweep takes the mail of a session that was not.                         *)
(***************************************************************************)
HostsOnly == \A m \in Msg : file.status[m] = "in_flight" => m[2] \in Host

Rostered ==
  \A m \in Msg : m[2] \in Host \ removed /\ file.status[m] # "unsent" =>
    IsMember(file, m[2])

\* Nothing is sent to begin with.
LEMMA InitRostered == Init => HostsOnly /\ Rostered
<1> SUFFICES ASSUME Init
             PROVE  HostsOnly /\ Rostered
  OBVIOUS
<1>1. file.status = [m \in Msg |-> "unsent"]
  BY DEF Init
<1> QED BY <1>1 DEF HostsOnly, Rostered

\* Members are taken off by kicks, which are remembered, and mail is sent to
\* members.
LEMMA NextRostered ==
  ASSUME IInv, HostsOnly, Rostered, [Next]_vars
  PROVE  (HostsOnly /\ Rostered)'
<1>1. ASSUME SendsNone(file, file'), removed' = removed,
             \A r : IsMember(file, r) => IsMember(file', r)
      PROVE  Rostered'
  BY <1>1 DEF Rostered, SendsNone
<1>2. ASSUME HandsNone(file, file')
      PROVE  HostsOnly'
  BY <1>2 DEF HostsOnly, HandsNone
<1>3. SameRooms(file, file') => \A r : IsMember(file, r) => IsMember(file', r)
  BY DEF SameRooms, IsMember, Active, Members
<1>4. ASSUME NEW k \in Controller, TimerFires(k) \/ Loop(k)
      PROVE  (HostsOnly /\ Rostered)'
  <2>1. removed' = removed
    BY <1>4 DEF TimerFires, Loop, Visit, HostReports, HostUnreachable, Note,
                DrainForAgent, StartPrompt, GiveBack, HostHears, HostAnswers,
                HostRejects, OutcomeUnknown, SettleBatch, SettleFails,
                hosts, history
  <2>2. tick[k].host \in Host
    BY DEF IInv, TicksOK, Tick
  <2>3. CASE DrainForAgent(k)
    BY <1>1, <1>3, <2>1, <2>2, <2>3, DrainedRooms DEF HostsOnly
  <2>4. CASE ~DrainForAgent(k)
    BY <1>1, <1>2, <1>3, <1>4, <2>1, <2>4, LoopIdles DEF Idles
  <2> QED BY <2>3, <2>4
<1>5. CASE UNCHANGED <<file, removed>>
  BY <1>5 DEF HostsOnly, Rostered
<1>6. CASE Emergency
  <2>1. /\ file'.status = file.status /\ file'.life = file.life
        /\ file'.members = file.members
    BY <1>6, EmergencyFile DEF IInv, RestOK
  <2>2. removed' = removed
    BY <1>6 DEF Emergency, EmergencyStop, EmergencyPauses, EmergencyHalfSaved,
                EmergencyResume, EmergencyUnpauses, EmergencyClears, hosts,
                history
  <2>3. \A r : IsMember(file, r) => IsMember(file', r)
    BY <2>1 DEF IsMember, Active, Members
  <2> QED BY <1>1, <1>2, <2>1, <2>2, <2>3 DEF SendsNone, HandsNone
<1>7. CASE SendMail \/ KickAgent
  <2>1. removed \subseteq removed'
    BY <1>7 DEF SendMail, KickAgent, hosts, history
  <2>2. /\ HandsNone(file, file')
        /\ \A r \in Host \ removed' : IsMember(file, r) => IsMember(file', r)
        /\ \A m \in Msg : file'.status[m] # "unsent" /\ m[2] \in Host \ removed' =>
             file.status[m] # "unsent" \/ IsMember(file', m[2])
    BY <1>7, SendKickRooms
  <2>3. Rostered'
    <3> SUFFICES ASSUME NEW m \in Msg, m[2] \in Host \ removed',
                        file'.status[m] # "unsent"
                 PROVE  IsMember(file', m[2])
      BY DEF Rostered
    <3>1. CASE file.status[m] = "unsent"
      BY <2>2, <3>1
    <3>2. CASE file.status[m] # "unsent"
      <4>1. IsMember(file, m[2])
        BY <2>1, <3>2 DEF Rostered
      <4> QED BY <2>2, <4>1
    <3> QED BY <3>1, <3>2
  <2> QED BY <1>2, <2>2, <2>3
<1>8. CASE LinkAgent \/ PluginSweeps \/ CooldownEnds \/ PauseOrUnpause
  <2>1. removed' = removed
    BY <1>8 DEF LinkAgent, PluginSweeps, CooldownEnds, PauseOrUnpause, hosts,
                history
  <2>2. /\ SendsNone(file, file') /\ HandsNone(file, file')
        /\ \A r : IsMember(file, r) => IsMember(file', r)
    BY <1>8, MailRooms
  <2> QED BY <1>1, <1>2, <2>1, <2>2
<1>9. CASE Crash \/ UNCHANGED vars
  BY <1>5, <1>9 DEF Crash, vars, history
<1> QED BY <1>4, <1>5, <1>6, <1>7, <1>8, <1>9, AgentsFile DEF Next, Emergency

\* A sweep leaves the mail of agents that were not removed where it is.
LEMMA SweepLeaves ==
  ASSUME IInv, HostsOnly, Rostered, PluginSweeps,
         NEW m \in Msg, m[2] \notin removed
  PROVE  file'.status[m] = file.status[m]
<1>1. file' = Sweep(file) /\ file \in State
  BY DEF PluginSweeps, IInv, Sound
<1>2. m \notin Sweepable(file)
  BY ManagedAssumption DEF HostsOnly, Rostered, Sweepable, IsManaged
<1>3. file'.status = [n \in Msg |-> IF n \in Sweepable(file) THEN "pending"
                                    ELSE file.status[n]]
  BY <1>1 DEF Sweep, State
<1> QED BY <1>2, <1>3

-----------------------------------------------------------------------------
(***************************************************************************)
(* The batches.  Those of two ticks are apart, what is in a batch is still *)
(* out (or pruned) and was not heard before its prompt, and what waits was *)
(* never heard: but for a session that was removed, whose mail the next    *)
(* plugin to start takes back.                                             *)
(***************************************************************************)
Exposed(h) == h \in removed /\ "sweep" \in plan

Untold(t) ==
  \/ t.phase \in {"drained", "returning", "prompting"}
  \/ t.phase = "settling" /\ t.outcome = "failed"

Told(t) ==
  \/ t.phase = "heard"
  \/ t.phase = "settling" /\ t.outcome = "delivered"

Waits == {"unsent", "pending"}
Gone == {"in_flight", "purged"}

BatchesOut ==
  \A k \in Controller : \A m \in Owned(k) : ~Exposed(m[2]) =>
    /\ file.status[m] \in Gone
    /\ Untold(tick[k]) => heard[m] = 0

BatchesApart ==
  \A k, l \in Controller : \A m \in Owned(k) \cap Owned(l) :
    Exposed(m[2]) \/ k = l

WaitingUnheard ==
  \A m \in Msg : ~Exposed(m[2]) =>
    heard[m] <= 1 /\ (file.status[m] \in Waits => heard[m] = 0)

BatchesHeard ==
  \A k \in Controller : Told(tick[k]) => \A m \in Owned(k) : heard[m] >= 1

Batches ==
  BatchesOut /\ BatchesApart /\ WaitingUnheard /\ BatchesHeard
  /\ DeliveredWasHeard

\* No tick holds a batch and nothing was heard when the coordinator starts.
LEMMA InitBatches == Init => Batches
<1> SUFFICES ASSUME Init
             PROVE  Batches
  OBVIOUS
<1>1. /\ file.status = [m \in Msg |-> "unsent"] /\ heard = [m \in Msg |-> 0]
      /\ tick = [k \in Controller |-> IdleTick]
  BY DEF Init
<1>2. \A k \in Controller : Owned(k) = {} /\ tick[k].phase = "none"
  BY <1>1, EmptyFacts DEF Owned, IdleTick
<1> QED BY <1>1, <1>2 DEF Batches, BatchesOut, BatchesApart, WaitingUnheard,
           BatchesHeard, DeliveredWasHeard, Told, Untold, Waits

\* A tick goes on with its batch or without it.
Loosens(l) ==
  /\ Owned(l)' \subseteq Owned(l)
  /\ Owned(l)' # {} => /\ Untold(tick'[l]) => Untold(tick[l])
                       /\ Told(tick'[l]) => Told(tick[l])

\* An envelope that nobody brings back or commits behind its tick's back.
Leaves(m) ==
  /\ ~(m[2] \in removed' /\ "sweep" \in plan) =>
       /\ file'.status[m] \in Waits => file.status[m] \in Waits \/ heard[m] = 0
       /\ (\E l \in Controller : m \in Owned(l)') /\ file.status[m] \in Gone =>
            file'.status[m] \in Gone
  /\ file'.status[m] = "delivered" => file.status[m] = "delivered" \/ heard[m] >= 1

\* A step in which all ticks and envelopes behave like that.
LEMMA LooseStep ==
  ASSUME IInv, Batches, UNCHANGED <<heard, plan>>, removed \subseteq removed',
         \A l \in Controller : Loosens(l),
         \A m \in Msg : Leaves(m)
  PROVE  Batches'
<1>1. \A l \in Controller : Owned(l) \subseteq Msg
  BY DEF IInv, TicksOK, Holds, IsBatch, Owned, Elems
<1>2. \A h : Exposed(h) => Exposed(h)'
  BY DEF Exposed
<1>3. BatchesOut'
  <2> SUFFICES ASSUME NEW k \in Controller, NEW m \in Owned(k)',
                      ~Exposed(m[2])'
               PROVE  /\ file'.status[m] \in Gone
                      /\ Untold(tick'[k]) => heard'[m] = 0
    BY DEF BatchesOut
  <2>1. m \in Owned(k) /\ m \in Msg /\ ~Exposed(m[2])
    BY <1>1, <1>2 DEF Loosens
  <2>2. file.status[m] \in Gone /\ (Untold(tick[k]) => heard[m] = 0)
    BY <2>1 DEF Batches, BatchesOut
  <2>3. Untold(tick'[k]) => Untold(tick[k])
    BY DEF Loosens
  <2>4. file'.status[m] \in Gone
    BY <2>1, <2>2 DEF Leaves, Exposed
  <2> QED BY <2>2, <2>3, <2>4
<1>4. BatchesApart'
  <2> SUFFICES ASSUME NEW k \in Controller, NEW l \in Controller,
                      NEW m \in Owned(k)' \cap Owned(l)'
               PROVE  Exposed(m[2])' \/ k = l
    BY DEF BatchesApart
  <2>1. m \in Owned(k) \cap Owned(l)
    BY DEF Loosens
  <2> QED BY <1>2, <2>1 DEF Batches, BatchesApart
<1>5. WaitingUnheard'
  <2> SUFFICES ASSUME NEW m \in Msg, ~Exposed(m[2])'
               PROVE  /\ heard'[m] <= 1
                      /\ file'.status[m] \in Waits => heard'[m] = 0
    BY DEF WaitingUnheard
  <2>1. ~Exposed(m[2])
    BY <1>2
  <2>2. heard[m] <= 1 /\ (file.status[m] \in Waits => heard[m] = 0)
    BY <2>1 DEF Batches, WaitingUnheard
  <2>3. file'.status[m] \in Waits => file.status[m] \in Waits \/ heard[m] = 0
    BY DEF Leaves, Exposed
  <2> QED BY <2>2, <2>3
<1>6. BatchesHeard'
  <2> SUFFICES ASSUME NEW k \in Controller, Told(tick'[k]), NEW m \in Owned(k)'
               PROVE  heard'[m] >= 1
    BY DEF BatchesHeard
  <2>1. m \in Owned(k) /\ Told(tick[k])
    BY DEF Loosens
  <2> QED BY <2>1 DEF Batches, BatchesHeard
<1>7. DeliveredWasHeard'
  <2> SUFFICES ASSUME NEW m \in Msg, file'.status[m] = "delivered"
               PROVE  heard'[m] >= 1
    BY DEF DeliveredWasHeard
  <2>1. file.status[m] = "delivered" => heard[m] >= 1
    BY DEF Batches, DeliveredWasHeard
  <2> QED BY <2>1 DEF Leaves
<1> QED BY <1>3, <1>4, <1>5, <1>6, <1>7 DEF Batches

\* One tick goes on; the others are where they were.
LEMMA OneLoosens ==
  ASSUME TicksOK, NEW k \in Controller, NEW t,
         tick' = [tick EXCEPT ![k] = t],
         \/ t.ids = << >>
         \/ /\ t.ids = tick[k].ids
            /\ Untold(t) => Untold(tick[k])
            /\ Told(t) => Told(tick[k]),
         NEW l \in Controller
  PROVE  Loosens(l)
<1>1. tick \in [Controller -> Tick]
  BY DEF TicksOK
<1>2. CASE l = k
  BY <1>1, <1>2, EmptyFacts DEF Loosens, Owned
<1>3. CASE l # k
  BY <1>1, <1>3 DEF Loosens, Owned
<1> QED BY <1>2, <1>3

\* Every step of the loop but the drain and the prompt.
LEMMA LoopLoosens ==
  ASSUME IInv, NEW k \in Controller, TimerFires(k) \/ Loop(k),
         ~DrainForAgent(k), ~HostHears(k), NEW l \in Controller
  PROVE  Loosens(l)
<1>1. TicksOK /\ tick \in [Controller -> Tick] /\ tick[k] \in Tick
  BY DEF IInv, TicksOK
<1>2. tick[k].phase \notin Holding => tick[k].ids = << >>
  BY DEF IInv, TicksOK, Holds
<1>3. ASSUME NEW p \in Phase, Step(k, p), Untold([phase |-> p, outcome |-> tick[k].outcome])
                => Untold(tick[k]),
             p # "heard", p # "settling"
      PROVE  Loosens(l)
  <2> DEFINE t == [tick[k] EXCEPT !.phase = p]
  <2>1. /\ t.phase = p /\ t.outcome = tick[k].outcome
        /\ t.ids = tick[k].ids
    BY <1>1 DEF Tick
  <2>2. tick' = [tick EXCEPT ![k] = t]
    BY <1>1, <1>3 DEF Step
  <2> HIDE DEF t
  <2>3. (Untold(t) => Untold(tick[k])) /\ ~Told(t)
    BY <1>3, <2>1 DEF Untold, Told
  <2> QED BY <1>1, <2>1, <2>2, <2>3, OneLoosens
<1>4. ASSUME NEW o, Settle(k, o), o = "failed" => Untold(tick[k]),
             o = "delivered" => Told(tick[k])
      PROVE  Loosens(l)
  <2> DEFINE t == [tick[k] EXCEPT !.phase = "settling", !.outcome = o]
  <2>1. t.phase = "settling" /\ t.outcome = o /\ t.ids = tick[k].ids
    BY <1>1 DEF Tick
  <2>2. tick' = [tick EXCEPT ![k] = t]
    BY <1>1, <1>4 DEF Settle
  <2> HIDE DEF t
  <2>3. (Untold(t) => Untold(tick[k])) /\ (Told(t) => Told(tick[k]))
    BY <1>4, <2>1 DEF Untold, Told
  <2> QED BY <1>1, <2>1, <2>2, <2>3, OneLoosens
<1>5. ASSUME End(k) \/ Continue(k)
      PROVE  Loosens(l)
  <2>1. /\ IdleTick.ids = << >>
        /\ [IdleTick EXCEPT !.phase = "next", !.todo = tick[k].todo].ids = << >>
    BY DEF IdleTick
  <2>2. CASE End(k)
    BY <1>1, <2>1, <2>2, OneLoosens DEF End
  <2>3. CASE Continue(k)
    <3> DEFINE t == [IdleTick EXCEPT !.phase = "next", !.todo = tick[k].todo]
    <3>1. tick' = [tick EXCEPT ![k] = t] /\ t.ids = << >>
      BY <2>1, <2>3 DEF Continue
    <3> HIDE DEF t
    <3> QED BY <1>1, <3>1, OneLoosens
  <2> QED BY <1>5, <2>2, <2>3
<1>6. ASSUME NEW t, tick' = [tick EXCEPT ![k] = t], t.ids = << >>
      PROVE  Loosens(l)
  BY <1>1, <1>6, OneLoosens
<1>7. CASE TimerFires(k)
  <2> DEFINE d == {<<a, agents[a].host>> :
                     a \in {b \in Agent :
                              /\ agents[b].host # NoHost
                              /\ agents[b].status \notin
                                   {"none", "stopped", "failed"}}}
             t == [IdleTick EXCEPT !.phase = "next", !.todo = d]
  <2>1. tick' = [tick EXCEPT ![k] = t]
    BY <1>7, Zenon DEF TimerFires
  <2> HIDE DEF d
  <2>2. t.ids = << >>
    BY DEF IdleTick
  <2> HIDE DEF t
  <2> QED BY <1>6, <2>1, <2>2
<1>8. CASE Visit(k)
  <2>1. ASSUME NEW v \in tick[k].todo,
               tick' = [tick EXCEPT ![k].phase = "asking",
                                    ![k].todo = @ \ {v},
                                    ![k].agent = v[1],
                                    ![k].host = v[2]]
        PROVE  Loosens(l)
    <3> DEFINE t == [tick[k] EXCEPT !.phase = "asking", !.todo = @ \ {v},
                                    !.agent = v[1], !.host = v[2]]
    <3>1. t.ids = << >>
      BY <1>1, <1>2, <1>8 DEF Visit, In, Holding, Tick
    <3>2. tick' = [tick EXCEPT ![k] = t]
      BY <1>1, <2>1
    <3> HIDE DEF t
    <3> QED BY <1>6, <3>1, <3>2
  <2> QED BY <1>5, <1>8, <2>1 DEF Visit
<1>9. ASSUME In(k, "asking"), NEW s,
             tick' = [tick EXCEPT ![k].phase = "noting", ![k].seen = s]
      PROVE  Loosens(l)
  <2> DEFINE t == [tick[k] EXCEPT !.phase = "noting", !.seen = s]
  <2>1. t.ids = << >>
    BY <1>1, <1>2, <1>9 DEF In, Holding, Tick
  <2>2. tick' = [tick EXCEPT ![k] = t]
    BY <1>1, <1>9
  <2> HIDE DEF t
  <2> QED BY <1>6, <2>1, <2>2
<1>10. CASE HostReports(k) \/ HostUnreachable(k)
  BY <1>9, <1>10 DEF HostReports, HostUnreachable
<1>11. CASE Note(k)
  <2>1. CASE Step(k, "draining")
    BY <1>3, <2>1 DEF Untold, Phase
  <2> QED BY <1>5, <1>11, <2>1 DEF Note
<1>12. CASE StartPrompt(k)
  <2>1. Untold(tick[k])
    BY <1>12 DEF StartPrompt, In, Untold
  <2>2. Step(k, "returning") \/ Step(k, "prompting") \/ Settle(k, "failed")
    BY <1>12 DEF StartPrompt
  <2> QED BY <1>3, <1>4, <2>1, <2>2 DEF Phase
<1>13. CASE HostAnswers(k)
  <2>1. Told(tick[k])
    BY <1>13 DEF HostAnswers, In, Told
  <2> QED BY <1>4, <1>13, <2>1 DEF HostAnswers
<1>14. CASE HostRejects(k)
  <2>1. Untold(tick[k])
    BY <1>14 DEF HostRejects, In, Untold
  <2> QED BY <1>4, <1>14, <2>1 DEF HostRejects
<1>15. CASE OutcomeUnknown(k)
  BY <1>4, <1>15 DEF OutcomeUnknown
<1>16. CASE GiveBack(k) \/ SettleBatch(k) \/ SettleFails(k)
  BY <1>5, <1>16 DEF GiveBack, SettleBatch, SettleFails
<1> QED BY <1>7, <1>8, <1>10, <1>11, <1>12, <1>13, <1>14, <1>15, <1>16
        DEF Loop

\* What a tick settles is its own: committed because the host heard it,
\* requeued because it did not.
LEMMA LoopLeaves ==
  ASSUME IInv, Batches, NEW k \in Controller, TimerFires(k) \/ Loop(k),
         ~DrainForAgent(k), UNCHANGED <<removed, plan>>, NEW m \in Msg
  PROVE  Leaves(m)
<1>1. Sound(file) /\ tick[k] \in Tick /\ Owned(k) \subseteq Msg
  BY DEF IInv, TicksOK, Holds, IsBatch, Owned, Elems
<1>2. CASE file'.status[m] = file.status[m]
  BY <1>2 DEF Leaves, Batches, WaitingUnheard, DeliveredWasHeard
<1>3. ASSUME m \in Owned(k), End(k)
      PROVE  /\ Owned(k)' = {}
             /\ (\E l \in Controller : m \in Owned(l)') => Exposed(m[2])
  <2>1. tick \in [Controller -> Tick]
    BY DEF IInv, TicksOK
  <2>2. \A l \in Controller : tick'[l] = IF l = k THEN IdleTick ELSE tick[l]
    BY <1>3, <2>1 DEF End
  <2>3. Owned(k)' = {}
    <3>1. tick'[k] = IdleTick
      BY <2>2
    <3>2. IdleTick.ids = << >>
      BY DEF IdleTick
    <3> QED BY <3>1, <3>2, EmptyFacts DEF Owned
  <2>4. \A l \in Controller : l # k => Owned(l)' = Owned(l)
    BY <2>2 DEF Owned
  <2> QED BY <1>3, <2>3, <2>4 DEF Batches, BatchesApart
<1>4. CASE SettleBatch(k) /\ m \in Owned(k) /\ tick[k].outcome = "delivered"
  <2>1. heard[m] >= 1
    BY <1>4 DEF SettleBatch, In, Told, Batches, BatchesHeard
  <2>2. file' = Commit(file, tick[k].host, tick[k].ids) /\ End(k)
    BY <1>4 DEF SettleBatch
  <2>3. file'.status[m] \in {"delivered", file.status[m]}
    BY <1>1, <2>2 DEF Commit, Sound, State
  <2> QED BY <1>3, <1>4, <2>1, <2>2, <2>3 DEF Leaves, Exposed, Waits
<1>5. CASE /\ m \in Owned(k)
           /\ \/ SettleBatch(k) /\ tick[k].outcome = "failed"
              \/ GiveBack(k)
  <2>1. ~Exposed(m[2]) => heard[m] = 0
    BY <1>5 DEF SettleBatch, GiveBack, In, Untold, Batches, BatchesOut
  <2>2. file' = Requeue(file, tick[k].host, tick[k].ids) /\ End(k)
    BY <1>5 DEF SettleBatch, GiveBack
  <2>3. file'.status[m] \in {"failed", "pending", file.status[m]}
    BY <1>1, <2>2 DEF Requeue, Sound, State
  <2>4. file.status[m] = "delivered" => heard[m] >= 1
    BY DEF Batches, DeliveredWasHeard
  <2> QED BY <1>3, <1>5, <2>1, <2>2, <2>3, <2>4 DEF Leaves, Exposed
<1>6. CASE UNCHANGED file
  BY <1>2, <1>6
<1>7. CASE m \notin Owned(k)
  BY <1>2, <1>7, LoopIdles
<1>8. \/ SettleBatch(k) /\ tick[k].outcome \in {"delivered", "failed"}
      \/ GiveBack(k)
      \/ UNCHANGED file
  <2>1. tick[k].outcome \in {"delivered", "failed", "uncertain"}
    BY <1>1 DEF Tick
  <2> QED BY <2>1 DEF Loop, TimerFires, Visit, HostReports, HostUnreachable,
                      Note, StartPrompt, GiveBack, HostHears, HostAnswers,
                      HostRejects, OutcomeUnknown, SettleBatch, SettleFails
<1> QED BY <1>4, <1>5, <1>6, <1>7, <1>8

\* The prompt: the batch at hand, and no other, is heard once more.
LEMMA HearsBatches ==
  ASSUME IInv, Batches, NEW k \in Controller, HostHears(k)
  PROVE  Batches'
<1>1. /\ tick \in [Controller -> Tick] /\ tick[k] \in Tick
      /\ heard \in [Msg -> Nat]
      /\ \A l \in Controller : Owned(l) \subseteq Msg
  BY DEF IInv, TicksOK, RestOK, Holds, IsBatch, Owned, Elems
<1> DEFINE t == [tick[k] EXCEPT !.phase = "heard"]
<1>2. t.ids = tick[k].ids /\ t.phase = "heard"
  BY <1>1 DEF Tick
<1>3. tick' = [tick EXCEPT ![k] = t]
  BY <1>1 DEF HostHears, Step
<1> HIDE DEF t
<1>4. /\ tick'[k] = t
      /\ \A l \in Controller : Owned(l)' = Owned(l)
      /\ \A l \in Controller : l # k => tick'[l] = tick[l]
  BY <1>1, <1>2, <1>3 DEF Owned
<1>5. Untold(tick[k]) /\ ~Untold(t)
  BY <1>2 DEF HostHears, In, Untold
<1>6. \A m \in Msg : heard'[m] = IF m \in Owned(k) THEN heard[m] + 1 ELSE heard[m]
  BY DEF HostHears, Owned
<1>7. UNCHANGED file /\ \A h : Exposed(h)' <=> Exposed(h)
  BY DEF HostHears, Exposed
<1>8. \A m \in Owned(k) : ~Exposed(m[2]) =>
        heard[m] = 0 /\ file.status[m] \in Gone
  BY <1>5 DEF Batches, BatchesOut
<1>9. BatchesOut'
  <2> SUFFICES ASSUME NEW l \in Controller, NEW m \in Owned(l), ~Exposed(m[2])
               PROVE  /\ file.status[m] \in Gone
                      /\ Untold(tick'[l]) => heard'[m] = 0
    BY <1>4, <1>7 DEF BatchesOut
  <2>1. file.status[m] \in Gone /\ (Untold(tick[l]) => heard[m] = 0)
    BY DEF Batches, BatchesOut
  <2>2. CASE l = k
    BY <1>4, <1>5, <2>1, <2>2
  <2>3. CASE l # k
    <3>1. m \notin Owned(k) /\ m \in Msg
      BY <1>1, <2>3 DEF Batches, BatchesApart
    <3> QED BY <1>4, <1>6, <2>1, <2>3, <3>1
  <2> QED BY <2>2, <2>3
<1>10. BatchesApart'
  BY <1>4, <1>7 DEF Batches, BatchesApart
<1>11. WaitingUnheard'
  <2> SUFFICES ASSUME NEW m \in Msg, ~Exposed(m[2])
               PROVE  /\ heard'[m] <= 1
                      /\ file.status[m] \in Waits => heard'[m] = 0
    BY <1>7 DEF WaitingUnheard
  <2>1. heard[m] <= 1 /\ (file.status[m] \in Waits => heard[m] = 0)
    BY DEF Batches, WaitingUnheard
  <2>2. CASE m \in Owned(k)
    BY <1>6, <1>8, <2>2 DEF Waits, Gone
  <2>3. CASE m \notin Owned(k)
    BY <1>6, <2>1, <2>3
  <2> QED BY <2>2, <2>3
<1>12. BatchesHeard'
  <2> SUFFICES ASSUME NEW l \in Controller, Told(tick'[l]), NEW m \in Owned(l)
               PROVE  heard'[m] >= 1
    BY <1>4 DEF BatchesHeard
  <2>1. m \in Msg /\ heard[m] \in Nat
    BY <1>1
  <2>2. CASE l = k
    BY <1>6, <2>1, <2>2
  <2>3. CASE l # k
    <3>1. heard[m] >= 1
      BY <1>4, <2>3 DEF Batches, BatchesHeard
    <3> QED BY <1>6, <2>1, <3>1
  <2> QED BY <2>2, <2>3
<1>13. DeliveredWasHeard'
  <2> SUFFICES ASSUME NEW m \in Msg, file.status[m] = "delivered"
               PROVE  heard'[m] >= 1
    BY <1>7 DEF DeliveredWasHeard
  <2>1. heard[m] >= 1 /\ heard[m] \in Nat
    BY <1>1 DEF Batches, DeliveredWasHeard
  <2> QED BY <1>6, <2>1
<1> QED BY <1>9, <1>10, <1>11, <1>12, <1>13 DEF Batches

\* What operations that spare mail handed over leave behind.
LEMMA SparesLeaves ==
  ASSUME Batches, Spares(file, file'), NEW m \in Msg
  PROVE  Leaves(m)
<1>1. file'.status[m] \in Waits => file.status[m] \in Waits
  BY DEF Spares, Waits
<1>2. file.status[m] \in Gone => file'.status[m] \in Gone
  BY DEF Spares, Continues, Keeps, Refused, Out, Gone
<1>3. file'.status[m] = "delivered" => file.status[m] = "delivered"
  BY DEF Spares, Continues
<1> QED BY <1>1, <1>2, <1>3 DEF Leaves

\* The drain: what it takes was waiting, so no tick has it and no host heard
\* it.
LEMMA DrainBatches ==
  ASSUME IInv, Batches, NEW k \in Controller, DrainForAgent(k)
  PROVE  Batches'
<1>1. /\ TicksOK /\ tick \in [Controller -> Tick] /\ tick[k] \in Tick
      /\ \A l \in Controller : Owned(l) \subseteq Msg
  <2>1. TicksOK /\ tick \in [Controller -> Tick] /\ tick[k] \in Tick
    BY DEF IInv, TicksOK
  <2>2. \A l \in Controller : Owned(l) \subseteq Msg
    BY <2>1 DEF TicksOK, Holds, IsBatch, Owned, Elems
  <2> QED BY <2>1, <2>2
<1>2. UNCHANGED <<heard, removed, plan>>
  BY DEF DrainForAgent, hosts, history
<1>3. ASSUME Continue(k), UNCHANGED file \/ Spares(file, file')
      PROVE  Batches'
  <2> DEFINE t == [IdleTick EXCEPT !.phase = "next", !.todo = tick[k].todo]
  <2>1. tick' = [tick EXCEPT ![k] = t] /\ t.ids = << >>
    BY <1>3 DEF Continue, IdleTick
  <2> HIDE DEF t
  <2>2. \A l \in Controller : Loosens(l)
    BY <1>1, <2>1, OneLoosens
  <2>3. Spares(file, file')
    BY <1>3, SparesSame
  <2>4. \A m \in Msg : Leaves(m)
    BY <2>3, SparesLeaves
  <2> QED BY <1>2, <2>2, <2>4, LooseStep
<1> DEFINE h == tick[k].host
           ids == Batch(Reaching(file, h), h)
           t == [tick[k] EXCEPT !.phase = "drained", !.ids = ids]
<1>4. ASSUME Spares(file, file'), tick' = [tick EXCEPT ![k] = t],
             \A m \in Elems(ids) :
               /\ m \in Msg /\ m[2] = h /\ file.status[m] = "pending"
               /\ file'.status[m] \in {"in_flight", "purged"}
      PROVE  Batches'
  <2>1. t.ids = ids /\ t.phase = "drained"
    BY <1>1 DEF Tick
  <2> HIDE DEF t, ids, h
  <2>2. /\ tick'[k] = t /\ Owned(k)' = Elems(ids)
        /\ \A l \in Controller : l # k =>
             tick'[l] = tick[l] /\ Owned(l)' = Owned(l)
    BY <1>1, <1>4, <2>1 DEF Owned
  <2>3. \A m \in Msg : Leaves(m)
    BY <1>4, SparesLeaves
  <2>4. \A m \in Elems(ids) : ~Exposed(m[2]) =>
          heard[m] = 0 /\ \A l \in Controller : m \notin Owned(l)
    BY <1>4 DEF Batches, WaitingUnheard, BatchesOut, Waits, Gone
  <2>5. BatchesOut'
    <3> SUFFICES ASSUME NEW l \in Controller, NEW m \in Owned(l)',
                        ~Exposed(m[2])
                 PROVE  /\ file'.status[m] \in Gone
                        /\ Untold(tick'[l]) => heard[m] = 0
      BY <1>2 DEF BatchesOut, Exposed
    <3>1. CASE l = k
      BY <1>4, <2>2, <2>4, <3>1 DEF Gone
    <3>2. CASE l # k
      <4>1. m \in Owned(l) /\ m \in Msg /\ tick'[l] = tick[l]
        BY <1>1, <2>2, <3>2
      <4>2. file.status[m] \in Gone /\ (Untold(tick[l]) => heard[m] = 0)
        BY <4>1 DEF Batches, BatchesOut
      <4>3. file'.status[m] \in Gone
        BY <1>2, <2>3, <4>1, <4>2 DEF Leaves, Exposed
      <4> QED BY <4>1, <4>2, <4>3
    <3> QED BY <3>1, <3>2
  <2>6. BatchesApart'
    <3> SUFFICES ASSUME NEW i \in Controller, NEW j \in Controller,
                        NEW m \in Owned(i)' \cap Owned(j)', ~Exposed(m[2]),
                        i # j
                 PROVE  FALSE
      BY <1>2 DEF BatchesApart, Exposed
    <3>1. CASE i # k /\ j # k
      BY <2>2, <3>1 DEF Batches, BatchesApart
    <3>2. CASE i = k
      BY <2>2, <2>4, <3>2
    <3>3. CASE j = k
      BY <2>2, <2>4, <3>3
    <3> QED BY <3>1, <3>2, <3>3
  <2>7. WaitingUnheard'
    <3> SUFFICES ASSUME NEW m \in Msg, ~Exposed(m[2])
                 PROVE  /\ heard[m] <= 1
                        /\ file'.status[m] \in Waits => heard[m] = 0
      BY <1>2 DEF WaitingUnheard, Exposed
    <3>1. heard[m] <= 1 /\ (file.status[m] \in Waits => heard[m] = 0)
      BY DEF Batches, WaitingUnheard
    <3>2. file'.status[m] \in Waits => file.status[m] \in Waits \/ heard[m] = 0
      BY <1>2, <2>3 DEF Leaves, Exposed
    <3> QED BY <3>1, <3>2
  <2>8. BatchesHeard'
    <3> SUFFICES ASSUME NEW l \in Controller, Told(tick'[l]), NEW m \in Owned(l)'
                 PROVE  heard[m] >= 1
      BY <1>2 DEF BatchesHeard
    <3>1. l # k
      BY <2>1, <2>2 DEF Told
    <3> QED BY <2>2, <3>1 DEF Batches, BatchesHeard
  <2>9. DeliveredWasHeard'
    <3> SUFFICES ASSUME NEW m \in Msg, file'.status[m] = "delivered"
                 PROVE  heard[m] >= 1
      BY <1>2 DEF DeliveredWasHeard
    <3> QED BY <2>3 DEF Leaves, Batches, DeliveredWasHeard
  <2> QED BY <2>5, <2>6, <2>7, <2>8, <2>9 DEF Batches
<1> QED BY <1>3, <1>4, DrainedFacts

\* The batches are kept.
LEMMA NextBatches ==
  ASSUME IInv, HostsOnly, Rostered, Batches, [Next]_vars
  PROVE  Batches'
<1>1. ASSUME UNCHANGED <<tick, heard, plan>>, removed \subseteq removed',
             \A m \in Msg : Leaves(m)
      PROVE  Batches'
  <2>1. \A l \in Controller : Loosens(l)
    BY <1>1 DEF Loosens, Owned
  <2> QED BY <1>1, <2>1, LooseStep
<1>2. UNCHANGED file \/ Spares(file, file') => \A m \in Msg : Leaves(m)
  BY SparesSame, SparesLeaves
<1>3. ASSUME NEW k \in Controller, TimerFires(k) \/ Loop(k)
      PROVE  Batches'
  <2>1. CASE DrainForAgent(k)
    BY <2>1, DrainBatches
  <2>2. CASE HostHears(k)
    BY <2>2, HearsBatches
  <2>3. CASE ~DrainForAgent(k) /\ ~HostHears(k)
    <3>1. UNCHANGED <<heard, removed, plan>>
      BY <1>3, <2>3
      DEF TimerFires, Loop, Visit, HostReports, HostUnreachable, Note,
          StartPrompt, GiveBack, HostAnswers, HostRejects, OutcomeUnknown,
          SettleBatch, SettleFails, hosts, history
    <3>2. \A l \in Controller : Loosens(l)
      BY <1>3, <2>3, LoopLoosens
    <3>3. \A m \in Msg : Leaves(m)
      BY <1>3, <2>3, <3>1, LoopLeaves
    <3> QED BY <3>1, <3>2, <3>3, LooseStep
  <2> QED BY <2>1, <2>2, <2>3
<1>4. ASSUME NEW a \in Agent,
             BeginStop(a) \/ BeginRestart(a) \/ Operate(a) \/ TurnEnds(a)
      PROVE  Batches'
  <2>1. UNCHANGED <<file, tick, heard, removed, plan>>
    BY <1>4, AgentsFile
  <2> QED BY <1>1, <1>2, <2>1
<1>5. CASE Emergency
  <2>1. UNCHANGED <<tick, heard, removed, plan>>
    BY <1>5 DEF Emergency, EmergencyStop, EmergencyPauses, EmergencyHalfSaved,
                EmergencyResume, EmergencyUnpauses, EmergencyClears, loop,
                hosts, history
  <2>2. file'.status = file.status /\ file'.total = file.total
    BY <1>5, EmergencyFile DEF IInv, RestOK
  <2> QED BY <1>1, <1>2, <2>1, <2>2, SparesSame
<1>6. CASE Crash
  <2>1. \A l \in Controller : Loosens(l)
    <3>1. \A l \in Controller : tick'[l] = IdleTick
      BY <1>6 DEF Crash
    <3>2. IdleTick.ids = << >>
      BY DEF IdleTick
    <3> QED BY <3>1, <3>2, EmptyFacts DEF Loosens, Owned
  <2>2. UNCHANGED <<file, heard, removed, plan>>
    BY <1>6 DEF Crash, history
  <2> QED BY <1>2, <2>1, <2>2, LooseStep
<1>7. CASE SendMail \/ KickAgent
  <2>1. Spares(file, file')
    BY <1>7, SendKickFacts DEF IInv
  <2>2. UNCHANGED <<tick, heard, plan>> /\ removed \subseteq removed'
    BY <1>7 DEF SendMail, KickAgent, loop, hosts, history
  <2> QED BY <1>1, <1>2, <2>1, <2>2
<1>8. CASE LinkAgent \/ PauseOrUnpause \/ CooldownEnds
  <2>1. UNCHANGED <<tick, heard, plan, removed>>
    BY <1>8 DEF LinkAgent, PauseOrUnpause, CooldownEnds, loop, hosts, history
  <2>2. file'.status = file.status /\ file'.total = file.total
    <3>1. CASE LinkAgent
      <4>1. PICK a \in Agent, c \in Channel :
              /\ agents[a].host # NoHost
              /\ file' = JoinChannel(file, c, agents[a].host)
        BY <3>1 DEF LinkAgent
      <4>2. Sound(file) /\ agents[a].host \in Session
        BY <4>1, HostsAreSessions DEF IInv, RestOK, AgentRecord
      <4> QED BY <4>1, <4>2, JoinRooms
    <3>2. CASE PauseOrUnpause \/ CooldownEnds
      BY <3>2 DEF PauseOrUnpause, CooldownEnds, SetPaused, EndCooldown, IInv,
                  Sound, State
    <3> QED BY <1>8, <3>1, <3>2
  <2> QED BY <1>1, <1>2, <2>1, <2>2, SparesSame
<1>9. CASE PluginSweeps
  <2>1. UNCHANGED <<tick, heard, plan, removed>> /\ "sweep" \in plan
    BY <1>9 DEF PluginSweeps, loop, hosts, history
  <2>2. \A m \in Msg : m[2] \notin removed => file'.status[m] = file.status[m]
    BY <1>9, SweepLeaves
  <2>3. \A m \in Msg : file'.status[m] = "delivered" => file.status[m] = "delivered"
    BY <1>9, SweepContinues DEF PluginSweeps, IInv, Continues
  <2>4. \A m \in Msg : Leaves(m)
    BY <2>1, <2>2, <2>3 DEF Leaves
  <2> QED BY <1>1, <2>1, <2>4
<1>10. CASE UNCHANGED vars
  BY <1>1, <1>2, <1>10 DEF vars, history
<1> QED BY <1>3, <1>4, <1>5, <1>6, <1>7, <1>8, <1>9, <1>10
        DEF Next, Emergency

\* They hold throughout.
LEMMA BatchInvariant == Spec => [](IInv /\ HostsOnly /\ Rostered /\ Batches)
<1>1. Init => IInv /\ HostsOnly /\ Rostered /\ Batches
  BY InitIInv, InitRostered, InitBatches
<1>2. IInv /\ HostsOnly /\ Rostered /\ Batches /\ [Next]_vars =>
        (IInv /\ HostsOnly /\ Rostered /\ Batches)'
  BY NextIInv, NextRostered, NextBatches
<1> QED BY <1>1, <1>2, PTL DEF Spec

\* An accepted or uncertain prompt is never replayed to a session that stays
\* on the roster, and mail the senders see as delivered was accepted.
THEOREM PromptedAtMostOnce == Spec => [](PromptedOnce /\ DeliveredWasHeard)
<1>1. Batches => PromptedOnce /\ DeliveredWasHeard
  BY DEF Batches, WaitingUnheard, Exposed, PromptedOnce
<1> QED BY <1>1, BatchInvariant, PTL

-----------------------------------------------------------------------------
NothingPruned == \A m \in Msg : file.status[m] # "purged"

\* Mail whose outcome is uncertain stays in flight until an operator acts.
THEOREM UncertainMailWaits == Spec /\ []NothingPruned => UncertainWaits
<1>1. ASSUME IInv, HostsOnly, Rostered, [Next]_vars, NothingPruned',
             NEW m \in Msg, file.status[m] = "in_flight", m[2] \notin removed,
             \A k \in Controller : m \notin Owned(k)
      PROVE  file'.status[m] = "in_flight"
  <2>1. file'.status[m] # "purged"
    BY <1>1 DEF NothingPruned
  <2>2. Spares(file, file') => file'.status[m] = "in_flight"
    BY <1>1, <2>1 DEF Spares, Out
  <2>3. file'.status = file.status => file'.status[m] = "in_flight"
    BY <1>1
  <2>4. ASSUME NEW k \in Controller, TimerFires(k) \/ Loop(k)
        PROVE  file'.status[m] = "in_flight"
    <3>1. CASE DrainForAgent(k)
      BY <1>1, <2>2, <2>3, <3>1, DrainedFacts
    <3>2. CASE ~DrainForAgent(k)
      BY <1>1, <2>4, <3>2, LoopIdles
    <3> QED BY <3>1, <3>2
  <2>5. ASSUME NEW a \in Agent,
               BeginStop(a) \/ BeginRestart(a) \/ Operate(a) \/ TurnEnds(a)
        PROVE  file'.status[m] = "in_flight"
    BY <2>3, <2>5, AgentsFile
  <2>6. CASE Emergency
    BY <1>1, <2>3, <2>6, EmergencyFile DEF IInv, RestOK
  <2>7. CASE SendMail \/ KickAgent
    BY <1>1, <2>2, <2>7, SendKickFacts DEF IInv
  <2>8. CASE PluginSweeps
    BY <1>1, <2>8, SweepLeaves
  <2>9. CASE LinkAgent
    <3>1. PICK a \in Agent, c \in Channel :
            /\ agents[a].host # NoHost
            /\ file' = JoinChannel(file, c, agents[a].host)
      BY <2>9 DEF LinkAgent
    <3>2. Sound(file) /\ agents[a].host \in Session
      BY <1>1, <3>1, HostsAreSessions DEF IInv, RestOK, AgentRecord
    <3> QED BY <2>3, <3>1, <3>2, JoinRooms
  <2>10. CASE PauseOrUnpause \/ CooldownEnds \/ Crash \/ UNCHANGED vars
    <3>1. file'.status = file.status
      BY <1>1, <2>10 DEF PauseOrUnpause, CooldownEnds, SetPaused, EndCooldown,
                         IInv, Sound, State, Crash, vars
    <3> QED BY <2>3, <3>1
  <2> QED BY <1>1, <2>4, <2>5, <2>6, <2>7, <2>8, <2>9, <2>10
          DEF Next, Emergency
<1>2. (IInv /\ HostsOnly /\ Rostered /\ Batches) /\ NothingPruned' /\ [Next]_vars =>
        [\A m \in Msg :
           /\ file.status[m] = "in_flight"
           /\ m[2] \notin removed
           /\ \A k \in Controller : m \notin Elems(tick[k].ids)
           => file'.status[m] = "in_flight"]_vars
  BY <1>1 DEF Owned
<1> QED BY <1>2, BatchInvariant, PTL DEF Spec, UncertainWaits

-----------------------------------------------------------------------------
(***************************************************************************)
(* The mail contract.                                                      *)
(***************************************************************************)
\* What a step between two states does, seen as MailContract sees it.
LEMMA ContractStep ==
  ASSUME Sound(file), Honours(file, file'), WithinBudget(file')
  PROVE  Contract!Next
<1>1. /\ file \in State
      /\ \A m \in Msg : file.attempts[m] \in Nat
  BY DEF Sound, State
<1>2. \A m \in Msg :
        /\ Stages(file)[m] = IF file.status[m] \in Refusals THEN "refused"
                             ELSE file.status[m]
        /\ Stages(file)'[m] = IF file'.status[m] \in Refusals THEN "refused"
                              ELSE file'.status[m]
        /\ RoomOf(file)[m] = file.chan[m[1]]
        /\ RoomOf(file)'[m] = file'.chan[m[1]]
  BY DEF Stages, RoomOf
<1>3. ASSUME NEW m \in Msg
      PROVE  Contract!Moves(m)
  <2>1. CASE HandsOver(file, file', m)
             /\ file'.attempts[m] = file.attempts[m] + 1
    <3>1. Contract!HandedOver(m)
      BY <1>2, <2>1
      DEF HandsOver, Out, Refusals, Contract!HandedOver, Contract!From, Contract!To
    <3> QED BY <2>1, <3>1 DEF Contract!Moves
  <2>2. CASE Settles(file, file', m)
             /\ file'.attempts[m] = file.attempts[m]
    <3>1. \/ Contract!Stays(m) \/ Contract!Posted(m) \/ Contract!Accepted(m)
          \/ Contract!PutBack(m) \/ Contract!Refused(m) \/ Contract!Deleted(m)
      BY <1>1, <1>2, <2>2, MailboxAssumption
      DEF Settles, Spent, Out, Refusals, Contract!Stays, Contract!Posted,
          Contract!Accepted, Contract!PutBack, Contract!Refused,
          Contract!Deleted, Contract!From, Contract!To
    <3> QED BY <2>2, <3>1 DEF Contract!Moves
  <2> QED BY <2>1, <2>2 DEF Honours
<1>4. Contract!Handed = HandedIn(file, file')
  BY DEF Contract!Handed, HandedIn
<1>5. ASSUME NEW c \in Channel, file'.life[c] # "gone"
      PROVE  Contract!Charges(c)
  <2>1. {m \in HandedIn(file, file') : RoomOf(file)[m] = c}
          = {m \in HandedIn(file, file') : file.chan[m[1]] = c}
    BY <1>2 DEF HandedIn
  <2>2. Charged(file, file', c)
    BY <1>5 DEF Honours
  <2>3. Budget[c] # 0 => file'.total[c] <= Budget[c]
    BY <1>5 DEF WithinBudget
  <2>4. \A S : Contract!Cardinality(S) = Cardinality(S)
    BY DEF Contract!Cardinality, Cardinality
  <2>5. /\ file'.total[c] = file.total[c]
             + Cardinality({m \in Contract!Handed : RoomOf(file)[m] = c})
        /\ Budget[c] # 0 => file'.total[c] <= Budget[c]
    BY <1>4, <2>1, <2>2, <2>3 DEF Charged
  <2> QED BY <2>4, <2>5 DEF Contract!Charges
<1>6. \A m \in Msg : ~Contract!From(m, {"unsent"}) =>
        RoomOf(file)'[m] = RoomOf(file)[m]
  BY <1>2 DEF Honours, KeepsRooms, Refusals, Contract!From
<1>7. \A c \in Channel : c \in GoneRooms(file)' \/ Contract!Charges(c)
  BY <1>5 DEF GoneRooms
<1>8. GoneRooms(file) \subseteq GoneRooms(file)'
  BY DEF Honours, KeepsRooms, GoneRooms
<1>9. Taking(file)' \subseteq Channel \ GoneRooms(file)'
  BY DEF Taking, Active, GoneRooms
<1>10. \A m, n \in Contract!Handed : m[2] = n[2]
  BY <1>4 DEF Honours
<1> QED BY <1>3, <1>6, <1>7, <1>8, <1>9, <1>10 DEF Contract!Next

LEMMA UnchangedHonours ==
  ASSUME Sound(file), UNCHANGED file
  PROVE  Honours(file, file')
<1>1. SameMailAndBooks(file, file')
  BY DEF SameMailAndBooks, SameBooks
<1> QED BY <1>1, TendsSame, TendsHonours

\* The channels a drain for an agent does not reach are held in that drain
\* only.
LEMMA DrainManagedHonours ==
  ASSUME NEW s, Sound(s), NEW h \in Session
  PROVE  Honours(s, DrainManaged(s, h))
<1> DEFINE u == Reaching(s, h)
           d == Drain(u, h)
           t == DrainManaged(s, h)
<1>1. Sound(u) /\ u.status = s.status /\ u.paused = s.paused
  BY ReachingSound
<1>2. SameBooks(s, u)
  BY DEF Sound, State, Reaching, SameBooks
<1>3. t = [d EXCEPT !.overtime = s.overtime]
  BY DEF DrainManaged
<1> HIDE DEF u, t
<1>4. Sound(d) /\ Honours(u, d)
  BY <1>1, DrainSound, DrainHonours
<1> HIDE DEF d
<1>5. Honours(s, d)
  BY <1>1, <1>2, <1>4, HonoursFrom
<1>6. SameBooks(d, t) /\ t.status = d.status
  BY <1>3, <1>4 DEF Sound, State, SameBooks
<1>7. \A m \in Msg : /\ HandsOver(s, d, m) => HandsOver(s, t, m)
                     /\ Settles(s, d, m) => Settles(s, t, m)
  BY <1>6 DEF HandsOver, Settles
<1>8. Honours(s, t)
  BY <1>5, <1>6, <1>7, HonoursThen
<1> QED BY <1>8 DEF t

\* A tick drains in one section and settles in a later one.
LEMMA LoopHonours ==
  ASSUME IInv, NEW k \in Controller, TimerFires(k) \/ Loop(k)
  PROVE  Honours(file, file')
<1>1. Sound(file) /\ tick[k].host \in Session
  BY HostsAreSessions DEF IInv, TicksOK, Tick
<1>2. CASE DrainForAgent(k)
  <2> DEFINE h == tick[k].host
             ids == Batch(Reaching(file, h), h)
             s == DrainManaged(file, h)
  <2>1. Sound(s) /\ Honours(file, s)
    BY <1>1, DrainManagedFacts, DrainManagedHonours
  <2>2. CASE Clear(k)
    <3>1. PICK D \in Doomed(s) : file' = Purge(s, IF ids = << >> THEN {} ELSE D)
      BY <1>2, <2>2 DEF DrainForAgent
    <3> HIDE DEF s, ids
    <3>2. (IF ids = << >> THEN {} ELSE D) \in SUBSET Persisted(s)
      BY DoomedFacts
    <3> QED BY <2>1, <3>1, <3>2, PrunedHonours
  <2>3. CASE ~Clear(k)
    BY <1>1, <1>2, <2>3, UnchangedHonours DEF DrainForAgent
  <2> QED BY <2>2, <2>3
<1>3. CASE GiveBack(k)
  BY <1>1, <1>3, RequeueHonours DEF GiveBack
<1>4. CASE SettleBatch(k)
  <2>1. tick[k].outcome \in {"delivered", "failed", "uncertain"}
    BY DEF IInv, TicksOK, Tick
  <2>2. \/ UNCHANGED file
        \/ file' = Commit(file, tick[k].host, tick[k].ids)
        \/ file' = Requeue(file, tick[k].host, tick[k].ids)
    BY <1>4, <2>1 DEF SettleBatch
  <2>3. Honours(file, file)
    BY <1>1, TendsSame, TendsHonours DEF SameMailAndBooks, SameBooks
  <2> QED BY <1>1, <2>2, <2>3, CommitHonours, RequeueHonours, UnchangedHonours
<1>5. CASE \/ TimerFires(k) \/ Visit(k) \/ HostReports(k)
           \/ HostUnreachable(k) \/ Note(k) \/ StartPrompt(k) \/ HostHears(k)
           \/ HostAnswers(k) \/ HostRejects(k) \/ OutcomeUnknown(k)
           \/ SettleFails(k)
  <2>1. UNCHANGED file
    BY <1>5 DEF TimerFires, Visit, HostReports, HostUnreachable, Note,
                StartPrompt, HostHears, HostAnswers, HostRejects,
                OutcomeUnknown, SettleFails
  <2> QED BY <1>1, <2>1, UnchangedHonours
<1> QED BY <1>2, <1>3, <1>4, <1>5 DEF Loop

\* An emergency stop and its resume only pause and unpause.
LEMMA EmergencyHonours ==
  ASSUME Sound(file), Emergency
  PROVE  Honours(file, file')
<1>1. UNCHANGED file \/ \E P : file' = [file EXCEPT !.paused = P]
  BY DEF Emergency, EmergencyStop, EmergencyPauses, EmergencyHalfSaved,
         EmergencyResume, EmergencyUnpauses, EmergencyClears
<1>2. SameMailAndBooks(file, file')
  BY <1>1 DEF Sound, State, SameMailAndBooks, SameBooks
<1> QED BY <1>2, TendsSame, TendsHonours

\* The other operations on state.json.
LEMMA MailHonours ==
  ASSUME IInv, Mail
  PROVE  Honours(file, file')
<1>1. Sound(file) /\ file \in State
  BY DEF IInv, Sound
<1>2. ASSUME NEW t, Sound(t), Honours(file, t), NEW D \in Doomed(t),
             file' = Purge(t, D)
      PROVE  Honours(file, file')
  BY <1>2, DoomedFacts, PrunedHonours
<1>3. CASE SendMail
  <2>1. PICK c \in Channel :
          /\ CanSend(file, c)
          /\ \E sender \in Members(file, c) \cap Senders :
               \E R \in RecipientSets(file, c, sender) :
                 \E D \in Doomed(Enqueue(file, c, R)) :
                   file' = Purge(Enqueue(file, c, R), D)
    BY <1>3 DEF SendMail
  <2>2. PICK sender \in Members(file, c) \cap Senders :
          \E R \in RecipientSets(file, c, sender) :
            \E D \in Doomed(Enqueue(file, c, R)) :
              file' = Purge(Enqueue(file, c, R), D)
    BY <2>1
  <2>3. PICK R \in RecipientSets(file, c, sender) :
          \E D \in Doomed(Enqueue(file, c, R)) :
            file' = Purge(Enqueue(file, c, R), D)
    BY <2>2
  <2>4. R \in SUBSET Session
    BY <1>1, MembersType DEF RecipientSets
  <2>5. Sound(Enqueue(file, c, R))
    BY <1>1, <2>1, <2>4, EnqueueSound DEF CanSend
  <2>6. Tends(file, file)
    BY TendsSame DEF SameMailAndBooks, SameBooks
  <2>7. Honours(file, Enqueue(file, c, R))
    BY <1>1, <2>6, EnqueueHonours
  <2> QED BY <1>2, <2>3, <2>5, <2>7
<1>4. CASE KickAgent
  <2>1. PICK c \in Channel :
          \E r \in Members(file, c) \cap Host :
            \E D \in Doomed(Kick(file, c, r)) : file' = Purge(Kick(file, c, r), D)
    BY <1>4 DEF KickAgent
  <2>2. PICK r \in Members(file, c) \cap Host :
          \E D \in Doomed(Kick(file, c, r)) : file' = Purge(Kick(file, c, r), D)
    BY <2>1
  <2>3. r \in Session
    BY <1>1, MembersType
  <2>4. Sound(Kick(file, c, r)) /\ Honours(file, Kick(file, c, r))
    BY <1>1, <1>4, <2>3, KickSound, KickHonours DEF KickAgent
  <2> QED BY <1>2, <2>2, <2>4
<1>5. CASE LinkAgent
  <2>1. PICK a \in Agent, c \in Channel :
          /\ agents[a].host # NoHost
          /\ file' = JoinChannel(file, c, agents[a].host)
    BY <1>5 DEF LinkAgent
  <2>2. agents[a].host \in Session
    BY <2>1, HostsAreSessions DEF IInv, RestOK, AgentRecord
  <2>3. Tends(file, file')
    BY <1>1, <2>1, <2>2, RestTends
  <2> QED BY <1>1, <2>3, TendsHonours
<1>6. CASE PauseOrUnpause \/ CooldownEnds
  <2>1. \/ \E c, b : file' = SetPaused(file, c, b)
        \/ \E c, r : file' = EndCooldown(file, c, r)
    BY <1>6 DEF PauseOrUnpause, CooldownEnds
  <2>2. Tends(file, file')
    BY <1>1, <2>1, RestTends
  <2> QED BY <1>1, <2>2, TendsHonours
<1>7. CASE PluginSweeps
  BY <1>1, <1>7, SweepHonours DEF PluginSweeps
<1> QED BY <1>3, <1>4, <1>5, <1>6, <1>7 DEF Mail

LEMMA NextHonours ==
  ASSUME IInv, [Next]_vars
  PROVE  Honours(file, file')
<1>1. Sound(file)
  BY DEF IInv
<1>2. ASSUME NEW a \in Agent,
             BeginStop(a) \/ BeginRestart(a) \/ Operate(a) \/ TurnEnds(a)
      PROVE  Honours(file, file')
  BY <1>1, <1>2, AgentsFile, UnchangedHonours
<1>3. CASE Crash \/ UNCHANGED vars
  <2>1. UNCHANGED file
    BY <1>3 DEF Crash, vars
  <2> QED BY <1>1, <2>1, UnchangedHonours
<1> QED BY <1>1, <1>2, <1>3, LoopHonours, EmergencyHonours, MailHonours
        DEF Next, Emergency, Mail

\* Through stops, restarts, crashes, emergency stops and prompts of unknown
\* outcome, the coordinator moves the mail as MailContract says: it is handed
\* over only while it is pending and from a channel that takes mail, each
\* hand-over is counted and charged, and only the attempt cap or an operator
\* ends what was handed out.
THEOREM ManagedKeepsContract == Spec => KeepsContract
<1>1. Init => Contract!Init /\ WithinBudget(file)
  <2> SUFFICES ASSUME Init
               PROVE  Contract!Init /\ WithinBudget(file)
    OBVIOUS
  <2>1. /\ file.life = [c \in Channel |-> "active"]
        /\ file.total = [c \in Channel |-> 0]
        /\ file.chan = [n \in Send |-> NoChannel]
        /\ file.status = [m \in Msg |-> "unsent"]
        /\ file.attempts = [m \in Msg |-> 0]
    BY DEF Init
  <2>2. Stages(file) = [m \in Msg |-> "unsent"]
    BY <2>1 DEF Stages, Refusals
  <2>3. RoomOf(file) = [m \in Msg |-> NoChannel]
    BY <2>1, MsgFacts DEF RoomOf
  <2>4. GoneRooms(file) = {} /\ Taking(file) \subseteq Channel
    BY <2>1 DEF GoneRooms, Taking
  <2>5. WithinBudget(file)
    BY <2>1, MailboxAssumption DEF WithinBudget
  <2> QED BY <2>1, <2>2, <2>3, <2>4, <2>5 DEF Contract!Init
<1>2. IInv /\ WithinBudget(file) /\ [Next]_vars =>
        [Contract!Next]_(Contract!vars) /\ WithinBudget(file)'
  BY NextHonours, BudgetHonoured, ContractStep DEF IInv
<1> QED BY <1>1, <1>2, InductiveInvariant, PTL
        DEF Spec, KeepsContract, Contract!Spec

-----------------------------------------------------------------------------
(***************************************************************************)
(* One prompt at a time.  An ACP connection that takes a prompt is marked  *)
(* running until the prompt is over, and a running one takes none; for     *)
(* OpenCode it is the mail in flight that keeps the next tick away, as     *)
(* long as nobody sweeps or prunes it.                                     *)
(***************************************************************************)
\* The session may have mail out that is no longer in flight.
Blind(h) == Exposed(h) \/ \E m \in Msg : m[2] = h /\ file.status[m] = "purged"

\* Ticks with mail of the same session are one.
OneHolder ==
  \A k, l \in Controller : \A m \in Owned(k), n \in Owned(l) :
    m[2] = n[2] /\ ~Blind(m[2]) => k = l

\* ACP connections.
OneTurn ==
  acp = Agent =>
    /\ \A k \in Controller : Prompting(k) => conn[tick[k].host] = "running"
    /\ \A k, l \in Controller :
         Prompting(k) /\ Prompting(l) /\ tick[k].host = tick[l].host => k = l

\* No tick holds mail when the coordinator starts.
LEMMA InitTurns == Init => OneHolder /\ OneTurn
<1> SUFFICES ASSUME Init
             PROVE  OneHolder /\ OneTurn
  OBVIOUS
<1>1. tick = [k \in Controller |-> IdleTick]
  BY DEF Init
<1>2. \A k \in Controller : Owned(k) = {} /\ tick[k].phase = "none"
  BY <1>1, EmptyFacts DEF Owned, IdleTick
<1> QED BY <1>1, <1>2 DEF OneHolder, OneTurn, Prompting

\* What is out of sight stays so.
LEMMA NextBlind ==
  ASSUME IInv, [Next]_vars, UNCHANGED plan, removed \subseteq removed'
  PROVE  \A h : Blind(h) => Blind(h)'
<1>1. Honours(file, file')
  BY NextHonours
<1>2. \A m \in Msg : file.status[m] = "purged" => file'.status[m] = "purged"
  BY <1>1 DEF Honours, HandsOver, Settles, Out, Refusals
<1> QED BY <1>2 DEF Blind, Exposed

\* What the loop does to Owned, and to whom.
LEMMA LooseHolder ==
  ASSUME IInv, OneHolder, [Next]_vars, UNCHANGED plan,
         removed \subseteq removed',
         \A l \in Controller : Owned(l)' \subseteq Owned(l)
  PROVE  OneHolder'
<1>1. \A h : Blind(h) => Blind(h)'
  BY NextBlind
<1> QED BY <1>1 DEF OneHolder

\* A drain goes through only when no mail is in flight to the session.
LEMMA DrainHolder ==
  ASSUME IInv, Batches, OneHolder, [Next]_vars,
         NEW k \in Controller, DrainForAgent(k)
  PROVE  OneHolder'
<1>1. /\ TicksOK /\ tick \in [Controller -> Tick] /\ tick[k] \in Tick
      /\ UNCHANGED <<removed, plan>>
  BY DEF IInv, TicksOK, DrainForAgent, hosts, history
<1>2. CASE Continue(k)
  <2> DEFINE t == [IdleTick EXCEPT !.phase = "next", !.todo = tick[k].todo]
  <2>1. tick' = [tick EXCEPT ![k] = t] /\ t.ids = << >>
    BY <1>2 DEF Continue, IdleTick
  <2> HIDE DEF t
  <2>2. \A l \in Controller : Loosens(l)
    BY <1>1, <2>1, OneLoosens
  <2> QED BY <1>1, <2>2, LooseHolder DEF Loosens
<1>3. CASE ~Continue(k)
  <2> DEFINE h == tick[k].host
             ids == Batch(Reaching(file, h), h)
             t == [tick[k] EXCEPT !.phase = "drained", !.ids = ids]
  <2>1. ~InFlightTo(h)
    BY <1>3 DEF DrainForAgent, Clear
  <2>2. tick' = [tick EXCEPT ![k] = t] /\ \A m \in Elems(ids) : m \in Msg /\ m[2] = h
    BY <1>3, DrainedFacts
  <2>3. t.ids = ids
    BY <1>1 DEF Tick
  <2> HIDE DEF t, ids, h
  <2>4. /\ \A m \in Owned(k)' : m[2] = h
        /\ \A l \in Controller : l # k => Owned(l)' = Owned(l)
    BY <1>1, <2>2, <2>3 DEF Owned
  <2>5. \A l \in Controller : \A m \in Owned(l) : m[2] = h => Blind(h)
    <3> SUFFICES ASSUME NEW l \in Controller, NEW m \in Owned(l), m[2] = h,
                        ~Blind(h)
                 PROVE  FALSE
      OBVIOUS
    <3>1. m \in Msg
      BY <1>1 DEF TicksOK, Holds, IsBatch, Owned, Elems
    <3>2. file.status[m] = "in_flight"
      BY <3>1 DEF Batches, BatchesOut, Gone, Blind
    <3> QED BY <2>1, <3>1, <3>2 DEF InFlightTo
  <2>6. \A j : Blind(j) => Blind(j)'
    BY <1>1, NextBlind
  <2> SUFFICES ASSUME NEW i \in Controller, NEW j \in Controller,
                      NEW m \in Owned(i)', NEW n \in Owned(j)',
                      m[2] = n[2], ~Blind(m[2]), i # j
               PROVE  FALSE
    BY <2>6 DEF OneHolder
  <2>7. CASE i # k /\ j # k
    BY <2>4, <2>7 DEF OneHolder
  <2>8. CASE i = k
    BY <2>4, <2>5, <2>8
  <2>9. CASE j = k
    BY <2>4, <2>5, <2>9
  <2> QED BY <2>7, <2>8, <2>9
<1> QED BY <1>2, <1>3

\* The other steps add to no batch.
LEMMA NextHolder ==
  ASSUME IInv, Batches, OneHolder, [Next]_vars
  PROVE  OneHolder'
<1>1. ASSUME UNCHANGED <<tick, plan>>, removed \subseteq removed'
      PROVE  OneHolder'
  BY <1>1, LooseHolder DEF Owned
<1>2. ASSUME NEW k \in Controller, TimerFires(k) \/ Loop(k)
      PROVE  OneHolder'
  <2>1. CASE DrainForAgent(k)
    BY <2>1, DrainHolder
  <2>2. UNCHANGED <<removed, plan>>
    BY <1>2
    DEF TimerFires, Loop, Visit, HostReports, HostUnreachable, Note,
        DrainForAgent, StartPrompt, GiveBack, HostHears, HostAnswers,
        HostRejects, OutcomeUnknown, SettleBatch, SettleFails, hosts, history
  <2>3. CASE HostHears(k)
    <3>1. tick \in [Controller -> Tick]
      BY DEF IInv, TicksOK
    <3>2. \A l \in Controller : tick'[l].ids = tick[l].ids
      BY <2>3, <3>1 DEF HostHears, Step, Tick
    <3> QED BY <2>2, <3>2, LooseHolder DEF Owned
  <2>4. CASE ~DrainForAgent(k) /\ ~HostHears(k)
    <3>1. \A l \in Controller : Loosens(l)
      BY <1>2, <2>4, LoopLoosens
    <3> QED BY <2>2, <3>1, LooseHolder DEF Loosens
  <2> QED BY <2>1, <2>3, <2>4
<1>3. CASE Crash
  <2>1. \A l \in Controller : tick'[l] = IdleTick
    BY <1>3 DEF Crash
  <2>2. IdleTick.ids = << >>
    BY DEF IdleTick
  <2>3. UNCHANGED <<plan, removed>>
    BY <1>3 DEF Crash, history
  <2>4. \A l \in Controller : Owned(l)' = {}
    BY <2>1, <2>2, EmptyFacts DEF Owned
  <2> QED BY <2>3, <2>4, LooseHolder
<1>4. CASE Emergency \/ Mail \/ UNCHANGED vars
  <2>1. UNCHANGED <<tick, plan>> /\ removed \subseteq removed'
    BY <1>4 DEF Emergency, EmergencyStop, EmergencyPauses, EmergencyHalfSaved,
                EmergencyResume, EmergencyUnpauses, EmergencyClears, Mail,
                SendMail, KickAgent, LinkAgent, PauseOrUnpause, PluginSweeps,
                CooldownEnds, vars, loop, hosts, history
  <2> QED BY <1>1, <2>1
<1> QED BY <1>1, <1>2, <1>3, <1>4, AgentsFile DEF Next, Emergency, Mail

\* A step of the loop is one of its tick's; only StartPrompt and HostHears
\* leave it in a prompt.
LEMMA LoopPhases ==
  ASSUME IInv, NEW k \in Controller, TimerFires(k) \/ Loop(k)
  PROVE  /\ \A l \in Controller : l # k => tick'[l] = tick[l]
         /\ Prompting(k)' => StartPrompt(k) \/ HostHears(k)
<1>1. tick \in [Controller -> Tick] /\ tick[k] \in Tick
  BY DEF IInv, TicksOK
<1>2. ASSUME NEW t, tick' = [tick EXCEPT ![k] = t],
             t.phase \notin {"prompting", "heard"}
      PROVE  /\ \A l \in Controller : l # k => tick'[l] = tick[l]
             /\ ~Prompting(k)'
  BY <1>1, <1>2 DEF Prompting
<1>3. ASSUME NEW p, Step(k, p)
      PROVE  /\ \A l \in Controller : l # k => tick'[l] = tick[l]
             /\ tick'[k].phase = p
  BY <1>1, <1>3 DEF Step, Tick
<1>4. ASSUME NEW o, Settle(k, o)
      PROVE  /\ \A l \in Controller : l # k => tick'[l] = tick[l]
             /\ ~Prompting(k)'
  BY <1>1, <1>4 DEF Settle, Tick, Prompting
<1>5. ASSUME End(k) \/ Continue(k)
      PROVE  /\ \A l \in Controller : l # k => tick'[l] = tick[l]
             /\ ~Prompting(k)'
  <2> DEFINE t == [IdleTick EXCEPT !.phase = "next", !.todo = tick[k].todo]
  <2>1. t.phase = "next" /\ IdleTick.phase = "none"
    BY DEF IdleTick
  <2>2. tick' = [tick EXCEPT ![k] = t] \/ tick' = [tick EXCEPT ![k] = IdleTick]
    BY <1>5 DEF End, Continue
  <2> HIDE DEF t
  <2> QED BY <1>2, <2>1, <2>2
<1>6. CASE TimerFires(k)
  <2> DEFINE d == {<<a, agents[a].host>> :
                     a \in {b \in Agent :
                              /\ agents[b].host # NoHost
                              /\ agents[b].status \notin
                                   {"none", "stopped", "failed"}}}
             t == [IdleTick EXCEPT !.phase = "next", !.todo = d]
  <2>1. tick' = [tick EXCEPT ![k] = t]
    BY <1>6, Zenon DEF TimerFires
  <2> HIDE DEF d
  <2>2. t.phase = "next"
    BY DEF IdleTick
  <2> HIDE DEF t
  <2> QED BY <1>2, <2>1, <2>2
<1>7. CASE Visit(k)
  <2>1. ASSUME NEW v \in tick[k].todo,
               tick' = [tick EXCEPT ![k].phase = "asking",
                                    ![k].todo = @ \ {v},
                                    ![k].agent = v[1],
                                    ![k].host = v[2]]
        PROVE  /\ \A l \in Controller : l # k => tick'[l] = tick[l]
               /\ ~Prompting(k)'
    <3> DEFINE t == [tick[k] EXCEPT !.phase = "asking", !.todo = @ \ {v},
                                    !.agent = v[1], !.host = v[2]]
    <3>1. t.phase = "asking"
      BY <1>1 DEF Tick
    <3>2. tick' = [tick EXCEPT ![k] = t]
      BY <1>1, <2>1
    <3> HIDE DEF t
    <3> QED BY <1>2, <3>1, <3>2
  <2> QED BY <1>5, <1>7, <2>1 DEF Visit
<1>8. ASSUME NEW s, tick' = [tick EXCEPT ![k].phase = "noting", ![k].seen = s]
      PROVE  /\ \A l \in Controller : l # k => tick'[l] = tick[l]
             /\ ~Prompting(k)'
  BY <1>1, <1>8 DEF Tick, Prompting
<1>9. CASE HostReports(k) \/ HostUnreachable(k)
  BY <1>8, <1>9 DEF HostReports, HostUnreachable
<1>10. CASE Note(k)
  BY <1>3, <1>5, <1>10 DEF Note, Prompting
<1>11. CASE DrainForAgent(k)
  <2> DEFINE h == tick[k].host
             ids == Batch(Reaching(file, h), h)
             t == [tick[k] EXCEPT !.phase = "drained", !.ids = ids]
  <2>1. Continue(k) \/ tick' = [tick EXCEPT ![k] = t]
    BY <1>11, DrainedFacts
  <2>2. t.phase = "drained"
    BY <1>1 DEF Tick
  <2> HIDE DEF t
  <2> QED BY <1>2, <1>5, <2>1, <2>2
<1>12. CASE StartPrompt(k) \/ HostHears(k)
  <2>1. (\E p \in Phase : Step(k, p)) \/ Settle(k, "failed")
    BY <1>12 DEF StartPrompt, HostHears, Phase
  <2> QED BY <1>3, <1>4, <1>12, <2>1
<1>13. CASE HostAnswers(k) \/ HostRejects(k) \/ OutcomeUnknown(k)
  BY <1>4, <1>13 DEF HostAnswers, HostRejects, OutcomeUnknown
<1>14. CASE GiveBack(k) \/ SettleBatch(k) \/ SettleFails(k)
  BY <1>5, <1>14 DEF GiveBack, SettleBatch, SettleFails
<1> QED BY <1>6, <1>7, <1>9, <1>10, <1>11, <1>12, <1>13, <1>14 DEF Loop

\* Steps that start no prompt and leave running connections running.
LEMMA TurnsKept ==
  ASSUME OneTurn, UNCHANGED acp,
         \A l \in Controller : Prompting(l)' =>
           /\ Prompting(l) /\ tick'[l].host = tick[l].host
           /\ acp = Agent /\ conn[tick[l].host] = "running" =>
                conn'[tick[l].host] = "running"
  PROVE  OneTurn'
<1> SUFFICES ASSUME acp = Agent
             PROVE  /\ \A k \in Controller : Prompting(k)' =>
                         conn'[tick'[k].host] = "running"
                    /\ \A k, l \in Controller :
                         Prompting(k)' /\ Prompting(l)'
                         /\ tick'[k].host = tick'[l].host => k = l
  BY DEF OneTurn
<1>1. \A k \in Controller : Prompting(k) => conn[tick[k].host] = "running"
  BY DEF OneTurn
<1>2. \A k, l \in Controller :
        Prompting(k) /\ Prompting(l) /\ tick[k].host = tick[l].host => k = l
  BY DEF OneTurn
<1> QED BY <1>1, <1>2

\* A prompt is started on a connection no tick is prompting on.
LEMMA LoopTurns ==
  ASSUME IInv, OneTurn, NEW k \in Controller, TimerFires(k) \/ Loop(k)
  PROVE  OneTurn'
<1> DEFINE h == tick[k].host
<1>1. /\ tick \in [Controller -> Tick] /\ tick[k] \in Tick /\ h \in Host
      /\ \A l \in Controller : tick[l].host \in Host
      /\ conn \in [Host -> {"down", "idle", "running", "stale"}]
  BY DEF IInv, TicksOK, RestOK, Tick
<1>2. /\ \A l \in Controller : l # k => tick'[l] = tick[l]
      /\ Prompting(k)' => StartPrompt(k) \/ HostHears(k)
  BY LoopPhases
<1>3. \A l \in Controller : l # k => /\ Prompting(l)' <=> Prompting(l)
                                     /\ tick'[l].host = tick[l].host
  BY <1>2 DEF Prompting
<1>4. UNCHANGED acp
  BY DEF TimerFires, Loop, Visit, HostReports, HostUnreachable, Note,
         DrainForAgent, StartPrompt, GiveBack, HostHears, HostAnswers,
         HostRejects, OutcomeUnknown, SettleBatch, SettleFails, hosts
<1>5. CASE HostHears(k)
  <2>1. /\ Prompting(k) /\ tick'[k].host = h
        /\ conn' = [conn EXCEPT ![h] = "running"]
    BY <1>1, <1>5 DEF HostHears, In, Prompting, Step, Set, Tick
  <2>2. \A l \in Controller : conn[tick[l].host] = "running" =>
          conn'[tick[l].host] = "running"
    BY <1>1, <2>1
  <2>3. \A l \in Controller : Prompting(l)' =>
          Prompting(l) /\ tick'[l].host = tick[l].host
    BY <1>3, <2>1
  <2> QED BY <1>4, <2>2, <2>3, TurnsKept
<1>6. CASE StartPrompt(k) /\ Prompting(k)'
  <2> SUFFICES ASSUME acp = Agent
               PROVE  OneTurn'
    BY <1>4 DEF OneTurn
  <2>1. IsAcp(k)
    BY <1>1 DEF IsAcp, Tick
  <2>2. Step(k, "prompting") \/ Step(k, "returning") \/ Settle(k, "failed")
    BY <1>6 DEF StartPrompt
  <2>3. ~Step(k, "returning") /\ ~Settle(k, "failed")
    BY <1>1, <1>6 DEF Step, Settle, Prompting, Tick
  <2>4. /\ Step(k, "prompting") /\ Set(h, "running")
        /\ conn[h] \notin {"down", "running"}
    BY <1>6, <2>1, <2>2, <2>3 DEF StartPrompt
  <2>5. conn' = [conn EXCEPT ![h] = "running"] /\ tick'[k].host = h
    BY <1>1, <2>4 DEF Set, Step, Tick
  <2>6. \A l \in Controller : Prompting(l) => tick[l].host # h
    BY <2>4 DEF OneTurn
  <2>7. \A l \in Controller : Prompting(l)' => conn'[tick'[l].host] = "running"
    <3> SUFFICES ASSUME NEW l \in Controller, Prompting(l)'
                 PROVE  conn'[tick'[l].host] = "running"
      OBVIOUS
    <3>1. CASE l = k
      BY <1>1, <2>5, <3>1
    <3>2. CASE l # k
      <4>1. conn[tick[l].host] = "running" /\ tick'[l].host = tick[l].host
        BY <1>3, <3>2 DEF OneTurn
      <4> QED BY <1>1, <2>5, <4>1
    <3> QED BY <3>1, <3>2
  <2>8. \A i, j \in Controller : Prompting(i)' /\ Prompting(j)'
          /\ tick'[i].host = tick'[j].host => i = j
    <3> SUFFICES ASSUME NEW i \in Controller, NEW j \in Controller,
                        Prompting(i)', Prompting(j)',
                        tick'[i].host = tick'[j].host, i # j
                 PROVE  FALSE
      OBVIOUS
    <3>1. CASE i # k /\ j # k
      BY <1>3, <3>1 DEF OneTurn
    <3>2. CASE i = k \/ j = k
      BY <1>3, <2>5, <2>6, <3>2
    <3> QED BY <3>1, <3>2
  <2> QED BY <1>4, <2>7, <2>8 DEF OneTurn
<1>7. CASE ~Prompting(k)'
  <2>1. \A l \in Controller : Prompting(l)' =>
          Prompting(l) /\ l # k /\ tick'[l].host = tick[l].host
    BY <1>3, <1>7
  <2>2. CASE UNCHANGED conn
    BY <1>4, <2>1, <2>2, TurnsKept
  <2>3. CASE Prompting(k) /\ \E s : Set(h, s)
    <3>1. \A x \in Host : x # h => conn'[x] = conn[x]
      BY <1>1, <2>3 DEF Set
    <3>2. \A l \in Controller : acp = Agent /\ Prompting(l)' => tick[l].host # h
      BY <2>1, <2>3 DEF OneTurn
    <3> QED BY <1>1, <1>4, <2>1, <3>1, <3>2, TurnsKept
  <2>4. CASE HostReports(k)
    <3>1. conn' = [conn EXCEPT ![h] = Reported(h)]
      BY <2>4 DEF HostReports, Set
    <3>2. \A x \in Host : conn[x] = "running" => conn'[x] = "running"
      BY <1>1, <3>1 DEF Reported
    <3> QED BY <1>1, <1>4, <2>1, <3>2, TurnsKept
  <2>5. CASE HostAnswers(k) \/ HostRejects(k) \/ OutcomeUnknown(k)
    <3>1. Prompting(k)
      BY <2>5 DEF HostAnswers, HostRejects, OutcomeUnknown, In, Prompting
    <3>2. \E s : Set(h, s)
      BY <2>5 DEF HostAnswers, HostRejects, OutcomeUnknown, Turned
    <3> QED BY <2>3, <3>1, <3>2
  <2>6. CASE StartPrompt(k)
    <3>1. ~Step(k, "prompting")
      BY <1>1, <1>7 DEF Step, Prompting, Tick
    <3> QED BY <2>2, <2>6, <3>1 DEF StartPrompt
  <2>7. CASE TimerFires(k) \/ Visit(k) \/ HostUnreachable(k) \/ Note(k)
             \/ DrainForAgent(k) \/ GiveBack(k) \/ SettleBatch(k)
             \/ SettleFails(k)
    BY <2>2, <2>7 DEF TimerFires, Visit, HostUnreachable, Note, DrainForAgent,
                      GiveBack, SettleBatch, SettleFails, hosts
  <2> QED BY <1>5, <2>4, <2>5, <2>6, <2>7 DEF Loop
<1> QED BY <1>2, <1>5, <1>6, <1>7

\* Stopping an ACP agent waits for its prompt; the other steps leave running
\* connections alone.
LEMMA NextTurns ==
  ASSUME IInv, OneTurn, [Next]_vars
  PROVE  OneTurn'
<1>1. /\ \A l \in Controller : tick[l].host \in Host
      /\ conn \in [Host -> {"down", "idle", "running", "stale"}]
  BY DEF IInv, TicksOK, RestOK, Tick
<1>2. CASE UNCHANGED <<tick, acp, conn>>
  BY <1>2, TurnsKept DEF Prompting
<1>3. ASSUME NEW k \in Controller, TimerFires(k) \/ Loop(k)
      PROVE  OneTurn'
  BY <1>3, LoopTurns
<1>4. ASSUME NEW a \in Agent,
             BeginStop(a) \/ BeginRestart(a) \/ Operate(a) \/ TurnEnds(a)
      PROVE  OneTurn'
  <2>1. UNCHANGED <<tick, acp>>
    BY <1>4, AgentsFile
  <2>2. \A x \in Host : acp = Agent /\ conn[x] = "running" => conn'[x] = "running"
    <3>1. CASE HostStops(a)
      <4>1. /\ conn' = [conn EXCEPT ![agents[a].host] =
                          IF a \in acp THEN "down" ELSE "idle"]
            /\ a \in acp => conn[agents[a].host] # "running"
        BY <3>1 DEF HostStops, Set
      <4> QED BY <1>1, <4>1
    <3>2. CASE HostResumes(a)
      <4>1. conn' = [conn EXCEPT ![agents[a].host] = Reported(agents[a].host)]
        BY <3>2 DEF HostResumes, Set
      <4> QED BY <1>1, <4>1 DEF Reported
    <3>3. CASE TurnEnds(a)
      BY <3>3 DEF TurnEnds
    <3>4. CASE UNCHANGED conn
      BY <3>4
    <3> QED BY <1>4, <3>1, <3>2, <3>3, <3>4
            DEF Operate, BeginStop, MarkStopped, BeginRestart, Adopt, Replace,
                HostRefuses, hosts
  <2> QED BY <1>1, <2>1, <2>2, TurnsKept DEF Prompting
<1>5. CASE Crash
  <2>1. \A l \in Controller : tick'[l] = IdleTick
    BY <1>5 DEF Crash
  <2>2. IdleTick.phase = "none"
    BY DEF IdleTick
  <2>3. \A l \in Controller : ~Prompting(l)'
    BY <2>1, <2>2 DEF Prompting
  <2>4. UNCHANGED acp
    BY <1>5 DEF Crash
  <2> QED BY <2>3, <2>4, TurnsKept
<1>6. CASE Emergency \/ Mail \/ UNCHANGED vars
  <2>1. UNCHANGED <<tick, acp, conn>>
    BY <1>6 DEF Emergency, EmergencyStop, EmergencyPauses, EmergencyHalfSaved,
                EmergencyResume, EmergencyUnpauses, EmergencyClears, Mail,
                SendMail, KickAgent, LinkAgent, PauseOrUnpause, PluginSweeps,
                CooldownEnds, vars, loop, hosts
  <2> QED BY <1>2, <2>1
<1> QED BY <1>3, <1>4, <1>5, <1>6 DEF Next, Emergency, Mail

\* One prompt at a time, from one of the two.
LEMMA OneEach ==
  ASSUME IInv, OneTurn, OneHolder
  PROVE  OnePromptEach
<1>1. CASE acp = Agent
  BY <1>1 DEF OneTurn, OnePromptEach
<1>2. CASE acp # Agent
  <2>1. acp = {}
    BY <1>2 DEF IInv, RestOK
  <2> SUFFICES ASSUME NEW k \in Controller, NEW l \in Controller,
                      Prompting(k), Prompting(l), tick[k].host = tick[l].host,
                      ~LostSight(tick[k].host)
               PROVE  k = l
    BY <2>1 DEF OnePromptEach, IsAcp
  <2>2. ~Blind(tick[k].host)
    BY DEF LostSight, Blind, Exposed
  <2>3. /\ Owned(k) # {} /\ Owned(l) # {}
        /\ \A m \in Owned(k) : m[2] = tick[k].host
        /\ \A m \in Owned(l) : m[2] = tick[l].host
    BY DEF IInv, TicksOK, Holds, IsBatch, Prompting, Holding, Owned
  <2>4. PICK m \in Owned(k), n \in Owned(l) : TRUE
    BY <2>3
  <2>5. m[2] = n[2] /\ m[2] = tick[k].host
    BY <2>3
  <2> QED BY <2>2, <2>5 DEF OneHolder
<1> QED BY <1>1, <1>2

\* What a prompt may do to the mail of an agent, and no more.  A session is
\* prompted twice at once only if it is one of OpenCode, and mail in flight
\* to it may have been swept after a kick or pruned.
THEOREM PromptsAreSound == Spec => []PromptsSound
<1> DEFINE J == /\ IInv /\ HostsOnly /\ Rostered /\ Batches
                /\ OneHolder /\ OneTurn
<1>1. Init => J
  BY InitIInv, InitRostered, InitBatches, InitTurns
<1>2. J /\ [Next]_vars => J'
  BY NextIInv, NextRostered, NextBatches, NextHolder, NextTurns
<1>3. J => PromptsSound
  <2>1. ASSUME J
        PROVE  TypeOK /\ OnePromptEach
    BY <2>1, IInvTypes, OneEach
  <2>2. ASSUME J
        PROVE  PromptedOnce /\ DeliveredWasHeard
    BY <2>2 DEF Batches, WaitingUnheard, Exposed, PromptedOnce
  <2> QED BY <2>1, <2>2 DEF PromptsSound
<1> HIDE DEF J
<1> QED BY <1>1, <1>2, <1>3, PTL DEF Spec

=============================================================================
