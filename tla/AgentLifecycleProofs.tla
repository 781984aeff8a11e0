------------------------- MODULE AgentLifecycleProofs -------------------------
(***************************************************************************)
(* What AgentLifecycle promises holds for any agents, calls, hosts and     *)
(* requests and any number of faults.  The invariant says, of every open   *)
(* call, what its next locked section relies on without looking: that the  *)
(* session in its hands is nobody's, and that an agent no second call      *)
(* worked on is as the call left it.                                       *)
(***************************************************************************)
EXTENDS AgentLifecycle, FiniteSetTheorems, TLAPS

IsOpen(c) == calls[c] # NoCall

\* The call has a session nobody was given yet.
Holding(c) == IsOpen(c) /\ calls[c].phase \in {"prompt", "confirm"}

Spawning == {"spawn", "prompt", "confirm", "fail"}

CallSound(c) ==
  LET a == calls[c].agent
      phase == calls[c].phase
  IN  IsOpen(c) =>
        /\ Known(agents, a)
        /\ calls[c].op # NoOp =>
             /\ phase \in Spawning
             /\ agents[a].req.op = calls[c].op
             /\ phase = "spawn" => \A h \in Host : openedBy[h] # calls[c].op
        /\ Holding(c) =>
             /\ calls[c].host \in opened
             /\ \A b \in Agent : agents[b].host # calls[c].host
        /\ phase \in {"resuming", "adopt", "stopping"} => agents[a].host # NoHost
        /\ phase \in {"resuming", "stopping"} => calls[c].host # NoHost
        /\ a \notin raced =>
             /\ phase \in Spawning => agents[a].host \in refused \cup {NoHost}
             /\ phase \in {"resuming", "stopping", "mark"} =>
                  agents[a].host = calls[c].host
             /\ phase = "mark" => \/ agents[a].host \in refused \cup {NoHost}
                                  \/ agents[a].host \notin working

Apart(c, d) ==
  c # d /\ IsOpen(c) /\ IsOpen(d) =>
    /\ Holding(c) /\ Holding(d) => calls[c].host # calls[d].host
    /\ calls[c].op # NoOp => calls[c].op # calls[d].op
    /\ calls[c].agent = calls[d].agent => calls[c].agent \in raced

AgentSound(a) ==
  /\ ~Known(agents, a) => agents[a].host = NoHost
  /\ agents[a].host \in opened \cup {NoHost}
  /\ agents[a].status \in {"running", "idle", "stale"} => agents[a].host # NoHost
  /\ agents[a].status = "failed" /\ a \notin raced =>
       agents[a].host \in refused \cup {NoHost}
  /\ agents[a].status = "stopped" /\ agents[a].host \notin refused =>
       a \in raced \/ agents[a].host \notin working

Distinct(a, b) ==
  a # b =>
    /\ agents[a].host = agents[b].host => agents[a].host = NoHost
    /\ Known(agents, a) /\ Known(agents, b) =>
         LET r == agents[a].req
             q == agents[b].req
         IN  /\ r.name # q.name
             /\ ~(r.lead /\ q.lead)
             /\ r.op # NoOp => r.op # q.op

Openings ==
  \A h \in Host : openedBy[h] # NoOp =>
    /\ h \in opened
    /\ \E a \in Agent : Known(agents, a) /\ agents[a].req.op = openedBy[h]
    /\ \A g \in Host : openedBy[g] = openedBy[h] => g = h

IInv ==
  /\ TypeOK
  /\ \A c \in Call : CallSound(c)
  /\ \A c, d \in Call : Apart(c, d)
  /\ \A a \in Agent : AgentSound(a)
  /\ \A a, b \in Agent : Distinct(a, b)
  /\ Openings

OpenCalls ==
  [phase : {"spawn", "prompt", "confirm", "fail", "stopping", "mark",
            "resuming", "adopt"},
   agent : Agent, host : Host \cup {NoHost}, op : Op \cup {NoOp},
   replace : BOOLEAN]

LEMMA OpenTyped ==
  ASSUME TypeOK, NEW c \in Call, IsOpen(c)
  PROVE  calls[c] \in OpenCalls
BY DEF TypeOK, IsOpen, CallState, OpenCalls

LEMMA OpenIsOpen == \A r \in OpenCalls : r # NoCall
<1> SUFFICES ASSUME NEW r \in OpenCalls PROVE r # NoCall
  OBVIOUS
<1>1. r.phase # "free"
  BY DEF OpenCalls
<1>2. NoCall.phase = "free"
  BY DEF NoCall
<1> QED  BY <1>1, <1>2

LEMMA InitHolds == Init => IInv
<1> SUFFICES ASSUME Init PROVE IInv
  OBVIOUS
<1> USE AgentsAssumption, LifecycleAssumption
<1>1. TypeOK
  <2>1. NoAgent \in AgentRecord
    BY DEF NoAgent, AgentRecord, AgentStatus
  <2>2. calls \in [Call -> CallState]
    BY DEF Init, CallState
  <2>3. openedBy \in [Host -> Op \cup {NoOp}] /\ faults \in 0..MaxFaults
    BY DEF Init
  <2>4. agents \in [Agent -> AgentRecord]
    BY <2>1 DEF Init
  <2> QED  BY <2>2, <2>3, <2>4 DEF Init, TypeOK
<1>2. \A c \in Call : ~IsOpen(c)
  BY DEF Init, IsOpen
<1>3. \A a \in Agent : agents[a].host = NoHost /\ agents[a].status = "none"
  BY DEF Init, NoAgent
<1>4. \A a \in Agent : AgentSound(a)
  BY <1>3 DEF AgentSound
<1>5. \A a, b \in Agent : Distinct(a, b)
  BY <1>3 DEF Distinct, Known
<1>6. Openings
  BY DEF Init, Openings
<1>7. (\A c \in Call : CallSound(c)) /\ \A c, d \in Call : Apart(c, d)
  BY <1>2 DEF CallSound, Apart
<1> QED  BY <1>1, <1>4, <1>5, <1>6, <1>7 DEF IInv

-----------------------------------------------------------------------------
(* Steps that leave the records and the sessions alone and go on with one  *)
(* call, or end it.                                                        *)

\* Nothing that comes to work belongs to an agent.
NobodysWork == \A h \in working' \ working : \A a \in Agent : agents[a].host # h

LEMMA CallStep ==
  ASSUME IInv, TypeOK', UNCHANGED <<agents, opened, openedBy>>,
         raced \subseteq raced', refused \subseteq refused', NobodysWork,
         NEW c \in Call, \A d \in Call : d # c => calls'[d] = calls[d],
         CallSound(c)', \A d \in Call : Apart(c, d)' /\ Apart(d, c)'
  PROVE  IInv'
<1> USE DEF IInv
<1>1. ASSUME NEW d \in Call PROVE CallSound(d)'
  <2>1. CASE d = c
    BY <2>1
  <2>2. CASE d # c
    <3>1. calls'[d] = calls[d] /\ CallSound(d)
      BY <2>2
    <3>2. IsOpen(d) => calls[d].agent \in Agent
      BY OpenTyped DEF OpenCalls
    <3> QED  BY <3>1, <3>2 DEF CallSound, IsOpen, Holding, NobodysWork
  <2> QED  BY <2>1, <2>2
<1>2. ASSUME NEW d \in Call, NEW e \in Call PROVE Apart(d, e)'
  <2>1. CASE d = c \/ e = c
    BY <2>1
  <2>2. CASE d # c /\ e # c
    BY <2>2 DEF Apart, IsOpen, Holding
  <2> QED  BY <2>1, <2>2
<1>3. ASSUME NEW a \in Agent PROVE AgentSound(a)'
  <2>1. AgentSound(a)
    OBVIOUS
  <2> QED  BY <2>1 DEF AgentSound, NobodysWork
<1>4. \A a, b \in Agent : Distinct(a, b)'
  BY DEF Distinct
<1>5. Openings'
  BY DEF Openings
<1> QED  BY <1>1, <1>2, <1>3, <1>4, <1>5

LEMMA CloseStep ==
  ASSUME IInv, TypeOK', UNCHANGED <<agents, opened, openedBy>>,
         raced \subseteq raced', refused \subseteq refused', NobodysWork,
         NEW c \in Call, Close(c)
  PROVE  IInv'
<1>1. ~IsOpen(c)' /\ \A d \in Call : d # c => calls'[d] = calls[d]
  BY DEF Close, IInv, TypeOK, IsOpen
<1>2. CallSound(c)' /\ \A d \in Call : Apart(c, d)' /\ Apart(d, c)'
  BY <1>1 DEF CallSound, Apart
<1> QED  BY <1>1, <1>2, CallStep

\* What a call is after it went on.
LEMMA GotoFacts ==
  ASSUME IInv, NEW c \in Call, IsOpen(c),
         NEW phase \in {"spawn", "prompt", "confirm", "fail", "stopping", "mark",
                        "resuming", "adopt"},
         Goto(c, phase)
  PROVE  /\ calls' \in [Call -> CallState]
         /\ \A d \in Call : d # c => calls'[d] = calls[d]
         /\ IsOpen(c)' /\ calls'[c].phase = phase
         /\ calls'[c].agent = calls[c].agent /\ calls'[c].host = calls[c].host
         /\ calls'[c].op = calls[c].op
<1>1. calls[c] \in OpenCalls
  BY OpenTyped DEF IInv
<1>2. /\ [calls[c] EXCEPT !.phase = phase] \in OpenCalls
      /\ [calls[c] EXCEPT !.phase = phase].phase = phase
      /\ [calls[c] EXCEPT !.phase = phase].agent = calls[c].agent
      /\ [calls[c] EXCEPT !.phase = phase].host = calls[c].host
      /\ [calls[c] EXCEPT !.phase = phase].op = calls[c].op
  BY <1>1 DEF OpenCalls
<1>3. calls'[c] = [calls[c] EXCEPT !.phase = phase]
  BY DEF Goto, IInv, TypeOK
<1>4. IsOpen(c)'
  BY <1>2, <1>3, OpenIsOpen DEF IsOpen
<1>5. \A d \in Call : d # c => calls'[d] = calls[d]
  BY DEF Goto, IInv, TypeOK
<1>6. calls' \in [Call -> CallState]
  <2>1. OpenCalls \subseteq CallState
    BY DEF OpenCalls, CallState
  <2>2. calls' = [calls EXCEPT ![c] = [calls[c] EXCEPT !.phase = phase]]
    BY DEF Goto
  <2> QED  BY <1>2, <2>1, <2>2 DEF IInv, TypeOK
<1> QED  BY <1>2, <1>3, <1>4, <1>5, <1>6

\* It stays apart from the others unless it takes a session in its hands.
LEMMA GotoApart ==
  ASSUME IInv, NEW c \in Call, IsOpen(c),
         NEW phase \in {"spawn", "prompt", "confirm", "fail", "stopping", "mark",
                        "resuming", "adopt"},
         Goto(c, phase), phase = "confirm" => Holding(c), phase # "prompt",
         UNCHANGED raced
  PROVE  \A d \in Call : Apart(c, d)' /\ Apart(d, c)'
<1> SUFFICES ASSUME NEW d \in Call, d # c PROVE Apart(c, d)' /\ Apart(d, c)'
  BY DEF Apart
<1>1. Apart(c, d) /\ Apart(d, c)
  BY DEF IInv
<1>2. /\ calls'[d] = calls[d] /\ IsOpen(c)' /\ calls'[c].phase = phase
      /\ calls'[c].agent = calls[c].agent /\ calls'[c].host = calls[c].host
      /\ calls'[c].op = calls[c].op
  BY GotoFacts
<1>3. (Holding(c)' => Holding(c)) /\ (Holding(d)' = Holding(d)) /\ (IsOpen(d)' = IsOpen(d))
  BY <1>2 DEF Holding, IsOpen
<1> QED  BY <1>1, <1>2, <1>3 DEF Apart

LEMMA CloseTyped ==
  ASSUME TypeOK, NEW c \in Call, Close(c)
  PROVE  calls' \in [Call -> CallState]
BY DEF TypeOK, Close, CallState

LEMMA FaultTyped ==
  ASSUME TypeOK, CountFault \/ UNCHANGED faults
  PROVE  faults' \in 0..MaxFaults
BY LifecycleAssumption DEF TypeOK, CountFault, MayFail

\* The prompt goes to the session in the call's hands, which is nobody's.
LEMMA PromptAcceptedKeeps ==
  ASSUME IInv, NEW c \in Call, PromptAccepted(c)
  PROVE  IInv'
<1>0. /\ IsOpen(c) /\ calls[c].phase = "prompt" /\ Goto(c, "confirm")
      /\ calls[c].host \in Host
      /\ working' = working \cup {calls[c].host}
      /\ UNCHANGED <<agents, alive, opened, openedBy, raced, refused, faults>>
  BY DEF PromptAccepted, At, IsOpen, IInv, TypeOK
<1>1. CallSound(c)
  BY DEF IInv
<1>2. Holding(c)
  BY <1>0 DEF Holding
<1>3. NobodysWork
  BY <1>0, <1>1, <1>2 DEF CallSound, NobodysWork
<1>4. /\ IsOpen(c)' /\ calls'[c].phase = "confirm"
      /\ calls'[c].agent = calls[c].agent /\ calls'[c].host = calls[c].host
      /\ calls'[c].op = calls[c].op /\ calls' \in [Call -> CallState]
      /\ \A d \in Call : d # c => calls'[d] = calls[d]
  BY <1>0, GotoFacts
<1>5. CallSound(c)'
  BY <1>0, <1>1, <1>2, <1>4 DEF CallSound, Holding, Spawning
<1>6. TypeOK'
  BY <1>0, <1>4 DEF IInv, TypeOK
<1>7. \A d \in Call : Apart(c, d)' /\ Apart(d, c)'
  BY <1>0, <1>2, GotoApart
<1> QED  BY <1>0, <1>3, <1>4, <1>5, <1>6, <1>7, CallStep

LEMMA SpawnFailsKeeps ==
  ASSUME IInv, NEW c \in Call, SpawnFails(c)
  PROVE  IInv'
<1>0. PICK took \in BOOLEAN :
        /\ IsOpen(c) /\ calls[c].phase \in {"spawn", "prompt"} /\ Goto(c, "fail")
        /\ took => calls[c].phase = "prompt" /\ calls[c].host \in Host
        /\ working' = IF took THEN working \cup {calls[c].host} ELSE working
        /\ UNCHANGED <<agents, alive, opened, openedBy, raced, refused, faults>>
  BY DEF SpawnFails, At, IsOpen, IInv, TypeOK
<1>1. CallSound(c)
  BY DEF IInv
<1>2. NobodysWork
  BY <1>0, <1>1 DEF CallSound, Holding, NobodysWork
<1>3. /\ IsOpen(c)' /\ calls'[c].phase = "fail"
      /\ calls'[c].agent = calls[c].agent /\ calls'[c].host = calls[c].host
      /\ calls'[c].op = calls[c].op /\ calls' \in [Call -> CallState]
      /\ \A d \in Call : d # c => calls'[d] = calls[d]
  BY <1>0, GotoFacts
<1>4. CallSound(c)'
  BY <1>0, <1>1, <1>3 DEF CallSound, Holding, Spawning
<1>5. TypeOK'
  BY <1>0, <1>3 DEF IInv, TypeOK
<1>6. \A d \in Call : Apart(c, d)' /\ Apart(d, c)'
  BY <1>0, GotoApart
<1> QED  BY <1>0, <1>2, <1>3, <1>4, <1>5, <1>6, CallStep

LEMMA HostStopsKeeps ==
  ASSUME IInv, NEW c \in Call, HostStops(c)
  PROVE  IInv'
<1>0. /\ IsOpen(c) /\ calls[c].phase = "stopping" /\ Goto(c, "mark")
      /\ working' = working \ {calls[c].host}
      /\ UNCHANGED <<agents, alive, opened, openedBy, raced, refused, faults>>
  BY DEF HostStops, At, IsOpen
<1>1. CallSound(c)
  BY DEF IInv
<1>2. NobodysWork
  BY <1>0 DEF NobodysWork
<1>3. /\ IsOpen(c)' /\ calls'[c].phase = "mark"
      /\ calls'[c].agent = calls[c].agent /\ calls'[c].host = calls[c].host
      /\ calls'[c].op = calls[c].op /\ calls' \in [Call -> CallState]
      /\ \A d \in Call : d # c => calls'[d] = calls[d]
  BY <1>0, GotoFacts
<1>4. CallSound(c)'
  BY <1>0, <1>1, <1>3 DEF CallSound, Holding, Spawning
<1>5. TypeOK'
  BY <1>0, <1>3 DEF IInv, TypeOK
<1>6. \A d \in Call : Apart(c, d)' /\ Apart(d, c)'
  BY <1>0, GotoApart
<1> QED  BY <1>0, <1>2, <1>3, <1>4, <1>5, <1>6, CallStep

LEMMA ResumesKeeps ==
  ASSUME IInv, NEW c \in Call, Resumes(c)
  PROVE  IInv'
<1>0. /\ IsOpen(c) /\ calls[c].phase = "resuming" /\ Goto(c, "adopt")
      /\ UNCHANGED <<agents, alive, working, opened, openedBy, raced, refused, faults>>
  BY DEF Resumes, At, IsOpen, world
<1>1. CallSound(c)
  BY DEF IInv
<1>2. NobodysWork
  BY <1>0 DEF NobodysWork
<1>3. /\ IsOpen(c)' /\ calls'[c].phase = "adopt"
      /\ calls'[c].agent = calls[c].agent /\ calls'[c].host = calls[c].host
      /\ calls'[c].op = calls[c].op /\ calls' \in [Call -> CallState]
      /\ \A d \in Call : d # c => calls'[d] = calls[d]
  BY <1>0, GotoFacts
<1>4. CallSound(c)'
  BY <1>0, <1>1, <1>3 DEF CallSound, Holding, Spawning
<1>5. TypeOK'
  BY <1>0, <1>3 DEF IInv, TypeOK
<1>6. \A d \in Call : Apart(c, d)' /\ Apart(d, c)'
  BY <1>0, GotoApart
<1> QED  BY <1>0, <1>2, <1>3, <1>4, <1>5, <1>6, CallStep

\* The session the host did not resume may be replaced from now on.
LEMMA DoesNotResumeKeeps ==
  ASSUME IInv, NEW c \in Call, DoesNotResume(c)
  PROVE  IInv'
<1>0. /\ IsOpen(c) /\ calls[c].phase = "resuming"
      /\ Goto(c, "spawn") \/ Close(c)
      /\ CountFault \/ UNCHANGED faults
      /\ refused' = refused \cup {calls[c].host}
      /\ UNCHANGED <<agents, alive, working, opened, openedBy, raced>>
  BY DEF DoesNotResume, At, IsOpen, world
<1>1. CallSound(c)
  BY DEF IInv
<1>2. calls[c].op = NoOp
  BY <1>0, <1>1 DEF CallSound, Spawning
<1>3. NobodysWork
  BY <1>0 DEF NobodysWork
<1>t. faults' \in 0..MaxFaults
  BY <1>0, FaultTyped DEF IInv
<1>h. refused' \subseteq Host
  <2>1. calls[c] \in OpenCalls
    BY <1>0, OpenTyped DEF IInv
  <2>2. calls[c].agent \in Agent /\ calls[c].host \in Host \cup {NoHost}
    BY <2>1 DEF OpenCalls
  <2>3. calls[c].host # NoHost
    BY <1>0, <1>1 DEF CallSound
  <2> QED  BY <1>0, <2>2, <2>3 DEF IInv, TypeOK
<1>4. CASE Close(c)
  <2>1. TypeOK'
    BY <1>0, <1>4, <1>t, <1>h, CloseTyped DEF IInv, TypeOK
  <2> QED  BY <1>0, <1>3, <1>4, <2>1, CloseStep
<1>5. CASE Goto(c, "spawn")
  <2>1. /\ IsOpen(c)' /\ calls'[c].phase = "spawn"
        /\ calls'[c].agent = calls[c].agent /\ calls'[c].host = calls[c].host
        /\ calls'[c].op = calls[c].op /\ calls' \in [Call -> CallState]
        /\ \A d \in Call : d # c => calls'[d] = calls[d]
    BY <1>0, <1>5, GotoFacts
  <2>2. CallSound(c)'
    BY <1>0, <1>1, <1>2, <2>1 DEF CallSound, Holding, Spawning
  <2>3. TypeOK'
    BY <1>0, <1>t, <1>h, <2>1 DEF IInv, TypeOK
  <2>4. \A d \in Call : Apart(c, d)' /\ Apart(d, c)'
    BY <1>0, <1>5, GotoApart
  <2> QED  BY <1>0, <1>3, <2>1, <2>2, <2>3, <2>4, CallStep
<1> QED  BY <1>0, <1>4, <1>5

\* A call ends: at the host's word, for want of the lock, or with all others.
LEMMA EndsKeep ==
  ASSUME IInv, NEW c \in Call, HostDoesNotStop(c) \/ LockTimesOut(c)
  PROVE  IInv'
<1>0. /\ Close(c) /\ (CountFault \/ UNCHANGED faults) /\ working' \subseteq working
      /\ UNCHANGED <<agents, alive, opened, openedBy, raced, refused>>
  BY DEF HostDoesNotStop, LockTimesOut, world
<1>1. faults' \in 0..MaxFaults
  BY <1>0, FaultTyped DEF IInv
<1>2. TypeOK'
  BY <1>0, <1>1, CloseTyped DEF IInv, TypeOK
<1>3. NobodysWork
  BY <1>0 DEF NobodysWork
<1> QED  BY <1>0, <1>2, <1>3, CloseStep

LEMMA CrashKeeps ==
  ASSUME IInv, Crash
  PROVE  IInv'
<1>0. /\ calls' = [c \in Call |-> NoCall] /\ CountFault
      /\ UNCHANGED <<agents, alive, working, opened, openedBy, raced, refused>>
  BY DEF Crash, world
<1>1. faults' \in 0..MaxFaults
  BY <1>0, FaultTyped DEF IInv
<1>2. TypeOK'
  BY <1>0, <1>1 DEF IInv, TypeOK, CallState
<1>3. \A c \in Call : ~IsOpen(c)'
  BY <1>0 DEF IsOpen
<1>4. (\A c \in Call : CallSound(c)') /\ \A c, d \in Call : Apart(c, d)'
  BY <1>3 DEF CallSound, Apart
<1>5. (\A a \in Agent : AgentSound(a)') /\ (\A a, b \in Agent : Distinct(a, b)') /\ Openings'
  BY <1>0 DEF IInv, AgentSound, Distinct, Openings
<1> QED  BY <1>2, <1>4, <1>5 DEF IInv

\* Steps of the host and of the operator, and the loss of a session.
LEMMA HostKeeps ==
  ASSUME IInv, \/ HostLosesSession \/ TurnEnds \/ UNCHANGED vars
  PROVE  IInv'
<1>0. /\ UNCHANGED <<agents, calls, opened, openedBy, raced, refused>>
      /\ working' \subseteq working /\ alive' \subseteq alive
      /\ CountFault \/ UNCHANGED faults
  BY DEF HostLosesSession, TurnEnds, vars
<1>1. faults' \in 0..MaxFaults
  BY <1>0, FaultTyped DEF IInv
<1>2. TypeOK'
  BY <1>0, <1>1 DEF IInv, TypeOK
<1>3. ASSUME NEW c \in Call PROVE CallSound(c)'
  <2>1. CallSound(c)
    BY DEF IInv
  <2> QED  BY <1>0, <2>1 DEF CallSound, IsOpen, Holding
<1>4. \A c, d \in Call : Apart(c, d)'
  BY <1>0 DEF IInv, Apart, IsOpen, Holding
<1>5. (\A a \in Agent : AgentSound(a)') /\ (\A a, b \in Agent : Distinct(a, b)') /\ Openings'
  BY <1>0 DEF IInv, AgentSound, Distinct, Openings
<1> QED  BY <1>2, <1>3, <1>4, <1>5 DEF IInv

\* Work for an agent at work counts as a second one at a stop under way.
LEMMA PromptedKeeps ==
  ASSUME IInv, Prompted
  PROVE  IInv'
<1>0. PICK a \in Agent : /\ agents[a].status = "running" /\ agents[a].host \in alive
                         /\ working' = working \cup {agents[a].host} /\ Enter(a)
                         /\ UNCHANGED <<agents, calls, alive, opened, openedBy, refused,
                                        faults>>
  BY DEF Prompted
<1>1. raced \subseteq raced' /\ raced' \subseteq raced \cup {a} /\ (Busy(a) => a \in raced')
  BY <1>0 DEF Enter
<1>2. agents[a].host # NoHost /\ agents[a].host \in Host
  BY <1>0, AgentsAssumption DEF IInv, TypeOK
<1>3. TypeOK'
  BY <1>0, <1>1, <1>2 DEF IInv, TypeOK
<1>4. \A b \in Agent : b # a => agents[b].host # agents[a].host
  BY <1>2 DEF IInv, Distinct
<1>5. ASSUME NEW c \in Call PROVE CallSound(c)'
  <2>1. CallSound(c)
    BY DEF IInv
  <2>2. IsOpen(c) => calls[c].agent \in Agent
    BY OpenTyped DEF IInv, OpenCalls
  <2>3. IsOpen(c) /\ calls[c].agent = a => a \in raced'
    BY <1>1 DEF Busy, IsOpen
  <2>4. IsOpen(c) /\ calls[c].agent # a =>
          (agents[calls[c].agent].host \in working' <=> agents[calls[c].agent].host \in working)
    BY <1>0, <1>4, <2>2
  <2> QED  BY <1>0, <1>1, <2>1, <2>3, <2>4 DEF CallSound, IsOpen, Holding
<1>6. \A c, d \in Call : Apart(c, d)'
  BY <1>0, <1>1 DEF IInv, Apart, IsOpen, Holding
<1>7. ASSUME NEW b \in Agent PROVE AgentSound(b)'
  <2>1. AgentSound(b)
    BY DEF IInv
  <2>2. CASE b = a
    BY <1>0, <1>1, <2>1, <2>2 DEF AgentSound, Known
  <2>3. CASE b # a
    BY <1>0, <1>1, <1>4, <2>1, <2>3 DEF AgentSound, Known
  <2> QED  BY <2>2, <2>3
<1>8. (\A b, d \in Agent : Distinct(b, d)') /\ Openings'
  BY <1>0 DEF IInv, Distinct, Openings
<1> QED  BY <1>3, <1>5, <1>6, <1>7, <1>8 DEF IInv

\* The session that is opened is new to everybody.
LEMMA OpenSessionKeeps ==
  ASSUME IInv, NEW c \in Call, OpenSession(c)
  PROVE  IInv'
<1>0. PICK h \in Host :
        /\ IsOpen(c) /\ calls[c].phase = "spawn" /\ h \notin opened
        /\ opened' = opened \cup {h}
        /\ openedBy' = [openedBy EXCEPT ![h] = calls[c].op]
        /\ alive' = alive \cup {h}
        /\ calls' = [calls EXCEPT ![c].phase = "prompt", ![c].host = h]
        /\ UNCHANGED <<agents, working, raced, refused, faults>>
  BY DEF OpenSession, At, IsOpen
<1>1. calls[c] \in OpenCalls
  BY <1>0, OpenTyped DEF IInv
<1>2. CallSound(c)
  BY DEF IInv
<1>3. /\ calls'[c] = [calls[c] EXCEPT !.phase = "prompt", !.host = h]
      /\ \A d \in Call : d # c => calls'[d] = calls[d]
  BY <1>0 DEF IInv, TypeOK
<1>4. /\ calls'[c] \in OpenCalls /\ calls'[c].phase = "prompt" /\ calls'[c].host = h
      /\ calls'[c].agent = calls[c].agent /\ calls'[c].op = calls[c].op
  BY <1>1, <1>3 DEF OpenCalls
<1>5. IsOpen(c)'
  BY <1>4, OpenIsOpen DEF IsOpen
<1>6. /\ openedBy'[h] = calls[c].op
      /\ \A g \in Host : g # h => openedBy'[g] = openedBy[g]
  BY <1>0 DEF IInv, TypeOK
<1>7. TypeOK'
  <2>1. calls' \in [Call -> CallState]
    <3>1. OpenCalls \subseteq CallState
      BY DEF OpenCalls, CallState
    <3>2. calls' = [calls EXCEPT ![c] = calls'[c]]
      BY <1>0, <1>3
    <3> QED  BY <1>4, <3>1, <3>2 DEF IInv, TypeOK
  <2>2. openedBy' \in [Host -> Op \cup {NoOp}]
    BY <1>0, <1>1 DEF IInv, TypeOK, OpenCalls
  <2> QED  BY <1>0, <2>1, <2>2 DEF IInv, TypeOK
<1>8. \A b \in Agent : agents[b].host # h
  BY <1>0, AgentsAssumption DEF IInv, AgentSound
<1>9. CallSound(c)'
  <2> DEFINE a == calls[c].agent
  <2>1. /\ Known(agents, a)
        /\ calls[c].op # NoOp => agents[a].req.op = calls[c].op
        /\ a \notin raced => agents[a].host \in refused \cup {NoHost}
    BY <1>0, <1>2 DEF CallSound, Spawning
  <2>2. h \in opened'
    BY <1>0
  <2>3. /\ Known(agents', calls'[c].agent)
        /\ calls'[c].op # NoOp => agents'[calls'[c].agent].req.op = calls'[c].op
        /\ calls'[c].agent \notin raced' =>
             agents'[calls'[c].agent].host \in refused' \cup {NoHost}
    BY <1>0, <1>4, <2>1 DEF Known
  <2>4. calls'[c].host \in opened' /\ \A b \in Agent : agents'[b].host # calls'[c].host
    BY <1>0, <1>4, <1>8, <2>2
  <2> HIDE DEF a
  <2> QED  BY <1>4, <2>3, <2>4 DEF CallSound, Holding, Spawning
<1>10. ASSUME NEW d \in Call, d # c PROVE CallSound(d)' /\ Apart(c, d)' /\ Apart(d, c)'
  <2>1. CallSound(d) /\ Apart(c, d) /\ Apart(d, c)
    BY DEF IInv
  <2>2. calls'[d] = calls[d] /\ IsOpen(d)' = IsOpen(d) /\ Holding(d)' = Holding(d)
    BY <1>3, <1>10 DEF IsOpen, Holding
  <2>3. CallSound(d)'
    <3>1. IsOpen(d) /\ calls[d].op # NoOp => \A g \in Host : openedBy'[g] # calls[d].op
             \/ openedBy'[g] = openedBy[g]
      BY <1>0, <1>6, <1>10, <2>1 DEF Apart
    <3>2. opened \subseteq opened' /\ UNCHANGED <<agents, working, raced, refused>>
      BY <1>0
    <3> QED  BY <2>1, <2>2, <3>1, <3>2 DEF CallSound, IsOpen, Holding
  <2>4. Holding(d) => calls[d].host # h
    BY <1>0, <2>1 DEF CallSound, Holding
  <2>5. Apart(c, d)' /\ Apart(d, c)'
    BY <1>0, <1>4, <1>5, <2>1, <2>2, <2>4 DEF Apart
  <2> QED  BY <2>3, <2>5
<1>11. \A d, e \in Call : Apart(d, e)'
  <2> SUFFICES ASSUME NEW d \in Call, NEW e \in Call PROVE Apart(d, e)'
    OBVIOUS
  <2>1. CASE d = e
    BY <2>1 DEF Apart
  <2>2. CASE d # e /\ (d = c \/ e = c)
    BY <1>10, <2>2
  <2>3. CASE d # c /\ e # c
    <3>1. calls'[d] = calls[d] /\ calls'[e] = calls[e] /\ raced' = raced
      BY <1>0, <1>3, <2>3
    <3>2. Apart(d, e)
      BY DEF IInv
    <3> QED  BY <3>1, <3>2 DEF Apart, IsOpen, Holding
  <2> QED  BY <2>1, <2>2, <2>3
<1>12. (\A a \in Agent : AgentSound(a)') /\ \A a, b \in Agent : Distinct(a, b)'
  BY <1>0 DEF IInv, AgentSound, Distinct
<1>13. Openings'
  <2>1. calls[c].op # NoOp => /\ \A g \in Host : openedBy[g] # calls[c].op
                              /\ calls[c].agent \in Agent /\ Known(agents, calls[c].agent)
                              /\ agents[calls[c].agent].req.op = calls[c].op
    BY <1>0, <1>1, <1>2 DEF CallSound, OpenCalls
  <2> SUFFICES ASSUME NEW g \in Host, openedBy'[g] # NoOp
               PROVE  /\ g \in opened'
                      /\ \E a \in Agent : Known(agents, a) /\ agents[a].req.op = openedBy'[g]
                      /\ \A k \in Host : openedBy'[k] = openedBy'[g] => k = g
    BY <1>0 DEF Openings
  <2>2. CASE g = h
    BY <1>0, <1>6, <2>1, <2>2
  <2>3. CASE g # h
    <3>1. openedBy'[g] = openedBy[g] /\ g \in opened
      BY <1>6, <2>3 DEF IInv, Openings
    <3> QED  BY <1>0, <1>6, <2>1, <2>3, <3>1 DEF IInv, Openings
  <2> QED  BY <2>2, <2>3
<1> QED  BY <1>7, <1>9, <1>10, <1>11, <1>12, <1>13 DEF IInv

-----------------------------------------------------------------------------
(* Steps that write a record.                                              *)

\* A section that marks the record of its call and ends the call.
LEMMA StatusStep ==
  ASSUME IInv, NEW c \in Call, IsOpen(c), NEW status \in {"failed", "stopped", "running"},
         agents' = SetStatus(agents, calls[c].agent, status), Close(c),
         UNCHANGED <<world, raced, refused, faults>>,
         status = "running" => agents[calls[c].agent].host # NoHost,
         status = "failed" /\ calls[c].agent \notin raced =>
           agents[calls[c].agent].host \in refused \cup {NoHost},
         status = "stopped" /\ agents[calls[c].agent].host \notin refused =>
           calls[c].agent \in raced \/ agents[calls[c].agent].host \notin working
  PROVE  IInv'
<1> DEFINE a == calls[c].agent
<1>0. a \in Agent /\ Known(agents, a)
  <2>1. CallSound(c)
    BY DEF IInv
  <2> QED  BY <2>1, OpenTyped DEF IInv, OpenCalls, CallSound
<1>1. /\ agents'[a].status = status
      /\ \A b \in Agent : /\ agents'[b].host = agents[b].host
                          /\ agents'[b].req = agents[b].req
                          /\ b # a => agents'[b].status = agents[b].status
      /\ agents' \in [Agent -> AgentRecord]
  <2>1. agents[a] \in AgentRecord
    BY <1>0 DEF IInv, TypeOK
  <2>2. /\ [agents[a] EXCEPT !.status = status] \in AgentRecord
        /\ [agents[a] EXCEPT !.status = status].status = status
        /\ [agents[a] EXCEPT !.status = status].host = agents[a].host
        /\ [agents[a] EXCEPT !.status = status].req = agents[a].req
    BY <2>1 DEF AgentRecord, AgentStatus
  <2>3. agents' = [agents EXCEPT ![a] = [agents[a] EXCEPT !.status = status]]
    BY DEF SetStatus
  <2> QED  BY <1>0, <2>2, <2>3 DEF IInv, TypeOK
<1>2. \A b \in Agent : Known(agents, b)' = Known(agents, b)
  BY <1>0, <1>1 DEF Known
<1>3. ~IsOpen(c)' /\ \A d \in Call : d # c => calls'[d] = calls[d]
  BY DEF Close, IInv, TypeOK, IsOpen
<1>w. UNCHANGED <<alive, working, opened, openedBy, raced, refused, faults>>
  BY DEF world
<1> HIDE DEF a
<1>4. TypeOK'
  BY <1>1, <1>w, CloseTyped DEF IInv, TypeOK
<1>5. ASSUME NEW d \in Call PROVE CallSound(d)'
  <2>1. CASE d = c
    BY <1>3, <2>1 DEF CallSound
  <2>2. CASE d # c
    <3>1. CallSound(d) /\ calls'[d] = calls[d]
      BY <1>3, <2>2 DEF IInv
    <3>2. IsOpen(d) => calls[d].agent \in Agent
      BY OpenTyped DEF IInv, OpenCalls
    <3> QED  BY <1>1, <1>2, <1>w, <3>1, <3>2 DEF CallSound, IsOpen, Holding
  <2> QED  BY <2>1, <2>2
<1>6. ASSUME NEW d \in Call, NEW e \in Call PROVE Apart(d, e)'
  <2>1. CASE d = c \/ e = c
    BY <1>3, <2>1 DEF Apart
  <2>2. CASE d # c /\ e # c
    BY <1>3, <1>w, <2>2 DEF IInv, Apart, IsOpen, Holding
  <2> QED  BY <2>1, <2>2
<1>7. ASSUME NEW b \in Agent PROVE AgentSound(b)'
  <2>1. AgentSound(b)
    BY DEF IInv
  <2>2. CASE b = a
    BY <1>1, <1>2, <1>w, <2>1, <2>2 DEF AgentSound, a
  <2>3. CASE b # a
    BY <1>1, <1>2, <1>w, <2>1, <2>3 DEF AgentSound
  <2> QED  BY <2>2, <2>3
<1>8. \A b, d \in Agent : Distinct(b, d)'
  BY <1>1, <1>2 DEF IInv, Distinct
<1>9. Openings'
  BY <1>1, <1>2, <1>w DEF IInv, Openings
<1> QED  BY <1>4, <1>5, <1>6, <1>7, <1>8, <1>9 DEF IInv

LEMMA MarksKeep ==
  ASSUME IInv, NEW c \in Call, MarkFailed(c) \/ MarkStopped(c) \/ Adopt(c)
  PROVE  IInv'
<1>1. CallSound(c)
  BY DEF IInv
<1>2. CASE MarkFailed(c)
  <2>1. /\ IsOpen(c) /\ calls[c].phase = "fail" /\ Close(c)
        /\ agents' = SetStatus(agents, calls[c].agent, "failed")
        /\ UNCHANGED <<world, raced, refused, faults>>
    BY <1>2 DEF MarkFailed, At, IsOpen
  <2>2. calls[c].agent \notin raced => agents[calls[c].agent].host \in refused \cup {NoHost}
    BY <1>1, <2>1 DEF CallSound, Spawning
  <2> QED  BY <2>1, <2>2, StatusStep
<1>3. CASE MarkStopped(c)
  <2>1. /\ IsOpen(c) /\ calls[c].phase = "mark" /\ Close(c)
        /\ agents' = SetStatus(agents, calls[c].agent, "stopped")
        /\ UNCHANGED <<world, raced, refused, faults>>
    BY <1>3 DEF MarkStopped, At, IsOpen
  <2>2. agents[calls[c].agent].host \notin refused =>
          calls[c].agent \in raced \/ agents[calls[c].agent].host \notin working
    BY <1>1, <2>1, AgentsAssumption DEF CallSound, IInv, TypeOK
  <2> QED  BY <2>1, <2>2, StatusStep
<1>4. CASE Adopt(c)
  <2>1. /\ IsOpen(c) /\ calls[c].phase = "adopt" /\ Close(c)
        /\ agents' = SetStatus(agents, calls[c].agent, "running")
        /\ UNCHANGED <<world, raced, refused, faults>>
    BY <1>4 DEF Adopt, At, IsOpen
  <2>2. agents[calls[c].agent].host # NoHost
    BY <1>1, <2>1 DEF CallSound
  <2> QED  BY <2>1, <2>2, StatusStep
<1> QED  BY <1>2, <1>3, <1>4

\* A call begins on an agent that is there and leaves the record alone.
LEMMA OpenStep ==
  ASSUME IInv, NEW c \in Call, NEW a \in Agent, Known(agents, a),
         NEW phase \in {"spawn", "stopping", "mark", "resuming"},
         NEW replace \in BOOLEAN,
         Open(c, phase, a, agents[a].host, NoOp, replace),
         UNCHANGED <<agents, world, refused, faults>>,
         phase = "spawn" => agents[a].host = NoHost,
         phase \in {"stopping", "resuming"} => agents[a].host # NoHost,
         phase = "mark" => \/ agents[a].host = NoHost
                           \/ agents[a].status = "failed"
  PROVE  IInv'
<1> DEFINE r == [phase |-> phase, agent |-> a, host |-> agents[a].host, op |-> NoOp,
                 replace |-> replace]
<1>0. agents[a].host \in Host \cup {NoHost}
  BY DEF IInv, TypeOK, AgentRecord
<1>1. r \in OpenCalls
  BY <1>0 DEF OpenCalls
<1>2. /\ ~IsOpen(c) /\ calls' = [calls EXCEPT ![c] = r] /\ Enter(a)
      /\ UNCHANGED <<alive, working, opened, openedBy, agents, refused, faults>>
  BY DEF Open, IsOpen, world
<1>3. /\ calls'[c] = r /\ \A d \in Call : d # c => calls'[d] = calls[d]
  BY <1>2 DEF IInv, TypeOK
<1>4. IsOpen(c)'
  BY <1>1, <1>3, OpenIsOpen DEF IsOpen
<1>5. raced \subseteq raced' /\ raced' \subseteq Agent /\ (Busy(a) => a \in raced')
  BY <1>2 DEF Enter, IInv, TypeOK
<1>6. TypeOK'
  <2>1. OpenCalls \subseteq CallState
    BY DEF OpenCalls, CallState
  <2>2. calls' \in [Call -> CallState]
    BY <1>1, <1>2, <2>1 DEF IInv, TypeOK
  <2> QED  BY <1>2, <1>5, <2>2 DEF IInv, TypeOK
<1>7. CallSound(c)'
  <2>1. AgentSound(a)
    BY DEF IInv
  <2>2. /\ calls'[c].phase = phase /\ calls'[c].agent = a /\ calls'[c].op = NoOp
        /\ calls'[c].host = agents[a].host
    BY <1>3
  <2>3. phase = "mark" /\ a \notin raced => agents[a].host \in refused \cup {NoHost}
    BY <2>1 DEF AgentSound
  <2>4. /\ Known(agents', a) /\ agents'[a].host = agents[a].host
        /\ a \notin raced' => a \notin raced
        /\ refused' = refused /\ working' = working
    BY <1>2, <1>5 DEF Known
  <2>5. /\ phase \in {"resuming", "adopt", "stopping"} => agents[a].host # NoHost
        /\ phase \in Spawning => agents[a].host = NoHost
        /\ ~Holding(c)'
    BY <2>2 DEF Spawning, Holding
  <2> HIDE DEF r
  <2> QED  BY <2>2, <2>3, <2>4, <2>5 DEF CallSound
<1>8. ASSUME NEW d \in Call PROVE Apart(c, d)' /\ Apart(d, c)'
  <2>1. /\ calls'[c].phase = phase /\ calls'[c].agent = a /\ calls'[c].op = NoOp
    BY <1>3
  <2>2. d # c /\ IsOpen(d)' /\ calls'[d].agent = a => a \in raced'
    BY <1>3, <1>5 DEF Busy, IsOpen
  <2>3. ~Holding(c)'
    BY <2>1 DEF Holding
  <2> QED  BY <2>1, <2>2, <2>3 DEF Apart
<1>9. NobodysWork
  BY <1>2 DEF NobodysWork
<1> QED  BY <1>2, <1>3, <1>5, <1>6, <1>7, <1>8, <1>9, CallStep

LEMMA BeginStopKeeps ==
  ASSUME IInv, NEW c \in Call, BeginStop(c)
  PROVE  IInv'
<1>1. PICK a \in Agent :
        /\ agents[a].status \notin {"none", "stopped"}
        /\ Open(c, IF MayWork(agents[a]) THEN "stopping" ELSE "mark",
                a, agents[a].host, NoOp, FALSE)
        /\ UNCHANGED <<agents, world, refused, faults>>
  BY DEF BeginStop
<1>2. agents[a].status \in AgentStatus
  BY DEF IInv, TypeOK, AgentRecord
<1>3. Known(agents, a)
  BY <1>1 DEF Known
<1>4. CASE MayWork(agents[a])
  <2>1. agents[a].host # NoHost
    BY <1>4 DEF MayWork
  <2> QED  BY <1>1, <1>3, <1>4, <2>1, OpenStep
<1>5. CASE ~MayWork(agents[a])
  <2>1. agents[a].host = NoHost \/ agents[a].status = "failed"
    BY <1>1, <1>2, <1>5 DEF MayWork, AgentStatus
  <2> QED  BY <1>1, <1>3, <1>5, <2>1, OpenStep
<1> QED  BY <1>4, <1>5

LEMMA BeginRestartKeeps ==
  ASSUME IInv, NEW c \in Call, BeginRestart(c)
  PROVE  IInv'
<1>1. PICK a \in Agent, replace \in BOOLEAN :
        /\ Known(agents, a)
        /\ Open(c, IF agents[a].host = NoHost THEN "spawn" ELSE "resuming",
                a, agents[a].host, NoOp, replace)
        /\ UNCHANGED <<agents, world, refused, faults>>
  BY DEF BeginRestart
<1>2. CASE agents[a].host = NoHost
  BY <1>1, <1>2, OpenStep
<1>3. CASE agents[a].host # NoHost
  BY <1>1, <1>3, OpenStep
<1> QED  BY <1>2, <1>3

\* The session a creation or a restart opened becomes the agent's, whatever
\* became of the agent meanwhile: it is still nobody else's.
LEMMA ConfirmKeeps ==
  ASSUME IInv, NEW c \in Call, Confirm(c)
  PROVE  IInv'
<1> DEFINE a == calls[c].agent
           h == calls[c].host
<1>0. /\ IsOpen(c) /\ calls[c].phase = "confirm" /\ Close(c)
      /\ agents' = SetHost(agents, a, h)
      /\ UNCHANGED <<alive, working, opened, openedBy, raced, refused, faults>>
  BY DEF Confirm, At, IsOpen, world
<1>1. CallSound(c) /\ Holding(c)
  BY <1>0 DEF IInv, Holding
<1>2. /\ a \in Agent /\ Known(agents, a) /\ h \in Host /\ h # NoHost /\ h \in opened
      /\ \A b \in Agent : agents[b].host # h
  <2>1. a \in Agent
    BY <1>0, OpenTyped DEF IInv, OpenCalls
  <2>2. Known(agents, a) /\ h \in opened /\ \A b \in Agent : agents[b].host # h
    BY <1>0, <1>1 DEF CallSound
  <2> QED  BY <2>1, <2>2, AgentsAssumption DEF IInv, TypeOK
<1>3. /\ agents'[a].status = "running" /\ agents'[a].host = h
      /\ \A b \in Agent : /\ agents'[b].req = agents[b].req
                          /\ b # a => agents'[b] = agents[b]
      /\ agents' \in [Agent -> AgentRecord]
  <2>1. agents[a] \in AgentRecord
    BY <1>2 DEF IInv, TypeOK
  <2> DEFINE r == [agents[a] EXCEPT !.host = h, !.status = "running"]
  <2>2. /\ r \in AgentRecord /\ r.status = "running" /\ r.host = h
        /\ r.req = agents[a].req
    BY <1>2, <2>1 DEF AgentRecord, AgentStatus
  <2>3. agents' = [agents EXCEPT ![a] = r]
    BY <1>0, <1>2 DEF SetHost, IInv, TypeOK
  <2> HIDE DEF r
  <2> QED  BY <1>2, <2>2, <2>3 DEF IInv, TypeOK
<1>4. \A b \in Agent : Known(agents, b)' = Known(agents, b)
  BY <1>2, <1>3 DEF Known
<1>5. ~IsOpen(c)' /\ \A d \in Call : d # c => calls'[d] = calls[d]
  BY <1>0 DEF Close, IInv, TypeOK, IsOpen
<1>6. \A d \in Call : d # c /\ IsOpen(d) =>
        /\ calls[d].agent = a => a \in raced
        /\ Holding(d) => calls[d].host # h
        /\ calls[d].agent \in Agent
  <2> SUFFICES ASSUME NEW d \in Call, d # c, IsOpen(d)
               PROVE  /\ calls[d].agent = a => a \in raced
                      /\ Holding(d) => calls[d].host # h
                      /\ calls[d].agent \in Agent
    OBVIOUS
  <2>1. Apart(c, d)
    BY DEF IInv
  <2>2. calls[d].agent \in Agent
    BY OpenTyped DEF IInv, OpenCalls
  <2> QED  BY <1>0, <1>1, <2>1, <2>2 DEF Apart
<1> HIDE DEF a, h
<1>7. TypeOK'
  BY <1>0, <1>3, CloseTyped DEF IInv, TypeOK
<1>8. ASSUME NEW d \in Call PROVE CallSound(d)'
  <2>1. CASE d = c
    BY <1>5, <2>1 DEF CallSound
  <2>2. CASE d # c
    <3>1. CallSound(d) /\ calls'[d] = calls[d]
      BY <1>5, <2>2 DEF IInv
    <3>2. CASE IsOpen(d) /\ calls[d].agent = a
      <4>1. Holding(d) => \A b \in Agent : agents'[b].host # calls[d].host
        BY <1>3, <1>6, <2>2, <3>1, <3>2 DEF CallSound
      <4> QED
        BY <1>0, <1>2, <1>3, <1>4, <1>6, <2>2, <3>1, <3>2, <4>1 DEF CallSound, IsOpen, Holding
    <3>3. CASE IsOpen(d) /\ calls[d].agent # a
      <4>1. Holding(d) => \A b \in Agent : agents'[b].host # calls[d].host
        BY <1>3, <1>6, <2>2, <3>1, <3>3 DEF CallSound
      <4>2. agents'[calls[d].agent] = agents[calls[d].agent]
        BY <1>3, <1>6, <2>2, <3>3
      <4> QED
        BY <1>0, <1>4, <1>6, <2>2, <3>1, <3>3, <4>1, <4>2 DEF CallSound, IsOpen, Holding
    <3>4. CASE ~IsOpen(d)
      BY <3>1, <3>4 DEF CallSound, IsOpen
    <3> QED  BY <3>2, <3>3, <3>4
  <2> QED  BY <2>1, <2>2
<1>9. ASSUME NEW d \in Call, NEW e \in Call PROVE Apart(d, e)'
  <2>1. CASE d = c \/ e = c
    BY <1>5, <2>1 DEF Apart
  <2>2. CASE d # c /\ e # c
    BY <1>0, <1>5, <2>2 DEF IInv, Apart, IsOpen, Holding
  <2> QED  BY <2>1, <2>2
<1>10. ASSUME NEW b \in Agent PROVE AgentSound(b)'
  <2>1. AgentSound(b)
    BY DEF IInv
  <2>2. CASE b = a
    BY <1>0, <1>2, <1>3, <1>4, <2>2 DEF AgentSound
  <2>3. CASE b # a
    BY <1>0, <1>3, <1>4, <2>1, <2>3 DEF AgentSound
  <2> QED  BY <2>2, <2>3
<1>11. ASSUME NEW b \in Agent, NEW d \in Agent PROVE Distinct(b, d)'
  <2>1. Distinct(b, d)
    BY DEF IInv
  <2>2. b # d /\ agents'[b].host = agents'[d].host => agents'[b].host = NoHost
    BY <1>2, <1>3, <2>1 DEF Distinct
  <2> QED  BY <1>3, <1>4, <2>1, <2>2 DEF Distinct
<1>12. Openings'
  BY <1>0, <1>3, <1>4 DEF IInv, Openings
<1> QED  BY <1>7, <1>8, <1>9, <1>10, <1>11, <1>12 DEF IInv

\* The section that reserves an agent sees every earlier one: a name, the
\* lead and an operation are taken once.
LEMMA BeginCreateKeeps ==
  ASSUME IInv, NEW c \in Call, BeginCreate(c)
  PROVE  IInv'
<1>0. PICK a \in Agent, q \in Requests :
        /\ agents[a].status = "none" /\ Reservable(agents, q)
        /\ agents' = Reserve(agents, a, q)
        /\ Open(c, "spawn", a, NoHost, q.op, FALSE)
        /\ UNCHANGED <<world, refused, faults>>
  BY DEF BeginCreate
<1>w. UNCHANGED <<alive, working, opened, openedBy, refused, faults>>
  BY <1>0 DEF world
<1>1. q \in Request /\ q.op \in Op \cup {NoOp}
  BY LifecycleAssumption DEF Request
<1> DEFINE n == [status |-> "starting", host |-> NoHost, req |-> q]
           r == [phase |-> "spawn", agent |-> a, host |-> NoHost, op |-> q.op,
                 replace |-> FALSE]
<1>2. /\ agents'[a] = n /\ \A b \in Agent : b # a => agents'[b] = agents[b]
      /\ agents' \in [Agent -> AgentRecord]
  <2>1. n \in AgentRecord
    BY <1>1 DEF AgentRecord, AgentStatus
  <2>2. agents' = [agents EXCEPT ![a] = n]
    BY <1>0 DEF Reserve
  <2> HIDE DEF n
  <2> QED  BY <2>1, <2>2 DEF IInv, TypeOK
<1>3. \A b \in Agent : Known(agents', b) <=> (b = a \/ Known(agents, b))
  BY <1>2 DEF Known
<1>4. ~Known(agents, a)
  BY <1>0 DEF Known
<1>5. \A b \in Agent : Known(agents, b) =>
        /\ agents[b].req.name # q.name
        /\ ~(q.lead /\ agents[b].req.lead)
        /\ q.op # NoOp => agents[b].req.op # q.op
  BY <1>0 DEF Reservable, Prior
<1>6. r \in OpenCalls
  BY <1>1 DEF OpenCalls
<1>7. ~IsOpen(c) /\ calls' = [calls EXCEPT ![c] = r] /\ Enter(a)
  BY <1>0 DEF Open, IsOpen
<1>8. calls'[c] = r /\ \A d \in Call : d # c => calls'[d] = calls[d]
  BY <1>7 DEF IInv, TypeOK
<1>9. IsOpen(c)'
  BY <1>6, <1>8, OpenIsOpen DEF IsOpen
<1>10. raced \subseteq raced' /\ raced' \subseteq Agent
  BY <1>7 DEF Enter, IInv, TypeOK
<1>11. TypeOK'
  <2>1. OpenCalls \subseteq CallState
    BY DEF OpenCalls, CallState
  <2>2. calls' \in [Call -> CallState]
    BY <1>6, <1>7, <2>1 DEF IInv, TypeOK
  <2> QED  BY <1>2, <1>10, <1>w, <2>2 DEF IInv, TypeOK
<1>12. \A d \in Call : IsOpen(d) => /\ calls[d].agent \in Agent
                                    /\ calls[d].agent # a /\ Known(agents, calls[d].agent)
                                    /\ agents'[calls[d].agent] = agents[calls[d].agent]
  <2> SUFFICES ASSUME NEW d \in Call, IsOpen(d)
               PROVE  /\ calls[d].agent \in Agent
                      /\ calls[d].agent # a /\ Known(agents, calls[d].agent)
                      /\ agents'[calls[d].agent] = agents[calls[d].agent]
    OBVIOUS
  <2>1. calls[d].agent \in Agent
    BY OpenTyped DEF IInv, OpenCalls
  <2>2. Known(agents, calls[d].agent)
    BY DEF IInv, CallSound
  <2> QED  BY <1>2, <1>4, <2>1, <2>2
<1>13. /\ calls'[c].phase = "spawn" /\ calls'[c].agent = a /\ calls'[c].op = q.op
       /\ agents'[a].host = NoHost /\ agents'[a].req = q /\ agents'[a].status = "starting"
  BY <1>2, <1>8
<1> HIDE DEF n, r
<1>14. q.op # NoOp => \A h \in Host : openedBy[h] # q.op
  BY <1>5 DEF IInv, Openings
<1>15. ASSUME NEW d \in Call PROVE CallSound(d)'
  <2>1. CASE d = c
    BY <1>3, <1>13, <1>14, <1>w, <2>1 DEF CallSound, Holding, Spawning
  <2>2. CASE d # c
    <3>1. CallSound(d) /\ calls'[d] = calls[d]
      BY <1>8, <2>2 DEF IInv
    <3>2. CASE ~IsOpen(d)
      BY <3>1, <3>2 DEF CallSound, IsOpen
    <3>3. CASE IsOpen(d)
      <4>1. Holding(d) => \A b \in Agent : agents'[b].host # calls[d].host
        <5>1. Holding(d) => calls[d].host \in opened /\ \A b \in Agent : agents[b].host # calls[d].host
          BY <3>1, <3>3 DEF CallSound
        <5>2. NoHost \notin opened
          BY AgentsAssumption DEF IInv, TypeOK
        <5> QED  BY <1>2, <1>13, <5>1, <5>2
      <4> QED
        BY <1>3, <1>10, <1>12, <1>w, <3>1, <3>3, <4>1 DEF CallSound, IsOpen, Holding
    <3> QED  BY <3>2, <3>3
  <2> QED  BY <2>1, <2>2
<1>16. ASSUME NEW d \in Call, NEW e \in Call PROVE Apart(d, e)'
  <2>1. CASE d = e
    BY <2>1 DEF Apart
  <2>2. ASSUME NEW g \in Call, g # c PROVE Apart(c, g)' /\ Apart(g, c)'
    <3>1. calls'[g] = calls[g]
      BY <1>8, <2>2
    <3>2. IsOpen(g) => calls[g].agent # a /\ (q.op # NoOp => calls[g].op # q.op)
      BY <1>5, <1>12 DEF IInv, CallSound
    <3> QED  BY <1>13, <3>1, <3>2 DEF Apart, IsOpen, Holding
  <2>3. CASE d # c /\ e # c
    <3>1. Apart(d, e) /\ calls'[d] = calls[d] /\ calls'[e] = calls[e]
      BY <1>8, <2>3 DEF IInv
    <3> QED  BY <1>10, <3>1 DEF Apart, IsOpen, Holding
  <2> QED  BY <2>1, <2>2, <2>3
<1>17. ASSUME NEW b \in Agent PROVE AgentSound(b)'
  <2>1. AgentSound(b)
    BY DEF IInv
  <2>2. CASE b = a
    BY <1>13, <2>2 DEF AgentSound, Known
  <2>3. CASE b # a
    BY <1>2, <1>10, <1>w, <2>1, <2>3 DEF AgentSound, Known
  <2> QED  BY <2>2, <2>3
<1>18. ASSUME NEW b \in Agent, NEW d \in Agent, b # d PROVE Distinct(b, d)'
  <2>1. Distinct(b, d)
    BY DEF IInv
  <2>2. ~Known(agents, a) => agents[a].host = NoHost
    BY DEF IInv, AgentSound
  <2>3. CASE b = a
    BY <1>2, <1>3, <1>5, <1>13, <1>18, <2>3 DEF Distinct
  <2>4. CASE d = a
    BY <1>2, <1>3, <1>5, <1>13, <1>18, <2>4 DEF Distinct
  <2>5. CASE b # a /\ d # a
    BY <1>2, <1>3, <2>1, <2>5 DEF Distinct
  <2> QED  BY <2>3, <2>4, <2>5
<1>19. \A b, d \in Agent : Distinct(b, d)'
  <2>1. \A b \in Agent : Distinct(b, b)'
    BY DEF Distinct
  <2> QED  BY <1>18, <2>1
<1>20. Openings'
  <2>1. \A b \in Agent : Known(agents, b) => Known(agents', b) /\ agents'[b] = agents[b]
    BY <1>2, <1>3, <1>4
  <2> QED  BY <1>w, <2>1 DEF IInv, Openings
<1> QED  BY <1>11, <1>15, <1>16, <1>17, <1>19, <1>20 DEF IInv

-----------------------------------------------------------------------------

LEMMA NextKeeps == IInv /\ [Next]_vars => IInv'
<1> SUFFICES ASSUME IInv, [Next]_vars PROVE IInv'
  OBVIOUS
<1>1. ASSUME NEW c \in Call, BeginCreate(c) \/ BeginStop(c) \/ BeginRestart(c)
      PROVE  IInv'
  BY <1>1, BeginCreateKeeps, BeginStopKeeps, BeginRestartKeeps
<1>2. ASSUME NEW c \in Call, Proceed(c) \/ LockTimesOut(c) PROVE IInv'
  BY <1>2, OpenSessionKeeps, PromptAcceptedKeeps, SpawnFailsKeeps, MarksKeep,
     ConfirmKeeps, HostStopsKeeps, EndsKeep, ResumesKeeps, DoesNotResumeKeeps
     DEF Proceed
<1>3. CASE Crash \/ HostLosesSession \/ Prompted \/ TurnEnds \/ UNCHANGED vars
  BY <1>3, CrashKeeps, HostKeeps, PromptedKeeps
<1> QED  BY <1>1, <1>2, <1>3 DEF Next

\* Every reachable state satisfies the invariant.
THEOREM LifecycleInvariant == Spec => []IInv
<1>1. Init => IInv
  BY InitHolds
<1> QED  BY <1>1, NextKeeps, PTL DEF Spec

\* What is saved of the agents makes sense at any time: one session for an
\* operation, unique names, one lead, a session of its own for who works
\* (createAgent, restartAgent).
THEOREM RosterIsSound == Spec => []RosterSound
<1>1. IInv => TypeOK /\ RosterConsistent /\ WorkersHaveSessions
  BY DEF IInv, Distinct, AgentSound, RosterConsistent, WorkersHaveSessions
<1>2. IInv => CreatedOnce
  <2> SUFFICES ASSUME IInv, NEW o \in Op
               PROVE  Cardinality({h \in Host : openedBy[h] = o}) <= 1
    BY DEF CreatedOnce
  <2> DEFINE S == {h \in Host : openedBy[h] = o}
  <2>1. o # NoOp
    BY AgentsAssumption
  <2>2. \A g, h \in S : g = h
    BY <2>1 DEF IInv, Openings
  <2>3. CASE S = {}
    <3>1. Cardinality(S) = 0
      BY <2>3, FS_EmptySet
    <3> QED  BY <3>1
  <2>4. CASE S # {}
    <3>1. PICK h \in S : TRUE
      BY <2>4
    <3>2. S = {h}
      BY <2>2, <3>1
    <3>3. Cardinality(S) = 1
      BY <3>2, FS_Singleton
    <3> QED  BY <3>3
  <2> QED  BY <2>3, <2>4
<1>3. IInv => RosterSound
  BY <1>1, <1>2 DEF RosterSound
<1> QED  BY <1>3, LifecycleInvariant, PTL

\* The session of a stopped agent is at rest (stopAgent), but for agents that
\* two calls worked on at once and sessions the host did not resume.
THEOREM StoppedAgentsRest == Spec => []StoppedIsQuiet
<1>1. IInv => StoppedIsQuiet
  BY DEF IInv, AgentSound, StoppedIsQuiet
<1> QED  BY <1>1, LifecycleInvariant, PTL

\* A recorded identity is given up only for a session the host did not
\* resume, or under two calls at once (restartAgent).
THEOREM IdentityIsKept == Spec => IdentityKept
<1> DEFINE Kept == \A a \in Agent : agents'[a].host = agents[a].host
                     \/ agents[a].host \in refused \cup {NoHost} \/ a \in raced
<1>1. ASSUME IInv, Next PROVE Kept
  <2>1. ASSUME NEW c \in Call, BeginCreate(c) PROVE Kept
    <3>1. PICK a \in Agent, q \in Requests :
            agents[a].status = "none" /\ agents' = Reserve(agents, a, q)
      BY <2>1 DEF BeginCreate
    <3>2. agents[a].host = NoHost
      BY <1>1, <3>1 DEF IInv, AgentSound, Known
    <3> QED  BY <1>1, <3>1, <3>2 DEF IInv, TypeOK, Reserve
  <2>2. ASSUME NEW c \in Call, Confirm(c) PROVE Kept
    <3>1. CallSound(c) /\ IsOpen(c) /\ calls[c].phase = "confirm"
      BY <1>1, <2>2 DEF IInv, Confirm, At, IsOpen
    <3>2. calls[c].agent \in raced
            \/ agents[calls[c].agent].host \in refused \cup {NoHost}
      BY <3>1 DEF CallSound, Spawning
    <3> QED  BY <1>1, <2>2, <3>2 DEF Confirm, SetHost, IInv, TypeOK
  <2>3. ASSUME NEW c \in Call, MarkFailed(c) \/ MarkStopped(c) \/ Adopt(c) PROVE Kept
    <3>1. \A a \in Agent : agents'[a].host = agents[a].host
      BY <1>1, <2>3 DEF MarkFailed, MarkStopped, Adopt, SetStatus, IInv, TypeOK, AgentRecord
    <3> QED  BY <3>1
  <2>4. CASE UNCHANGED agents
    BY <2>4
  <2> QED
    BY <1>1, <2>1, <2>2, <2>3, <2>4
       DEF Next, Proceed, BeginStop, BeginRestart, OpenSession, PromptAccepted, SpawnFails,
           HostStops, HostDoesNotStop, Resumes, DoesNotResume, LockTimesOut, Crash,
           HostLosesSession, Prompted, TurnEnds
<1>2. IInv /\ [Next]_vars => [Kept]_vars
  BY <1>1
<1>3. Spec => [][Kept]_vars
  BY <1>2, LifecycleInvariant, PTL DEF Spec
<1> QED  BY <1>3 DEF IdentityKept
=============================================================================
