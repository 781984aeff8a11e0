---------------------------- MODULE Conversation ----------------------------
(***************************************************************************)
(* One channel as its members see it: who is in it under which role, what  *)
(* the gate in front of a send lets through (enqueueMessage) and the chess *)
(* clock that every send, switch, departure and loss of a host moves       *)
(* (src/src/core/engine.ts).                                               *)
(*                                                                         *)
(* Each operation is one locked section of one process.  A refused one is  *)
(* not saved, so what it counted before it was refused is forgotten, and it*)
(* is no step here.  What becomes of an envelope that was queued, and the  *)
(* budgets, are the subject of Delivery.                                   *)
(***************************************************************************)
EXTENDS Integers, Sequences, FiniteSets

CONSTANTS
  Session,      \* sessions that may join
  Operator,     \* sendMessageAsOperator, removeMemberAsOperator
  NoSession,
  Label,        \* role labels as they are written
  Role,         \* Role[l] is the label l in lower case
  Content,      \* what is said, as its contentHash tells it apart
  NoContent,    \* what a removal notice says, which no gate looks at
  MaxMembers,
  RateLimit,    \* channel.rate_limit
  Window,       \* the rate window, 60,000 ms in the code
  StaleAfter,   \* channel.stale_event_ms
  MaxHops,      \* channel.max_hops
  MaxPersisted, \* MAX_PERSISTED_MESSAGES
  MaxSend,      \* bound on sends and notices
  MaxMoves,     \* bound on the operations that are not sends
  MaxTime       \* bound on time

ASSUME ConversationAssumption ==
  /\ Operator \notin Session /\ NoSession \notin Session \cup {Operator}
  /\ Label # {} /\ Role \in [Label -> Label]
  /\ NoContent \notin Content
  /\ MaxMembers \in Nat /\ RateLimit \in Nat \ {0} /\ Window \in Nat
  /\ StaleAfter \in Nat /\ MaxHops \in Nat /\ MaxPersisted \in Nat \ {0}
  /\ MaxSend \in Nat /\ MaxMoves \in Nat /\ MaxTime \in Nat

VARIABLES
  now,
  live,     \* the channel is in state.channels
  paused,
  roster,   \* members in the order they joined in
  label,    \* the role label of each member
  lost,     \* members that are stale
  rate,     \* channel.rate
  seen,     \* channel.seen_content: when a sender last said something
  clock,    \* channel.timer
  msgs,     \* sends and removal notices so far, also those pruned (history)
  moves,    \* operations that were no sends (bound)
  ranFor    \* how long each member had the clock since it was reset (history)

conversationVars == <<now, live, paused, roster, label, lost, rate, seen, clock,
                      msgs, moves, ranFor>>

Sender == Session \cup {Operator}
Never == -1
Nothing == 0        \* reply_to of a message that answers none

\* upto counts the envelopes sent so far, those of the message included.
Message ==
  [from : Sender, said : Content \cup {NoContent}, at : Nat, upto : Nat,
   parent : 0..MaxSend, linked : BOOLEAN, hop : Nat]

ConversationTypeOK ==
  /\ now \in 0..MaxTime
  /\ live \in BOOLEAN /\ paused \in BOOLEAN
  /\ roster \in Seq(Session)
  /\ \A i, j \in DOMAIN roster : roster[i] = roster[j] => i = j
  /\ label \in [Session -> Label]
  /\ lost \subseteq Session
  /\ rate \in [start : Nat, count : 0..RateLimit]
  /\ seen \in [Sender \X Content -> Nat \cup {Never}]
  /\ clock \in [active : Session \cup {NoSession}, since : Nat,
                elapsed : [Session -> Nat]]
  /\ msgs \in Seq(Message)
  /\ moves \in 0..MaxMoves
  /\ ranFor \in [Session -> Nat]

Stopped == [active |-> NoSession, since |-> 0, elapsed |-> [s \in Session |-> 0]]

ConversationInit ==
  /\ now = 0
  /\ live = TRUE
  /\ paused = FALSE
  /\ roster = <<>>
  /\ label = [s \in Session |-> CHOOSE l \in Label : TRUE]
  /\ lost = {}
  /\ rate = [start |-> 0, count |-> 0]
  /\ seen = [k \in Sender \X Content |-> Never]
  /\ clock = Stopped
  /\ msgs = <<>>
  /\ moves = 0
  /\ ranFor = [s \in Session |-> 0]

Members == {roster[i] : i \in DOMAIN roster}

TimePasses ==
  /\ now < MaxTime
  /\ now' = now + 1
  /\ ranFor' = IF clock.active = NoSession THEN ranFor
             ELSE [ranFor EXCEPT ![clock.active] = @ + 1]
  /\ UNCHANGED <<live, paused, roster, label, lost, rate, seen, clock, msgs,
                 moves>>

-----------------------------------------------------------------------------
(* The chess clock.                                                        *)

\* foldRunningSegment.
Fold(c) == IF c.active = NoSession THEN c
           ELSE [c EXCEPT !.elapsed[c.active] = @ + (now - c.since)]

\* timerElapsed: what a member used, with the segment that runs.
Used(s) ==
  clock.elapsed[s] + (IF clock.active = s THEN now - clock.since ELSE 0)

HandTo(c, s) == [Fold(c) EXCEPT !.active = s, !.since = now]
Halt(c) == [Fold(c) EXCEPT !.active = NoSession, !.since = 0]

\* Slip for the mutant runs: the clock of a member that goes runs on.
RunsOn(c, s) == c
\* The clock stops if this member had it.
Without(c, s) == IF c.active = s THEN Halt(c) ELSE c

SetClock(c) ==
  /\ clock' = c
  /\ UNCHANGED <<now, live, paused, roster, label, lost, rate, seen, msgs>>

\* timerAction: any member may act on the clock of any other.
StartClock(s) ==
  /\ live /\ s \in Members
  /\ clock.active = NoSession
  /\ SetClock([clock EXCEPT !.active = s, !.since = now])
  /\ UNCHANGED ranFor

StopClock(s) ==
  /\ live /\ s \in Members
  /\ clock.active # NoSession
  /\ SetClock(Halt(clock))
  /\ UNCHANGED ranFor

SwitchClock(s, t) ==
  /\ live /\ {s, t} \subseteq Members /\ s # t /\ t \notin lost
  /\ SetClock(HandTo(clock, t))
  /\ UNCHANGED ranFor

ResetClock(s) ==
  /\ live /\ s \in Members
  /\ SetClock(Stopped)
  /\ ranFor' = [t \in Session |-> 0]

-----------------------------------------------------------------------------
(* Members.                                                                *)

SameRole(k, l) == Role[k] = Role[l]

\* joinChannel; the first member of an operator's session has no peers.
Join(s, l) ==
  /\ live
  /\ s \notin Members /\ Len(roster) < MaxMembers
  /\ \A t \in Members : ~SameRole(label[t], l)
  /\ roster' = Append(roster, s)
  /\ label' = [label EXCEPT ![s] = l]
  /\ UNCHANGED <<now, live, paused, lost, rate, seen, clock, msgs, ranFor>>

\* The members behind the k-th move up.
ClosedUp(k) ==
  [i \in 1..(Len(roster) - 1) |-> roster[IF i < k THEN i ELSE i + 1]]

\* removeMember.
Removed(s) ==
  /\ \E k \in DOMAIN roster : roster[k] = s /\ roster' = ClosedUp(k)
  /\ lost' = lost \ {s}
  /\ clock' = Without(clock, s)

\* disconnectChannel: the last member takes the channel with it.
Disconnect(s) ==
  /\ live /\ s \in Members
  /\ Removed(s)
  /\ live' = (Members # {s})
  /\ UNCHANGED <<now, paused, label, rate, seen, msgs, ranFor>>

Envelopes == IF msgs = <<>> THEN 0 ELSE msgs[Len(msgs)].upto

Notice(s, n) ==
  [from |-> s, said |-> NoContent, at |-> now, upto |-> Envelopes + n,
   parent |-> Nothing, linked |-> FALSE, hop |-> 0]

\* The notices pass no gate.
Expelled(s, t) ==
  /\ live /\ t \in Members
  /\ Removed(t)
  /\ Len(msgs) < MaxSend
  /\ msgs' = IF Members = {t} THEN msgs
             ELSE Append(msgs, Notice(s, Cardinality(Members) - 1))
  /\ UNCHANGED <<now, live, paused, label, rate, seen, ranFor>>

\* kickChannel: the first member is the coordinator, whatever its role.
Kick(s, t) == s # t /\ roster # <<>> /\ s = roster[1] /\ Expelled(s, t)

\* removeMemberAsOperator leaves a session without members open.
RemoveAsOperator(t) == Expelled(Operator, t)

SetPaused(s) ==
  /\ live /\ s \in Members \cup {Operator}
  /\ paused' = ~paused
  /\ UNCHANGED <<now, live, roster, label, lost, rate, seen, clock, msgs, ranFor>>

\* markStale and clearStale, on what the host tells of its session.  Marking
\* a member that is stale already halts a clock it started since.
HostLost(s) ==
  /\ live /\ s \in Members
  /\ lost' = lost \cup {s}
  /\ clock' = Without(clock, s)
  /\ UNCHANGED <<now, live, paused, roster, label, rate, seen, msgs, ranFor>>

HostBack(s) ==
  /\ s \in lost
  /\ lost' = lost \ {s}
  /\ UNCHANGED <<now, live, paused, roster, label, rate, seen, clock, msgs, ranFor>>

-----------------------------------------------------------------------------
(* Sending.                                                                *)

\* resolveRecipients: one other member that is not stale, named or the only
\* one, or all of them in the order of the roster.
Recipients(s) ==
  LET others == Members \ ({s} \cup lost)
  IN  {{t} : t \in others} \cup ({others} \ {{}})

\* The first of them on the roster.
First(R) ==
  {roster[i] : i \in {k \in DOMAIN roster :
                       /\ roster[k] \in R
                       /\ \A j \in 1..(k - 1) : roster[j] \notin R}}

NewWindow(r) == [start |-> now, count |-> 0]

Counted(r) ==
  LET w == IF now - r.start > Window THEN NewWindow(r) ELSE r
  IN  [w EXCEPT !.count = @ + 1]

\* sweepSeenContent deletes what is older; a key that is left refuses.
Swept == [k \in Sender \X Content |->
            IF seen[k] # Never /\ now - seen[k] >= StaleAfter THEN Never ELSE seen[k]]

\* A message is still stored if the sends after it do not fill the store.
Stored(i) == Envelopes - msgs[i].upto < MaxPersisted

Found(p) == p # Nothing /\ Stored(p)

\* A reply to a message that is not stored begins a chain of its own.
Hop(p) == IF Found(p) THEN msgs[p].hop + 1 ELSE 0

\* Slip: what was said is not remembered.
SeenAsBefore(s, x) == Swept
SeenNow(s, x) == [Swept EXCEPT ![<<s, x>>] = now]

\* enqueueMessage.
Send(s, x, R, p) ==
  /\ live /\ ~paused
  /\ s \in Members \cup {Operator}
  /\ R \in Recipients(s) /\ (s = Operator => \E t \in R : R = {t})
  /\ Counted(rate).count <= RateLimit
  /\ Swept[<<s, x>>] = Never
  /\ Hop(p) <= MaxHops
  /\ rate' = Counted(rate)
  /\ seen' = SeenNow(s, x)
  /\ Len(msgs) < MaxSend
  /\ msgs' = Append(msgs, [from |-> s, said |-> x, at |-> now,
                           upto |-> Envelopes + Cardinality(R),
                           parent |-> p, linked |-> Found(p), hop |-> Hop(p)])
  /\ \E t \in First(R) : clock' = HandTo(clock, t)
  /\ UNCHANGED <<now, live, paused, roster, label, lost, moves, ranFor>>

-----------------------------------------------------------------------------
Moves ==
  /\ moves < MaxMoves /\ moves' = moves + 1
  /\ \/ \E s \in Session :
          \/ StartClock(s) \/ StopClock(s) \/ ResetClock(s)
          \/ \E t \in Session : SwitchClock(s, t)
          \/ \E l \in Label : Join(s, l)
          \/ Disconnect(s) \/ HostLost(s) \/ HostBack(s)
          \/ \E t \in Session : Kick(s, t)
          \/ RemoveAsOperator(s)
     \/ \E s \in Sender : SetPaused(s)

Sends ==
  \E s \in Sender, x \in Content, p \in 0..Len(msgs) :
    \E R \in Recipients(s) : Send(s, x, R, p)

ConversationNext == TimePasses \/ Moves \/ Sends

ConversationSpec == ConversationInit /\ [][ConversationNext]_conversationVars

-----------------------------------------------------------------------------
(* Properties.                                                             *)

Said == {i \in DOMAIN msgs : msgs[i].said \in Content}

\* The rate limit counts in windows that begin with a send, so a stretch of
\* one window touches two of them at most: it never has more than twice the
\* limit of sends in it, whatever is refused, whoever leaves.
RateKept ==
  \A t \in 0..now :
    Cardinality({i \in Said : msgs[i].at \in t..(t + Window)}) <= 2 * RateLimit

\* "refusing to send the same content twice within the lost window": also
\* not by a member that left and came back.
NoRepeats ==
  \A i, j \in Said :
    i < j /\ msgs[i].from = msgs[j].from /\ msgs[i].said = msgs[j].said
      => msgs[j].at - msgs[i].at >= StaleAfter

Answers(i, j) == msgs[i].linked /\ msgs[i].parent = j

\* Messages of which each but the first answers the one before it.
Chain(C) ==
  \A i, j \in C : (i < j /\ \A k \in C : k <= i \/ j <= k) => Answers(j, i)

\* "Chains longer than max_hops are rejected" (engine.ts): no chain of
\* replies grows past the limit, unless one of its messages was pruned
\* before it was answered (its answer then begins again at hop 0).
ChainsEnd ==
  \A C \in SUBSET DOMAIN msgs : Chain(C) => Cardinality(C) <= MaxHops + 1

\* Together: the gate lets through what its limits say, and no more.
GateHolds == ConversationTypeOK /\ RateKept /\ NoRepeats /\ ChainsEnd

\* The clock loses no time and adds none, and charges nobody else: what each
\* member used is how long it had the clock, through sends, switches,
\* departures and lost hosts.
ClockConserves == \A s \in Session : Used(s) = ranFor[s]

\* The clock never runs for a session that is no member any more.
ClockHasMember == clock.active # NoSession => live /\ clock.active \in Members

\* A role addresses one member.
RolesDiffer == \A s, t \in Members : s # t => Role[label[s]] # Role[label[t]]

\* Together: the clock charges members, each under a role of its own.
ClockSound == ClockConserves /\ ClockHasMember /\ RolesDiffer
=============================================================================
