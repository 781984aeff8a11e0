------------------------------ MODULE Mailbox ------------------------------
(***************************************************************************)
(* The mail part of <project>/.opencomms/state.json and the operations of  *)
(* src/src/core/engine.ts on it.  Every process (an OpenCode plugin, an    *)
(* MCP server, the GUI, the CLI) runs one operation between                *)
(* StateStore.withLock, load and save, so one operator application here is *)
(* one atomic change of the file.  The modules that model the processes    *)
(* keep the file in a variable and compose these operators.                *)
(*                                                                         *)
(* A logical send is a number and an envelope is the copy of one send for  *)
(* one recipient, so a broadcast makes one envelope per recipient and the  *)
(* order of sends is the order of timestamps.  An envelope deleted from    *)
(* state.messages keeps a "purged" status: message ids are never reused.   *)
(*                                                                         *)
(* Time is kept as what the code compares it to: the sends older than the  *)
(* stale window, the recipients still in their delivery cooldown, the      *)
(* channels past their runtime budget.                                     *)
(***************************************************************************)
EXTENDS Integers, Sequences, FiniteSets

CONSTANTS
  Session,        \* OpenComms session (member) ids
  Channel,        \* channel ids; an id is never used for a second channel
  NoChannel,      \* the channel of a send that was not made yet
  MaxSend,        \* bound on logical sends: Send == 1..MaxSend
  MaxMembers,     \* Channel.max_members
  MaxAttempts,    \* MAX_DELIVERY_ATTEMPTS
  MaxPersisted,   \* MAX_PERSISTED_MESSAGES
  Budget,         \* max_delivered_messages of each channel, 0 when null
  TimeBudgeted,   \* the channels with a max_runtime_ms
  Windowed,       \* sessions whose members have the "window" stale policy
  Managed         \* sessions whose members are surface "api", mode "pull"

ASSUME MailboxAssumption ==
  /\ NoChannel \notin Channel
  /\ MaxSend \in Nat
  /\ MaxMembers \in Nat \ {0}
  /\ MaxAttempts \in Nat \ {0}
  /\ MaxPersisted \in Nat \ {0}
  /\ Budget \in [Channel -> Nat]
  /\ TimeBudgeted \subseteq Channel
  /\ Windowed \subseteq Session
  /\ Managed \subseteq Session

Send == 1..MaxSend
Msg == Send \X Session

Status == {"unsent", "pending", "in_flight", "delivered",
           "rejected", "stale", "failed", "purged"}

\* The persisted state.  `life` is a channel's entry in state.channels:
\* not created yet, present, or removed.
State ==
  [life : [Channel -> {"new", "active", "gone"}],
   paused : SUBSET Channel,
   members : [Channel -> Seq(Session)],
   stale : [Channel -> SUBSET Session],
   total : [Channel -> Nat],
   cooling : SUBSET (Channel \X Session),
   overtime : SUBSET Channel,
   sent : Nat,
   aged : Nat,
   chan : [Send -> Channel \cup {NoChannel}],
   status : [Msg -> Status],
   attempts : [Msg -> Nat],
   queues : [Session -> Seq(Msg)]]

-----------------------------------------------------------------------------
(***************************************************************************)
(* Subsequences.  Array.filter keeps the elements at a set of indices in   *)
(* their order; Nth(K, k) is the k-th smallest element of K.               *)
(***************************************************************************)
Elems(q) == {q[i] : i \in DOMAIN q}

Nth(K, k) == CHOOSE i \in K : Cardinality({j \in K : j <= i}) = k

Pick(q, K) == [k \in 1..Cardinality(K) |-> q[Nth(K, k)]]

Filter(q, S) == Pick(q, {i \in DOMAIN q : q[i] \in S})

\* The envelopes of one recipient in timestamp order.
InOrder(r, K) == [k \in 1..Cardinality(K) |-> <<Nth(K, k), r>>]

-----------------------------------------------------------------------------
(***************************************************************************)
(* Channels and their members.                                             *)
(***************************************************************************)
Active(s, c) == s.life[c] = "active"

Members(s, c) == Elems(s.members[c])

\* isMember: the session is on the roster of some channel.
IsMember(s, r) == \E c \in Channel : Active(s, c) /\ r \in Members(s, c)

\* Mail of a managed API member belongs to the coordinator's runtime loop.
IsManaged(s, r) == r \in Managed /\ IsMember(s, r)

\* budgetRefusal, k envelopes after the state s was read.
Affordable(s, c, k) ==
  /\ c \notin s.overtime
  /\ Budget[c] = 0 \/ s.total[c] + k < Budget[c]

CanCreate(s, c) == s.life[c] = "new"

\* createSessionAsOperator opens a session nobody is in yet.
OpenChannel(s, c) == [s EXCEPT !.life[c] = "active"]

CreateChannel(s, c, r) == [OpenChannel(s, c) EXCEPT !.members[c] = <<r>>]

CanJoin(s, c, r) ==
  /\ Active(s, c)
  /\ r \notin Members(s, c)
  /\ Len(s.members[c]) < MaxMembers

JoinChannel(s, c, r) ==
  [s EXCEPT !.members[c] = Append(@, r), !.stale[c] = @ \ {r}]

CanPause(s, c) == Active(s, c)

SetPaused(s, c, paused) ==
  [s EXCEPT !.paused = IF paused THEN @ \cup {c} ELSE @ \ {c}]

MarkStale(s, r) ==
  [s EXCEPT !.stale = [c \in Channel |->
     IF Active(s, c) /\ r \in Members(s, c) THEN @[c] \cup {r} ELSE @[c]]]

ClearStale(s, r) ==
  [s EXCEPT !.stale = [c \in Channel |-> @[c] \ {r}]]

-----------------------------------------------------------------------------
(***************************************************************************)
(* Deleting envelopes.                                                     *)
(***************************************************************************)
Persisted(s) == {m \in Msg : s.status[m] \notin {"unsent", "purged"}}

\* Delete a set of envelopes and the queue entries that name them.
Purge(s, D) ==
  [s EXCEPT
     !.status = [m \in Msg |-> IF m \in D THEN "purged" ELSE @[m]],
     !.queues = [r \in Session |-> Filter(@[r], Msg \ D)]]

\* The sets pruneMessages may delete: the oldest envelopes beyond the cap,
\* with copies of one send (equal timestamps) in any order.
Doomed(s) ==
  LET kept == Persisted(s)
      excess == Cardinality(kept) - MaxPersisted
  IN  IF excess <= 0 THEN {{}}
      ELSE {D \in SUBSET kept :
              /\ Cardinality(D) = excess
              /\ \A m \in D, n \in kept \ D : m[1] <= n[1]}

\* Delete the channel's record, and with it all it says.
Close(s, c) ==
  [s EXCEPT
     !.life[c] = "gone",
     !.paused = @ \ {c},
     !.members[c] = <<>>,
     !.stale[c] = {},
     !.total[c] = 0,
     !.cooling = @ \ ({c} \X Session),
     !.overtime = @ \ {c}]

\* commitSessionSave, and the purge of a deleted session.
PurgeChannel(s, c) ==
  Close(Purge(s, {m \in Persisted(s) : s.chan[m[1]] = c}), c)

-----------------------------------------------------------------------------
(***************************************************************************)
(* Queueing mail.                                                          *)
(***************************************************************************)
\* One envelope of a new send for each recipient in R.
Enqueue(s, c, R) ==
  LET n == s.sent + 1
  IN  [s EXCEPT
         !.sent = n,
         !.chan[n] = c,
         !.status = [m \in Msg |->
            IF m[1] = n /\ m[2] \in R THEN "pending" ELSE @[m]],
         !.queues = [r \in Session |->
            IF r \in R THEN Append(@[r], <<n, r>>) ELSE @[r]]]

\* enqueueMessage refuses a channel that is not active, is paused or has no
\* budget left, a sender off the roster, and a recipient that is stale.
CanSend(s, c) ==
  /\ s.sent < MaxSend
  /\ Active(s, c)
  /\ c \notin s.paused
  /\ Affordable(s, c, 0)

\* resolveRecipients: one named member, the only other member, or everyone.
RecipientSets(s, c, sender) ==
  LET others == (Members(s, c) \ {sender}) \ s.stale[c]
  IN  {{r} : r \in others} \cup ({others} \ {{}})

\* Slip for the mutant runs: what was pending is rejected but stays queued.
RemoveMemberKeepsQueue(s, c, r) ==
  [s EXCEPT
     !.members[c] = Filter(@, Session \ {r}),
     !.stale[c] = @ \ {r},
     !.status = [m \in Msg |->
        IF m \in Elems(s.queues[r]) /\ @[m] = "pending"
        THEN "rejected" ELSE @[m]]]

\* removeMember: the session's whole queue is emptied and what was pending
\* in it is rejected.
RemoveMember(s, c, r) ==
  [s EXCEPT
     !.members[c] = Filter(@, Session \ {r}),
     !.stale[c] = @ \ {r},
     !.status = [m \in Msg |->
        IF m \in Elems(s.queues[r]) /\ @[m] = "pending"
        THEN "rejected" ELSE @[m]],
     !.queues[r] = <<>>]

\* disconnectChannel: an empty channel is removed.
Disconnect(s, c, r) ==
  LET t == RemoveMember(s, c, r)
  IN  IF t.members[c] = <<>> THEN Close(t, c) ELSE t

\* The kick permission follows the roster order, not a role name.
Coordinator(s, c) == Head(s.members[c])

\* kickChannel and removeMemberAsOperator: every remaining member, stale or
\* not, gets a system notice.
Kick(s, c, r) ==
  LET t == RemoveMember(s, c, r)
  IN  IF t.members[c] = <<>> THEN t ELSE Enqueue(t, c, Members(t, c))

-----------------------------------------------------------------------------
(***************************************************************************)
(* Draining a queue: drainQueue sorts the indices of the recipient's queue *)
(* into dropped, rejected, held, stale, kept and taken.                    *)
(***************************************************************************)
ChannelOf(s, m) == s.chan[m[1]]

\* Entries whose envelope exists and is the recipient's; others are dropped.
Addressed(s, r) ==
  {i \in DOMAIN s.queues[r] :
     s.queues[r][i] \in Persisted(s) /\ s.queues[r][i][2] = r}

\* Their channel is gone: rejected.
Orphaned(s, r) ==
  {i \in Addressed(s, r) : ~Active(s, ChannelOf(s, s.queues[r][i]))}

\* Slip: a pause does not hold mail back.
HeldNever(s, r) == {}
\* Their channel is paused: they stay in the queue.
Held(s, r) ==
  {i \in Addressed(s, r) \ Orphaned(s, r) :
     ChannelOf(s, s.queues[r][i]) \in s.paused}

\* Entries already handed over are dropped.
Waiting(s, r) ==
  {i \in Addressed(s, r) \ (Orphaned(s, r) \cup Held(s, r)) :
     s.status[s.queues[r][i]] \notin {"delivered", "in_flight"}}

\* Only a roster row can carry a policy without a window.
AgesOut(s, c, r) == r \in Windowed \/ r \notin Members(s, c)

Expired(s, r) ==
  {i \in Waiting(s, r) :
     /\ s.queues[r][i][1] <= s.aged
     /\ AgesOut(s, ChannelOf(s, s.queues[r][i]), r)}

Candidates(s, r) == Waiting(s, r) \ Expired(s, r)

\* Entries that may be the first of a batch: the cooldown is over.
Openers(s, r) ==
  {i \in Candidates(s, r) :
     /\ <<ChannelOf(s, s.queues[r][i]), r>> \notin s.cooling
     /\ Affordable(s, ChannelOf(s, s.queues[r][i]), 0)}

\* From the first opener on the cooldown is not looked at; the budget is,
\* for every envelope, counting the ones this batch took before it.
Reached(s, r) ==
  {i \in Candidates(s, r) : \E f \in Openers(s, r) : f <= i}

SameChannelBefore(s, r, i) ==
  {j \in Reached(s, r) :
     j < i /\ ChannelOf(s, s.queues[r][j]) = ChannelOf(s, s.queues[r][i])}

\* Slip: the budget is checked once, for the whole batch.
TakenCheckedOnce(s, r) ==
  {i \in Reached(s, r) : Affordable(s, ChannelOf(s, s.queues[r][i]), 0)}

Taken(s, r) ==
  {i \in Reached(s, r) :
     Affordable(s, ChannelOf(s, s.queues[r][i]),
                Cardinality(SameChannelBefore(s, r, i)))}

Remaining(s, r) == Held(s, r) \cup (Candidates(s, r) \ Taken(s, r))

At(s, r, I) == {s.queues[r][i] : i \in I}

\* The envelopes handed over, in queue order.
Batch(s, r) == Pick(s.queues[r], Taken(s, r))

Handovers(s, r, c) ==
  Cardinality({i \in Taken(s, r) : ChannelOf(s, s.queues[r][i]) = c})

\* Each envelope taken is charged to its own channel and starts that
\* channel's cooldown for the recipient.
DrainAs(s, r, handed) ==
  [s EXCEPT
     !.status = [m \in Msg |->
        CASE m \in At(s, r, Orphaned(s, r)) -> "rejected"
          [] m \in At(s, r, Expired(s, r)) -> "stale"
          [] m \in At(s, r, Taken(s, r)) -> handed
          [] OTHER -> @[m]],
     !.attempts = [m \in Msg |->
        IF m \in At(s, r, Taken(s, r)) THEN @[m] + 1 ELSE @[m]],
     !.total = [c \in Channel |-> @[c] + Handovers(s, r, c)],
     !.cooling = @ \cup {<<ChannelOf(s, m), r>> : m \in At(s, r, Taken(s, r))},
     !.queues[r] = Pick(@, Remaining(s, r))]

\* Slips: the drain is not saved; mail is delivered once it is drained.
DrainUnsaved(s, r) == s
DrainDelivers(s, r) == DrainAs(s, r, "delivered")

Drain(s, r) == DrainAs(s, r, "in_flight")

-----------------------------------------------------------------------------
(***************************************************************************)
(* Settling a batch.                                                       *)
(***************************************************************************)
\* commitDelivery: only envelopes still in flight to this session.
Commit(s, r, ids) ==
  [s EXCEPT !.status = [m \in Msg |->
     IF m \in Elems(ids) /\ @[m] = "in_flight" /\ m[2] = r
     THEN "delivered" ELSE @[m]]]

\* requeueFailedDelivery: delivered or in-flight envelopes of the batch go
\* back to pending, or fail at the attempt cap; the pending ones return to
\* the front of the queue in batch order.
RetryableAny(s, ids) == Elems(ids) \cap Persisted(s)       \* slip
Retryable(s, ids) ==
  {m \in Elems(ids) : s.status[m] \in {"delivered", "in_flight"}}

Spent(s, m) == s.attempts[m] >= MaxAttempts

Returning(q, ids, status) ==
  Filter(ids, {m \in Msg : status[m] = "pending" /\ m \notin Elems(q)})

Restored(front, q) == front \o q

Requeue(s, r, ids) ==
  LET status == [m \in Msg |->
        IF m \in Retryable(s, ids)
        THEN IF Spent(s, m) THEN "failed" ELSE "pending"
        ELSE s.status[m]]
  IN  [s EXCEPT !.status = status,
                !.queues[r] = Restored(Returning(@, ids, status), @)]

\* sweepInFlight: what is in flight to an unmanaged session goes back to
\* pending, oldest first, at the front of its recipient's queue.
SweepableAnyone(s) == {m \in Msg : s.status[m] = "in_flight"}   \* slip
Sweepable(s) == {m \in Msg : s.status[m] = "in_flight" /\ ~IsManaged(s, m[2])}

Swept(s, r) ==
  InOrder(r, {n \in Send : /\ <<n, r>> \in Sweepable(s)
                           /\ <<n, r>> \notin Elems(s.queues[r])})

Sweep(s) ==
  [s EXCEPT
     !.status = [m \in Msg |-> IF m \in Sweepable(s) THEN "pending" ELSE @[m]],
     !.queues = [r \in Session |-> Restored(Swept(s, r), @[r])]]

-----------------------------------------------------------------------------
(***************************************************************************)
(* Time passing.                                                           *)
(***************************************************************************)
CanAge(s) == s.aged < s.sent
Age(s) == [s EXCEPT !.aged = @ + 1]

EndCooldown(s, c, r) == [s EXCEPT !.cooling = @ \ {<<c, r>>}]

CanOverrun(s, c) == c \in TimeBudgeted /\ Active(s, c) /\ c \notin s.overtime
Overrun(s, c) == [s EXCEPT !.overtime = @ \cup {c}]

-----------------------------------------------------------------------------
(***************************************************************************)
(* What MailContract sees of a state.                                      *)
(***************************************************************************)
Refusals == {"rejected", "stale", "failed"}

Stages(s) ==
  [m \in Msg |-> IF s.status[m] \in Refusals THEN "refused" ELSE s.status[m]]

RoomOf(s) == [m \in Msg |-> s.chan[m[1]]]

Taking(s) == {c \in Channel : Active(s, c) /\ c \notin s.paused}

GoneRooms(s) == {c \in Channel : s.life[c] = "gone"}

=============================================================================
