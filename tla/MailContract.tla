---------------------------- MODULE MailContract ----------------------------
(***************************************************************************)
(* What the mail engine (src/src/core/engine.ts) promises of each envelope,*)
(* whatever host hands the mail over and however often it fails: an        *)
(* envelope is handed over only while it waits and only from a conversation*)
(* that takes mail, each hand-over is counted and charged to that          *)
(* conversation, what was settled comes back only within the attempt cap,  *)
(* and what was refused or deleted stays so.  Delivery, NativeDelivery and *)
(* ManagedDelivery are shown to implement it, each with its own hand-over. *)
(*                                                                         *)
(* A step is whatever one locked section does to all envelopes at once: it *)
(* may move many of them, and each of them by one of the moves below.      *)
(***************************************************************************)
EXTENDS Integers, FiniteSets

CONSTANTS
  Envelope,   \* pairs of a send and a recipient
  Room,       \* conversations
  NoRoom,     \* the conversation of an envelope not sent yet
  Limit,      \* hand-overs each conversation pays for, 0 for any number
  Cap         \* attempts after which settled mail is not put back

VARIABLES
  stage,      \* where each envelope is
  tries,      \* how often it was handed over
  room,       \* its conversation
  spent,      \* what each conversation was charged
  taking,     \* the conversations that are open and not paused
  closed      \* the conversations that were removed

vars == <<stage, tries, room, spent, taking, closed>>

Init ==
  /\ stage = [e \in Envelope |-> "unsent"]
  /\ tries = [e \in Envelope |-> 0]
  /\ room = [e \in Envelope |-> NoRoom]
  /\ spent = [r \in Room |-> 0]
  /\ taking \subseteq Room
  /\ closed = {}

-----------------------------------------------------------------------------
(***************************************************************************)
(* The moves of one envelope.  A section that stores a new state may at    *)
(* once delete what is beyond the cap on stored messages.                  *)
(***************************************************************************)
From(e, S) == stage[e] \in S
To(e, S) == stage'[e] \in S

Stays(e) == stage'[e] = stage[e]

\* A recipient of a new send.
Posted(e) == From(e, {"unsent"}) /\ To(e, {"pending", "purged"})

\* A drain, or a pull that drains and commits at once.
HandedOver(e) ==
  /\ From(e, {"pending"})
  /\ To(e, {"in_flight", "delivered", "purged"})
  /\ room[e] \in taking

Accepted(e) == From(e, {"in_flight"}) /\ To(e, {"delivered"})

\* A sweep does not look at the attempts, a requeue does.
PutBack(e) ==
  \/ From(e, {"in_flight"}) /\ To(e, {"pending"})
  \/ From(e, {"delivered"}) /\ To(e, {"pending"}) /\ tries[e] < Cap

\* A recipient that left, a removed conversation, an expired window; or the
\* attempt cap.
Refused(e) ==
  \/ From(e, {"pending"}) /\ To(e, {"refused"})
  \/ /\ From(e, {"in_flight", "delivered"}) /\ To(e, {"refused"})
     /\ tries[e] >= Cap

Deleted(e) == ~From(e, {"unsent"}) /\ To(e, {"purged"})

Moves(e) ==
  \/ HandedOver(e) /\ tries'[e] = tries[e] + 1
  \/ /\ \/ Stays(e) \/ Posted(e) \/ Accepted(e) \/ PutBack(e) \/ Refused(e)
        \/ Deleted(e)
     /\ tries'[e] = tries[e]

Handed == {e \in Envelope : tries'[e] # tries[e]}

\* Every hand-over is charged to the conversation of its envelope, which
\* never pays for more than its limit.
Charges(r) ==
  /\ spent'[r] = spent[r] + Cardinality({e \in Handed : room[e] = r})
  /\ Limit[r] # 0 => spent'[r] <= Limit[r]

Next ==
  /\ \A e \in Envelope : Moves(e)
  /\ \A e, f \in Handed : e[2] = f[2]
  /\ \A e \in Envelope : ~From(e, {"unsent"}) => room'[e] = room[e]
  /\ \A r \in Room : r \in closed' \/ Charges(r)
  /\ closed \subseteq closed'
  /\ taking' \subseteq Room \ closed'

Spec == Init /\ [][Next]_vars

=============================================================================
