-------------------------- MODULE TaskLedgerProofs --------------------------
(***************************************************************************)
(* Theorems about TaskLedger, for any tasks, agents, requests, handoffs,   *)
(* reports and envelopes, and any number of sections that die.             *)
(*                                                                         *)
(* The predicates below are about a record and the queue given to them, so *)
(* that the same lemma serves the records in the file, the records a       *)
(* section sees, and the ones it saves.                                    *)
(***************************************************************************)
EXTENDS TaskLedger, FiniteSetTheorems, SequenceTheorems, WellFoundedInduction,
        TLAPS

-----------------------------------------------------------------------------
(***************************************************************************)
(* The first envelope of several.                                          *)
(***************************************************************************)
Below == OpToRel(<, Nat)

\* Numbers are well founded: a set of them has a least one.
LEMMA Least ==
  ASSUME NEW S \in SUBSET Nat, S # {}
  PROVE  \E x \in S : \A y \in S : x <= y
<1>1. IsWellFoundedOn(Below, Nat)
  BY NatLessThanWellFounded DEF Below
<1>2. \E x \in S : \A y \in S : ~(<<y, x>> \in Below)
  BY <1>1, WFMin
<1>3. PICK x \in S : \A y \in S : ~(<<y, x>> \in Below)
  BY <1>2
<1>4. ASSUME NEW y \in S PROVE x <= y
  <2>1. <<y, x>> \in Below <=> y < x
    BY DEF OpToRel, Below
  <2> QED BY <1>3, <2>1
<1> QED BY <1>4

LEMMA FirstFacts ==
  ASSUME NEW ms \in SUBSET Msg, ms # {}
  PROVE  First(ms) \in ms /\ \A n \in ms : First(ms) <= n
<1>1. ms \in SUBSET Nat
  BY LedgerAssumption DEF Msg
<1>2. \E m \in ms : \A n \in ms : m <= n
  BY <1>1, Least
<1> QED BY <1>2 DEF First

\* A set without two members has at most one.
LEMMA AtMostOne ==
  ASSUME NEW S, \A x, y \in S : x = y
  PROVE  Cardinality(S) <= 1
<1>1. CASE S = {}
  BY <1>1, FS_EmptySet
<1>2. CASE S # {}
  <2>1. PICK x : x \in S
    BY <1>2
  <2>2. S = {x}
    BY <2>1
  <2> QED BY <2>2, FS_Singleton
<1> QED BY <1>1, <1>2

LEMMA MsgFacts == Msg \subseteq Nat /\ NoMsg \notin Msg
BY LedgerAssumption DEF Msg, NoMsg

-----------------------------------------------------------------------------
(***************************************************************************)
(* A record by itself.                                                     *)
(***************************************************************************)
\* A review is of the current attempt and round, and nothing that a found
\* envelope would turn into an attempt is open beside it.
Reviewed(rec) ==
  rec.review.outcome # "none" =>
    /\ rec.review.at = <<Attempt(rec), rec.rounds>>
    /\ \A i \in DOMAIN rec.handoffs :
         rec.handoffs[i].dispatch = "dispatching" =>
           rec.handoffs[i].msg = NoMsg

Sound(rec) ==
  /\ rec \in TaskRecord
  /\ Founded(rec)
  /\ Len(rec.handoffs) <= MaxHandoffs
  /\ rec.state = "ready" => rec.dispatch = "dispatching"
  /\ rec.dispatch = "failed" => rec.state = "failed"
  /\ \A i \in DOMAIN rec.handoffs :
       rec.handoffs[i].dispatch = "failed" => rec.handoffs[i].msg = NoMsg
  /\ Reviewed(rec)

\* What reconciling and reporting leave of a record as it is.
SameWork(old, new) ==
  /\ new.request = old.request
  /\ new.owner = old.owner
  /\ DOMAIN new.handoffs = DOMAIN old.handoffs
  /\ \A i \in DOMAIN old.handoffs :
       /\ new.handoffs[i].op = old.handoffs[i].op
       /\ new.handoffs[i].from = old.handoffs[i].from

LEMMA RecordFacts ==
  ASSUME NEW rec \in TaskRecord
  PROVE  /\ rec # NoTask /\ rec.state # "none"
         /\ Len(rec.handoffs) \in Nat
         /\ DOMAIN rec.handoffs = 1..Len(rec.handoffs)
         /\ \A i \in DOMAIN rec.handoffs : rec.handoffs[i] \in Handoff
<1>1. rec.state \in ExecutionStates /\ rec.handoffs \in Seq(Handoff)
  BY DEF TaskRecord
<1>2. "none" \notin ExecutionStates
  BY DEF ExecutionStates
<1>3. rec.state # "none" /\ NoTask.state = "none"
  BY <1>1, <1>2 DEF NoTask
<1>4. /\ Len(rec.handoffs) \in Nat
      /\ DOMAIN rec.handoffs = 1..Len(rec.handoffs)
      /\ \A i \in DOMAIN rec.handoffs : rec.handoffs[i] \in Handoff
  BY <1>1
<1> QED BY <1>3, <1>4

\* The number of handoffs that were sent.
LEMMA AttemptType ==
  ASSUME NEW rec \in TaskRecord, Len(rec.handoffs) <= MaxHandoffs
  PROVE  Attempt(rec) \in 0..MaxHandoffs
<1> DEFINE D == 1..Len(rec.handoffs)
           S == {i \in D : rec.handoffs[i].dispatch = "sent"}
<1>1. Len(rec.handoffs) \in Nat /\ DOMAIN rec.handoffs = D
  BY RecordFacts
<1>2. IsFiniteSet(D) /\ Cardinality(D) = Len(rec.handoffs)
  BY <1>1, FS_Interval
<1>3. S \in SUBSET D
  OBVIOUS
<1>4. IsFiniteSet(S) /\ Cardinality(S) <= Cardinality(D)
  BY <1>2, <1>3, FS_Subset
<1>5. Cardinality(S) \in Nat
  BY <1>4, FS_CardinalityType
<1>6. Attempt(rec) = Cardinality(S)
  BY <1>1 DEF Attempt
<1>7. MaxHandoffs \in Nat
  BY LedgerAssumption
<1> HIDE DEF S
<1> QED BY <1>1, <1>2, <1>4, <1>5, <1>6, <1>7

\* What a found envelope says of its delivery.
LEMMA DeliveryType ==
  ASSUME NEW rec \in TaskRecord, NEW m \in Msg, mail[m] \in Envelope, Visible(m)
  PROVE  DeliveryOf(rec, m) \in DeliveryStates
<1>1. mail[m].status \in {"pending", "in_flight", "delivered", "failed",
                          "rejected", "stale"}
  BY DEF Envelope, Visible
<1>2. CASE rec.delivery = "acknowledged" \/ mail[m].replied
  BY <1>2 DEF DeliveryOf, DeliveryStates
<1>3. CASE ~(rec.delivery = "acknowledged" \/ mail[m].replied)
  BY <1>1, <1>3 DEF DeliveryOf, DeliveryStates
<1> QED BY <1>2, <1>3

\* A record as the presence of its envelope leaves it.
LEMMA AckFields ==
  ASSUME NEW rec \in TaskRecord, NEW m \in Msg,
         DeliveryOf(rec, m) \in DeliveryStates
  PROVE  LET a == Acknowledge(rec, m) IN
         /\ a \in TaskRecord
         /\ SameWork(rec, a)
         /\ a.msg = m
         /\ a.dispatch = IF rec.dispatch = "dispatching" THEN "sent"
                         ELSE rec.dispatch
         /\ a.state = IF rec.state = "ready" /\ rec.dispatch = "dispatching"
                      THEN "assigned" ELSE rec.state
         /\ a.criteria = rec.criteria /\ a.evidence = rec.evidence
         /\ a.review = rec.review /\ a.rounds = rec.rounds
         /\ a.revision = rec.revision
         /\ Len(a.handoffs) = Len(rec.handoffs)
         /\ \A i \in DOMAIN rec.handoffs :
              /\ a.handoffs[i].msg = rec.handoffs[i].msg
              /\ a.handoffs[i].request = rec.handoffs[i].request
              /\ a.handoffs[i].dispatch =
                   IF rec.handoffs[i].msg = m
                      /\ rec.handoffs[i].dispatch = "dispatching"
                   THEN "sent" ELSE rec.handoffs[i].dispatch
<1> DEFINE D == DeliveryOf(rec, m)
           old == rec.handoffs
           N == Len(old)
           hs == [i \in DOMAIN old |->
                    IF old[i].msg = m /\ old[i].dispatch = "dispatching"
                      THEN [old[i] EXCEPT !.dispatch = "sent"]
                      ELSE old[i]]
           p == IF rec.dispatch = "dispatching" THEN "sent" ELSE rec.dispatch
           s == IF rec.state = "ready" /\ rec.dispatch = "dispatching"
                THEN "assigned" ELSE rec.state
           b == [rec EXCEPT !.msg = m, !.dispatch = p, !.state = s,
                            !.handoffs = hs, !.delivery = D]
<1>1. N \in Nat /\ DOMAIN old = 1..N /\ \A i \in 1..N : old[i] \in Handoff
  BY RecordFacts
<1>2. ASSUME NEW i \in 1..N
      PROVE  /\ hs[i] \in Handoff
             /\ hs[i].op = old[i].op /\ hs[i].from = old[i].from
             /\ hs[i].msg = old[i].msg /\ hs[i].request = old[i].request
             /\ hs[i].dispatch =
                   IF old[i].msg = m /\ old[i].dispatch = "dispatching"
                   THEN "sent" ELSE old[i].dispatch
  BY <1>1 DEF Handoff
<1>3. /\ hs \in Seq(Handoff) /\ Len(hs) = N
      /\ DOMAIN hs = DOMAIN old
  <2>1. hs = [i \in 1..N |-> hs[i]]
    BY <1>1
  <2> HIDE DEF hs
  <2>2. hs \in [1..N -> Handoff]
    BY <1>2, <2>1
  <2> QED BY <1>1, <2>1, <2>2
<1>4. Acknowledge(rec, m) = b
  BY DEF Acknowledge
<1>5. /\ D \in DeliveryStates /\ s \in ExecutionStates
      /\ p \in {"dispatching", "sent", "failed", "legacy"}
  BY DEF TaskRecord, ExecutionStates
<1> HIDE DEF hs, D, p, s
<1>6. /\ b.msg = m /\ b.handoffs = hs
      /\ b.dispatch = p /\ b.state = s /\ b.delivery = D
      /\ b.criteria = rec.criteria /\ b.evidence = rec.evidence
      /\ b.review = rec.review /\ b.rounds = rec.rounds
      /\ b.revision = rec.revision
      /\ b.request = rec.request /\ b.owner = rec.owner
  BY DEF TaskRecord
<1>7. b \in TaskRecord
  BY <1>3, <1>5 DEF TaskRecord
<1> HIDE DEF b
<1>8. SameWork(rec, b)
  BY <1>1, <1>2, <1>3, <1>6 DEF SameWork
<1> QED BY <1>1, <1>2, <1>3, <1>4, <1>6, <1>8, <1>7 DEF p, s

\* Two records with the same handoffs sent are in the same attempt.
LEMMA SameAttempt ==
  ASSUME NEW old, NEW new,
         DOMAIN new.handoffs = DOMAIN old.handoffs,
         \A i \in DOMAIN old.handoffs :
           new.handoffs[i].dispatch = "sent" <=> old.handoffs[i].dispatch = "sent"
  PROVE  Attempt(new) = Attempt(old)
<1>1. {i \in DOMAIN new.handoffs : new.handoffs[i].dispatch = "sent"}
        = {i \in DOMAIN old.handoffs : old.handoffs[i].dispatch = "sent"}
  OBVIOUS
<1> QED BY <1>1 DEF Attempt

\* Finding its envelope keeps a record sound, and settles it.
LEMMA AckSound ==
  ASSUME NEW rec, Sound(rec), NEW m \in Msg,
         DeliveryOf(rec, m) \in DeliveryStates
  PROVE  LET a == Acknowledge(rec, m) IN
         /\ Sound(a)
         /\ SameWork(rec, a)
         /\ a.msg = m
         /\ a.state # "ready"
         /\ a.dispatch # "dispatching"
         /\ a.state = rec.state \/ rec.state = "ready"
         /\ a.dispatch = "failed" => rec.dispatch = "failed"
         /\ Undecided(a) => Undecided(rec)
         /\ Related(a) \subseteq Related(rec) \cup {m}
         /\ \A i \in DOMAIN a.handoffs :
              a.handoffs[i].msg = m => a.handoffs[i].dispatch = "sent"
<1> DEFINE a == Acknowledge(rec, m)
<1>0. /\ rec \in TaskRecord /\ Founded(rec) /\ Reviewed(rec)
      /\ Len(rec.handoffs) <= MaxHandoffs
      /\ rec.state = "ready" => rec.dispatch = "dispatching"
      /\ rec.dispatch = "failed" => rec.state = "failed"
      /\ \A i \in DOMAIN rec.handoffs :
           rec.handoffs[i].dispatch = "failed" => rec.handoffs[i].msg = NoMsg
  BY DEF Sound
<1>1. /\ a \in TaskRecord
      /\ SameWork(rec, a)
      /\ a.msg = m
      /\ a.dispatch = IF rec.dispatch = "dispatching" THEN "sent"
                      ELSE rec.dispatch
      /\ a.state = IF rec.state = "ready" /\ rec.dispatch = "dispatching"
                   THEN "assigned" ELSE rec.state
      /\ a.criteria = rec.criteria /\ a.evidence = rec.evidence
      /\ a.review = rec.review /\ a.rounds = rec.rounds
      /\ Len(a.handoffs) = Len(rec.handoffs)
      /\ \A i \in DOMAIN rec.handoffs :
           /\ a.handoffs[i].msg = rec.handoffs[i].msg
           /\ a.handoffs[i].dispatch =
                IF rec.handoffs[i].msg = m
                   /\ rec.handoffs[i].dispatch = "dispatching"
                THEN "sent" ELSE rec.handoffs[i].dispatch
  BY <1>0, AckFields
<1> HIDE DEF a
<1>2. /\ a.request = rec.request /\ a.owner = rec.owner
      /\ DOMAIN a.handoffs = DOMAIN rec.handoffs
  BY <1>1 DEF SameWork
<1>3. m # NoMsg
  BY MsgFacts
<1>4. Founded(a)
  BY <1>0, <1>1, <1>2 DEF Founded
<1>5. Reviewed(a)
  <2> SUFFICES ASSUME a.review.outcome # "none"
               PROVE  /\ a.review.at = <<Attempt(a), a.rounds>>
                      /\ \A i \in DOMAIN a.handoffs :
                           a.handoffs[i].dispatch = "dispatching" =>
                             a.handoffs[i].msg = NoMsg
    BY DEF Reviewed
  <2>1. /\ rec.review.at = <<Attempt(rec), rec.rounds>>
        /\ \A i \in DOMAIN rec.handoffs :
             rec.handoffs[i].dispatch = "dispatching" =>
               rec.handoffs[i].msg = NoMsg
    BY <1>0, <1>1 DEF Reviewed
  <2>2. \A i \in DOMAIN rec.handoffs :
          a.handoffs[i].dispatch = rec.handoffs[i].dispatch
    BY <2>1, <1>1, <1>3
  <2>3. Attempt(a) = Attempt(rec)
    BY <2>2, <1>2, SameAttempt
  <2> QED BY <2>1, <2>2, <2>3, <1>1, <1>2
<1>6. \A i \in DOMAIN a.handoffs :
        a.handoffs[i].dispatch = "failed" => a.handoffs[i].msg = NoMsg
  BY <1>0, <1>1, <1>2
<1>7. /\ a.state # "ready" /\ a.dispatch # "dispatching"
      /\ (a.state = rec.state \/ rec.state = "ready")
      /\ (a.dispatch = "failed" => rec.dispatch = "failed" /\ a.state = "failed")
  BY <1>0, <1>1
<1>8. Sound(a)
  BY <1>0, <1>1, <1>4, <1>5, <1>6, <1>7 DEF Sound
<1>9. Undecided(a) => Undecided(rec)
  BY <1>1, <1>2 DEF Undecided
<1>10. \A i \in DOMAIN a.handoffs :
         a.handoffs[i].msg = m => a.handoffs[i].dispatch = "sent"
  <2> SUFFICES ASSUME NEW i \in DOMAIN a.handoffs, a.handoffs[i].msg = m
               PROVE  a.handoffs[i].dispatch = "sent"
    OBVIOUS
  <2>1. i \in DOMAIN rec.handoffs /\ rec.handoffs[i].msg = m
    BY <1>1, <1>2
  <2>2. rec.handoffs[i].dispatch # "failed"
    BY <2>1, <1>0, <1>3
  <2>3. rec.handoffs[i].dispatch \in {"dispatching", "sent", "failed"}
    BY <2>1, <1>0, RecordFacts DEF Handoff
  <2> QED BY <2>1, <2>2, <2>3, <1>1
<1>11. Related(a) \subseteq Related(rec) \cup {m}
  <2>1. \A i \in DOMAIN a.handoffs :
          /\ i \in DOMAIN rec.handoffs
          /\ a.handoffs[i].from = rec.handoffs[i].from
          /\ a.handoffs[i].msg = rec.handoffs[i].msg
    BY <1>1, <1>2 DEF SameWork
  <2> QED BY <2>1, <1>1 DEF Related
<1> QED BY <1>1, <1>7, <1>8, <1>9, <1>10, <1>11 DEF a

-----------------------------------------------------------------------------
(***************************************************************************)
(* A record and the queue.                                                 *)
(***************************************************************************)
Seen(box, t) ==
  {m \in Msg : box[m].status \notin {"none", "gone"} /\ box[m].task = t}

Live(e) == e.status \in {"pending", "in_flight"}

\* Every envelope of the task is the one the record names, or was the one
\* of an owner before; a record that names none may still find its first.
Traced(box, t, rec) ==
  \A m \in Seen(box, t) :
    IF rec.msg = NoMsg
      THEN Seen(box, t) = {m} /\ box[m].to = rec.owner
      ELSE /\ rec.msg = m => box[m].to = rec.owner
           /\ \/ rec.msg = m
              \/ \E i \in DOMAIN rec.handoffs : rec.handoffs[i].from = m

\* One envelope is live, that of the owner, or that of the former one while
\* a handoff that died has not put the owner's in the queue.
OneLive(box, t, rec) ==
  /\ \A m, n \in Seen(box, t) : Live(box[m]) /\ Live(box[n]) => m = n
  /\ \A m \in Seen(box, t) :
       Live(box[m]) => \/ rec.msg \in {m, NoMsg}
                       \/ Undecided(rec) /\ rec.msg \notin Seen(box, t)

\* An id that the record holds is of no envelope of another task.
Owns(box, t, rec) ==
  \A m \in Related(rec) : m \in Msg /\ box[m] # NoMail => box[m].task = t

Fits(box, t, rec) ==
  /\ Sound(rec)
  /\ Owns(box, t, rec)
  /\ Traced(box, t, rec)
  /\ OneLive(box, t, rec)
  /\ rec.dispatch = "failed" => Seen(box, t) = {}

\* What a section sees: the envelope is found if it is there.
Found(box, t, rec) ==
  /\ rec.msg = NoMsg => Seen(box, t) = {}
  /\ rec.msg \in Seen(box, t) =>
       /\ rec.dispatch \in {"sent", "legacy"}
       /\ rec.state # "ready"
       /\ \A i \in DOMAIN rec.handoffs :
            rec.handoffs[i].msg = rec.msg => rec.handoffs[i].dispatch = "sent"

LEMMA SeenFacts ==
  /\ \A t : About(t) = Seen(mail, t)
  /\ \A t : \A m \in About(t) : Visible(m) /\ m \in Msg
BY DEF About, Visible, Seen

Mailed(box) == box \in [Msg -> Envelope \cup {NoMail}]

\* No record has a channel's name that the next load rejects.
Brief == ~Overlong

LEMMA SeenEnvelope ==
  ASSUME NEW box, Mailed(box), NEW t, NEW m \in Seen(box, t)
  PROVE  m \in Msg /\ box[m] \in Envelope /\ box[m].task = t
<1>1. NoMail.status = "none"
  BY DEF NoMail
<1> QED BY <1>1 DEF Mailed, Seen

\* The record of a task as a section sees it, from the record in the file.
Seeing(t, rec) ==
  LET ms == Bound(t, rec)
  IN  IF ms = {} THEN rec ELSE Acknowledge(rec, First(ms))

LEMMA SeeingFits ==
  ASSUME Mailed(mail), NEW t, NEW rec, Fits(mail, t, rec)
  PROVE  LET new == Seeing(t, rec) IN
         /\ Fits(mail, t, new)
         /\ Found(mail, t, new)
         /\ SameWork(rec, new)
         /\ Related(new) \subseteq Related(rec) \cup Seen(mail, t)
         /\ new.state = rec.state \/ rec.state = "ready"
<1> DEFINE S == Seen(mail, t)
           B == Bound(t, rec)
           new == Seeing(t, rec)
<1>1. /\ Sound(rec) /\ rec \in TaskRecord
      /\ Owns(mail, t, rec)
      /\ Traced(mail, t, rec) /\ OneLive(mail, t, rec)
      /\ rec.dispatch = "failed" => S = {}
      /\ rec.dispatch \in {"dispatching", "sent", "failed", "legacy"}
  BY DEF Fits, Sound, TaskRecord
<1>2. /\ B \subseteq S /\ B \subseteq Msg
      /\ \A m \in B : mail[m].to = rec.owner /\ (rec.msg = NoMsg \/ m = rec.msg)
      /\ \A m \in S :
           mail[m].to = rec.owner /\ rec.msg = NoMsg /\ S = {m} => m \in B
      /\ rec.msg \in S /\ rec.msg # NoMsg /\ mail[rec.msg].to = rec.owner
           => rec.msg \in B
  <2>1. \A m \in Msg : m <= m
    BY MsgFacts
  <2> QED BY <2>1, SeenFacts DEF Bound
<1>3. NoMsg \notin Msg /\ S \subseteq Msg
  BY MsgFacts DEF Seen
<1>4. CASE B = {}
  <2>1. new = rec
    BY <1>4 DEF Seeing
  <2>2. rec.msg = NoMsg => S = {}
    BY <1>1, <1>2, <1>4 DEF Traced
  <2>3. rec.msg \notin S
    <3> SUFFICES ASSUME rec.msg \in S PROVE FALSE
      OBVIOUS
    <3>1. rec.msg # NoMsg
      BY <1>3
    <3>2. mail[rec.msg].to = rec.owner
      BY <3>1, <1>1 DEF Traced
    <3>3. rec.msg \in B
      BY <3>1, <3>2, <1>2
    <3> QED BY <3>3, <1>4
  <2>4. Found(mail, t, rec) /\ SameWork(rec, rec)
    BY <2>2, <2>3 DEF Found, SameWork
  <2> QED BY <2>1, <2>4
<1>5. CASE B # {}
  <2> DEFINE m == First(B)
             a == Acknowledge(rec, m)
  <2>1. m \in B
    BY <1>2, <1>5, FirstFacts
  <2>2. m \in S /\ m \in Msg /\ mail[m].to = rec.owner
        /\ (rec.msg = NoMsg \/ m = rec.msg)
    BY <1>2, <2>1
  <2>3. new = a
    BY <1>5 DEF Seeing
  <2>4. DeliveryOf(rec, m) \in DeliveryStates
    <3>1. mail[m] \in Envelope /\ Visible(m)
      BY <2>2, SeenEnvelope, SeenFacts
    <3> HIDE DEF m
    <3> QED BY <3>1, <2>2, <1>1, DeliveryType
  <2> HIDE DEF m
  <2>5. /\ Sound(a) /\ SameWork(rec, a) /\ a.msg = m
        /\ a.state # "ready" /\ a.dispatch # "dispatching"
        /\ a.state = rec.state \/ rec.state = "ready"
        /\ a.dispatch = "failed" => rec.dispatch = "failed"
        /\ Undecided(a) => Undecided(rec)
        /\ Related(a) \subseteq Related(rec) \cup {m}
        /\ \A i \in DOMAIN a.handoffs :
             a.handoffs[i].msg = m => a.handoffs[i].dispatch = "sent"
    BY <1>1, <2>2, <2>4, AckSound
  <2> HIDE DEF a
  <2>6. a.dispatch \in {"dispatching", "sent", "failed", "legacy"}
    BY <2>5 DEF Sound, TaskRecord
  <2>7. a.dispatch \in {"sent", "legacy"}
    BY <2>5, <2>6, <2>2, <1>1
  <2>8. Found(mail, t, a)
    BY <2>2, <2>5, <2>7, <1>3 DEF Found
  <2>9. Traced(mail, t, a)
    <3>1. a.owner = rec.owner /\ DOMAIN a.handoffs = DOMAIN rec.handoffs
          /\ \A i \in DOMAIN rec.handoffs :
               a.handoffs[i].from = rec.handoffs[i].from
      BY <2>5 DEF SameWork
    <3>2. CASE rec.msg = NoMsg
      <4>1. S = {m}
        BY <3>2, <2>2, <1>1 DEF Traced
      <4> QED BY <4>1, <2>2, <2>5, <3>1, <1>3 DEF Traced
    <3>3. CASE rec.msg = m
      BY <3>1, <3>3, <1>1, <2>2, <2>5, <1>3 DEF Traced
    <3> QED BY <3>2, <3>3, <2>2
  <2>10. OneLive(mail, t, a)
    <3>1. ASSUME NEW n \in S, Live(mail[n])
          PROVE  a.msg = n
      BY <3>1, <1>1, <1>3, <2>2, <2>5 DEF OneLive, Traced
    <3> QED BY <3>1, <1>1 DEF OneLive
  <2>11. Owns(mail, t, a)
    <3>1. mail[m].task = t
      BY <2>2 DEF Seen
    <3> QED BY <3>1, <2>5, <1>1 DEF Owns
  <2>12. Fits(mail, t, a)
    BY <2>5, <2>7, <2>9, <2>10, <2>11 DEF Fits
  <2> QED BY <2>2, <2>3, <2>5, <2>8, <2>12
<1> QED BY <1>4, <1>5

\* A task of an earlier version, or of a ledger that was dropped, is what its
\* first envelope says.
LEMMA LegacySound ==
  ASSUME Mailed(mail), NEW t, Seen(mail, t) # {}
  PROVE  LET m == First(Seen(mail, t))
             l == Legacy(t)
         IN  /\ m \in Seen(mail, t) /\ Sound(l)
             /\ l.state = "assigned" /\ l.owner = mail[m].to /\ l.msg = m
             /\ l.request = NoRequest /\ l.handoffs = << >>
             /\ l.dispatch = "legacy"
<1> DEFINE m == First(Seen(mail, t))
           l == Legacy(t)
<1>1. m \in Seen(mail, t)
  <2>1. Seen(mail, t) \in SUBSET Msg
    BY DEF Seen
  <2> QED BY <2>1, FirstFacts
<1>2. m \in Msg /\ mail[m] \in Envelope /\ First(About(t)) = m
  BY <1>1, SeenEnvelope, SeenFacts
<1> HIDE DEF m
<1>3. mail[m].to \in Agent
  BY <1>2 DEF Envelope
<1>4. /\ l.state = "assigned" /\ l.owner = mail[m].to /\ l.msg = m
      /\ l.request = NoRequest /\ l.handoffs = << >>
      /\ l.dispatch = "legacy" /\ l.review = NoReview
  BY <1>2 DEF Legacy
<1>5. l \in TaskRecord
  <2>1. /\ {MaxRounds, MaxHandoffs} \subseteq Nat
        /\ {} \in SUBSET Criterion /\ {} \in SUBSET Evidence
        /\ NoReview \in Review /\ 1 \in Nat \ {0}
        /\ << >> \in Seq(Handoff)
        /\ "unknown" \in DeliveryStates /\ "assigned" \in ExecutionStates
        /\ NoRequest \in Assignment \cup {NoRequest}
    BY LedgerAssumption DEF Review, DeliveryStates, ExecutionStates
  <2>2. 0 \in 0..MaxRounds
    BY <2>1
  <2> QED BY <1>2, <1>3, <2>1, <2>2 DEF Legacy, TaskRecord
<1> HIDE DEF l
<1>6. Len(l.handoffs) = 0 /\ DOMAIN l.handoffs = {}
  BY <1>4
<1>7. Founded(l) /\ Reviewed(l)
  BY <1>4 DEF Founded, Reviewed, NoReview
<1>8. Sound(l)
  BY <1>4, <1>5, <1>6, <1>7, LedgerAssumption DEF Sound
<1> QED BY <1>1, <1>4, <1>8 DEF l, m

LEMMA LegacyFits ==
  ASSUME Mailed(mail), NEW t, NEW m, Seen(mail, t) = {m}
  PROVE  /\ Fits(mail, t, Legacy(t))
         /\ Legacy(t).request = NoRequest
         /\ Legacy(t).handoffs = << >>
         /\ Legacy(t).state = "assigned"
         /\ Related(Legacy(t)) = {m}
<1> DEFINE l == Legacy(t)
<1>1. /\ First(Seen(mail, t)) \in Seen(mail, t) /\ Sound(l)
      /\ l.state = "assigned" /\ l.owner = mail[First(Seen(mail, t))].to
      /\ l.msg = First(Seen(mail, t))
      /\ l.request = NoRequest /\ l.handoffs = << >> /\ l.dispatch = "legacy"
  BY LegacySound
<1>2. m \in Msg /\ l.msg = m /\ l.owner = mail[m].to
  BY <1>1, SeenEnvelope
<1> HIDE DEF l
<1>3. DOMAIN l.handoffs = {}
  BY <1>1
<1>4. Traced(mail, t, l) /\ OneLive(mail, t, l)
  BY <1>2, MsgFacts DEF Traced, OneLive
<1>5. Related(l) = {m}
  BY <1>2, <1>3 DEF Related
<1>6. Owns(mail, t, l)
  BY <1>5 DEF Owns, Seen
<1>7. Fits(mail, t, l)
  BY <1>1, <1>4, <1>6 DEF Fits
<1> QED BY <1>1, <1>5, <1>7 DEF l

-----------------------------------------------------------------------------
(***************************************************************************)
(* The ledger and the queue.                                               *)
(***************************************************************************)
\* An unknown task is one of an earlier version, with its one envelope.
AllFit(box, ts) ==
  \A t \in Task :
    IF ts[t] = NoTask
      THEN \A m, n \in Seen(box, t) : m = n
      ELSE Fits(box, t, ts[t])

OpsOf(rec) ==
  {rec.request.op} \cup {rec.handoffs[i].op : i \in DOMAIN rec.handoffs}

\* What was queued for a request is journalled under it, and only once.
Journal(box, ts) ==
  \A m \in Msg : box[m] # NoMail /\ box[m].op # NoOp =>
    /\ ts[box[m].task] # NoTask
    /\ box[m].op \in OpsOf(ts[box[m].task])

Once(box) ==
  \A m, n \in Msg :
    box[m] # NoMail /\ box[n] # NoMail /\ box[m].op # NoOp
    /\ box[m].op = box[n].op => m = n

\* What goes on rests on completed work.
Rests(ts) ==
  \A t \in Task :
    ts[t] # NoTask /\ ts[t].state \notin {"failed", "cancelled"} =>
      ~Blocked(ts, ts[t].request.dependencies)

Ledger(box, ts) ==
  /\ ts \in [Task -> TaskRecord \cup {NoTask}]
  /\ AllFit(box, ts)
  /\ Journal(box, ts)
  /\ Rests(ts)

\* The records and the queue, while the journal is the one that was kept.
Coherent ==
  /\ Mailed(mail) /\ Once(mail)
  /\ Ledger(mail, tasks)
  /\ plan \in Plans
  /\ faults \in 0..MaxFaults

-----------------------------------------------------------------------------
(***************************************************************************)
(* What a section sees is a ledger again, with every envelope found.       *)
(***************************************************************************)
LEMMA LoadKeeps ==
  ASSUME Brief, AllFit(mail, tasks)
  PROVE  Load = tasks
<1>1. ASSUME NEW t \in Known(tasks) PROVE Valid(tasks[t])
  <2>1. t \in Task /\ tasks[t] # NoTask
    BY DEF Known, NoTask
  <2> QED BY <2>1 DEF AllFit, Fits, Sound, Valid, Brief, Overlong
<1> QED BY <1>1 DEF Load

LEMMA ViewOf ==
  ASSUME Brief, AllFit(mail, tasks), NEW t \in Task
  PROVE  /\ tasks[t] = NoTask /\ Seen(mail, t) = {} => View[t] = NoTask
         /\ tasks[t] # NoTask => View[t] = Seeing(t, tasks[t])
         /\ tasks[t] = NoTask /\ Seen(mail, t) # {} =>
              View[t] = Seeing(t, Legacy(t))
<1>1. View[t] = IF tasks[t] = NoTask /\ About(t) = {}
                THEN NoTask
                ELSE Seeing(t, IF tasks[t] = NoTask THEN Legacy(t) ELSE tasks[t])
  BY LoadKeeps DEF View, Reconcile, Seeing
<1> QED BY <1>1, SeenFacts

LEMMA ViewRecord ==
  ASSUME Brief, Mailed(mail), AllFit(mail, tasks), NEW t \in Task
  PROVE  IF View[t] = NoTask
         THEN tasks[t] = NoTask /\ Seen(mail, t) = {}
         ELSE /\ Fits(mail, t, View[t])
              /\ Found(mail, t, View[t])
              /\ tasks[t] # NoTask =>
                   /\ SameWork(tasks[t], View[t])
                   /\ View[t].state = tasks[t].state
                      \/ tasks[t].state = "ready"
              /\ tasks[t] = NoTask =>
                   View[t].request = NoRequest /\ View[t].handoffs = << >>
              /\ \A m \in Related(View[t]) :
                   \/ m \in Seen(mail, t)
                   \/ tasks[t] # NoTask /\ m \in Related(tasks[t])
<1>0. ASSUME NEW rec, Fits(mail, t, rec), View[t] = Seeing(t, rec)
      PROVE  /\ Fits(mail, t, View[t]) /\ Found(mail, t, View[t])
             /\ SameWork(rec, View[t])
             /\ Related(View[t]) \subseteq Related(rec) \cup Seen(mail, t)
             /\ View[t].state = rec.state \/ rec.state = "ready"
             /\ View[t] # NoTask
  <2>1. /\ Fits(mail, t, View[t]) /\ Found(mail, t, View[t])
        /\ SameWork(rec, View[t])
        /\ Related(View[t]) \subseteq Related(rec) \cup Seen(mail, t)
        /\ View[t].state = rec.state \/ rec.state = "ready"
    BY <1>0, SeeingFits
  <2>2. View[t] \in TaskRecord
    BY <2>1 DEF Fits, Sound
  <2> QED BY <2>1, <2>2, RecordFacts
<1>1. CASE tasks[t] # NoTask
  <2>1. Fits(mail, t, tasks[t]) /\ View[t] = Seeing(t, tasks[t])
    BY <1>1, ViewOf DEF AllFit
  <2> QED BY <2>1, <1>0, <1>1
<1>2. CASE tasks[t] = NoTask /\ Seen(mail, t) = {}
  BY <1>2, ViewOf
<1>3. CASE tasks[t] = NoTask /\ Seen(mail, t) # {}
  <2>1. PICK m : m \in Seen(mail, t)
    BY <1>3
  <2>2. \A k, n \in Seen(mail, t) : k = n
    BY <1>3 DEF AllFit
  <2>3. Seen(mail, t) = {m}
    BY <2>1, <2>2
  <2>4. /\ Fits(mail, t, Legacy(t))
        /\ Legacy(t).request = NoRequest /\ Legacy(t).handoffs = << >>
        /\ Related(Legacy(t)) = {m}
    BY <2>3, LegacyFits
  <2>5. View[t] = Seeing(t, Legacy(t))
    BY <1>3, ViewOf
  <2>6. /\ Fits(mail, t, View[t]) /\ Found(mail, t, View[t])
        /\ SameWork(Legacy(t), View[t]) /\ View[t] # NoTask
        /\ Related(View[t]) \subseteq Related(Legacy(t)) \cup Seen(mail, t)
    BY <2>4, <2>5, <1>0
  <2>7. View[t].request = NoRequest
    BY <2>4, <2>6 DEF SameWork
  <2>8. View[t].handoffs = << >>
    <3>1. View[t].handoffs \in Seq(Handoff)
      BY <2>6 DEF Fits, Sound, TaskRecord
    <3>2. DOMAIN Legacy(t).handoffs = {}
      BY <2>4
    <3>3. DOMAIN View[t].handoffs = {}
      BY <3>2, <2>6 DEF SameWork
    <3> DEFINE hs == View[t].handoffs
    <3> HIDE DEF hs
    <3>4. hs \in Seq(Handoff) /\ DOMAIN hs = {}
      BY <3>1, <3>3 DEF hs
    <3>5. Len(hs) \in Nat /\ 1..Len(hs) = {}
      BY <3>4
    <3>6. Len(hs) = 0
      <4>1. Len(hs) >= 1 => 1 \in 1..Len(hs)
        BY <3>5
      <4> QED BY <4>1, <3>5
    <3>7. hs = << >>
      BY <3>4, <3>6
    <3> QED BY <3>7 DEF hs
  <2>9. Related(View[t]) \subseteq Seen(mail, t)
    BY <2>1, <2>4, <2>6
  <2> QED BY <1>3, <2>6, <2>7, <2>8, <2>9
<1> QED BY <1>1, <1>2, <1>3

LEMMA SameOps ==
  ASSUME NEW old, NEW new, SameWork(old, new)
  PROVE  OpsOf(new) = OpsOf(old)
BY DEF SameWork, OpsOf

LEMMA Dependencies ==
  ASSUME NEW rec \in TaskRecord
  PROVE  rec.request.dependencies \subseteq Task
<1>1. rec.request \in Assignment \/ rec.request = NoRequest
  BY DEF TaskRecord
<1> QED BY <1>1 DEF Assignment, NoRequest

\* What holds of the records whatever became of the journal.
Based(ts) ==
  /\ ts \in [Task -> TaskRecord \cup {NoTask}]
  /\ \A t \in Task : ts[t] # NoTask => Sound(ts[t])
  /\ Rests(ts)

LEMMA SeeingSound ==
  ASSUME Mailed(mail), NEW t, NEW rec, Sound(rec)
  PROVE  LET new == Seeing(t, rec) IN
         /\ Sound(new) /\ SameWork(rec, new)
         /\ new.state = rec.state \/ rec.state = "ready"
<1> DEFINE B == Bound(t, rec)
           m == First(B)
<1>1. CASE B = {}
  BY <1>1 DEF Seeing, SameWork
<1>2. CASE B # {}
  <2>1. B \in SUBSET Msg /\ B \subseteq Seen(mail, t)
    BY SeenFacts DEF Bound
  <2>2. m \in Msg /\ m \in Seen(mail, t)
    BY <2>1, <1>2, FirstFacts
  <2>3. mail[m] \in Envelope /\ Visible(m)
    BY <2>2, SeenEnvelope, SeenFacts
  <2>4. Seeing(t, rec) = Acknowledge(rec, m)
    BY <1>2 DEF Seeing
  <2> HIDE DEF m
  <2>5. DeliveryOf(rec, m) \in DeliveryStates
    BY <2>2, <2>3, DeliveryType DEF Sound
  <2> QED BY <2>2, <2>4, <2>5, AckSound
<1> QED BY <1>1, <1>2

\* What a section sees is as sound as what is in the file, and has no record
\* that the next load rejects; all of a file without one is seen.
LEMMA ViewBased ==
  ASSUME Mailed(mail), Based(tasks)
  PROVE  /\ Based(View)
         /\ \A t \in Task :
              View[t] # NoTask => View[t].request.channel \notin LongChannel
         /\ Brief =>
              \A t \in Task : tasks[t] # NoTask =>
                /\ View[t] # NoTask
                /\ View[t].state = tasks[t].state \/ tasks[t].state = "ready"
<1> DEFINE old == Load
           now == View
<1>1. /\ Based(old)
      /\ \A t \in Task : old[t] # NoTask =>
           old[t].request.channel \notin LongChannel
      /\ Brief => old = tasks
  <2>0. \A t \in Task : tasks[t] # NoTask => t \in Known(tasks)
    BY RecordFacts DEF Based, Known
  <2>1. CASE \A t \in Known(tasks) : Valid(tasks[t])
    <3>1. old = tasks
      BY <2>1 DEF Load
    <3> QED BY <2>0, <2>1, <3>1 DEF Valid
  <2>2. CASE ~(\A t \in Known(tasks) : Valid(tasks[t]))
    <3>1. old = [t \in Task |-> NoTask]
      BY <2>2 DEF Load
    <3>2. Based(old) /\ \A t \in Task : old[t] = NoTask
      BY <3>1 DEF Based, Rests
    <3>3. ~Brief
      <4>1. PICK t \in Known(tasks) : ~Valid(tasks[t])
        BY <2>2
      <4>2. Founded(tasks[t])
        BY <4>1 DEF Known, NoTask, Based, Sound
      <4> QED BY <4>1, <4>2 DEF Valid, Brief, Overlong
    <3> QED BY <3>2, <3>3
  <2> QED BY <2>1, <2>2
<1>2. DOMAIN now = Task /\ now = [t \in Task |-> now[t]]
  BY DEF View, Reconcile
<1>3. ASSUME NEW t \in Task
      PROVE  IF now[t] = NoTask THEN old[t] = NoTask
             ELSE /\ Sound(now[t])
                  /\ old[t] # NoTask =>
                       /\ now[t].request = old[t].request
                       /\ now[t].state = old[t].state \/ old[t].state = "ready"
                  /\ old[t] = NoTask => now[t].request = NoRequest
  <2>1. now[t] = IF old[t] = NoTask /\ Seen(mail, t) = {}
                 THEN NoTask
                 ELSE Seeing(t, IF old[t] = NoTask THEN Legacy(t) ELSE old[t])
    BY SeenFacts DEF View, Reconcile, Seeing
  <2> HIDE DEF now, old
  <2>2. CASE old[t] = NoTask /\ Seen(mail, t) = {}
    BY <2>1, <2>2
  <2>3. CASE old[t] = NoTask /\ Seen(mail, t) # {}
    <3>1. Sound(Legacy(t)) /\ Legacy(t).request = NoRequest
      BY <2>3, LegacySound
    <3>2. Sound(now[t]) /\ now[t].request = NoRequest
      BY <2>1, <2>3, <3>1, SeeingSound DEF SameWork
    <3>3. now[t] # NoTask
      BY <3>2, RecordFacts DEF Sound
    <3> QED BY <2>3, <3>2, <3>3
  <2>4. CASE old[t] # NoTask
    <3>1. Sound(old[t]) /\ now[t] = Seeing(t, old[t])
      BY <1>1, <2>1, <2>4 DEF Based
    <3>2. /\ Sound(now[t]) /\ now[t].request = old[t].request
          /\ now[t].state = old[t].state \/ old[t].state = "ready"
      BY <3>1, SeeingSound DEF SameWork
    <3>3. now[t] # NoTask
      BY <3>2, RecordFacts DEF Sound
    <3> QED BY <2>4, <3>2, <3>3
  <2> QED BY <2>2, <2>3, <2>4
<1> HIDE DEF now, old
<1>4. now \in [Task -> TaskRecord \cup {NoTask}]
  <2>1. \A t \in Task : now[t] \in TaskRecord \cup {NoTask}
    BY <1>3 DEF Sound
  <2> QED BY <2>1, <1>2
<1>5. Rests(now)
  <2> SUFFICES ASSUME NEW t \in Task, now[t] # NoTask,
                      now[t].state \notin {"failed", "cancelled"},
                      NEW d \in now[t].request.dependencies
               PROVE  now[d].state = "verified_complete"
    BY DEF Rests, Blocked
  <2>1. old[t] # NoTask
    BY <1>3 DEF NoRequest
  <2>2. /\ now[t].request = old[t].request
        /\ old[t].state \notin {"failed", "cancelled"}
    BY <1>3, <2>1
  <2>3. old[d].state = "verified_complete"
    BY <1>1, <2>1, <2>2 DEF Based, Rests, Blocked
  <2>4. d \in Task
    <3>1. old[t] \in TaskRecord
      BY <1>1, <2>1 DEF Based
    <3> QED BY <3>1, <2>2, Dependencies
  <2>5. old[d] # NoTask
    BY <2>3 DEF NoTask
  <2>6. now[d] # NoTask /\ (now[d].state = old[d].state \/ old[d].state = "ready")
    BY <2>4, <2>5, <1>3
  <2> QED BY <2>3, <2>6
<1>6. Based(now)
  BY <1>3, <1>4, <1>5 DEF Based
<1>7. \A t \in Task :
        now[t] # NoTask => now[t].request.channel \notin LongChannel
  <2>1. NoRequest.channel \notin LongChannel
    BY LedgerAssumption DEF NoRequest
  <2> QED BY <2>1, <1>1, <1>3
<1> QED BY <1>1, <1>3, <1>6, <1>7 DEF now

\* What rests on completed work still does when a task that is not complete
\* gets another record.
LEMMA RestsSaved ==
  ASSUME NEW ts \in [Task -> TaskRecord \cup {NoTask}], Rests(ts),
         NEW t \in Task, NEW rec, ts[t].state # "verified_complete",
         rec.state \notin {"failed", "cancelled"} =>
           ~Blocked(ts, rec.request.dependencies)
  PROVE  Rests([ts EXCEPT ![t] = rec])
<1> DEFINE saved == [ts EXCEPT ![t] = rec]
<1>1. saved[t] = rec /\ \A u \in Task : u # t => saved[u] = ts[u]
  OBVIOUS
<1>2. \A d : ts[d].state = "verified_complete" => d # t /\ saved[d] = ts[d]
  OBVIOUS
<1> HIDE DEF saved
<1>3. ASSUME NEW deps, ~Blocked(ts, deps) PROVE ~Blocked(saved, deps)
  BY <1>2, <1>3 DEF Blocked
<1> SUFFICES ASSUME NEW u \in Task, saved[u] # NoTask,
                    saved[u].state \notin {"failed", "cancelled"}
             PROVE  ~Blocked(saved, saved[u].request.dependencies)
  BY DEF Rests, saved
<1>4. CASE u = t
  BY <1>1, <1>3, <1>4
<1>5. CASE u # t
  BY <1>1, <1>3, <1>5 DEF Rests
<1> QED BY <1>4, <1>5

LEMMA ViewLedger ==
  ASSUME Brief, Mailed(mail), Ledger(mail, tasks)
  PROVE  Ledger(mail, View)
<1> DEFINE now == View
<1>0. /\ tasks \in [Task -> TaskRecord \cup {NoTask}]
      /\ AllFit(mail, tasks) /\ Journal(mail, tasks) /\ Rests(tasks)
  BY DEF Ledger
<1>1. DOMAIN now = Task /\ now = [t \in Task |-> now[t]]
  BY DEF View, Reconcile
<1>2. ASSUME NEW t \in Task
      PROVE  IF now[t] = NoTask
             THEN tasks[t] = NoTask /\ Seen(mail, t) = {}
             ELSE /\ Fits(mail, t, now[t])
                  /\ tasks[t] # NoTask =>
                       /\ SameWork(tasks[t], now[t])
                       /\ now[t].state = tasks[t].state
                          \/ tasks[t].state = "ready"
                  /\ tasks[t] = NoTask => now[t].request = NoRequest
  BY <1>0, ViewRecord
<1> HIDE DEF now
<1>3. AllFit(mail, now)
  BY <1>2 DEF AllFit
<1>4. now \in [Task -> TaskRecord \cup {NoTask}]
  <2>1. \A t \in Task : now[t] \in TaskRecord \cup {NoTask}
    BY <1>2 DEF Fits, Sound
  <2> QED BY <2>1, <1>1
<1>5. Journal(mail, now)
  <2> SUFFICES ASSUME NEW m \in Msg, mail[m] # NoMail, mail[m].op # NoOp
               PROVE  /\ now[mail[m].task] # NoTask
                      /\ mail[m].op \in OpsOf(now[mail[m].task])
    BY DEF Journal
  <2> DEFINE t == mail[m].task
  <2>1. t \in Task
    BY DEF Mailed, Envelope
  <2>2. tasks[t] # NoTask /\ mail[m].op \in OpsOf(tasks[t])
    BY <1>0 DEF Journal
  <2>3. now[t] # NoTask /\ SameWork(tasks[t], now[t])
    BY <1>2, <2>1, <2>2
  <2> QED BY <2>2, <2>3, SameOps
<1>6. Rests(now)
  <2>1. Based(tasks)
    BY <1>0 DEF Based, AllFit, Fits
  <2> QED BY <2>1, ViewBased DEF Based, now
<1> QED BY <1>3, <1>4, <1>5, <1>6 DEF Ledger, now

\* What a section may count on when it starts.
LEMMA Section ==
  ASSUME Brief, Coherent
  PROVE  LET now == View IN
         /\ Ledger(mail, now)
         /\ now \in [Task -> TaskRecord \cup {NoTask}]
         /\ \A t \in Task :
              /\ now[t] = NoTask => tasks[t] = NoTask /\ Seen(mail, t) = {}
              /\ now[t] # NoTask =>
                   /\ Fits(mail, t, now[t])
                   /\ Found(mail, t, now[t])
                   /\ tasks[t] # NoTask =>
                        /\ SameWork(tasks[t], now[t])
                        /\ now[t].state = tasks[t].state
                           \/ tasks[t].state = "ready"
                   /\ \A m \in Related(now[t]) :
                        \/ m \in Seen(mail, t)
                        \/ tasks[t] # NoTask /\ m \in Related(tasks[t])
              /\ t \in Known(now) <=> now[t] # NoTask
<1>1. Mailed(mail) /\ Ledger(mail, tasks) /\ AllFit(mail, tasks)
  BY DEF Coherent, Ledger
<1>2. Ledger(mail, View)
  BY <1>1, ViewLedger
<1>3. View \in [Task -> TaskRecord \cup {NoTask}]
  BY <1>2 DEF Ledger
<1>4. ASSUME NEW t \in Task
      PROVE  t \in Known(View) <=> View[t] # NoTask
  <2>1. View[t] \in TaskRecord \cup {NoTask}
    BY <1>3
  <2>2. NoTask.state = "none"
    BY DEF NoTask
  <2>3. View[t] \in TaskRecord => View[t].state # "none"
    BY RecordFacts
  <2> QED BY <2>1, <2>2, <2>3 DEF Known
<1> QED BY <1>1, <1>2, <1>3, <1>4, ViewRecord

-----------------------------------------------------------------------------
(***************************************************************************)
(* Mail that goes on, and is only lost.                                    *)
(***************************************************************************)
LEMMA FadedFits ==
  ASSUME NEW old, NEW new, Mailed(old), NEW t, NEW rec, Fits(old, t, rec),
         \A m \in Msg : new[m] # NoMail =>
           /\ old[m] # NoMail
           /\ new[m].task = old[m].task /\ new[m].to = old[m].to
           /\ Live(new[m]) => Live(old[m]),
         Seen(new, t) \subseteq Seen(old, t)
  PROVE  Fits(new, t, rec)
<1>1. /\ Sound(rec) /\ Owns(old, t, rec)
      /\ Traced(old, t, rec) /\ OneLive(old, t, rec)
      /\ rec.dispatch = "failed" => Seen(old, t) = {}
  BY DEF Fits
<1>2. \A m \in Seen(new, t) :
        /\ m \in Seen(old, t) /\ m \in Msg
        /\ new[m].to = old[m].to /\ (Live(new[m]) => Live(old[m]))
  BY DEF Seen, NoMail
<1>3. Owns(new, t, rec)
  BY <1>1 DEF Owns
<1>4. Traced(new, t, rec)
  <2> SUFFICES ASSUME NEW m \in Seen(new, t)
               PROVE  IF rec.msg = NoMsg
                      THEN Seen(new, t) = {m} /\ new[m].to = rec.owner
                      ELSE /\ rec.msg = m => new[m].to = rec.owner
                           /\ \/ rec.msg = m
                              \/ \E i \in DOMAIN rec.handoffs :
                                   rec.handoffs[i].from = m
    BY DEF Traced
  <2>1. CASE rec.msg = NoMsg
    <3>1. Seen(old, t) = {m} /\ old[m].to = rec.owner
      BY <2>1, <1>1, <1>2 DEF Traced
    <3>2. Seen(new, t) = {m}
      BY <3>1
    <3> QED BY <3>1, <3>2, <2>1, <1>2
  <2>2. CASE rec.msg # NoMsg
    BY <2>2, <1>1, <1>2 DEF Traced
  <2> QED BY <2>1, <2>2
<1>5. OneLive(new, t, rec)
  BY <1>1, <1>2 DEF OneLive
<1> QED BY <1>1, <1>3, <1>4, <1>5 DEF Fits

LEMMA Faded ==
  ASSUME NEW old, NEW new, Mailed(old), Once(old), NEW ts, Ledger(old, ts),
         \A m \in Msg : new[m] # NoMail =>
           /\ old[m] # NoMail
           /\ new[m].task = old[m].task /\ new[m].to = old[m].to
           /\ new[m].op = old[m].op
           /\ Live(new[m]) => Live(old[m]),
         \A t : Seen(new, t) \subseteq Seen(old, t)
  PROVE  Once(new) /\ Ledger(new, ts)
<1>1. Once(new)
  BY DEF Once
<1>2. AllFit(new, ts)
  <2> SUFFICES ASSUME NEW t \in Task
               PROVE  IF ts[t] = NoTask
                      THEN \A m, n \in Seen(new, t) : m = n
                      ELSE Fits(new, t, ts[t])
    BY DEF AllFit
  <2>1. CASE ts[t] = NoTask
    BY <2>1 DEF Ledger, AllFit
  <2>2. CASE ts[t] # NoTask
    <3>1. Fits(old, t, ts[t])
      BY <2>2 DEF Ledger, AllFit
    <3> QED BY <3>1, <2>2, FadedFits
  <2> QED BY <2>1, <2>2
<1>3. Journal(new, ts)
  BY DEF Ledger, Journal
<1> QED BY <1>1, <1>2, <1>3 DEF Ledger

LEMMA MailMovesKeeps == Coherent /\ MailMoves => Coherent'
<1> SUFFICES ASSUME Coherent,
                    NEW m \in Msg, NEW next \in Moves(mail[m].status),
                    mail' = [mail EXCEPT ![m].status = next],
                    UNCHANGED <<tasks, plan, faults>>
             PROVE  Coherent'
  BY DEF MailMoves
<1>1. Mailed(mail) /\ Once(mail) /\ Ledger(mail, tasks)
  BY DEF Coherent
<1>2. /\ mail[m] \in Envelope
      /\ next \in {"pending", "in_flight", "delivered", "failed", "rejected",
                   "stale", "gone"}
      /\ next \in {"pending", "in_flight"} => Live(mail[m])
  <2>1. mail[m].status \in {"pending", "in_flight", "delivered", "failed",
                            "rejected", "stale"}
    BY DEF Moves
  <2>2. mail[m] \in Envelope
    BY <1>1, <2>1 DEF Mailed, NoMail
  <2>3. Refusals \subseteq {"rejected", "stale", "failed"}
    BY LedgerAssumption
  <2>4. CASE mail[m].status = "pending"
    BY <2>2, <2>3, <2>4 DEF Moves, Live
  <2>5. CASE mail[m].status = "in_flight"
    BY <2>2, <2>3, <2>5 DEF Moves, Live
  <2>6. CASE mail[m].status \in {"delivered", "failed", "rejected", "stale"}
    BY <2>2, <2>6 DEF Moves
  <2> QED BY <2>1, <2>4, <2>5, <2>6
<1> DEFINE e == [mail[m] EXCEPT !.status = next]
<1>3. /\ e \in Envelope /\ e.status = next /\ e.task = mail[m].task
      /\ e.to = mail[m].to /\ e.op = mail[m].op
  BY <1>2 DEF Envelope
<1>4. mail' = [mail EXCEPT ![m] = e]
  OBVIOUS
<1> HIDE DEF e
<1>5. e # NoMail /\ mail[m] # NoMail
      /\ mail[m].status \notin {"none"} /\ (Live(e) => Live(mail[m]))
      /\ mail[m].status # "gone"
  <2>1. NoMail.status = "none"
    BY DEF NoMail
  <2>2. mail[m].status # "gone"
    BY DEF Moves
  <2> QED BY <1>2, <1>3, <2>1, <2>2 DEF Live, Envelope
<1>6. \A n \in Msg : mail'[n] = IF n = m THEN e ELSE mail[n]
  BY <1>1, <1>4 DEF Mailed
<1>7. Mailed(mail')
  BY <1>1, <1>3, <1>4 DEF Mailed
<1>8. /\ \A n \in Msg : mail'[n] # NoMail =>
           /\ mail[n] # NoMail
           /\ mail'[n].task = mail[n].task /\ mail'[n].to = mail[n].to
           /\ mail'[n].op = mail[n].op
           /\ Live(mail'[n]) => Live(mail[n])
      /\ \A t : Seen(mail', t) \subseteq Seen(mail, t)
  <2>1. ASSUME NEW n \in Msg, mail'[n] # NoMail
        PROVE  /\ mail[n] # NoMail
               /\ mail'[n].task = mail[n].task /\ mail'[n].to = mail[n].to
               /\ mail'[n].op = mail[n].op
               /\ Live(mail'[n]) => Live(mail[n])
    BY <1>3, <1>5, <1>6, <2>1
  <2>2. ASSUME NEW t, NEW n \in Seen(mail', t)
        PROVE  n \in Seen(mail, t)
    BY <1>3, <1>5, <1>6, <2>2 DEF Seen
  <2> QED BY <2>1, <2>2
<1>9. Once(mail') /\ Ledger(mail', tasks)
  BY <1>1, <1>8, Faded
<1> QED BY <1>7, <1>9 DEF Coherent

LEMMA RepliesKeeps == Coherent /\ Replies => Coherent'
<1> SUFFICES ASSUME Coherent,
                    NEW m \in Msg, mail[m].status \in {"in_flight", "delivered"},
                    mail' = [mail EXCEPT ![m].replied = TRUE],
                    UNCHANGED <<tasks, plan, faults>>
             PROVE  Coherent'
  BY DEF Replies
<1>1. Mailed(mail) /\ Once(mail) /\ Ledger(mail, tasks)
  BY DEF Coherent
<1>2. mail[m] \in Envelope /\ mail[m] # NoMail
  BY <1>1 DEF Mailed, NoMail
<1> DEFINE e == [mail[m] EXCEPT !.replied = TRUE]
<1>3. /\ e \in Envelope /\ e.status = mail[m].status /\ e.task = mail[m].task
      /\ e.to = mail[m].to /\ e.op = mail[m].op
  BY <1>2 DEF Envelope
<1>4. mail' = [mail EXCEPT ![m] = e]
  OBVIOUS
<1> HIDE DEF e
<1>5. \A n \in Msg : mail'[n] = IF n = m THEN e ELSE mail[n]
  BY <1>1, <1>4 DEF Mailed
<1>6. Mailed(mail')
  BY <1>1, <1>3, <1>4 DEF Mailed
<1>7. ASSUME NEW n \in Msg, mail'[n] # NoMail
      PROVE  /\ mail[n] # NoMail
             /\ mail'[n].task = mail[n].task /\ mail'[n].to = mail[n].to
             /\ mail'[n].op = mail[n].op
             /\ Live(mail'[n]) => Live(mail[n])
  BY <1>2, <1>3, <1>5, <1>7 DEF Live
<1>8. \A t : Seen(mail', t) \subseteq Seen(mail, t)
  BY <1>3, <1>5 DEF Seen
<1>9. Once(mail') /\ Ledger(mail', tasks)
  BY <1>1, <1>7, <1>8, Faded
<1> QED BY <1>6, <1>9 DEF Coherent

-----------------------------------------------------------------------------
(***************************************************************************)
(* Saving one record, and the mail of its task.                            *)
(***************************************************************************)
\* What a save for task t does to the queue: it changes mail of t, or
\* queues for t under an id that no record holds.
Apart(old, new, ts, t) ==
  \A m \in Msg :
    \/ new[m] = old[m]
    \/ /\ new[m] # NoMail /\ new[m].task = t
       /\ \/ old[m] # NoMail /\ old[m].task = t
          \/ /\ old[m] = NoMail
             /\ \A u \in Task : ts[u] # NoTask => m \notin Related(ts[u])

LEMMA OthersFit ==
  ASSUME NEW old, NEW new, NEW ts, NEW t, Apart(old, new, ts, t),
         AllFit(old, ts), NEW u \in Task, u # t
  PROVE  IF ts[u] = NoTask
         THEN \A m, n \in Seen(new, u) : m = n
         ELSE Fits(new, u, ts[u])
<1>0. NoMail.status = "none"
  BY DEF NoMail
<1>1. Seen(new, u) = Seen(old, u) /\ \A m \in Seen(old, u) : new[m] = old[m]
  BY <1>0 DEF Apart, Seen
<1>2. CASE ts[u] = NoTask
  BY <1>1, <1>2 DEF AllFit
<1>3. CASE ts[u] # NoTask
  <2> DEFINE rec == ts[u]
  <2>1. /\ Sound(rec) /\ Owns(old, u, rec)
        /\ Traced(old, u, rec) /\ OneLive(old, u, rec)
        /\ rec.dispatch = "failed" => Seen(old, u) = {}
    BY <1>3 DEF AllFit, Fits
  <2>2. \A m \in Related(rec) : m \in Msg => new[m] = old[m]
    BY <2>1, <1>3 DEF Apart, Owns
  <2> HIDE DEF rec
  <2>3. Owns(new, u, rec)
    BY <2>1, <2>2 DEF Owns
  <2>4. Traced(new, u, rec) /\ OneLive(new, u, rec)
    BY <2>1, <1>1 DEF Traced, OneLive
  <2> QED BY <1>1, <1>3, <2>1, <2>3, <2>4 DEF Fits, rec
<1> QED BY <1>2, <1>3

LEMMA Saved ==
  ASSUME NEW old, NEW new, NEW ts, NEW t \in Task, NEW rec,
         Ledger(old, ts), Apart(old, new, ts, t), Fits(new, t, rec),
         ts[t].state # "verified_complete",
         ts[t] # NoTask => OpsOf(ts[t]) \subseteq OpsOf(rec),
         \A m \in Msg :
           /\ new[m] # NoMail /\ new[m].op # NoOp
           /\ old[m] = NoMail \/ new[m].op # old[m].op
           => new[m].task = t /\ new[m].op \in OpsOf(rec),
         rec.state \notin {"failed", "cancelled"} =>
           ~Blocked(ts, rec.request.dependencies)
  PROVE  Ledger(new, [ts EXCEPT ![t] = rec])
<1> DEFINE saved == [ts EXCEPT ![t] = rec]
<1>1. /\ ts \in [Task -> TaskRecord \cup {NoTask}]
      /\ AllFit(old, ts) /\ Journal(old, ts) /\ Rests(ts)
  BY DEF Ledger
<1>2. rec \in TaskRecord /\ rec # NoTask
  BY RecordFacts DEF Fits, Sound
<1>3. /\ saved \in [Task -> TaskRecord \cup {NoTask}]
      /\ saved[t] = rec /\ \A u \in Task : u # t => saved[u] = ts[u]
  BY <1>1, <1>2
<1> HIDE DEF saved
<1>4. AllFit(new, saved)
  <2> SUFFICES ASSUME NEW u \in Task
               PROVE  IF saved[u] = NoTask
                      THEN \A m, n \in Seen(new, u) : m = n
                      ELSE Fits(new, u, saved[u])
    BY DEF AllFit
  <2>1. CASE u = t
    BY <2>1, <1>2, <1>3
  <2>2. CASE u # t
    <3>1. IF ts[u] = NoTask
          THEN \A m, n \in Seen(new, u) : m = n
          ELSE Fits(new, u, ts[u])
      BY <2>2, <1>1, OthersFit
    <3> QED BY <3>1, <2>2, <1>3
  <2> QED BY <2>1, <2>2
<1>5. Journal(new, saved)
  <2> SUFFICES ASSUME NEW m \in Msg, new[m] # NoMail, new[m].op # NoOp
               PROVE  /\ saved[new[m].task] # NoTask
                      /\ new[m].op \in OpsOf(saved[new[m].task])
    BY DEF Journal
  <2>1. CASE old[m] = NoMail \/ new[m].op # old[m].op
    BY <2>1, <1>2, <1>3
  <2>2. CASE old[m] # NoMail /\ new[m].op = old[m].op
    <3>1. /\ ts[old[m].task] # NoTask
          /\ new[m].op \in OpsOf(ts[old[m].task])
      BY <2>2, <1>1 DEF Journal
    <3>2. new[m].task = old[m].task
      BY <2>2 DEF Apart
    <3>3. CASE new[m].task = t
      BY <3>1, <3>2, <3>3, <1>2, <1>3
    <3>4. CASE new[m].task # t
      <4>1. saved[new[m].task] = ts[new[m].task]
        BY <3>4, <1>1 DEF saved
      <4> QED BY <4>1, <3>1, <3>2
    <3> QED BY <3>3, <3>4
  <2> QED BY <2>1, <2>2
<1>6. Rests(saved)
  BY <1>1, RestsSaved DEF saved
<1> QED BY <1>3, <1>4, <1>5, <1>6 DEF Ledger, saved

\* A request the journal does not know has no envelope.
LEMMA FreshOp ==
  ASSUME NEW ts, Mailed(mail), Ledger(mail, ts), NEW o,
         o \notin Assigned(ts) \cup Handed(ts), NEW m \in Msg,
         mail[m] # NoMail, mail[m].op # NoOp
  PROVE  mail[m].op # o
<1> DEFINE t == mail[m].task
           rec == ts[t]
<1>1. t \in Task
  BY DEF Mailed, Envelope
<1>2. rec # NoTask /\ mail[m].op \in OpsOf(rec)
  BY DEF Ledger, Journal
<1>3. rec \in TaskRecord
  BY <1>1, <1>2 DEF Ledger
<1>4. t \in Known(ts)
  BY <1>1, <1>3, RecordFacts DEF Known
<1>5. CASE mail[m].op = rec.request.op
  BY <1>4, <1>5 DEF Assigned
<1>6. CASE \E i \in DOMAIN rec.handoffs : mail[m].op = rec.handoffs[i].op
  BY <1>4, <1>6 DEF Handed
<1> QED BY <1>2, <1>5, <1>6 DEF OpsOf

\* Queueing an envelope for a task, under an id that nothing holds.
LEMMA Enqueued ==
  ASSUME Brief, Coherent, Unused # {},
         NEW t \in Task, NEW a \in Agent, NEW o \in Op \cup {NoOp},
         o \notin Assigned(View) \cup Handed(View)
  PROVE  LET box == Enqueue(mail, t, a, o) IN
         /\ NextMsg \in Msg /\ mail[NextMsg] = NoMail
         /\ \A u \in Task : View[u] # NoTask => NextMsg \notin Related(View[u])
         /\ box[NextMsg] \in Envelope
         /\ box[NextMsg].status = "pending" /\ box[NextMsg].task = t
         /\ box[NextMsg].to = a /\ box[NextMsg].op = o
         /\ \A m \in Msg : m # NextMsg => box[m] = mail[m]
         /\ Mailed(box) /\ Once(box)
         /\ Apart(mail, box, View, t)
<1> DEFINE k == NextMsg
           e == [status |-> "pending", task |-> t, to |-> a, op |-> o,
                 replied |-> FALSE]
           box == [mail EXCEPT ![k] = e]
           now == View
<1>0. Mailed(mail) /\ Once(mail)
  BY DEF Coherent
<1>1. k \in Unused
  <2>1. Unused \in SUBSET Msg
    BY DEF Unused
  <2> QED BY <2>1, FirstFacts DEF NextMsg
<1>2. /\ k \in Msg /\ mail[k] = NoMail
      /\ \A u \in Known(tasks) : k \notin Related(tasks[u])
  BY <1>1 DEF Unused
<1>3. ASSUME NEW u \in Task, now[u] # NoTask
      PROVE  k \notin Related(now[u])
  <2>1. k \notin Seen(mail, u)
    BY <1>2 DEF Seen, NoMail
  <2>2. tasks[u] # NoTask => k \notin Related(tasks[u])
    <3>1. tasks[u] # NoTask => tasks[u] \in TaskRecord
      BY DEF Coherent, Ledger
    <3>2. tasks[u] # NoTask => u \in Known(tasks)
      BY <3>1, RecordFacts DEF Known
    <3> QED BY <3>2, <1>2
  <2>3. \A m \in Related(now[u]) :
          \/ m \in Seen(mail, u)
          \/ tasks[u] # NoTask /\ m \in Related(tasks[u])
    BY <1>3, Section
  <2> QED BY <2>1, <2>2, <2>3
<1>4. Enqueue(mail, t, a, o) = box
  BY DEF Enqueue
<1>5. e \in Envelope /\ e.status = "pending" /\ e.task = t /\ e.to = a /\ e.op = o
  BY DEF Envelope
<1>6. Ledger(mail, now)
  BY Section
<1> HIDE DEF e, k, now
<1>7. box[k] = e /\ \A m \in Msg : m # k => box[m] = mail[m]
  BY <1>0, <1>2 DEF Mailed
<1>8. Mailed(box)
  BY <1>0, <1>2, <1>5 DEF Mailed
<1>9. Once(box)
  <2>1. \A m \in Msg : mail[m] # NoMail /\ mail[m].op # NoOp => mail[m].op # o
    BY <1>0, <1>6, FreshOp DEF now
  <2> HIDE DEF box
  <2> QED BY <1>0, <1>2, <1>5, <1>7, <2>1 DEF Once
<1>10. Apart(mail, box, now, t)
  <2>1. e # NoMail
    BY <1>5 DEF NoMail
  <2> HIDE DEF box
  <2> QED BY <1>2, <1>3, <1>5, <1>7, <2>1 DEF Apart
<1> QED BY <1>2, <1>3, <1>4, <1>5, <1>7, <1>8, <1>9, <1>10 DEF k, now

-----------------------------------------------------------------------------
(***************************************************************************)
(* Assigning.                                                              *)
(***************************************************************************)
\* The plan of a behavior asks for what the types allow.
LEMMA PlanFacts ==
  ASSUME plan \in Plans
  PROVE  /\ plan.requests \subseteq Assignment
         /\ plan.handoffs \subseteq Transfer
         /\ plan.reports \subseteq Report
BY LedgerAssumption DEF Plan

\* The task a section opens is known to no one.
LEMMA NewTaskFacts ==
  ASSUME Brief, Coherent, NewTasks(View) # {}
  PROVE  LET t == NewTask(View) IN
         /\ t \in Task /\ View[t] = NoTask /\ Seen(mail, t) = {}
         /\ \A m \in Msg : mail[m] # NoMail => mail[m].task # t
<1> DEFINE t == NewTask(View)
<1>1. t \in NewTasks(View)
  BY DEF NewTask
<1> HIDE DEF t
<1>2. /\ t \in Task /\ t \notin Known(View)
      /\ \A m \in Msg : mail[m] # NoMail => mail[m].task # t
  BY <1>1 DEF NewTasks
<1>3. View[t] = NoTask /\ Seen(mail, t) = {}
  BY <1>2, Section
<1> QED BY <1>2, <1>3 DEF t

\* The record an assignment leaves, by how far its section came.
Opened(r, state, msg, delivery, dispatch) ==
  [state |-> state, owner |-> r.agent, request |-> r, msg |-> msg,
   delivery |-> delivery, dispatch |-> dispatch, criteria |-> r.criteria,
   evidence |-> {}, review |-> NoReview, rounds |-> 0, revision |-> 1,
   handoffs |-> << >>]

LEMMA NewRecord ==
  ASSUME NEW r \in Assignment,
         NEW state \in ExecutionStates, NEW msg \in Msg \cup {NoMsg},
         NEW delivery \in DeliveryStates,
         NEW dispatch \in {"dispatching", "sent", "failed"},
         state = "ready" => dispatch = "dispatching",
         dispatch = "failed" => state = "failed",
         state # "verified_complete"
  PROVE  LET rec == Opened(r, state, msg, delivery, dispatch)
         IN  /\ Sound(rec)
             /\ rec.owner = r.agent /\ rec.request = r /\ rec.msg = msg
             /\ rec.state = state /\ rec.dispatch = dispatch
             /\ Related(rec) = {msg}
             /\ OpsOf(rec) = {r.op}
<1> DEFINE rec == Opened(r, state, msg, delivery, dispatch)
<1>2. r.agent \in Agent /\ r.criteria \in SUBSET Criterion
  BY DEF Assignment
<1>3. /\ {} \in SUBSET Evidence /\ NoReview \in Review
      /\ 1 \in Nat \ {0} /\ << >> \in Seq(Handoff)
      /\ MaxHandoffs \in Nat /\ 0 \in 0..MaxRounds
  <2>1. {MaxRounds, MaxHandoffs} \subseteq Nat
    BY LedgerAssumption
  <2> QED BY <2>1 DEF Review
<1>4. rec \in TaskRecord
  BY <1>2, <1>3 DEF TaskRecord, Opened
<1>5. /\ rec.owner = r.agent /\ rec.request = r /\ rec.msg = msg
      /\ rec.state = state /\ rec.dispatch = dispatch
      /\ rec.handoffs = << >> /\ rec.review = NoReview
  BY DEF Opened
<1> HIDE DEF rec
<1>6. Len(rec.handoffs) = 0 /\ DOMAIN rec.handoffs = {}
  BY <1>5
<1>7. Founded(rec) /\ Reviewed(rec)
  BY <1>5 DEF Founded, Reviewed, NoReview
<1>8. Sound(rec)
  BY <1>3, <1>4, <1>5, <1>6, <1>7 DEF Sound
<1>9. Related(rec) = {msg} /\ OpsOf(rec) = {r.op}
  BY <1>5, <1>6 DEF Related, OpsOf
<1> QED BY <1>5, <1>8, <1>9 DEF rec

\* Saving the record of a new task, with or without its envelope.
LEMMA NewSaved ==
  ASSUME Brief, Coherent, NEW r \in plan.requests, Assignable(View, r),
         NewTasks(View) # {}, NEW box, NEW rec,
         Apart(mail, box, View, NewTask(View)),
         Fits(box, NewTask(View), rec),
         rec.request = r, OpsOf(rec) = {r.op},
         \A m \in Msg : box[m] = mail[m] \/ box[m].op = r.op
  PROVE  Ledger(box, [View EXCEPT ![NewTask(View)] = rec])
<1> DEFINE now == View
           t == NewTask(now)
<1>1. /\ t \in Task /\ now[t] = NoTask
      /\ \A m \in Msg : mail[m] # NoMail => mail[m].task # t
  BY NewTaskFacts
<1>2. Ledger(mail, now)
  BY Section
<1>3. ~Blocked(now, rec.request.dependencies)
  BY DEF Assignable
<1>4. now[t].state # "verified_complete"
  BY <1>1 DEF NoTask
<1>5. Apart(mail, box, now, t) /\ Fits(box, t, rec)
  OBVIOUS
<1> HIDE DEF t, now
<1>6. \A m \in Msg :
        /\ box[m] # NoMail /\ box[m].op # NoOp
        /\ mail[m] = NoMail \/ box[m].op # mail[m].op
        => box[m].task = t /\ box[m].op \in OpsOf(rec)
  BY <1>5 DEF Apart
<1>7. Ledger(box, [now EXCEPT ![t] = rec])
  BY <1>1, <1>2, <1>3, <1>4, <1>5, <1>6, Saved
<1> QED BY <1>7 DEF t, now

\* Without mail, any sound record of its task fits; with its first envelope,
\* one that names it or none.
LEMMA FirstFits ==
  ASSUME NEW box, NEW t, NEW rec, Sound(rec), rec.dispatch # "failed",
         NEW k \in Msg, Related(rec) \subseteq {k, NoMsg},
         rec.msg \in {k, NoMsg},
         Seen(box, t) = {k}, box[k].to = rec.owner
  PROVE  Fits(box, t, rec)
<1>1. k # NoMsg /\ NoMsg \notin Msg
  BY MsgFacts
<1>2. box[k].task = t
  BY DEF Seen
<1>3. Owns(box, t, rec)
  BY <1>1, <1>2 DEF Owns
<1>4. Traced(box, t, rec)
  BY <1>1 DEF Traced
<1>5. OneLive(box, t, rec)
  BY <1>1 DEF OneLive
<1> QED BY <1>3, <1>4, <1>5 DEF Fits

LEMMA UnsentFits ==
  ASSUME NEW box, NEW t, NEW rec, Sound(rec), Related(rec) = {NoMsg},
         Seen(box, t) = {}
  PROVE  Fits(box, t, rec)
<1>1. Owns(box, t, rec)
  BY MsgFacts DEF Owns
<1>2. Traced(box, t, rec) /\ OneLive(box, t, rec)
  BY DEF Traced, OneLive
<1> QED BY <1>1, <1>2 DEF Fits

LEMMA AssignRefusedKeeps ==
  Brief /\ Coherent /\ AssignRefused => Coherent'
<1> SUFFICES ASSUME Brief, Coherent, AssignRefused PROVE Coherent'
  OBVIOUS
<1> DEFINE now == View
           t == NewTask(now)
<1>1. PICK r \in plan.requests :
        /\ Assignable(now, r) /\ NewTasks(now) # {}
        /\ tasks' = [Journalled(now, t, r) EXCEPT
             ![t].dispatch = "failed", ![t].delivery = "failed",
             ![t].state = "failed"]
        /\ UNCHANGED <<mail, plan, faults>>
  BY DEF AssignRefused
<1> DEFINE rec == Opened(r, "failed", NoMsg, "failed", "failed")
<1>2. t \in Task /\ Seen(mail, t) = {}
  BY <1>1, NewTaskFacts
<1>3. now \in [Task -> TaskRecord \cup {NoTask}]
  BY Section
<1>4. /\ Sound(rec) /\ rec.request = r /\ OpsOf(rec) = {r.op}
      /\ Related(rec) = {NoMsg}
  <2>1. /\ "failed" \in ExecutionStates /\ "failed" \in DeliveryStates
        /\ NoMsg \in Msg \cup {NoMsg}
    BY DEF ExecutionStates, DeliveryStates
  <2>2. r \in Assignment
    BY PlanFacts DEF Coherent
  <2> HIDE DEF t, now
  <2> QED BY <2>1, <2>2, NewRecord
<1>5. tasks' = [now EXCEPT ![t] = rec]
  <2> HIDE DEF t, now
  <2> QED BY <1>1, <1>2, <1>3 DEF Journalled, Opened
<1> HIDE DEF rec
<1>6. Fits(mail, t, rec)
  <2> HIDE DEF t, now
  <2> QED BY <1>2, <1>4, UnsentFits
<1>7. Apart(mail, mail, now, t) /\ \A m \in Msg : mail[m] = mail[m]
  BY DEF Apart
<1>8. Ledger(mail, tasks')
  <2>1. Ledger(mail, [View EXCEPT ![NewTask(View)] = rec])
    BY <1>1, <1>4, <1>6, <1>7, NewSaved
  <2> QED BY <2>1, <1>5
<1> QED BY <1>1, <1>8 DEF Coherent

LEMMA AssignKeeps ==
  Brief /\ Coherent /\ Assign => Coherent'
<1> SUFFICES ASSUME Brief, Coherent, Assign PROVE Coherent'
  OBVIOUS
<1> DEFINE now == View
           t == NewTask(now)
           k == NextMsg
<1>1. PICK r \in plan.requests, far \in {"journal", "queue", "done"} :
        /\ Assignable(now, r) /\ NewTasks(now) # {} /\ Unused # {}
        /\ mail' = IF far = "journal" THEN mail
                   ELSE Enqueue(mail, t, r.agent, r.op)
        /\ tasks' = IF far = "done"
             THEN [Journalled(now, t, r) EXCEPT
                     ![t].dispatch = "sent", ![t].state = "assigned",
                     ![t].delivery = "queued", ![t].msg = k]
             ELSE Journalled(now, t, r)
        /\ IF far = "done" THEN UNCHANGED faults ELSE Died
        /\ UNCHANGED plan
  BY DEF Assign
<1> DEFINE rec == IF far = "done"
                  THEN Opened(r, "assigned", k, "queued", "sent")
                  ELSE Opened(r, "ready", NoMsg, "unknown", "dispatching")
<1>2. t \in Task /\ Seen(mail, t) = {}
  BY <1>1, NewTaskFacts
<1>3. now \in [Task -> TaskRecord \cup {NoTask}]
  BY Section
<1>4. r \in Assignment /\ r.agent \in Agent /\ r.op \in Op \cup {NoOp}
  <2>1. r \in Assignment
    BY PlanFacts DEF Coherent
  <2> QED BY <2>1 DEF Assignment
<1> DEFINE box == Enqueue(mail, t, r.agent, r.op)
<1>5. /\ k \in Msg /\ mail[k] = NoMail
      /\ box[k] \in Envelope
      /\ box[k].status = "pending" /\ box[k].task = t
      /\ box[k].to = r.agent /\ box[k].op = r.op
      /\ \A m \in Msg : m # k => box[m] = mail[m]
      /\ Mailed(box) /\ Once(box)
      /\ Apart(mail, box, now, t)
  <2>1. r.op \notin Assigned(now) \cup Handed(now)
    BY <1>1 DEF Assignable
  <2> QED BY <1>1, <1>2, <1>4, <2>1, Enqueued
<1>6. /\ Sound(rec) /\ rec.request = r /\ OpsOf(rec) = {r.op}
      /\ rec.owner = r.agent /\ rec.dispatch # "failed"
      /\ rec.msg = IF far = "done" THEN k ELSE NoMsg
      /\ Related(rec) = {rec.msg}
  <2>1. /\ "assigned" \in ExecutionStates /\ "queued" \in DeliveryStates
        /\ "ready" \in ExecutionStates /\ "unknown" \in DeliveryStates
        /\ NoMsg \in Msg \cup {NoMsg} /\ k \in Msg \cup {NoMsg}
    BY <1>5 DEF ExecutionStates, DeliveryStates
  <2> HIDE DEF t, now, k
  <2>2. CASE far = "done"
    <3> DEFINE a == Opened(r, "assigned", k, "queued", "sent")
    <3>1. /\ Sound(a) /\ a.request = r /\ OpsOf(a) = {r.op}
          /\ a.owner = r.agent /\ a.dispatch = "sent"
          /\ a.msg = k /\ Related(a) = {k}
      BY <1>4, <2>1, NewRecord
    <3> QED BY <2>2, <3>1
  <2>3. CASE far # "done"
    <3> DEFINE a == Opened(r, "ready", NoMsg, "unknown", "dispatching")
    <3>1. /\ Sound(a) /\ a.request = r /\ OpsOf(a) = {r.op}
          /\ a.owner = r.agent /\ a.dispatch = "dispatching"
          /\ a.msg = NoMsg /\ Related(a) = {NoMsg}
      BY <1>4, <2>1, NewRecord
    <3> QED BY <2>3, <3>1
  <2> QED BY <2>2, <2>3
<1>7. tasks' = [now EXCEPT ![t] = rec]
  <2> HIDE DEF t, now, k
  <2>1. CASE far = "done"
    BY <1>1, <1>2, <1>3, <2>1 DEF Journalled, Opened
  <2>2. CASE far # "done"
    BY <1>1, <1>2, <1>3, <2>2 DEF Journalled, Opened
  <2> QED BY <2>1, <2>2
<1>8. Seen(box, t) = {k}
  <2> HIDE DEF box, t, k, now
  <2> QED BY <1>2, <1>5 DEF Seen
<1> HIDE DEF rec, box, k
<1>9. Fits(mail', t, rec) /\ Apart(mail, mail', now, t)
      /\ \A m \in Msg : mail'[m] = mail[m] \/ mail'[m].op = r.op
  <2>1. CASE far = "journal"
    <3>1. mail' = mail /\ Related(rec) = {NoMsg}
      BY <1>1, <1>6, <2>1
    <3>2. Fits(mail, t, rec)
      BY <1>2, <1>6, <3>1, UnsentFits
    <3> QED BY <3>1, <3>2 DEF Apart
  <2>2. CASE far # "journal"
    <3>1. mail' = box
      BY <1>1, <2>2 DEF box
    <3>2. rec.msg \in {k, NoMsg} /\ Related(rec) \subseteq {k, NoMsg}
      BY <1>6
    <3>3. box[k].to = rec.owner
      BY <1>5, <1>6
    <3>4. Fits(box, t, rec)
      BY <1>5, <1>6, <1>8, <3>2, <3>3, FirstFits
    <3> QED BY <3>1, <3>4, <1>5
  <2> QED BY <2>1, <2>2
<1>10. Ledger(mail', tasks')
  <2>1. Ledger(mail', [View EXCEPT ![NewTask(View)] = rec])
    BY <1>1, <1>6, <1>9, NewSaved
  <2> QED BY <2>1, <1>7
<1>11. Mailed(mail') /\ Once(mail')
  <2>1. Mailed(mail) /\ Once(mail)
    BY DEF Coherent
  <2> QED BY <1>1, <1>5, <2>1 DEF box
<1>12. plan' \in Plans /\ faults' \in 0..MaxFaults
  <2>1. plan \in Plans /\ faults \in 0..MaxFaults
    BY DEF Coherent
  <2>2. MaxFaults \in Nat
    BY LedgerAssumption
  <2> QED BY <1>1, <2>1, <2>2 DEF Died
<1> QED BY <1>10, <1>11, <1>12 DEF Coherent

-----------------------------------------------------------------------------
(***************************************************************************)
(* Reporting.                                                              *)
(***************************************************************************)
\* A report keeps a record sound, with its handoffs, envelope and owner.
LEMMA RecordedSound ==
  ASSUME NEW rec, Sound(rec), ~Undecided(rec),
         NEW next \in Legal(rec.state), NEW actor,
         NEW criteria \in SUBSET Criterion, NEW evidence \in SUBSET Evidence,
         NEW review \in Review,
         review = rec.review \/ review.at = <<Attempt(rec), rec.rounds>>,
         next = "review" => rec.rounds < MaxRounds,
         next = "verified_complete" =>
           /\ criteria # {} /\ review.outcome = "accepted"
           /\ review.reviewer # rec.owner /\ Proven(criteria, evidence)
  PROVE  LET new == Recorded(rec, next, actor, criteria, evidence, review) IN
         /\ Sound(new) /\ new.state = next
         /\ rec.state \notin Terminal /\ next # "ready"
         /\ new.handoffs = rec.handoffs /\ new.msg = rec.msg
         /\ new.request = rec.request /\ new.owner = rec.owner
         /\ new.dispatch = rec.dispatch /\ rec.dispatch # "failed"
<1> DEFINE d == IF actor = rec.owner THEN "acknowledged" ELSE rec.delivery
           v == IF next = "review" THEN NoReview ELSE review
           n == IF next = "review" THEN rec.rounds + 1 ELSE rec.rounds
           new == [rec EXCEPT !.state = next, !.criteria = criteria,
                     !.evidence = evidence, !.delivery = d, !.review = v,
                     !.rounds = n, !.revision = @ + 1]
<1>1. /\ rec \in TaskRecord /\ Founded(rec) /\ Reviewed(rec)
      /\ Len(rec.handoffs) <= MaxHandoffs
      /\ rec.state = "ready" => rec.dispatch = "dispatching"
      /\ rec.dispatch = "failed" => rec.state = "failed"
      /\ \A i \in DOMAIN rec.handoffs :
           rec.handoffs[i].dispatch = "failed" => rec.handoffs[i].msg = NoMsg
  BY DEF Sound
<1>2. /\ rec.state \notin Terminal
      /\ next \in ExecutionStates /\ next # "ready"
  <2>1. rec.state \in ExecutionStates
    BY <1>1 DEF TaskRecord
  <2> QED BY <2>1 DEF Legal, ExecutionStates, Terminal
<1>3. rec.dispatch # "failed"
  BY <1>1, <1>2 DEF Terminal
<1>4. /\ d \in DeliveryStates /\ v \in Review
      /\ n \in 0..MaxRounds /\ rec.revision + 1 \in Nat \ {0}
  <2>1. /\ rec.delivery \in DeliveryStates /\ rec.rounds \in 0..MaxRounds
        /\ rec.revision \in Nat \ {0}
    BY <1>1 DEF TaskRecord
  <2>2. MaxRounds \in Nat /\ NoReview \in Review
    BY LedgerAssumption DEF Review
  <2> QED BY <2>1, <2>2 DEF DeliveryStates
<1>5. Recorded(rec, next, actor, criteria, evidence, review) = new
  BY DEF Recorded
<1> HIDE DEF d, v, n
<1>6. new \in TaskRecord
  BY <1>1, <1>2, <1>4 DEF TaskRecord
<1>7. /\ new.state = next /\ new.criteria = criteria
      /\ new.evidence = evidence /\ new.review = v /\ new.rounds = n
      /\ new.handoffs = rec.handoffs /\ new.msg = rec.msg
      /\ new.request = rec.request /\ new.owner = rec.owner
      /\ new.dispatch = rec.dispatch
  BY <1>1 DEF TaskRecord
<1> HIDE DEF new
<1>8. Founded(new)
  <2>1. new.state = "verified_complete" =>
          /\ new.criteria # {} /\ new.review.outcome = "accepted"
          /\ new.review.reviewer # new.owner
          /\ Proven(new.criteria, new.evidence)
    BY <1>7 DEF v
  <2> QED BY <2>1 DEF Founded, Proven
<1>9. Reviewed(new)
  <2> SUFFICES ASSUME new.review.outcome # "none"
               PROVE  new.review.at = <<Attempt(new), new.rounds>>
    BY <1>7 DEF Reviewed, Undecided
  <2>1. next # "review" /\ new.review = review
    BY <1>7 DEF v, NoReview
  <2>2. Attempt(new) = Attempt(rec) /\ new.rounds = rec.rounds
    BY <1>7, <2>1 DEF Attempt, n
  <2>3. review.at = <<Attempt(rec), rec.rounds>>
    BY <1>1, <2>1 DEF Reviewed
  <2> QED BY <2>1, <2>2, <2>3
<1>10. Sound(new)
  BY <1>1, <1>2, <1>3, <1>6, <1>7, <1>8, <1>9 DEF Sound
<1> QED BY <1>2, <1>3, <1>5, <1>7, <1>10

LEMMA GivenFacts ==
  ASSUME NEW rec, Sound(rec), NEW report \in Report
  PROVE  /\ Given(report.criteria, rec.criteria) \in SUBSET Criterion
         /\ Given(report.evidence, rec.evidence) \in SUBSET Evidence
         /\ GivenReview(rec, report) \in Review
         /\ \/ GivenReview(rec, report) = rec.review
            \/ GivenReview(rec, report).at = <<Attempt(rec), rec.rounds>>
<1>1. /\ rec \in TaskRecord /\ Len(rec.handoffs) <= MaxHandoffs
      /\ rec.criteria \in SUBSET Criterion /\ rec.evidence \in SUBSET Evidence
      /\ rec.review \in Review /\ rec.rounds \in 0..MaxRounds
  BY DEF Sound, TaskRecord
<1>2. /\ report.criteria \subseteq SUBSET Criterion
      /\ report.evidence \subseteq SUBSET Evidence
      /\ report.review \subseteq
           [outcome : {"accepted", "changes_requested"},
            reviewer : Agent \cup {Operator}]
  BY DEF Report
<1>3. /\ Given(report.criteria, rec.criteria) \in SUBSET Criterion
      /\ Given(report.evidence, rec.evidence) \in SUBSET Evidence
  BY <1>1, <1>2 DEF Given
<1>4. CASE report.review = {}
  BY <1>1, <1>3, <1>4 DEF GivenReview
<1>5. CASE report.review # {}
  <2> DEFINE r == CHOOSE x \in report.review : TRUE
             w == [outcome |-> r.outcome, reviewer |-> r.reviewer,
                   at |-> <<Attempt(rec), rec.rounds>>]
  <2>1. r \in report.review
    BY <1>5
  <2>2. r.outcome \in {"accepted", "changes_requested"}
        /\ r.reviewer \in Agent \cup {Operator}
    BY <1>2, <2>1
  <2>3. Attempt(rec) \in 0..MaxHandoffs
    BY <1>1, AttemptType
  <2>4. GivenReview(rec, report) = w
    BY <1>5 DEF GivenReview
  <2> HIDE DEF r
  <2>5. <<Attempt(rec), rec.rounds>> \in (0..MaxHandoffs) \X (0..MaxRounds)
    BY <1>1, <2>3
  <2>6. w \in Review /\ w.at = <<Attempt(rec), rec.rounds>>
    BY <2>2, <2>5 DEF Review
  <2> HIDE DEF w
  <2> QED BY <1>3, <2>4, <2>6
<1> QED BY <1>4, <1>5

\* A report that is accepted changes the record it is about.
LEMMA TransitionKeeps ==
  Brief /\ Coherent /\ Transition => Coherent'
<1> SUFFICES ASSUME Brief, Coherent, Transition PROVE Coherent'
  OBVIOUS
<1> DEFINE now == View
<1>1. PICK t \in Known(View), actor \in Agent \cup {Operator},
           report \in plan.reports : TransitionTaskRecord(t, actor, report)
  BY DEF Transition
<1> DEFINE rec == now[t]
           next == report.next
           criteria == Given(report.criteria, rec.criteria)
           evidence == Given(report.evidence, rec.evidence)
           review == GivenReview(rec, report)
           new == Recorded(rec, next, actor, criteria, evidence, review)
<1>2. /\ t \in Task /\ rec # NoTask /\ Fits(mail, t, rec)
      /\ Ledger(mail, now)
  BY Section DEF Known
<1>3. Sound(rec) /\ report \in Report
  BY <1>2, PlanFacts DEF Fits, Coherent
<1>4. /\ criteria \in SUBSET Criterion /\ evidence \in SUBSET Evidence
      /\ review \in Review
      /\ review = rec.review \/ review.at = <<Attempt(rec), rec.rounds>>
  BY <1>3, GivenFacts
<1>5. /\ ~Undecided(rec) /\ next \in Legal(rec.state)
      /\ next = "review" => rec.rounds < MaxRounds
      /\ next = "verified_complete" =>
           /\ criteria # {} /\ review.outcome = "accepted"
           /\ review.reviewer # rec.owner /\ Proven(criteria, evidence)
      /\ tasks' = [now EXCEPT ![t] = new]
      /\ UNCHANGED <<mail, plan, faults>>
  BY <1>1 DEF TransitionTaskRecord
<1> HIDE DEF rec, next, criteria, evidence, review, now
<1>6. /\ Sound(new) /\ new.state = next
      /\ rec.state \notin Terminal /\ next # "ready"
      /\ new.handoffs = rec.handoffs /\ new.msg = rec.msg
      /\ new.request = rec.request /\ new.owner = rec.owner
      /\ new.dispatch = rec.dispatch /\ rec.dispatch # "failed"
  BY <1>3, <1>4, <1>5, RecordedSound
<1> HIDE DEF new
<1>7. Fits(mail, t, new)
  <2>1. Owns(mail, t, rec) /\ Traced(mail, t, rec) /\ OneLive(mail, t, rec)
    BY <1>2 DEF Fits
  <2>2. Related(new) = Related(rec) /\ (Undecided(new) <=> Undecided(rec))
    BY <1>6 DEF Related, Undecided
  <2>3. Owns(mail, t, new) /\ OneLive(mail, t, new)
    BY <1>6, <2>1, <2>2 DEF Owns, OneLive
  <2>4. Traced(mail, t, new)
    BY <1>6, <2>1 DEF Traced
  <2> QED BY <1>6, <2>3, <2>4 DEF Fits
<1>8. new.state \notin {"failed", "cancelled"} =>
        ~Blocked(now, new.request.dependencies)
  <2>1. rec.state \notin {"failed", "cancelled"}
    BY <1>6 DEF Terminal
  <2>2. ~Blocked(now, rec.request.dependencies)
    BY <1>2, <2>1 DEF Ledger, Rests, rec
  <2> QED BY <1>6, <2>2
<1>9. Ledger(mail, [now EXCEPT ![t] = new])
  <2>1. Apart(mail, mail, now, t)
    BY DEF Apart
  <2>2. now[t].state # "verified_complete"
    BY <1>6 DEF Terminal, rec
  <2>3. now[t] # NoTask => OpsOf(now[t]) \subseteq OpsOf(new)
    BY <1>6 DEF OpsOf, rec
  <2>4. \A m \in Msg : ~(mail[m] # NoMail /\ mail[m].op # NoOp
                         /\ (mail[m] = NoMail \/ mail[m].op # mail[m].op))
    OBVIOUS
  <2> QED BY <1>2, <1>7, <1>8, <2>1, <2>2, <2>3, <2>4, Saved
<1> QED BY <1>5, <1>9 DEF Coherent

-----------------------------------------------------------------------------
(***************************************************************************)
(* Handing over.                                                           *)
(***************************************************************************)
LEMMA AppendFacts ==
  ASSUME NEW s \in Seq(Handoff), NEW e \in Handoff
  PROVE  LET a == Append(s, e)
             n == Len(s) + 1
         IN  /\ a \in Seq(Handoff) /\ Len(a) = n
             /\ n \in Nat /\ DOMAIN a = 1..n /\ n \in DOMAIN a
             /\ a[n] = e
             /\ \A i \in DOMAIN a : i \in DOMAIN s \/ i = n
             /\ \A i \in DOMAIN s : i \in DOMAIN a /\ i # n /\ a[i] = s[i]
OBVIOUS

\* The last handoff is the one a section just added.
LEMMA LastReplaced ==
  ASSUME NEW s \in Seq(Handoff), NEW e \in Handoff, NEW f \in Handoff
  PROVE  [Append(s, e) EXCEPT ![Len(s) + 1] = f] = Append(s, f)
<1> DEFINE a == Append(s, e)
           b == Append(s, f)
           n == Len(s) + 1
           c == [a EXCEPT ![n] = f]
<1>1. /\ a \in Seq(Handoff) /\ DOMAIN a = 1..n /\ n \in Nat
      /\ \A i \in DOMAIN a : i \in DOMAIN s \/ i = n
      /\ \A i \in DOMAIN s : i \in DOMAIN a /\ i # n /\ a[i] = s[i]
  BY AppendFacts
<1>2. /\ b \in Seq(Handoff) /\ DOMAIN b = 1..n
      /\ b[n] = f
      /\ \A i \in DOMAIN s : i \in DOMAIN b /\ i # n /\ b[i] = s[i]
  BY AppendFacts
<1> HIDE DEF a, b, n
<1>3. c = [i \in 1..n |-> IF i = n THEN f ELSE a[i]]
  BY <1>1
<1>4. b = [i \in 1..n |-> b[i]]
  BY <1>2
<1>5. \A i \in 1..n : b[i] = IF i = n THEN f ELSE a[i]
  BY <1>1, <1>2
<1>6. c = b
  BY <1>3, <1>4, <1>5
<1> QED BY <1>6 DEF a, b, n

Passed(rec, h, msg, dispatch) ==
  [op |-> h.op, request |-> h, from |-> rec.msg, msg |-> msg,
   dispatch |-> dispatch]

\* What a handoff makes of a record, once it has an envelope's id.
IsHanded(rec, h, k, state, dispatch, new) ==
  /\ new \in TaskRecord
  /\ new.handoffs = Append(rec.handoffs, Passed(rec, h, k, dispatch))
  /\ new.owner = h.agent /\ new.msg = k
  /\ new.state = state /\ new.dispatch = dispatch
  /\ new.review = NoReview /\ new.request = rec.request

LEMMA PassedType ==
  ASSUME NEW rec \in TaskRecord, NEW h \in Transfer,
         NEW msg \in Msg \cup {NoMsg},
         NEW dispatch \in {"dispatching", "sent", "failed"}
  PROVE  /\ Passed(rec, h, msg, dispatch) \in Handoff
         /\ Passed(rec, h, msg, dispatch).op = h.op
         /\ Passed(rec, h, msg, dispatch).from = rec.msg
         /\ Passed(rec, h, msg, dispatch).msg = msg
         /\ Passed(rec, h, msg, dispatch).dispatch = dispatch
<1>1. h.op \in Op /\ rec.msg \in Msg \cup {NoMsg}
  BY DEF Transfer, TaskRecord
<1> QED BY <1>1 DEF Passed, Handoff

LEMMA TransferredIs ==
  ASSUME NEW rec \in TaskRecord, NEW h \in Transfer, NextMsg \in Msg
  PROVE  LET moved == Transferred(WithHandoff(rec, h, "dispatching"), h) IN
         /\ IsHanded(rec, h, NextMsg, "ready", "dispatching", moved)
         /\ IsHanded(rec, h, NextMsg, "assigned", "sent", Settled(moved))
<1> DEFINE k == NextMsg
           s == rec.handoffs
           n == Len(s) + 1
           e == Passed(rec, h, NoMsg, "dispatching")
           f == Passed(rec, h, k, "dispatching")
           g == Passed(rec, h, k, "sent")
           a == Append(s, e)
           b == Append(s, f)
           c == Append(s, g)
           opened == WithHandoff(rec, h, "dispatching")
           moved == Transferred(opened, h)
           settled == Settled(moved)
<1>1. s \in Seq(Handoff) /\ k \in Msg
  BY DEF TaskRecord
<1>2. e \in Handoff /\ f \in Handoff /\ g \in Handoff
  <2>1. NoMsg \in Msg \cup {NoMsg} /\ k \in Msg \cup {NoMsg}
    OBVIOUS
  <2> HIDE DEF k
  <2> QED BY <2>1, PassedType
<1>3. /\ [e EXCEPT !.msg = k] = f
      /\ [f EXCEPT !.dispatch = "sent"] = g
  BY DEF Passed
<1>4. opened = [rec EXCEPT !.handoffs = a]
  BY DEF WithHandoff, Passed
<1> HIDE DEF e, f, g, s, k
<1>5. /\ a \in Seq(Handoff) /\ Len(a) = n /\ a[n] = e /\ n \in DOMAIN a
      /\ b \in Seq(Handoff) /\ Len(b) = n /\ b[n] = f /\ n \in DOMAIN b
      /\ c \in Seq(Handoff)
  BY <1>1, <1>2, AppendFacts
<1>6. /\ [a EXCEPT ![n] = f] = b
      /\ [b EXCEPT ![n] = g] = c
  BY <1>1, <1>2, LastReplaced
<1> HIDE DEF a, b, c, n
<1>7. opened \in TaskRecord /\ opened.handoffs = a
      /\ opened.request = rec.request
  BY <1>4, <1>5 DEF TaskRecord, s
<1>8. Len(opened.handoffs) = n
  BY <1>5, <1>7
<1> HIDE DEF opened
<1>9. moved = [opened EXCEPT !.handoffs[n].msg = k, !.owner = h.agent,
                 !.msg = k, !.state = "ready", !.delivery = "unknown",
                 !.dispatch = "dispatching", !.review = NoReview,
                 !.revision = @ + 1]
  BY <1>8 DEF Transferred, k
<1>10. moved = [opened EXCEPT !.handoffs = b, !.owner = h.agent,
                  !.msg = k, !.state = "ready", !.delivery = "unknown",
                  !.dispatch = "dispatching", !.review = NoReview,
                  !.revision = @ + 1]
  BY <1>3, <1>5, <1>6, <1>7, <1>9
<1> HIDE DEF moved
<1>11. /\ h.agent \in Agent /\ NoReview \in Review /\ k \in Msg \cup {NoMsg}
       /\ "ready" \in ExecutionStates /\ "assigned" \in ExecutionStates
       /\ "unknown" \in DeliveryStates /\ "queued" \in DeliveryStates
       /\ opened.revision + 1 \in Nat \ {0}
  <2>1. opened.revision \in Nat \ {0}
    BY <1>7 DEF TaskRecord
  <2> QED BY <1>1, <2>1 DEF Transfer, Review, ExecutionStates, DeliveryStates
<1>12. moved \in TaskRecord
  BY <1>5, <1>7, <1>10, <1>11 DEF TaskRecord
<1>13. /\ moved.handoffs = b /\ moved.owner = h.agent /\ moved.msg = k
       /\ moved.state = "ready" /\ moved.dispatch = "dispatching"
       /\ moved.review = NoReview /\ moved.request = rec.request
  BY <1>7, <1>10 DEF TaskRecord
<1> HIDE DEF moved
<1>14. settled = [moved EXCEPT !.handoffs[n].dispatch = "sent",
                    !.dispatch = "sent", !.state = "assigned",
                    !.delivery = "queued"]
  BY <1>5, <1>13 DEF Settled
<1>15. settled = [moved EXCEPT !.handoffs = c,
                    !.dispatch = "sent", !.state = "assigned",
                    !.delivery = "queued"]
  BY <1>3, <1>5, <1>6, <1>12, <1>13, <1>14
<1> HIDE DEF settled
<1>16. settled \in TaskRecord
  BY <1>5, <1>11, <1>12, <1>15 DEF TaskRecord
<1>17. /\ settled.handoffs = c /\ settled.owner = h.agent
       /\ settled.msg = k /\ settled.state = "assigned"
       /\ settled.dispatch = "sent" /\ settled.review = NoReview
       /\ settled.request = rec.request
  BY <1>12, <1>13, <1>15 DEF TaskRecord
<1>18. IsHanded(rec, h, k, "ready", "dispatching", moved)
  BY <1>12, <1>13 DEF IsHanded, b, f, s
<1>19. IsHanded(rec, h, k, "assigned", "sent", settled)
  BY <1>16, <1>17 DEF IsHanded, c, g, s
<1> QED BY <1>18, <1>19 DEF moved, settled, opened, k

\* A record with one handoff more, whatever became of the handoff.
LEMMA HandoffAdded ==
  ASSUME NEW rec, Sound(rec), NEW h \in Transfer,
         NEW msg \in Msg \cup {NoMsg},
         NEW dispatch \in {"dispatching", "sent", "failed"},
         NEW new \in TaskRecord,
         new.handoffs = Append(rec.handoffs, Passed(rec, h, msg, dispatch)),
         new.request = rec.request
  PROVE  LET n == Len(rec.handoffs) + 1
         IN  /\ Len(new.handoffs) = n /\ n \in DOMAIN new.handoffs
             /\ new.handoffs[n].from = rec.msg
             /\ new.handoffs[n].msg = msg
             /\ new.handoffs[n].dispatch = dispatch
             /\ \A i \in DOMAIN new.handoffs : i \in DOMAIN rec.handoffs \/ i = n
             /\ \A i \in DOMAIN rec.handoffs :
                  i \in DOMAIN new.handoffs /\ i # n
                  /\ new.handoffs[i] = rec.handoffs[i]
             /\ OpsOf(new) = OpsOf(rec) \cup {h.op}
             /\ Related(new) \subseteq Related(rec) \cup {msg, new.msg}
             /\ dispatch # "sent" => Attempt(new) = Attempt(rec)
<1> DEFINE n == Len(rec.handoffs) + 1
           e == Passed(rec, h, msg, dispatch)
           s == rec.handoffs
           a == new.handoffs
<1>1. rec \in TaskRecord /\ s \in Seq(Handoff)
  BY DEF Sound, TaskRecord
<1>2. /\ e \in Handoff /\ e.op = h.op /\ e.from = rec.msg /\ e.msg = msg
      /\ e.dispatch = dispatch
  BY <1>1, PassedType
<1> HIDE DEF e
<1>3. a = Append(s, e)
  BY DEF e
<1>4. /\ Len(a) = n /\ n \in DOMAIN a /\ a[n] = e
      /\ \A i \in DOMAIN a : i \in DOMAIN s \/ i = n
      /\ \A i \in DOMAIN s : i \in DOMAIN a /\ i # n /\ a[i] = s[i]
  <2> HIDE DEF a, s
  <2>1. Len(s) + 1 = n
    BY DEF s
  <2> HIDE DEF n
  <2> QED BY <1>1, <1>2, <1>3, <2>1, AppendFacts
<1>5. OpsOf(new) = OpsOf(rec) \cup {h.op}
  <2> HIDE DEF n
  <2>1. {a[i].op : i \in DOMAIN a} = {s[i].op : i \in DOMAIN s} \cup {h.op}
    <3> HIDE DEF a, s
    <3> QED BY <1>2, <1>4
  <2> QED BY <2>1 DEF OpsOf
<1>6. Related(new) \subseteq Related(rec) \cup {msg, new.msg}
  <2> SUFFICES ASSUME NEW m \in Related(new), m # new.msg, m # msg
               PROVE  m \in Related(rec)
    OBVIOUS
  <2>1. PICK i \in DOMAIN a : m = a[i].from \/ m = a[i].msg
    BY DEF Related
  <2>2. CASE i = n
    <3>1. m = rec.msg
      BY <1>2, <1>4, <2>1, <2>2
    <3> QED BY <3>1 DEF Related
  <2>3. CASE i # n
    <3>1. i \in DOMAIN s /\ (m = s[i].from \/ m = s[i].msg)
      BY <1>4, <2>1, <2>3
    <3> QED BY <3>1 DEF Related
  <2> QED BY <2>2, <2>3
<1>7. dispatch # "sent" => Attempt(new) = Attempt(rec)
  <2> SUFFICES ASSUME dispatch # "sent" PROVE Attempt(new) = Attempt(rec)
    OBVIOUS
  <2>1. {i \in DOMAIN a : a[i].dispatch = "sent"}
          = {i \in DOMAIN s : s[i].dispatch = "sent"}
    <3> HIDE DEF a, s, n
    <3> QED BY <1>2, <1>4
  <2> QED BY <2>1 DEF Attempt
<1> QED BY <1>2, <1>4, <1>5, <1>6, <1>7

\* A handoff that is journalled, or refused, and no more.
LEMMA OpenedSound ==
  ASSUME NEW rec, Sound(rec), NEW h \in Transfer,
         NEW dispatch \in {"dispatching", "failed"},
         Len(rec.handoffs) < MaxHandoffs
  PROVE  LET new == WithHandoff(rec, h, dispatch) IN
         /\ Sound(new)
         /\ new.request = rec.request /\ new.state = rec.state
         /\ new.owner = rec.owner /\ new.msg = rec.msg
         /\ new.dispatch = rec.dispatch
         /\ \A i \in DOMAIN rec.handoffs :
              i \in DOMAIN new.handoffs /\ new.handoffs[i] = rec.handoffs[i]
         /\ OpsOf(new) = OpsOf(rec) \cup {h.op}
         /\ Related(new) \subseteq Related(rec) \cup {NoMsg, new.msg}
<1> DEFINE s == rec.handoffs
           n == Len(s) + 1
           e == Passed(rec, h, NoMsg, dispatch)
           new == WithHandoff(rec, h, dispatch)
<1>1. /\ Sound(rec) /\ rec \in TaskRecord /\ Founded(rec) /\ Reviewed(rec)
      /\ Len(s) <= MaxHandoffs
      /\ rec.state = "ready" => rec.dispatch = "dispatching"
      /\ rec.dispatch = "failed" => rec.state = "failed"
      /\ \A i \in DOMAIN s : s[i].dispatch = "failed" => s[i].msg = NoMsg
      /\ s \in Seq(Handoff)
  BY DEF Sound, TaskRecord
<1>2. e \in Handoff
  <2>1. NoMsg \in Msg \cup {NoMsg}
    OBVIOUS
  <2> QED BY <1>1, <2>1, PassedType
<1>3. new = [rec EXCEPT !.handoffs = Append(s, e)]
  BY DEF WithHandoff, Passed
<1>4. Append(s, e) \in Seq(Handoff) /\ Len(Append(s, e)) = n
  <2> HIDE DEF s, e
  <2> QED BY <1>1, <1>2, AppendFacts
<1> HIDE DEF e, new
<1>5. /\ new \in TaskRecord /\ new.handoffs = Append(s, e)
      /\ new.request = rec.request /\ new.state = rec.state
      /\ new.owner = rec.owner /\ new.msg = rec.msg
      /\ new.dispatch = rec.dispatch /\ new.review = rec.review
      /\ new.rounds = rec.rounds /\ new.criteria = rec.criteria
      /\ new.evidence = rec.evidence
  BY <1>1, <1>3, <1>4 DEF TaskRecord
<1>6. /\ Len(new.handoffs) = n /\ n \in DOMAIN new.handoffs
      /\ new.handoffs[n].from = rec.msg /\ new.handoffs[n].msg = NoMsg
      /\ new.handoffs[n].dispatch = dispatch
      /\ \A i \in DOMAIN new.handoffs : i \in DOMAIN s \/ i = n
      /\ \A i \in DOMAIN s :
           i \in DOMAIN new.handoffs /\ i # n /\ new.handoffs[i] = s[i]
      /\ OpsOf(new) = OpsOf(rec) \cup {h.op}
      /\ Related(new) \subseteq Related(rec) \cup {NoMsg, new.msg}
      /\ Attempt(new) = Attempt(rec)
  <2>1. /\ new.handoffs = Append(rec.handoffs, Passed(rec, h, NoMsg, dispatch))
        /\ NoMsg \in Msg \cup {NoMsg}
        /\ dispatch \in {"dispatching", "sent", "failed"}
        /\ dispatch # "sent"
    BY <1>5 DEF e
  <2> QED BY <1>1, <1>5, <2>1, HandoffAdded
<1>7. Sound(new)
  <2>1. Len(new.handoffs) <= MaxHandoffs
    <3>1. MaxHandoffs \in Nat /\ Len(s) \in Nat
      BY <1>1, LedgerAssumption
    <3> QED BY <1>6, <3>1
  <2>2. Founded(new)
    BY <1>1, <1>5 DEF Founded
  <2>3. Reviewed(new)
    BY <1>1, <1>5, <1>6 DEF Reviewed
  <2>4. \A i \in DOMAIN new.handoffs :
          new.handoffs[i].dispatch = "failed" => new.handoffs[i].msg = NoMsg
    BY <1>1, <1>6
  <2> QED BY <1>1, <1>5, <2>1, <2>2, <2>3, <2>4 DEF Sound
<1> QED BY <1>5, <1>6, <1>7 DEF new

LEMMA OpenedFits ==
  ASSUME NEW t, NEW rec, Fits(mail, t, rec), NEW h \in Transfer,
         NEW dispatch \in {"dispatching", "failed"},
         Len(rec.handoffs) < MaxHandoffs
  PROVE  LET new == WithHandoff(rec, h, dispatch) IN
         /\ Fits(mail, t, new)
         /\ OpsOf(new) = OpsOf(rec) \cup {h.op}
         /\ new.request = rec.request /\ new.state = rec.state
<1> DEFINE s == rec.handoffs
           new == WithHandoff(rec, h, dispatch)
<1>1. /\ Sound(new)
      /\ new.request = rec.request /\ new.state = rec.state
      /\ new.owner = rec.owner /\ new.msg = rec.msg
      /\ new.dispatch = rec.dispatch
      /\ \A i \in DOMAIN s :
           i \in DOMAIN new.handoffs /\ new.handoffs[i] = s[i]
      /\ OpsOf(new) = OpsOf(rec) \cup {h.op}
      /\ Related(new) \subseteq Related(rec) \cup {NoMsg, new.msg}
  BY OpenedSound DEF Fits
<1> HIDE DEF new
<1>2. Owns(mail, t, new)
  <2>1. rec.msg \in Related(rec)
    BY DEF Related
  <2> QED BY <1>1, <2>1, MsgFacts DEF Fits, Owns
<1>3. Traced(mail, t, new)
  <2>1. Traced(mail, t, rec)
    BY DEF Fits
  <2>2. \A m : (\E i \in DOMAIN s : s[i].from = m) =>
               (\E i \in DOMAIN new.handoffs : new.handoffs[i].from = m)
    BY <1>1
  <2> QED BY <1>1, <2>1, <2>2 DEF Traced
<1>4. OneLive(mail, t, new)
  <2>1. OneLive(mail, t, rec)
    BY DEF Fits
  <2>2. Undecided(rec) => Undecided(new)
    BY <1>1 DEF Undecided
  <2> QED BY <1>1, <2>1, <2>2 DEF OneLive
<1>5. Fits(mail, t, new)
  BY <1>1, <1>2, <1>3, <1>4 DEF Fits
<1> QED BY <1>1, <1>5 DEF new

LEMMA ReassignRefusedKeeps ==
  Brief /\ Coherent /\ ReassignRefused => Coherent'
<1> SUFFICES ASSUME Brief, Coherent, ReassignRefused PROVE Coherent'
  OBVIOUS
<1> DEFINE now == View
<1>1. PICK h \in plan.handoffs :
        /\ h.task \in Known(now)
        /\ Transferable(now, h)
        /\ tasks' = [now EXCEPT ![h.task] = WithHandoff(@, h, "failed")]
        /\ UNCHANGED <<mail, plan, faults>>
  BY DEF ReassignRefused
<1> DEFINE t == h.task
           rec == now[t]
           new == WithHandoff(rec, h, "failed")
<1>2. /\ t \in Task /\ rec # NoTask /\ Fits(mail, t, rec)
      /\ Ledger(mail, now)
  BY <1>1, Section DEF Known
<1>3. h \in Transfer /\ Len(rec.handoffs) < MaxHandoffs
      /\ rec.state \in {"assigned", "blocked", "review"}
  BY <1>1, PlanFacts DEF Transferable, Coherent
<1>4. tasks' = [now EXCEPT ![t] = new]
  <2>1. now \in [Task -> TaskRecord \cup {NoTask}]
    BY Section
  <2> HIDE DEF now, new
  <2> QED BY <1>1, <1>2, <2>1 DEF new
<1> HIDE DEF rec, now
<1>5. /\ Fits(mail, t, new) /\ OpsOf(new) = OpsOf(rec) \cup {h.op}
      /\ new.request = rec.request /\ new.state = rec.state
  BY <1>2, <1>3, OpenedFits
<1> HIDE DEF new
<1>6. Ledger(mail, [now EXCEPT ![t] = new])
  <2>1. Apart(mail, mail, now, t)
    BY DEF Apart
  <2>2. now[t].state # "verified_complete"
    BY <1>3 DEF rec
  <2>3. now[t] # NoTask => OpsOf(now[t]) \subseteq OpsOf(new)
    BY <1>5 DEF rec
  <2>4. \A m \in Msg : ~(mail[m] # NoMail /\ mail[m].op # NoOp
                         /\ (mail[m] = NoMail \/ mail[m].op # mail[m].op))
    OBVIOUS
  <2>5. ~Blocked(now, new.request.dependencies)
    BY <1>2, <1>3, <1>5 DEF Ledger, Rests, rec
  <2> HIDE DEF t
  <2> QED BY <1>2, <1>5, <2>1, <2>2, <2>3, <2>4, <2>5, Saved
<1> QED BY <1>1, <1>4, <1>6 DEF Coherent

\* The record of the new owner is sound, and knows the former envelope.
LEMMA HandedRecord ==
  ASSUME NEW rec, Sound(rec), NEW h \in Transfer,
         Len(rec.handoffs) < MaxHandoffs, NEW k \in Msg,
         NEW state, NEW dispatch,
         \/ state = "ready" /\ dispatch = "dispatching"
         \/ state = "assigned" /\ dispatch = "sent",
         NEW new, IsHanded(rec, h, k, state, dispatch, new)
  PROVE  /\ Sound(new)
         /\ \E i \in DOMAIN new.handoffs :
              /\ new.handoffs[i].from = rec.msg
              /\ new.handoffs[i].dispatch = dispatch
         /\ \A i \in DOMAIN rec.handoffs :
              i \in DOMAIN new.handoffs /\ new.handoffs[i] = rec.handoffs[i]
         /\ OpsOf(new) = OpsOf(rec) \cup {h.op}
         /\ Related(new) \subseteq Related(rec) \cup {k}
<1> DEFINE s == rec.handoffs
           n == Len(s) + 1
<1>1. /\ rec \in TaskRecord
      /\ \A i \in DOMAIN s : s[i].dispatch = "failed" => s[i].msg = NoMsg
      /\ s \in Seq(Handoff)
  BY DEF Sound, TaskRecord
<1>2. /\ new \in TaskRecord
      /\ new.handoffs = Append(rec.handoffs, Passed(rec, h, k, dispatch))
      /\ new.owner = h.agent /\ new.msg = k
      /\ new.state = state /\ new.dispatch = dispatch
      /\ new.review = NoReview /\ new.request = rec.request
  BY DEF IsHanded
<1>3. dispatch \in {"dispatching", "sent", "failed"} /\ k \in Msg \cup {NoMsg}
  OBVIOUS
<1>4. /\ Len(new.handoffs) = n /\ n \in DOMAIN new.handoffs
      /\ new.handoffs[n].from = rec.msg /\ new.handoffs[n].msg = k
      /\ new.handoffs[n].dispatch = dispatch
      /\ \A i \in DOMAIN new.handoffs : i \in DOMAIN s \/ i = n
      /\ \A i \in DOMAIN s :
           i \in DOMAIN new.handoffs /\ i # n /\ new.handoffs[i] = s[i]
      /\ OpsOf(new) = OpsOf(rec) \cup {h.op}
      /\ Related(new) \subseteq Related(rec) \cup {k, new.msg}
  BY <1>1, <1>2, <1>3, HandoffAdded
<1>5. Sound(new)
  <2>1. Len(new.handoffs) <= MaxHandoffs
    <3>1. MaxHandoffs \in Nat /\ Len(s) \in Nat
      BY <1>1, LedgerAssumption
    <3> QED BY <1>4, <3>1
  <2>2. Founded(new) /\ Reviewed(new)
    BY <1>1, <1>2 DEF Founded, Reviewed, NoReview
  <2>3. \A i \in DOMAIN new.handoffs :
          new.handoffs[i].dispatch = "failed" => new.handoffs[i].msg = NoMsg
    BY <1>1, <1>4
  <2> QED BY <1>2, <2>1, <2>2, <2>3 DEF Sound
<1> QED BY <1>2, <1>4, <1>5

\* A queue that adds at most the new owner's envelope k to those of the task.
Receives(box, t, rec, h, k) ==
  /\ \A m \in Seen(box, t) : m \in Seen(mail, t) \/ m = k
  /\ Owns(box, t, rec)
  /\ box[k] # NoMail => box[k].task = t
  /\ k \in Seen(box, t) => box[k].to = h.agent

\* new is the record rec handed over by h, its new owner's envelope k in box.
Handing(t, rec, h, k, state, dispatch, new, box) ==
  /\ Fits(mail, t, rec) /\ Found(mail, t, rec) /\ ~Undecided(rec)
  /\ h \in Transfer /\ Len(rec.handoffs) < MaxHandoffs /\ k \in Msg
  /\ \/ state = "ready" /\ dispatch = "dispatching"
     \/ state = "assigned" /\ dispatch = "sent"
  /\ IsHanded(rec, h, k, state, dispatch, new)
  /\ Receives(box, t, rec, h, k)

\* The record of the new owner is sound, and traces what it traced and its
\* own envelope.
LEMMA HandedSound ==
  ASSUME NEW t, NEW rec, NEW h, NEW k, NEW state, NEW dispatch, NEW new,
         NEW box, Handing(t, rec, h, k, state, dispatch, new, box)
  PROVE  /\ Sound(new) /\ Owns(box, t, new) /\ Traced(box, t, new)
         /\ OpsOf(new) = OpsOf(rec) \cup {h.op}
         /\ dispatch = "dispatching" => Undecided(new)
<1>0. /\ Fits(mail, t, rec) /\ Found(mail, t, rec) /\ ~Undecided(rec)
      /\ h \in Transfer /\ Len(rec.handoffs) < MaxHandoffs /\ k \in Msg
      /\ \/ state = "ready" /\ dispatch = "dispatching"
         \/ state = "assigned" /\ dispatch = "sent"
      /\ IsHanded(rec, h, k, state, dispatch, new)
      /\ Receives(box, t, rec, h, k)
  BY DEF Handing
<1> USE <1>0
<1> DEFINE s == rec.handoffs
<1>1. new.owner = h.agent /\ new.msg = k /\ k # NoMsg
  BY MsgFacts DEF IsHanded
<1>6. Sound(rec)
  BY DEF Fits
<1>2. /\ Sound(new)
      /\ \E i \in DOMAIN new.handoffs :
           /\ new.handoffs[i].from = rec.msg
           /\ new.handoffs[i].dispatch = dispatch
      /\ \A i \in DOMAIN s :
           i \in DOMAIN new.handoffs /\ new.handoffs[i] = s[i]
      /\ OpsOf(new) = OpsOf(rec) \cup {h.op}
      /\ Related(new) \subseteq Related(rec) \cup {k}
  <2> HIDE <1>0
  <2>1. /\ h \in Transfer /\ Len(rec.handoffs) < MaxHandoffs /\ k \in Msg
        /\ IsHanded(rec, h, k, state, dispatch, new)
        /\ \/ state = "ready" /\ dispatch = "dispatching"
           \/ state = "assigned" /\ dispatch = "sent"
    BY <1>0
  <2> QED BY <1>6, <2>1, HandedRecord
<1>3. Owns(box, t, new)
  BY <1>2 DEF Owns, Receives
<1>4. Traced(box, t, new)
  <2> SUFFICES ASSUME NEW m \in Seen(box, t)
               PROVE  /\ k = m => box[m].to = h.agent
                      /\ \/ k = m
                         \/ \E i \in DOMAIN new.handoffs :
                              new.handoffs[i].from = m
    BY <1>1 DEF Traced
  <2>1. CASE m = k
    BY <2>1 DEF Receives
  <2>2. CASE m # k
    <3>1. m \in Seen(mail, t) /\ rec.msg # NoMsg
      BY <2>2 DEF Found, Receives
    <3>2. rec.msg = m \/ \E i \in DOMAIN s : s[i].from = m
      BY <3>1 DEF Fits, Traced
    <3> QED BY <2>2, <3>2, <1>2
  <2> QED BY <2>1, <2>2
<1>5. dispatch = "dispatching" => Undecided(new)
  BY <1>2 DEF Undecided
<1> QED BY <1>2, <1>3, <1>4, <1>5

\* An envelope that was there is still of the request it was of.
SameOp(old, new, m) == old[m] # NoMail /\ new[m].op = old[m].op

\* The queue after a handoff: the former envelope is cancelled.
LEMMA RequeuedFacts ==
  ASSUME Brief, Coherent, Unused # {}, NEW t \in Task, NEW rec,
         rec = View[t], rec # NoTask, NEW h \in Transfer, h.task = t,
         h.op \notin Assigned(View) \cup Handed(View),
         \A m \in Related(rec) \cap Msg : mail[m].status # "in_flight"
  PROVE  LET box == Requeued(rec, h)
             k == NextMsg
         IN  /\ Mailed(box) /\ Once(box) /\ Apart(mail, box, View, t)
             /\ k \in Msg /\ k \in Seen(box, t)
             /\ box[k].to = h.agent /\ box[k].op = h.op
             /\ Seen(box, t) \subseteq Seen(mail, t) \cup {k}
             /\ \A m \in Seen(box, t) :
                  m # k /\ Live(box[m]) => Live(mail[m]) /\ m # rec.msg
             /\ \A m \in Msg : m # k => box[m] = mail[m] \/ SameOp(mail, box, m)
<1> DEFINE k == NextMsg
           q == Enqueue(mail, t, h.agent, h.op)
           box == Requeued(rec, h)
           old == rec.msg
           now == View
<1>1. h.agent \in Agent /\ h.op \in Op \cup {NoOp}
  BY DEF Transfer
<1>2. /\ k \in Msg /\ mail[k] = NoMail
      /\ \A u \in Task : now[u] # NoTask => k \notin Related(now[u])
      /\ q[k] \in Envelope
      /\ q[k].status = "pending" /\ q[k].task = t
      /\ q[k].to = h.agent /\ q[k].op = h.op
      /\ \A m \in Msg : m # k => q[m] = mail[m]
      /\ Mailed(q) /\ Once(q)
      /\ Apart(mail, q, now, t)
  BY <1>1, Enqueued
<1>3. old \in Related(rec) /\ k # old
  BY <1>2 DEF Related
<1>4. old # NoMsg => old \in Msg
  <2>1. rec \in TaskRecord
    BY Section
  <2> QED BY <2>1 DEF TaskRecord
<1>5. Mailed(mail) /\ Once(mail)
  BY DEF Coherent
<1>6. Owns(mail, t, rec)
  BY Section DEF Fits
<1> DEFINE cancelled == old # NoMsg /\ mail[old].status = "pending"
           e == [mail[old] EXCEPT !.status = "rejected"]
<1>7. box = IF cancelled THEN [q EXCEPT ![old].status = "rejected"] ELSE q
  BY DEF Requeued
<1>8. cancelled => /\ mail[old] \in Envelope /\ mail[old] # NoMail
                   /\ mail[old].task = t /\ old \in Msg
                   /\ e \in Envelope /\ e.status = "rejected"
                   /\ e.task = t /\ e.to = mail[old].to /\ e.op = mail[old].op
                   /\ e # NoMail
  <2> SUFFICES ASSUME cancelled
               PROVE  /\ mail[old] \in Envelope /\ mail[old] # NoMail
                      /\ mail[old].task = t /\ old \in Msg
                      /\ e \in Envelope /\ e.status = "rejected"
                      /\ e.task = t /\ e.to = mail[old].to
                      /\ e.op = mail[old].op /\ e # NoMail
    OBVIOUS
  <2>1. old \in Msg /\ mail[old].status = "pending"
    BY <1>4
  <2>2. mail[old] # NoMail /\ mail[old] \in Envelope
    BY <1>5, <2>1 DEF Mailed, NoMail
  <2>3. mail[old].task = t
    BY <1>3, <1>6, <2>1, <2>2 DEF Owns
  <2>4. /\ e \in Envelope /\ e.status = "rejected"
        /\ e.task = mail[old].task /\ e.to = mail[old].to
        /\ e.op = mail[old].op
    BY <2>2 DEF Envelope
  <2>5. e # NoMail
    BY <2>4 DEF NoMail
  <2> QED BY <2>1, <2>2, <2>3, <2>4, <2>5
<1> HIDE DEF q, k, box, old, now
<1>9. /\ box[k] = q[k]
      /\ \A m \in Msg : m # k =>
           box[m] = IF cancelled /\ m = old THEN e ELSE mail[m]
      /\ Mailed(box)
  <2>1. CASE cancelled
    <3>1. q[old] = mail[old]
      BY <1>2, <1>3, <1>8, <2>1
    <3>2. box = [q EXCEPT ![old] = e]
      BY <1>7, <2>1, <3>1
    <3> HIDE DEF e, cancelled
    <3> QED BY <1>2, <1>3, <1>8, <2>1, <3>2 DEF Mailed
  <2>2. CASE ~cancelled
    BY <1>2, <1>7, <2>2
  <2> QED BY <2>1, <2>2
<1> HIDE DEF e
<1>10. Once(box)
  <2>1. \A m \in Msg : /\ box[m] # NoMail <=> q[m] # NoMail
                       /\ box[m] # NoMail => box[m].op = q[m].op
    <3> HIDE DEF cancelled
    <3> QED BY <1>2, <1>8, <1>9
  <2> QED BY <1>2, <2>1 DEF Once
<1>11. Apart(mail, box, now, t)
  <2> SUFFICES ASSUME NEW m \in Msg
               PROVE  \/ box[m] = mail[m]
                      \/ /\ box[m] # NoMail /\ box[m].task = t
                         /\ \/ mail[m] # NoMail /\ mail[m].task = t
                            \/ /\ mail[m] = NoMail
                               /\ \A u \in Task :
                                    now[u] # NoTask => m \notin Related(now[u])
    BY DEF Apart
  <2>1. CASE m = k
    <3>1. q[k] # NoMail
      BY <1>2 DEF NoMail
    <3> QED BY <1>2, <1>9, <2>1, <3>1
  <2>2. CASE m # k
    <3> HIDE DEF cancelled
    <3> QED BY <1>8, <1>9, <2>2
  <2> QED BY <2>1, <2>2
<1>12. k \in Seen(box, t)
  BY <1>2, <1>9 DEF Seen
<1>13. Seen(box, t) \subseteq Seen(mail, t) \cup {k}
  <2> SUFFICES ASSUME NEW m \in Seen(box, t), m # k
               PROVE  m \in Seen(mail, t)
    OBVIOUS
  <2>1. m \in Msg /\ box[m].status \notin {"none", "gone"} /\ box[m].task = t
    BY DEF Seen
  <2>2. CASE cancelled /\ m = old
    BY <1>8, <2>1, <2>2 DEF Seen
  <2>3. CASE ~(cancelled /\ m = old)
    <3>1. box[m] = mail[m]
      BY <1>9, <2>1, <2>3
    <3> QED BY <2>1, <3>1 DEF Seen
  <2> QED BY <2>2, <2>3
<1>14. ASSUME NEW m \in Seen(box, t), m # k, Live(box[m])
       PROVE  Live(mail[m]) /\ m # old
  <2>1. m \in Msg
    BY DEF Seen
  <2>2. ~(cancelled /\ m = old)
    BY <1>8, <1>9, <1>14, <2>1 DEF Live
  <2>3. box[m] = mail[m]
    BY <1>9, <1>14, <2>1, <2>2
  <2>4. m # old
    <3> SUFFICES ASSUME m = old PROVE FALSE
      OBVIOUS
    <3>1. m # NoMsg
      BY <2>1, MsgFacts
    <3>2. mail[m].status # "in_flight"
      BY <1>3, <2>1
    <3> QED BY <1>14, <2>2, <2>3, <3>1, <3>2 DEF Live
  <2> QED BY <1>14, <2>3, <2>4
<1>15. \A m \in Msg : m # k => box[m] = mail[m] \/ SameOp(mail, box, m)
  <2> HIDE DEF cancelled
  <2> QED BY <1>8, <1>9 DEF SameOp
<1> QED BY <1>2, <1>9, <1>10, <1>11, <1>12, <1>13, <1>14, <1>15
        DEF k, box, old, now

LEMMA ReassignKeeps ==
  Brief /\ Coherent /\ Reassign => Coherent'
<1> SUFFICES ASSUME Brief, Coherent, Reassign PROVE Coherent'
  OBVIOUS
<1> DEFINE now == View
           k == NextMsg
<1>1. PICK h \in plan.handoffs, far \in {"journal", "owner", "queue", "done"} :
        /\ h.task \in Known(now)
        /\ Transferable(now, h)
        /\ Unused # {}
        /\ tasks' = [now EXCEPT ![h.task] =
             CASE far = "journal" -> WithHandoff(now[h.task], h, "dispatching")
               [] far = "done" ->
                    Settled(Transferred(WithHandoff(now[h.task], h,
                                                    "dispatching"), h))
               [] OTHER ->
                    Transferred(WithHandoff(now[h.task], h, "dispatching"), h)]
        /\ mail' = IF far \in {"queue", "done"}
                   THEN Requeued(now[h.task], h) ELSE mail
        /\ IF far = "done" THEN UNCHANGED faults ELSE Died
        /\ UNCHANGED plan
  BY DEF Reassign
<1> DEFINE t == h.task
           rec == now[t]
           opened == WithHandoff(rec, h, "dispatching")
           moved == Transferred(opened, h)
           box == Requeued(rec, h)
           new == CASE far = "journal" -> opened
                    [] far = "done"    -> Settled(moved)
                    [] OTHER           -> moved
<1>2. /\ t \in Task /\ rec # NoTask /\ Fits(mail, t, rec)
      /\ Found(mail, t, rec) /\ Ledger(mail, now)
  BY <1>1, Section DEF Known
<1>3. /\ h \in Transfer /\ Len(rec.handoffs) < MaxHandoffs
      /\ rec.state \in {"assigned", "blocked", "review"}
      /\ ~Undecided(rec)
      /\ h.op \notin Assigned(now) \cup Handed(now)
      /\ \A m \in Related(rec) \cap Msg : mail[m].status # "in_flight"
  BY <1>1, PlanFacts DEF Transferable, Coherent
<1>4. rec \in TaskRecord /\ tasks' = [now EXCEPT ![t] = new]
      /\ mail' = IF far \in {"queue", "done"} THEN box ELSE mail
  BY <1>1, <1>2 DEF Fits, Sound
<1>5. /\ Mailed(box) /\ Once(box) /\ Apart(mail, box, now, t)
      /\ k \in Msg /\ k \in Seen(box, t)
      /\ box[k].to = h.agent /\ box[k].op = h.op
      /\ Seen(box, t) \subseteq Seen(mail, t) \cup {k}
      /\ \A m \in Seen(box, t) :
           m # k /\ Live(box[m]) => Live(mail[m]) /\ m # rec.msg
      /\ \A m \in Msg : m # k => box[m] = mail[m] \/ SameOp(mail, box, m)
  BY <1>1, <1>2, <1>3, RequeuedFacts
<1>6. /\ mail[k] = NoMail /\ k \notin Related(rec)
  <2>1. h.agent \in Agent /\ h.op \in Op \cup {NoOp}
    BY <1>3 DEF Transfer
  <2>2. /\ mail[k] = NoMail
        /\ \A u \in Task : now[u] # NoTask => k \notin Related(now[u])
    BY <1>1, <1>2, <1>3, <2>1, Enqueued
  <2> QED BY <1>2, <2>2
<1>7. /\ Fits(mail, t, opened) /\ OpsOf(opened) = OpsOf(rec) \cup {h.op}
      /\ opened.request = rec.request /\ opened.state = rec.state
  BY <1>2, <1>3, OpenedFits
<1>8. /\ IsHanded(rec, h, k, "ready", "dispatching", moved)
      /\ IsHanded(rec, h, k, "assigned", "sent", Settled(moved))
  BY <1>3, <1>4, <1>5, TransferredIs
<1> DEFINE settled == Settled(moved)
<1> HIDE DEF now, rec, opened, moved, settled, box, k, t
<1>9. Owns(mail, t, rec) /\ OneLive(mail, t, rec)
  BY <1>2 DEF Fits
<1>10. \A m \in Seen(mail, t) : Live(mail[m]) => m = rec.msg
  BY <1>2, <1>3, <1>9 DEF OneLive, Found
<1>11. Fits(mail, t, moved) /\ OpsOf(moved) = OpsOf(rec) \cup {h.op}
  <2>1. k \notin Seen(mail, t) /\ Seen(mail, t) \subseteq Seen(mail, t) \cup {k}
    BY <1>6 DEF Seen, NoMail
  <2>2. Owns(mail, t, rec) /\ (mail[k] # NoMail => mail[k].task = t)
    BY <1>6, <1>9
  <2>3. /\ Sound(moved) /\ Owns(mail, t, moved) /\ Traced(mail, t, moved)
        /\ OpsOf(moved) = OpsOf(rec) \cup {h.op}
        /\ Undecided(moved)
    <3>1. Receives(mail, t, rec, h, k)
      BY <2>1, <2>2 DEF Receives
    <3>2. Handing(t, rec, h, k, "ready", "dispatching", moved, mail)
      BY <1>2, <1>3, <1>5, <1>8, <3>1 DEF Handing
    <3> QED BY <3>2, HandedSound
  <2>4. moved.msg = k /\ moved.dispatch = "dispatching"
    BY <1>8 DEF IsHanded
  <2>5. OneLive(mail, t, moved)
    BY <1>9, <2>1, <2>3, <2>4 DEF OneLive
  <2> QED BY <2>3, <2>4, <2>5 DEF Fits
<1>12. Owns(box, t, rec) /\ (box[k] # NoMail => box[k].task = t)
  <2>1. box[k].task = t
    BY <1>5 DEF Seen
  <2>2. \A m \in Related(rec) :
          m # k /\ m \in Msg /\ box[m] # NoMail => box[m].task = t
    BY <1>5, <1>9 DEF Apart, Owns
  <2> QED BY <1>6, <2>1, <2>2 DEF Owns
<1>13. \A m \in Seen(box, t) : Live(box[m]) => m = k
  BY <1>5, <1>10
<1>14. ASSUME NEW y, NEW state, NEW dispatch,
              IsHanded(rec, h, k, state, dispatch, y),
              \/ state = "ready" /\ dispatch = "dispatching"
              \/ state = "assigned" /\ dispatch = "sent"
       PROVE  Fits(box, t, y) /\ OpsOf(y) = OpsOf(rec) \cup {h.op}
  <2>1. /\ Sound(y) /\ Owns(box, t, y) /\ Traced(box, t, y)
        /\ OpsOf(y) = OpsOf(rec) \cup {h.op}
    <3>1. Receives(box, t, rec, h, k)
      BY <1>5, <1>12 DEF Receives
    <3>2. Handing(t, rec, h, k, state, dispatch, y, box)
      BY <1>2, <1>3, <1>5, <1>14, <3>1 DEF Handing
    <3> QED BY <3>2, HandedSound
  <2>2. y.msg = k /\ y.dispatch # "failed"
    BY <1>14 DEF IsHanded
  <2>3. OneLive(box, t, y)
    BY <1>13, <2>2 DEF OneLive
  <2> QED BY <2>1, <2>2, <2>3 DEF Fits
<1>15. /\ Fits(mail', t, new) /\ OpsOf(new) = OpsOf(rec) \cup {h.op}
       /\ new.request = rec.request
       /\ Apart(mail, mail', now, t) /\ Mailed(mail') /\ Once(mail')
       /\ \A m \in Msg : m # k => mail'[m] = mail[m] \/ SameOp(mail, mail', m)
       /\ mail'[k] = mail[k] \/ mail'[k].op = h.op
  <2>1. Mailed(mail) /\ Once(mail) /\ Apart(mail, mail, now, t)
    BY DEF Coherent, Apart
  <2>2. moved.request = rec.request /\ settled.request = rec.request
    BY <1>8 DEF IsHanded, settled
  <2>3. CASE far = "journal"
    <3>1. mail' = mail /\ new = opened
      BY <1>4, <2>3
    <3> HIDE DEF new
    <3> QED BY <1>7, <2>1, <3>1
  <2>4. CASE far = "owner"
    <3>1. mail' = mail /\ new = moved
      BY <1>4, <2>4
    <3> HIDE DEF new
    <3> QED BY <1>11, <2>1, <2>2, <3>1
  <2>5. CASE far = "queue"
    <3>1. mail' = box /\ new = moved
      BY <1>4, <2>5
    <3>2. Fits(box, t, moved) /\ OpsOf(moved) = OpsOf(rec) \cup {h.op}
      BY <1>8, <1>14
    <3> HIDE DEF new
    <3> QED BY <1>5, <2>2, <3>1, <3>2
  <2>6. CASE far = "done"
    <3>1. mail' = box /\ new = settled
      BY <1>4, <2>6 DEF settled
    <3>2. Fits(box, t, settled) /\ OpsOf(settled) = OpsOf(rec) \cup {h.op}
      BY <1>8, <1>14 DEF settled
    <3> HIDE DEF new
    <3> QED BY <1>5, <2>2, <3>1, <3>2
  <2> QED BY <2>3, <2>4, <2>5, <2>6
<1> HIDE DEF new
<1>16. Ledger(mail', [now EXCEPT ![t] = new])
  <2>1. now[t].state # "verified_complete"
    BY <1>3 DEF rec
  <2>2. now[t] # NoTask => OpsOf(now[t]) \subseteq OpsOf(new)
    BY <1>15 DEF rec
  <2>3. \A m \in Msg :
          /\ mail'[m] # NoMail /\ mail'[m].op # NoOp
          /\ mail[m] = NoMail \/ mail'[m].op # mail[m].op
          => mail'[m].task = t /\ mail'[m].op \in OpsOf(new)
    <3>1. ASSUME NEW m \in Msg, mail'[m] # NoMail,
                 mail[m] = NoMail \/ mail'[m].op # mail[m].op
          PROVE  mail'[m].task = t /\ mail'[m].op \in OpsOf(new)
      <4>1. mail'[m] # mail[m]
        BY <3>1
      <4>2. m = k /\ mail'[m].op = h.op
        BY <1>15, <3>1, <4>1 DEF SameOp
      <4>3. mail'[m].task = t
        BY <1>15, <4>1 DEF Apart
      <4> QED BY <1>15, <4>2, <4>3
    <3> QED BY <3>1
  <2>4. ~Blocked(now, new.request.dependencies)
    BY <1>2, <1>3, <1>15 DEF Ledger, Rests, rec
  <2> QED BY <1>2, <1>15, <2>1, <2>2, <2>3, <2>4, Saved
<1>17. plan' \in Plans /\ faults' \in 0..MaxFaults
  <2>1. plan \in Plans /\ faults \in 0..MaxFaults
    BY DEF Coherent
  <2>2. MaxFaults \in Nat
    BY LedgerAssumption
  <2> QED BY <1>1, <2>1, <2>2 DEF Died
<1> QED BY <1>4, <1>15, <1>16, <1>17 DEF Coherent

-----------------------------------------------------------------------------
(***************************************************************************)
(* What holds whatever became of the journal, also once a record was saved *)
(* that no load accepts.                                                   *)
(***************************************************************************)
Base ==
  /\ Mailed(mail) /\ Based(tasks)
  /\ plan \in Plans
  /\ faults \in 0..MaxFaults
  /\ dropped \in BOOLEAN
  /\ Overlong => dropped

\* A section saves the record of one task, which was not at its end.
SavesOne ==
  \E t \in Task : \E rec :
    /\ tasks' = [View EXCEPT ![t] = rec]
    /\ Sound(rec)
    /\ View[t].state \notin Terminal
    /\ rec.state \notin {"failed", "cancelled"} =>
         ~Blocked(View, rec.request.dependencies)
    /\ rec.request.channel \in LongChannel => dropped'

\* The rest of a step: the mail, the faults, and that what is dropped stays so.
Aside ==
  /\ Mailed(mail') /\ plan' = plan /\ faults' \in 0..MaxFaults
  /\ dropped' \in BOOLEAN /\ (dropped => dropped')

LEMMA BaseView ==
  ASSUME Base
  PROVE  /\ Based(View)
         /\ View \in [Task -> TaskRecord \cup {NoTask}]
         /\ \A t \in Task : View[t] # NoTask =>
              Sound(View[t]) /\ View[t].request.channel \notin LongChannel
         /\ \A t \in Task : t \in Known(View) <=> View[t] # NoTask
<1>1. /\ Based(View) /\ View \in [Task -> TaskRecord \cup {NoTask}]
      /\ \A t \in Task : View[t] # NoTask =>
           Sound(View[t]) /\ View[t].request.channel \notin LongChannel
  BY ViewBased DEF Base, Based
<1>2. ASSUME NEW t \in Task
      PROVE  t \in Known(View) <=> View[t] # NoTask
  <2>1. View[t] \in TaskRecord \cup {NoTask}
    BY <1>1
  <2>2. NoTask.state = "none"
    BY DEF NoTask
  <2>3. View[t] \in TaskRecord => View[t].state # "none"
    BY RecordFacts
  <2> QED BY <2>1, <2>2, <2>3 DEF Known
<1> QED BY <1>1, <1>2

LEMMA SavesOneKeeps ==
  ASSUME Base, SavesOne, Aside
  PROVE  Base'
<1>1. PICK t \in Task : \E rec :
        /\ tasks' = [View EXCEPT ![t] = rec] /\ Sound(rec)
        /\ View[t].state \notin Terminal
        /\ rec.state \notin {"failed", "cancelled"} =>
             ~Blocked(View, rec.request.dependencies)
        /\ rec.request.channel \in LongChannel => dropped'
  BY DEF SavesOne
<1>2. PICK rec :
        /\ tasks' = [View EXCEPT ![t] = rec] /\ Sound(rec)
        /\ View[t].state \notin Terminal
        /\ rec.state \notin {"failed", "cancelled"} =>
             ~Blocked(View, rec.request.dependencies)
        /\ rec.request.channel \in LongChannel => dropped'
  BY <1>1
<1> DEFINE now == View
<1>3. /\ Based(now) /\ now \in [Task -> TaskRecord \cup {NoTask}]
      /\ \A u \in Task : now[u] # NoTask =>
           Sound(now[u]) /\ now[u].request.channel \notin LongChannel
  BY BaseView
<1>4. now[t].state # "verified_complete"
  BY <1>2 DEF Terminal
<1>5. /\ tasks' = [now EXCEPT ![t] = rec] /\ rec \in TaskRecord
      /\ rec.state \notin {"failed", "cancelled"} =>
           ~Blocked(now, rec.request.dependencies)
  BY <1>2 DEF Sound
<1> HIDE DEF now
<1>6. \A u \in Task : tasks'[u] = IF u = t THEN rec ELSE now[u]
  BY <1>3, <1>5
<1>7. Rests(tasks')
  BY <1>3, <1>4, <1>5, RestsSaved DEF Based
<1>8. Based(tasks')
  BY <1>2, <1>3, <1>5, <1>6, <1>7 DEF Based
<1>9. Overlong' => dropped'
  <2> SUFFICES ASSUME NEW u \in Task, tasks'[u].state # "none",
                      tasks'[u].request.channel \in LongChannel
               PROVE  dropped'
    BY DEF Overlong, Known
  <2>1. CASE u = t
    BY <1>2, <1>6, <2>1
  <2>2. CASE u # t
    BY <1>3, <1>6, <2>2 DEF NoTask
  <2> QED BY <2>1, <2>2
<1> QED BY <1>8, <1>9 DEF Base, Aside

LEMMA EnqueuedMailed ==
  ASSUME Mailed(mail), Unused # {}, NEW t \in Task, NEW a \in Agent,
         NEW o \in Op \cup {NoOp}
  PROVE  /\ NextMsg \in Msg
         /\ Mailed(Enqueue(mail, t, a, o))
         /\ \A m \in Msg : Enqueue(mail, t, a, o)[m] = mail[m]
                           \/ Enqueue(mail, t, a, o)[m] \in Envelope
<1> DEFINE k == NextMsg
           e == [status |-> "pending", task |-> t, to |-> a, op |-> o,
                 replied |-> FALSE]
<1>1. k \in Msg
  <2>1. Unused \in SUBSET Msg
    BY DEF Unused
  <2> QED BY <2>1, FirstFacts DEF NextMsg
<1>2. e \in Envelope
  BY DEF Envelope
<1>3. Enqueue(mail, t, a, o) = [mail EXCEPT ![k] = e]
  BY DEF Enqueue
<1> HIDE DEF e, k
<1>4. [mail EXCEPT ![k] = e] \in [Msg -> Envelope \cup {NoMail}]
      /\ \A m \in Msg : [mail EXCEPT ![k] = e][m] = mail[m]
                        \/ [mail EXCEPT ![k] = e][m] \in Envelope
  BY <1>1, <1>2 DEF Mailed
<1> QED BY <1>1, <1>3, <1>4 DEF Mailed, k

LEMMA RequeuedMailed ==
  ASSUME Mailed(mail), Unused # {}, NEW rec \in TaskRecord,
         NEW h \in Transfer
  PROVE  NextMsg \in Msg /\ Mailed(Requeued(rec, h))
<1> DEFINE box == Enqueue(mail, h.task, h.agent, h.op)
<1>1. h.task \in Task /\ h.agent \in Agent /\ h.op \in Op \cup {NoOp}
      /\ rec.msg \in Msg \cup {NoMsg}
  BY DEF Transfer, TaskRecord
<1>2. /\ NextMsg \in Msg /\ Mailed(box)
      /\ \A m \in Msg : box[m] = mail[m] \/ box[m] \in Envelope
  BY <1>1, EnqueuedMailed
<1>3. CASE rec.msg # NoMsg /\ mail[rec.msg].status = "pending"
  <2>1. Requeued(rec, h) = [box EXCEPT ![rec.msg].status = "rejected"]
    BY <1>3 DEF Requeued
  <2> HIDE DEF box
  <2>2. mail[rec.msg] \in Envelope
    BY <1>1, <1>3 DEF Mailed, NoMail
  <2>3. box[rec.msg] \in Envelope
    BY <1>1, <1>2, <1>3, <2>2
  <2>4. [box[rec.msg] EXCEPT !.status = "rejected"] \in Envelope
    BY <2>3 DEF Envelope
  <2> DEFINE e == [box[rec.msg] EXCEPT !.status = "rejected"]
  <2>5. Requeued(rec, h) = [box EXCEPT ![rec.msg] = e]
    BY <2>1
  <2> HIDE DEF e
  <2>6. e \in Envelope
    BY <2>4 DEF e
  <2> QED BY <1>1, <1>2, <2>5, <2>6 DEF Mailed
<1>4. CASE ~(rec.msg # NoMsg /\ mail[rec.msg].status = "pending")
  BY <1>2, <1>4 DEF Requeued
<1> QED BY <1>2, <1>3, <1>4

LEMMA MailMailed == Mailed(mail) /\ (MailMoves \/ Replies) => Mailed(mail')
<1> SUFFICES ASSUME Mailed(mail), MailMoves \/ Replies PROVE Mailed(mail')
  OBVIOUS
<1>1. CASE MailMoves
  <2>1. PICK m \in Msg :
          \E next \in Moves(mail[m].status) :
            mail' = [mail EXCEPT ![m].status = next]
    BY <1>1 DEF MailMoves
  <2>2. PICK next \in Moves(mail[m].status) :
          mail' = [mail EXCEPT ![m].status = next]
    BY <2>1
  <2>3. mail[m] \in Envelope
    BY DEF Mailed, NoMail, Moves
  <2>4. next \in {"pending", "in_flight", "delivered", "failed", "rejected",
                  "stale", "gone"}
    <3>1. Refusals \subseteq {"rejected", "stale", "failed"}
      BY LedgerAssumption
    <3>2. CASE mail[m].status = "pending"
      BY <2>2, <3>1, <3>2 DEF Moves
    <3>3. CASE mail[m].status = "in_flight"
      BY <2>2, <3>1, <3>3 DEF Moves
    <3>4. CASE mail[m].status \in {"delivered", "failed", "rejected", "stale"}
      BY <2>2, <3>4 DEF Moves
    <3> QED BY <2>2, <3>2, <3>3, <3>4 DEF Moves
  <2> DEFINE e == [mail[m] EXCEPT !.status = next]
  <2>5. e \in Envelope
    BY <2>3, <2>4 DEF Envelope
  <2>6. mail' = [mail EXCEPT ![m] = e]
    BY <2>2
  <2> HIDE DEF e
  <2> QED BY <2>5, <2>6 DEF Mailed
<1>2. CASE Replies
  <2>1. PICK m \in Msg : /\ mail[m].status \in {"in_flight", "delivered"}
                         /\ mail' = [mail EXCEPT ![m].replied = TRUE]
    BY <1>2 DEF Replies
  <2> DEFINE e == [mail[m] EXCEPT !.replied = TRUE]
  <2>2. mail[m] \in Envelope
    BY <2>1 DEF Mailed, NoMail
  <2>3. e \in Envelope
    BY <2>2 DEF Envelope
  <2>4. mail' = [mail EXCEPT ![m] = e]
    BY <2>1
  <2> HIDE DEF e
  <2> QED BY <2>3, <2>4 DEF Mailed
<1> QED BY <1>1, <1>2

LEMMA FaultsType ==
  ASSUME Base, Died \/ UNCHANGED faults
  PROVE  faults' \in 0..MaxFaults
<1>1. faults \in 0..MaxFaults /\ MaxFaults \in Nat
  BY LedgerAssumption DEF Base
<1> QED BY <1>1 DEF Died

\* The task an assignment opens.
LEMMA FreshTask ==
  ASSUME Base, NewTasks(View) # {}
  PROVE  LET t == NewTask(View) IN
         t \in Task /\ View[t] = NoTask /\ View[t].state \notin Terminal
<1> DEFINE t == NewTask(View)
<1>1. t \in NewTasks(View)
  BY DEF NewTask
<1> HIDE DEF t
<1>2. t \in Task /\ View[t] = NoTask
  BY <1>1, BaseView DEF NewTasks
<1> QED BY <1>2 DEF t, NoTask, Terminal

LEMMA AssignBase ==
  ASSUME Base, Assign \/ AssignRefused
  PROVE  SavesOne /\ Aside
<1> DEFINE now == View
           t == NewTask(now)
<1>1. PICK r \in plan.requests, state \in {"ready", "assigned", "failed"},
           msg \in Msg \cup {NoMsg}, delivery \in DeliveryStates,
           dispatch \in {"dispatching", "sent", "failed"} :
        /\ Assignable(now, r) /\ NewTasks(now) # {}
        /\ state = "ready" => dispatch = "dispatching"
        /\ dispatch = "failed" => state = "failed"
        /\ tasks' = [now EXCEPT ![t] = Opened(r, state, msg, delivery, dispatch)]
        /\ Mailed(mail')
        /\ Died \/ UNCHANGED faults
        /\ Drops(r) /\ UNCHANGED plan
  <2>0. now \in [Task -> TaskRecord \cup {NoTask}] /\ Mailed(mail)
        /\ NoMsg \in Msg \cup {NoMsg}
        /\ {"unknown", "queued", "failed"} \subseteq DeliveryStates
    BY BaseView DEF Base, DeliveryStates
  <2>1. CASE Assign
    <3>1. PICK r \in plan.requests, far \in {"journal", "queue", "done"} :
            /\ Assignable(now, r) /\ NewTasks(now) # {} /\ Unused # {}
            /\ mail' = IF far = "journal" THEN mail
                       ELSE Enqueue(mail, t, r.agent, r.op)
            /\ tasks' = IF far = "done"
                 THEN [Journalled(now, t, r) EXCEPT
                         ![t].dispatch = "sent", ![t].state = "assigned",
                         ![t].delivery = "queued", ![t].msg = NextMsg]
                 ELSE Journalled(now, t, r)
            /\ IF far = "done" THEN UNCHANGED faults ELSE Died
            /\ Drops(r) /\ UNCHANGED plan
      BY <2>1 DEF Assign
    <3>2. t \in Task
      BY <3>1, FreshTask
    <3>3. r.agent \in Agent /\ r.op \in Op \cup {NoOp}
      <4>1. r \in Assignment
        BY PlanFacts DEF Base
      <4> QED BY <4>1 DEF Assignment
    <3>4. NextMsg \in Msg \cup {NoMsg} /\ Mailed(mail')
      BY <2>0, <3>1, <3>2, <3>3, EnqueuedMailed
    <3> HIDE DEF t, now
    <3>5. CASE far = "done"
      <4>1. tasks' = [now EXCEPT ![t] =
                        Opened(r, "assigned", NextMsg, "queued", "sent")]
        BY <2>0, <3>1, <3>2, <3>5 DEF Journalled, Opened
      <4> QED BY <2>0, <3>1, <3>4, <3>5, <4>1
    <3>6. CASE far # "done"
      <4>1. tasks' = [now EXCEPT ![t] =
                        Opened(r, "ready", NoMsg, "unknown", "dispatching")]
        BY <2>0, <3>1, <3>2, <3>6 DEF Journalled, Opened
      <4> QED BY <2>0, <3>1, <3>4, <3>6, <4>1
    <3> QED BY <3>5, <3>6
  <2>2. CASE AssignRefused
    <3>1. PICK r \in plan.requests :
            /\ Assignable(now, r) /\ NewTasks(now) # {}
            /\ tasks' = [Journalled(now, t, r) EXCEPT
                 ![t].dispatch = "failed", ![t].delivery = "failed",
                 ![t].state = "failed"]
            /\ Drops(r)
            /\ UNCHANGED <<mail, plan, faults>>
      BY <2>2 DEF AssignRefused
    <3>2. t \in Task
      BY <3>1, FreshTask
    <3> HIDE DEF t, now
    <3>3. tasks' = [now EXCEPT ![t] =
                      Opened(r, "failed", NoMsg, "failed", "failed")]
      BY <2>0, <3>1, <3>2 DEF Journalled, Opened
    <3> QED BY <2>0, <3>1, <3>3
  <2> QED BY <2>1, <2>2
<1> DEFINE rec == Opened(r, state, msg, delivery, dispatch)
<1>2. r \in Assignment /\ state \in ExecutionStates /\ state # "verified_complete"
  BY PlanFacts DEF Base, ExecutionStates
<1>3. Sound(rec) /\ rec.request = r
  BY <1>1, <1>2, NewRecord
<1>4. t \in Task /\ View[t].state \notin Terminal
  BY <1>1, FreshTask
<1>5. ~Blocked(View, r.dependencies)
  BY <1>1 DEF Assignable
<1>6. dropped' \in BOOLEAN /\ (dropped => dropped')
      /\ (r.channel \in LongChannel => dropped')
  BY <1>1 DEF Drops
<1>7. tasks' = [View EXCEPT ![t] = rec]
  BY <1>1
<1> HIDE DEF t, rec
<1>8. SavesOne
  BY <1>3, <1>4, <1>5, <1>6, <1>7 DEF SavesOne
<1>9. Aside
  BY <1>1, <1>6, FaultsType DEF Aside
<1> QED BY <1>8, <1>9

LEMMA TransitionBase ==
  ASSUME Base, Transition
  PROVE  SavesOne /\ Aside
<1> DEFINE now == View
<1>1. PICK t \in Known(View), actor \in Agent \cup {Operator},
           report \in plan.reports : TransitionTaskRecord(t, actor, report)
  BY DEF Transition
<1> DEFINE rec == now[t]
           next == report.next
           criteria == Given(report.criteria, rec.criteria)
           evidence == Given(report.evidence, rec.evidence)
           review == GivenReview(rec, report)
           new == Recorded(rec, next, actor, criteria, evidence, review)
<1>2. /\ t \in Task /\ rec # NoTask /\ Sound(rec) /\ Rests(now)
      /\ rec.request.channel \notin LongChannel
  BY BaseView DEF Known, Based
<1>3. report \in Report
  BY PlanFacts DEF Base
<1>4. /\ criteria \in SUBSET Criterion /\ evidence \in SUBSET Evidence
      /\ review \in Review
      /\ review = rec.review \/ review.at = <<Attempt(rec), rec.rounds>>
  BY <1>2, <1>3, GivenFacts
<1>5. /\ ~Undecided(rec) /\ next \in Legal(rec.state)
      /\ next = "review" => rec.rounds < MaxRounds
      /\ next = "verified_complete" =>
           /\ criteria # {} /\ review.outcome = "accepted"
           /\ review.reviewer # rec.owner /\ Proven(criteria, evidence)
      /\ tasks' = [now EXCEPT ![t] = new]
      /\ UNCHANGED <<mail, plan, faults, dropped>>
  BY <1>1 DEF TransitionTaskRecord
<1> HIDE DEF rec, next, criteria, evidence, review, now
<1>6. /\ Sound(new) /\ new.state = next
      /\ rec.state \notin Terminal /\ next # "ready"
      /\ new.handoffs = rec.handoffs /\ new.msg = rec.msg
      /\ new.request = rec.request /\ new.owner = rec.owner
      /\ new.dispatch = rec.dispatch /\ rec.dispatch # "failed"
  BY <1>2, <1>4, <1>5, RecordedSound
<1> HIDE DEF new
<1>7. ~Blocked(now, new.request.dependencies)
  BY <1>2, <1>6 DEF Rests, Terminal, rec
<1>8. SavesOne
  BY <1>2, <1>5, <1>6, <1>7 DEF SavesOne, rec, now
<1>9. Aside
  BY <1>5 DEF Aside, Base
<1> QED BY <1>8, <1>9

LEMMA ReassignBase ==
  ASSUME Base, Reassign \/ ReassignRefused
  PROVE  SavesOne /\ Aside
<1> DEFINE now == View
<1>0. /\ now \in [Task -> TaskRecord \cup {NoTask}]
      /\ Based(now) /\ Mailed(mail)
  BY BaseView DEF Base
<1>9. \E h \in plan.handoffs : \E new :
        /\ h.task \in Known(now) /\ Transferable(now, h)
        /\ Sound(new) /\ new.request = now[h.task].request
        /\ tasks' = [now EXCEPT ![h.task] = new]
        /\ Mailed(mail')
        /\ Died \/ UNCHANGED faults
        /\ UNCHANGED <<plan, dropped>>
  <2>1. CASE Reassign
    <3>1. PICK h \in plan.handoffs, far \in {"journal", "owner", "queue", "done"} :
            /\ h.task \in Known(now)
            /\ Transferable(now, h)
            /\ Unused # {}
            /\ tasks' = [now EXCEPT ![h.task] =
                 CASE far = "journal" -> WithHandoff(now[h.task], h, "dispatching")
                   [] far = "done" ->
                        Settled(Transferred(WithHandoff(now[h.task], h,
                                                        "dispatching"), h))
                   [] OTHER ->
                        Transferred(WithHandoff(now[h.task], h, "dispatching"), h)]
            /\ mail' = IF far \in {"queue", "done"}
                       THEN Requeued(now[h.task], h) ELSE mail
            /\ IF far = "done" THEN UNCHANGED faults ELSE Died
            /\ UNCHANGED <<plan, dropped>>
      BY <2>1 DEF Reassign
    <3> DEFINE rec == now[h.task]
               opened == WithHandoff(rec, h, "dispatching")
               moved == Transferred(opened, h)
               settled == Settled(moved)
    <3>2. h \in Transfer /\ Len(rec.handoffs) < MaxHandoffs
      BY <3>1, PlanFacts DEF Transferable, Base
    <3>3. h.task \in Task /\ Sound(rec) /\ rec \in TaskRecord
      BY <3>1, BaseView DEF Known, Sound
    <3>4. NextMsg \in Msg /\ Mailed(mail')
      BY <1>0, <3>1, <3>2, <3>3, RequeuedMailed
    <3>5. Sound(opened) /\ opened.request = rec.request
      BY <3>2, <3>3, OpenedSound
    <3>6. /\ IsHanded(rec, h, NextMsg, "ready", "dispatching", moved)
          /\ IsHanded(rec, h, NextMsg, "assigned", "sent", settled)
      BY <3>2, <3>3, <3>4, TransferredIs
    <3> HIDE DEF rec, opened, moved, settled
    <3>7. Sound(moved) /\ moved.request = rec.request
      <4>1. Sound(moved)
        BY <3>2, <3>3, <3>4, <3>6, HandedRecord
      <4> QED BY <3>6, <4>1 DEF IsHanded
    <3>8. Sound(settled) /\ settled.request = rec.request
      <4>1. Sound(settled)
        BY <3>2, <3>3, <3>4, <3>6, HandedRecord
      <4> QED BY <3>6, <4>1 DEF IsHanded
    <3>9. \/ tasks' = [now EXCEPT ![h.task] = opened]
          \/ tasks' = [now EXCEPT ![h.task] = moved]
          \/ tasks' = [now EXCEPT ![h.task] = settled]
      BY <3>1 DEF rec, opened, moved, settled
    <3> HIDE DEF now
    <3> QED BY <3>1, <3>4, <3>5, <3>7, <3>8, <3>9 DEF rec
  <2>2. CASE ReassignRefused
    <3>1. PICK h \in plan.handoffs :
            /\ h.task \in Known(now)
            /\ Transferable(now, h)
            /\ tasks' = [now EXCEPT ![h.task] = WithHandoff(@, h, "failed")]
            /\ UNCHANGED <<mail, plan, faults, dropped>>
      BY <2>2 DEF ReassignRefused
    <3> DEFINE rec == now[h.task]
               opened == WithHandoff(rec, h, "failed")
    <3>2. h \in Transfer /\ Len(rec.handoffs) < MaxHandoffs
      BY <3>1, PlanFacts DEF Transferable, Base
    <3>3. h.task \in Task /\ Sound(rec)
      BY <3>1, BaseView DEF Known
    <3>4. Sound(opened) /\ opened.request = rec.request
      BY <3>2, <3>3, OpenedSound
    <3>5. tasks' = [now EXCEPT ![h.task] = opened]
      BY <1>0, <3>1, <3>3
    <3> HIDE DEF opened, now
    <3> QED BY <1>0, <3>1, <3>4, <3>5
  <2> QED BY <2>1, <2>2
<1>10. PICK h \in plan.handoffs : \E new :
        /\ h.task \in Known(now) /\ Transferable(now, h)
        /\ Sound(new) /\ new.request = now[h.task].request
        /\ tasks' = [now EXCEPT ![h.task] = new]
        /\ Mailed(mail')
        /\ Died \/ UNCHANGED faults
        /\ UNCHANGED <<plan, dropped>>
  BY <1>9
<1>1. PICK new :
        /\ h.task \in Known(now) /\ Transferable(now, h)
        /\ Sound(new) /\ new.request = now[h.task].request
        /\ tasks' = [now EXCEPT ![h.task] = new]
        /\ Mailed(mail')
        /\ Died \/ UNCHANGED faults
        /\ UNCHANGED <<plan, dropped>>
  BY <1>10
<1> DEFINE t == h.task
           rec == now[t]
<1>2. /\ t \in Task /\ rec # NoTask /\ rec.request.channel \notin LongChannel
  BY <1>1, BaseView DEF Known
<1>3. rec.state \in {"assigned", "blocked", "review"}
  BY <1>1 DEF Transferable
<1>4. ~Blocked(now, rec.request.dependencies)
  BY <1>1 DEF Transferable
<1>5. rec.state \notin Terminal
  BY <1>3 DEF Terminal
<1>6. tasks' = [View EXCEPT ![t] = new] /\ new.request = View[t].request
  BY <1>1
<1> HIDE DEF t
<1>7. SavesOne
  BY <1>1, <1>2, <1>4, <1>5, <1>6 DEF SavesOne
<1>8. Aside
  BY <1>1, FaultsType DEF Aside, Base
<1> QED BY <1>7, <1>8

\* What a step does to the records.
LEMMA BaseStep ==
  ASSUME Base, [Next]_vars
  PROVE  /\ SavesOne \/ tasks' = tasks
         /\ Aside
         /\ Base'
<1>1. CASE Assign \/ AssignRefused \/ Transition \/ Reassign \/ ReassignRefused
  <2>1. SavesOne /\ Aside
    BY <1>1, AssignBase, TransitionBase, ReassignBase
  <2> QED BY <2>1, SavesOneKeeps
<1>2. CASE MailMoves \/ Replies
  <2>1. Mailed(mail') /\ UNCHANGED <<tasks, plan, faults, dropped>>
    BY <1>2, MailMailed DEF MailMoves, Replies, Base
  <2> QED BY <2>1 DEF Base, Aside, Overlong, Known
<1>3. CASE UNCHANGED vars
  BY <1>3 DEF vars, Base, Aside, Overlong, Known
<1> QED BY <1>1, <1>2, <1>3 DEF Next

-----------------------------------------------------------------------------
(***************************************************************************)
(* The theorems.                                                           *)
(***************************************************************************)
IInv == Base /\ (~dropped => Coherent)

LEMMA InitHolds == Init => IInv
<1> SUFFICES ASSUME Init PROVE IInv
  OBVIOUS
<1> DEFINE Earlier ==
             {[status |-> "pending", task |-> t, to |-> a, op |-> NoOp,
               replied |-> FALSE] : t \in plan.old, a \in Agent}
<1>1. /\ plan \in Plans /\ tasks = [t \in Task |-> NoTask] /\ faults = 0
      /\ \E old \in IF plan.old = {} THEN {NoMail} ELSE Earlier :
           mail = [m \in Msg |-> IF m = 1 THEN old ELSE NoMail]
  BY DEF Init
<1>2. plan.old \subseteq Task
  BY <1>1, LedgerAssumption DEF Plan
<1>3. PICK old :
        /\ old = NoMail \/ (old \in Envelope /\ old.op = NoOp)
        /\ mail = [m \in Msg |-> IF m = 1 THEN old ELSE NoMail]
  <2>1. ASSUME NEW e \in Earlier
        PROVE  e \in Envelope /\ e.op = NoOp
    <3>1. PICK t \in plan.old, a \in Agent :
            e = [status |-> "pending", task |-> t, to |-> a, op |-> NoOp,
                 replied |-> FALSE]
      OBVIOUS
    <3>2. t \in Task /\ a \in Agent /\ NoOp \in Op \cup {NoOp}
      BY <1>2
    <3> QED BY <3>1, <3>2 DEF Envelope
  <2> HIDE DEF Earlier
  <2> DEFINE Os == IF plan.old = {} THEN {NoMail} ELSE Earlier
  <2>2. \A e \in Os : e = NoMail \/ (e \in Envelope /\ e.op = NoOp)
    BY <2>1
  <2>3. \E old \in Os : mail = [m \in Msg |-> IF m = 1 THEN old ELSE NoMail]
    BY <1>1
  <2> HIDE DEF Os
  <2> QED BY <2>2, <2>3
<1>4. Mailed(mail)
  BY <1>3 DEF Mailed
<1>5. Once(mail)
  BY <1>3 DEF Once
<1>6. \A m \in Msg : mail[m] # NoMail => m = 1 /\ mail[m].op = NoOp
  BY <1>3
<1>7. AllFit(mail, tasks)
  BY <1>1, <1>6 DEF AllFit, Seen, NoMail
<1>8. Journal(mail, tasks)
  BY <1>6 DEF Journal
<1>9. Rests(tasks)
  BY <1>1 DEF Rests
<1>10. faults \in 0..MaxFaults
  <2>1. MaxFaults \in Nat
    BY LedgerAssumption
  <2> QED BY <1>1, <2>1
<1>11. Coherent
  BY <1>1, <1>4, <1>5, <1>7, <1>8, <1>9, <1>10 DEF Coherent, Ledger
<1>12. Base
  <2>1. dropped = FALSE
    BY DEF Init
  <2>2. ~Overlong
    <3>1. \A t \in Task : tasks[t].state = "none"
      <4>1. \A t \in Task : tasks[t] = NoTask
        BY <1>1
      <4>2. NoTask.state = "none"
        BY DEF NoTask
      <4> QED BY <4>1, <4>2
    <3> QED BY <3>1 DEF Overlong, Known
  <2>3. Based(tasks)
    BY <1>1, <1>9 DEF Based
  <2>4. plan \in Plans
    BY <1>1
  <2>5. dropped \in BOOLEAN
    BY <2>1
  <2> QED BY <1>4, <1>10, <2>2, <2>3, <2>4, <2>5, Zenon DEF Base
<1> QED BY <1>11, <1>12 DEF IInv

LEMMA StepKeeps == IInv /\ [Next]_vars => IInv'
<1> SUFFICES ASSUME IInv, [Next]_vars PROVE IInv'
  OBVIOUS
<1>1. Base' /\ Aside
  BY BaseStep DEF IInv
<1>2. ASSUME ~dropped' PROVE Coherent'
  <2>1. ~dropped
    BY <1>1, <1>2 DEF Aside
  <2>2. Coherent /\ Brief
    BY <2>1 DEF IInv, Base, Brief
  <2>3. CASE UNCHANGED vars
    BY <2>2, <2>3 DEF vars, Coherent
  <2> QED BY <2>2, <2>3, AssignKeeps, AssignRefusedKeeps, TransitionKeeps,
             ReassignKeeps, ReassignRefusedKeeps, MailMovesKeeps, RepliesKeeps
          DEF Next
<1> QED BY <1>1, <1>2 DEF IInv

\* The inductive invariant: every record is sound, and until one was saved
\* that no load accepts, every record and every envelope of its task fit
\* together, wherever the last section ended.
THEOREM InductiveInvariant == Spec => []IInv
<1>1. IInv /\ [Next]_vars => IInv'
  BY StepKeeps
<1> QED BY InitHolds, <1>1, PTL DEF Spec

\* A request id puts at most one envelope in a queue, however often it is
\* repeated and wherever the section that served it died, and an envelope
\* that was queued is found again by the record it belongs to, until an
\* assignment to an overlong channel dropped the journal.
THEOREM EveryEnvelopeAccounted == Spec => []MailAccounted
<1>1. IInv => MailAccounted
  <2> SUFFICES ASSUME IInv PROVE MailAccounted
    OBVIOUS
  <2>1. TypeOK
    BY DEF IInv, Base, Based, TypeOK, Mailed
  <2>2. ASSUME ~dropped PROVE SentOnce
    <3>0. Coherent
      BY <2>2 DEF IInv
    <3> SUFFICES ASSUME NEW o \in Op
                 PROVE  Cardinality({m \in Msg : mail[m] # NoMail
                                                 /\ mail[m].op = o}) <= 1
      BY DEF SentOnce
    <3> DEFINE S == {m \in Msg : mail[m] # NoMail /\ mail[m].op = o}
    <3>1. o # NoOp
      BY LedgerAssumption
    <3>2. \A m, n \in S : m = n
      BY <3>0, <3>1 DEF Coherent, Once
    <3> HIDE DEF S
    <3>3. Cardinality(S) <= 1
      BY <3>2, AtMostOne
    <3> QED BY <3>3 DEF S
  <2>3. ASSUME ~dropped PROVE EnvelopesRecovered
    <3>0. Coherent /\ Brief
      BY <2>3 DEF IInv, Base, Brief
    <3> SUFFICES ASSUME NEW m \in Msg, Visible(m)
                 PROVE  LET rec == View[mail[m].task]
                        IN  \/ /\ rec.msg = m
                               /\ rec.owner = mail[m].to
                               /\ rec.dispatch \in {"sent", "legacy"}
                               /\ rec.state # "ready"
                               /\ \A i \in DOMAIN rec.handoffs :
                                    rec.handoffs[i].msg = m =>
                                      rec.handoffs[i].dispatch = "sent"
                            \/ \E i \in DOMAIN rec.handoffs :
                                 rec.handoffs[i].from = m
      BY DEF EnvelopesRecovered
    <3> DEFINE t == mail[m].task
               rec == View[t]
    <3>1. m \in Seen(mail, t)
      BY DEF Seen, Visible
    <3>2. t \in Task
      BY <3>0, <3>1, SeenEnvelope DEF Coherent, Envelope
    <3>3. Fits(mail, t, rec) /\ Found(mail, t, rec)
      BY <3>0, <3>1, <3>2, Section
    <3> HIDE DEF rec, t
    <3>4. rec.msg # NoMsg /\ Traced(mail, t, rec)
      BY <3>1, <3>3 DEF Fits, Found
    <3>5. CASE rec.msg = m
      <4>1. mail[m].to = rec.owner
        BY <3>1, <3>4, <3>5 DEF Traced
      <4>2. /\ rec.dispatch \in {"sent", "legacy"} /\ rec.state # "ready"
            /\ \A i \in DOMAIN rec.handoffs :
                 rec.handoffs[i].msg = m => rec.handoffs[i].dispatch = "sent"
        BY <3>1, <3>3, <3>5 DEF Found
      <4> QED BY <4>1, <4>2, <3>5 DEF rec, t
    <3>6. CASE rec.msg # m
      <4>1. \E i \in DOMAIN rec.handoffs : rec.handoffs[i].from = m
        BY <3>1, <3>4, <3>6 DEF Traced
      <4> QED BY <4>1 DEF rec, t
    <3> QED BY <3>5, <3>6
  <2> QED BY <2>1, <2>2, <2>3 DEF MailAccounted
<1>2. IInv /\ [Next]_vars => IInv'
  BY StepKeeps
<1> QED BY <1>1, <1>2, InitHolds, PTL DEF Spec

\* At most one envelope of a task is under way to a worker, until an
\* assignment to an overlong channel dropped the journal.
THEOREM OneLiveEnvelopeEach == Spec => []OneLiveEnvelope
<1>1. IInv => OneLiveEnvelope
  <2> SUFFICES ASSUME IInv, ~dropped, NEW t \in Task
               PROVE  Cardinality({m \in About(t) :
                        mail[m].status \in {"pending", "in_flight"}}) <= 1
    BY DEF OneLiveEnvelope
  <2> DEFINE S == {m \in About(t) : mail[m].status \in {"pending", "in_flight"}}
  <2>0. Coherent /\ Brief
    BY DEF IInv, Base, Brief
  <2>1. \A m, n \in S : m = n
    <3>1. CASE View[t] = NoTask
      BY <2>0, <3>1, Section, SeenFacts
    <3>2. CASE View[t] # NoTask
      <4>1. OneLive(mail, t, View[t])
        BY <2>0, <3>2, Section DEF Fits
      <4> QED BY <4>1, SeenFacts DEF OneLive, Live
    <3> QED BY <3>1, <3>2
  <2> HIDE DEF S
  <2>2. Cardinality(S) <= 1
    BY <2>1, AtMostOne
  <2> QED BY <2>2 DEF S
<1>2. IInv /\ [Next]_vars => IInv'
  BY StepKeeps
<1> QED BY <1>1, <1>2, InitHolds, PTL DEF Spec

\* Completed work was reviewed by someone else in its last round, after its
\* last handoff, and rests on completed work, in every ledger begun.
THEOREM EveryCompletionEarned == Spec => []CompletionEarned
<1>1. Base => CompletionEarned
  <2> SUFFICES ASSUME Base, NEW t \in Known(View)
               PROVE  LET rec == View[t]
                      IN  /\ rec.state = "verified_complete" =>
                               /\ rec.review.at = <<Attempt(rec), rec.rounds>>
                               /\ rec.review.reviewer # rec.owner
                               /\ Proven(rec.criteria, rec.evidence)
                          /\ rec.state \in ExecutionStates
                                           \ {"failed", "cancelled"} =>
                               ~Blocked(View, rec.request.dependencies)
    BY DEF CompletionEarned
  <2> DEFINE rec == View[t]
  <2>1. t \in Task /\ rec # NoTask /\ Sound(rec) /\ Rests(View)
    BY BaseView DEF Known, Based
  <2>2. rec.state \notin {"failed", "cancelled"} =>
          ~Blocked(View, rec.request.dependencies)
    BY <2>1 DEF Rests
  <2> HIDE DEF rec
  <2>3. Founded(rec) /\ Reviewed(rec)
    BY <2>1 DEF Sound
  <2>4. rec.state = "verified_complete" =>
          /\ rec.review.at = <<Attempt(rec), rec.rounds>>
          /\ rec.review.reviewer # rec.owner
          /\ Proven(rec.criteria, rec.evidence)
    BY <2>3 DEF Founded, Reviewed, Proven
  <2> QED BY <2>2, <2>4 DEF rec
<1>2. IInv => Base
  BY DEF IInv
<1>3. IInv /\ [Next]_vars => IInv'
  BY StepKeeps
<1> QED BY <1>1, <1>2, <1>3, InitHolds, PTL DEF Spec

\* What a reader sees of what is in a file that loads: every task, and at
\* its end.
Shown ==
  ~Overlong =>
    \A t \in Task : tasks[t] # NoTask =>
      View[t] # NoTask
      /\ (tasks[t].state \in Terminal => View[t].state = tasks[t].state)

LEMMA BaseShows == Base => Shown
<1> SUFFICES ASSUME Base, ~Overlong, NEW t \in Task, tasks[t] # NoTask
             PROVE  View[t] # NoTask
                    /\ (tasks[t].state \in Terminal =>
                          View[t].state = tasks[t].state)
  BY DEF Shown
<1>1. View[t] # NoTask
      /\ (View[t].state = tasks[t].state \/ tasks[t].state = "ready")
  BY ViewBased DEF Base, Brief
<1>2. "ready" \notin Terminal
  BY DEF Terminal
<1> QED BY <1>1, <1>2

LEMMA StepShows ==
  ASSUME Base, ~Overlong, [Next]_vars, NEW t \in Task, tasks[t] # NoTask
  PROVE  /\ tasks'[t] # NoTask
         /\ tasks[t].state \in Terminal => tasks'[t].state = tasks[t].state
<1>1. CASE tasks' = tasks
  BY <1>1
<1>2. CASE SavesOne
  <2>0. PICK u \in Task :
          \E rec : /\ tasks' = [View EXCEPT ![u] = rec]
                   /\ Sound(rec) /\ View[u].state \notin Terminal
    BY <1>2 DEF SavesOne
  <2>1. PICK rec : /\ tasks' = [View EXCEPT ![u] = rec]
                   /\ Sound(rec) /\ View[u].state \notin Terminal
    BY <2>0
  <2>2. /\ View \in [Task -> TaskRecord \cup {NoTask}] /\ View[t] # NoTask
        /\ tasks[t].state \in Terminal => View[t].state = tasks[t].state
    BY BaseView, BaseShows DEF Shown
  <2>3. rec # NoTask
    BY <2>1, RecordFacts DEF Sound
  <2> QED BY <2>1, <2>2, <2>3
<1> QED BY <1>1, <1>2, BaseStep

\* No step loses a task of the ledger or reopens one at its end, whatever
\* save was its last, but for an assignment to an overlong channel.
THEOREM NothingLost == Spec => LedgerKept
<1>1. IInv => Base /\ Shown
  BY BaseShows DEF IInv
<1>2. Base /\ Shown' /\ [Next]_vars =>
        [~Overlong /\ ~Overlong' =>
           \A t \in Task : tasks[t] # NoTask =>
             /\ View'[t] # NoTask
             /\ tasks[t].state \in Terminal =>
                  View'[t].state = tasks[t].state]_vars
  <2> SUFFICES ASSUME Base, Shown', [Next]_vars, ~Overlong, ~Overlong',
                      NEW t \in Task, tasks[t] # NoTask
               PROVE  /\ View'[t] # NoTask
                      /\ tasks[t].state \in Terminal =>
                           View'[t].state = tasks[t].state
    OBVIOUS
  <2>1. /\ tasks'[t] # NoTask
        /\ tasks[t].state \in Terminal => tasks'[t].state = tasks[t].state
    BY StepShows
  <2>2. /\ View'[t] # NoTask
        /\ tasks'[t].state \in Terminal => View'[t].state = tasks'[t].state
    BY <2>1 DEF Shown
  <2> QED BY <2>1, <2>2
<1>3. IInv /\ [Next]_vars => IInv'
  BY StepKeeps
<1> QED BY <1>1, <1>2, <1>3, InitHolds, PTL DEF Spec, LedgerKept
=============================================================================
