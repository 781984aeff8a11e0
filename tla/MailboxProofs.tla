--------------------------- MODULE MailboxProofs ---------------------------
(***************************************************************************)
(* Facts about the operators of Mailbox, for every value of its constants. *)
(* Each operation keeps the state sound: typed, and with pending mail      *)
(* exactly the queued mail.  The later sections say what an operation may  *)
(* do to an envelope, as relations between the state before and after it   *)
(* that are closed under composition.                                      *)
(***************************************************************************)
EXTENDS Mailbox, FiniteSetTheorems, SequenceTheorems, TLAPS

-----------------------------------------------------------------------------
(***************************************************************************)
(* Subsequences.                                                           *)
(***************************************************************************)
Rank(K, i) == Cardinality({j \in K : j <= i})

\* The rank of an index counts from one and tells two indices apart.
LEMMA RankFacts ==
  ASSUME NEW n \in Nat, NEW K \in SUBSET (1..n)
  PROVE  /\ IsFiniteSet(K)
         /\ Cardinality(K) \in Nat
         /\ \A i \in K : Rank(K, i) \in 1..Cardinality(K)
         /\ \A i, j \in K : Rank(K, i) = Rank(K, j) => i = j
<1>0. \A i \in K : i \in Int
  OBVIOUS
<1>1. IsFiniteSet(K) /\ Cardinality(K) \in Nat
  <2>1. IsFiniteSet(1..n)
    BY FS_Interval
  <2>2. IsFiniteSet(K)
    BY <2>1, FS_Subset
  <2> QED BY <2>2, FS_CardinalityType
<1>2. ASSUME NEW i \in K
      PROVE  Rank(K, i) \in 1..Cardinality(K)
  <2> DEFINE below == {j \in K : j <= i}
  <2>1. below \in SUBSET K /\ i \in below
    BY <1>0
  <2>2. IsFiniteSet(below) /\ Cardinality(below) <= Cardinality(K)
    BY <1>1, <2>1, FS_Subset
  <2>3. Cardinality(below) \in Nat /\ Cardinality(below) # 0
    BY <2>1, <2>2, FS_CardinalityType, FS_EmptySet
  <2> QED BY <1>1, <2>2, <2>3 DEF Rank
<1>3. ASSUME NEW i \in K, NEW j \in K, i < j
      PROVE  Rank(K, i) # Rank(K, j)
  <2> DEFINE I == {k \in K : k <= i}
             J == {k \in K : k <= j}
  <2>1. J \in SUBSET K /\ j \in J /\ j \notin I
    BY <1>0, <1>3
  <2>2. I \in SUBSET J
    <3>1. ASSUME NEW k \in K, k <= i
          PROVE  k <= j
      BY <1>0, <1>3, <3>1
    <3> QED BY <3>1
  <2>3. IsFiniteSet(J)
    BY <1>1, <2>1, FS_Subset
  <2>4. Cardinality(I) # Cardinality(J)
    BY <2>1, <2>3, <2>2, FS_Subset
  <2> QED BY <2>4 DEF Rank
<1>4. ASSUME NEW i \in K, NEW j \in K, Rank(K, i) = Rank(K, j)
      PROVE  i = j
  <2> QED BY <1>0, <1>3, <1>4
<1> QED BY <1>1, <1>2, <1>4

\* Every position up to the size of a set of indices is the rank of one.
LEMMA RankOnto ==
  ASSUME NEW n \in Nat, NEW K \in SUBSET (1..n), NEW k \in 1..Cardinality(K)
  PROVE  \E i \in K : Rank(K, i) = k
<1> DEFINE f == [i \in K |-> Rank(K, i)]
           T == 1..Cardinality(K)
<1>1. IsFiniteSet(K) /\ Cardinality(K) \in Nat
  BY RankFacts
<1>2. f \in [K -> T] /\ \A i, j \in K : f[i] = f[j] => i = j
  BY RankFacts
<1>3. f \in Injection(K, T)
  BY <1>2 DEF Injection, IsInjective
<1>4. IsFiniteSet(T) /\ Cardinality(T) = Cardinality(K)
  BY <1>1, FS_Interval
<1>5. f \in Surjection(K, T)
  BY <1>3, <1>4, FS_Injection
<1> QED BY <1>5 DEF Surjection

\* Nth enumerates a set of indices without repetition.
LEMMA NthFacts ==
  ASSUME NEW n \in Nat, NEW K \in SUBSET (1..n)
  PROVE  /\ \A k \in 1..Cardinality(K) : Nth(K, k) \in K
         /\ \A k, l \in 1..Cardinality(K) : Nth(K, k) = Nth(K, l) => k = l
         /\ \A i \in K : \E k \in 1..Cardinality(K) : Nth(K, k) = i
<1>1. ASSUME NEW k \in 1..Cardinality(K)
      PROVE  Nth(K, k) \in K /\ Rank(K, Nth(K, k)) = k
  <2>1. \E i \in K : Rank(K, i) = k
    BY RankOnto
  <2>2. Nth(K, k) = CHOOSE i \in K : Rank(K, i) = k
    BY DEF Nth, Rank
  <2> QED BY <2>1, <2>2
<1>2. ASSUME NEW i \in K
      PROVE  Nth(K, Rank(K, i)) = i
  BY <1>1, RankFacts
<1> QED BY <1>1, <1>2, RankFacts

Distinct(q) == \A i, j \in DOMAIN q : q[i] = q[j] => i = j

\* What Array.filter keeps: the chosen elements, none twice.
LEMMA PickFacts ==
  ASSUME NEW S, NEW q \in Seq(S), NEW K \in SUBSET DOMAIN q
  PROVE  /\ Pick(q, K) \in Seq(S)
         /\ Elems(Pick(q, K)) = {q[i] : i \in K}
         /\ Distinct(q) => Distinct(Pick(q, K))
<1> DEFINE n == Len(q)
           c == Cardinality(K)
           p == Pick(q, K)
<1>1. n \in Nat /\ DOMAIN q = 1..n /\ \A i \in 1..n : q[i] \in S
  OBVIOUS
<1>2. K \in SUBSET (1..n)
  BY <1>1
<1>3. c \in Nat
  BY <1>1, <1>2, RankFacts
<1>4. /\ \A k \in 1..c : Nth(K, k) \in K
      /\ \A k, l \in 1..c : Nth(K, k) = Nth(K, l) => k = l
      /\ \A i \in K : \E k \in 1..c : Nth(K, k) = i
  BY <1>1, <1>2, NthFacts
<1>5. DOMAIN p = 1..c /\ \A k \in 1..c : p[k] = q[Nth(K, k)]
  BY DEF Pick
<1>6. p \in [1..c -> S]
  <2>1. \A k \in 1..c : q[Nth(K, k)] \in S
    BY <1>1, <1>2, <1>4
  <2> QED BY <2>1 DEF Pick
<1>7. p \in Seq(S)
  BY <1>3, <1>6
<1>8. Elems(p) = {q[i] : i \in K}
  BY <1>4, <1>5 DEF Elems
<1>9. ASSUME Distinct(q)
      PROVE  Distinct(p)
  <2> SUFFICES ASSUME NEW k \in 1..c, NEW l \in 1..c, p[k] = p[l]
               PROVE  k = l
    BY <1>5 DEF Distinct
  <2>1. Nth(K, k) = Nth(K, l)
    BY <1>2, <1>4, <1>5, <1>9, <1>1 DEF Distinct
  <2> QED BY <2>1, <1>4
<1> QED BY <1>7, <1>8, <1>9

\* A filtered queue keeps the wanted elements, none twice.
LEMMA FilterFacts ==
  ASSUME NEW T, NEW q \in Seq(T), NEW S
  PROVE  /\ Filter(q, S) \in Seq(T)
         /\ Elems(Filter(q, S)) = Elems(q) \cap S
         /\ Distinct(q) => Distinct(Filter(q, S))
<1> DEFINE K == {i \in DOMAIN q : q[i] \in S}
<1>1. K \in SUBSET DOMAIN q
  OBVIOUS
<1>2. {q[i] : i \in K} = Elems(q) \cap S
  BY DEF Elems
<1> QED BY <1>1, <1>2, PickFacts DEF Filter

\* The sweep's list holds one envelope of each send, none twice.
LEMMA InOrderFacts ==
  ASSUME NEW r \in Session, NEW K \in SUBSET Send
  PROVE  /\ InOrder(r, K) \in Seq(Msg)
         /\ Elems(InOrder(r, K)) = {<<n, r>> : n \in K}
         /\ Distinct(InOrder(r, K))
<1> DEFINE c == Cardinality(K)
           p == InOrder(r, K)
<1>1. MaxSend \in Nat /\ K \in SUBSET (1..MaxSend)
  BY MailboxAssumption DEF Send
<1>2. c \in Nat
  BY <1>1, RankFacts
<1>3. /\ \A k \in 1..c : Nth(K, k) \in K
      /\ \A k, l \in 1..c : Nth(K, k) = Nth(K, l) => k = l
      /\ \A i \in K : \E k \in 1..c : Nth(K, k) = i
  BY <1>1, NthFacts
<1>4. DOMAIN p = 1..c /\ \A k \in 1..c : p[k] = <<Nth(K, k), r>>
  BY DEF InOrder
<1>5. p \in [1..c -> Msg]
  <2>1. \A k \in 1..c : <<Nth(K, k), r>> \in Msg
    BY <1>3 DEF Msg
  <2> QED BY <2>1 DEF InOrder
<1>6. p \in Seq(Msg)
  BY <1>2, <1>5
<1>7. Elems(p) = {<<n, r>> : n \in K}
  <2>1. Elems(p) = {p[k] : k \in 1..c}
    BY <1>4 DEF Elems
  <2>2. \A k \in 1..c : p[k] \in {<<n, r>> : n \in K}
    BY <1>3, <1>4
  <2>3. \A n \in K : \E k \in 1..c : p[k] = <<n, r>>
    BY <1>3, <1>4
  <2> HIDE DEF p
  <2> QED BY <2>1, <2>2, <2>3
<1>8. Distinct(p)
  BY <1>3, <1>4 DEF Distinct
<1> QED BY <1>6, <1>7, <1>8

\* Unshifting a list in front of a queue.
LEMMA ConcatFacts ==
  ASSUME NEW S, NEW p \in Seq(S), NEW q \in Seq(S)
  PROVE  /\ p \o q \in Seq(S)
         /\ Elems(p \o q) = Elems(p) \cup Elems(q)
         /\ Distinct(p) /\ Distinct(q) /\ Elems(p) \cap Elems(q) = {}
            => Distinct(p \o q)
<1> DEFINE m == Len(p)
           n == Len(q)
           z == p \o q
<1>1. /\ m \in Nat /\ n \in Nat
      /\ DOMAIN p = 1..m /\ DOMAIN q = 1..n
  OBVIOUS
<1>2. /\ z \in Seq(S) /\ DOMAIN z = 1..(m + n)
      /\ \A i \in 1..(m + n) : z[i] = IF i <= m THEN p[i] ELSE q[i - m]
  BY ConcatProperties
<1> HIDE DEF m, n, z
<1>3. ASSUME NEW i \in 1..m
      PROVE  i \in 1..(m + n) /\ z[i] = p[i]
  BY <1>1, <1>2
<1>4. ASSUME NEW i \in 1..n
      PROVE  m + i \in 1..(m + n) /\ z[m + i] = q[i]
  BY <1>1, <1>2
<1>5. ASSUME NEW i \in 1..(m + n)
      PROVE  \/ i \in 1..m /\ z[i] = p[i]
             \/ i - m \in 1..n /\ z[i] = q[i - m] /\ ~(i <= m)
  BY <1>1, <1>2
<1>6. Elems(z) = Elems(p) \cup Elems(q)
  <2>1. Elems(z) \subseteq Elems(p) \cup Elems(q)
    BY <1>1, <1>2, <1>5 DEF Elems
  <2>2. Elems(p) \subseteq Elems(z)
    BY <1>1, <1>2, <1>3 DEF Elems
  <2>3. Elems(q) \subseteq Elems(z)
    <3> SUFFICES ASSUME NEW y \in Elems(q) PROVE y \in Elems(z)
      OBVIOUS
    <3>1. PICK i \in 1..n : q[i] = y
      BY <1>1 DEF Elems
    <3>2. m + i \in 1..(m + n) /\ z[m + i] = y
      BY <1>4, <3>1
    <3> QED BY <1>2, <3>2 DEF Elems
  <2> QED BY <2>1, <2>2, <2>3
<1>7. ASSUME Distinct(p), Distinct(q), Elems(p) \cap Elems(q) = {}
      PROVE  Distinct(z)
  <2> SUFFICES ASSUME NEW i \in 1..(m + n), NEW j \in 1..(m + n), z[i] = z[j]
               PROVE  i = j
    BY <1>2 DEF Distinct
  <2>1. \A k \in 1..m : p[k] \in Elems(p)
    BY <1>1 DEF Elems
  <2>2. \A k \in 1..n : q[k] \in Elems(q)
    BY <1>1 DEF Elems
  <2>3. CASE i \in 1..m /\ z[i] = p[i] /\ j \in 1..m /\ z[j] = p[j]
    BY <2>3, <1>1, <1>7 DEF Distinct
  <2>4. CASE /\ i - m \in 1..n /\ z[i] = q[i - m]
             /\ j - m \in 1..n /\ z[j] = q[j - m]
    <3>1. i - m = j - m
      BY <2>4, <1>1, <1>7 DEF Distinct
    <3> QED BY <3>1, <1>1
  <2>5. CASE i \in 1..m /\ z[i] = p[i] /\ j - m \in 1..n /\ z[j] = q[j - m]
    BY <2>1, <2>2, <2>5, <1>7
  <2>6. CASE j \in 1..m /\ z[j] = p[j] /\ i - m \in 1..n /\ z[i] = q[i - m]
    BY <2>1, <2>2, <2>6, <1>7
  <2> QED BY <1>5, <2>3, <2>4, <2>5, <2>6
<1> QED BY <1>2, <1>6, <1>7 DEF z

\* Pushing an envelope to the end of a queue.
LEMMA AppendFacts ==
  ASSUME NEW S, NEW q \in Seq(S), NEW e \in S
  PROVE  /\ Append(q, e) \in Seq(S)
         /\ Elems(Append(q, e)) = Elems(q) \cup {e}
         /\ Distinct(q) /\ e \notin Elems(q) => Distinct(Append(q, e))
<1> DEFINE n == Len(q)
           z == Append(q, e)
<1>1. n \in Nat /\ DOMAIN q = 1..n
  OBVIOUS
<1>2. /\ z \in Seq(S) /\ DOMAIN z = 1..(n + 1)
      /\ \A i \in 1..n : z[i] = q[i]
      /\ z[n + 1] = e
  OBVIOUS
<1> HIDE DEF n, z
<1>3. \A i \in 1..(n + 1) : i \in 1..n \/ i = n + 1
  BY <1>1
<1>4. 1..n \subseteq 1..(n + 1) /\ n + 1 \in 1..(n + 1)
  BY <1>1
<1>5. Elems(z) = Elems(q) \cup {e}
  BY <1>1, <1>2, <1>3, <1>4 DEF Elems
<1>6. ASSUME Distinct(q), e \notin Elems(q)
      PROVE  Distinct(z)
  <2>1. \A i \in 1..n : q[i] # e
    BY <1>1, <1>6 DEF Elems
  <2> QED BY <1>1, <1>2, <1>3, <1>6, <2>1 DEF Distinct
<1> QED BY <1>2, <1>5, <1>6 DEF z

\* An emptied queue.
LEMMA EmptyFacts ==
  /\ \A S : << >> \in Seq(S)
  /\ Elems(<< >>) = {}
  /\ Distinct(<< >>)
BY DEF Elems, Distinct

-----------------------------------------------------------------------------
(***************************************************************************)
(* Soundness of the state and what each operation does to it.              *)
(***************************************************************************)
\* The envelopes in a queue are its recipient's pending ones, each once.
Queued(s) ==
  /\ \A r \in Session : \A m \in Elems(s.queues[r]) :
       m[2] = r /\ s.status[m] = "pending"
  /\ \A r \in Session : Distinct(s.queues[r])
  /\ \A m \in Msg : s.status[m] = "pending" => m \in Elems(s.queues[m[2]])

\* A send that was made has a channel; one not made yet has no envelopes.
Fresh(s) ==
  \A m \in Msg : /\ m[1] > s.sent => s.status[m] = "unsent"
                 /\ m[1] <= s.sent => s.chan[m[1]] \in Channel

Sound(s) == s \in State /\ Queued(s) /\ Fresh(s)

\* An envelope is the copy of a send for a recipient.
LEMMA MsgFacts ==
  /\ \A m \in Msg : m[1] \in Send /\ m[2] \in Session /\ m = <<m[1], m[2]>>
  /\ \A n \in Send, r \in Session : <<n, r>> \in Msg
  /\ Send \subseteq Nat
BY MailboxAssumption DEF Msg, Send

\* A queue is a list of envelopes.
LEMMA QueueType ==
  ASSUME NEW s \in State, NEW r \in Session
  PROVE  s.queues[r] \in Seq(Msg) /\ Elems(s.queues[r]) \subseteq Msg
BY DEF State, Elems

\* A change of queues and status only.
LEMMA StateUpdate ==
  ASSUME NEW s \in State,
         NEW status \in [Msg -> Status],
         NEW queues \in [Session -> Seq(Msg)]
  PROVE  [s EXCEPT !.status = status, !.queues = queues] \in State
BY DEF State

\* Deleting envelopes with the queue entries that name them
\* (pruneMessages, commitSessionSave) leaves no dangling entry.
LEMMA PurgeSound ==
  ASSUME NEW s, Sound(s), NEW D \in SUBSET Persisted(s)
  PROVE  Sound(Purge(s, D))
<1> DEFINE t == Purge(s, D)
<1>1. s \in State /\ Queued(s) /\ Fresh(s) /\ D \subseteq Msg
  BY DEF Sound, Persisted
<1>2. /\ t.status = [m \in Msg |-> IF m \in D THEN "purged" ELSE s.status[m]]
      /\ t.queues = [r \in Session |-> Filter(s.queues[r], Msg \ D)]
      /\ t.sent = s.sent /\ t.chan = s.chan
  BY <1>1 DEF Purge, State
<1>3. \A r \in Session : /\ Filter(s.queues[r], Msg \ D) \in Seq(Msg)
                         /\ Elems(Filter(s.queues[r], Msg \ D))
                              = Elems(s.queues[r]) \ D
                         /\ Distinct(Filter(s.queues[r], Msg \ D))
  BY <1>1, QueueType, FilterFacts DEF Queued
<1>4. t \in State
  <2>1. t.status \in [Msg -> Status]
    BY <1>1, <1>2 DEF State, Status
  <2>2. t.queues \in [Session -> Seq(Msg)]
    BY <1>2, <1>3
  <2> QED BY <1>1, <1>2, <2>1, <2>2, StateUpdate DEF Purge
<1>5. Queued(t)
  <2>1. ASSUME NEW r \in Session, NEW m \in Elems(t.queues[r])
        PROVE  m[2] = r /\ t.status[m] = "pending"
    <3>1. m \in Elems(s.queues[r]) /\ m \notin D /\ m \in Msg
      BY <1>1, <1>2, <1>3, <2>1, QueueType
    <3> QED BY <1>1, <1>2, <3>1 DEF Queued
  <2>2. \A r \in Session : Distinct(t.queues[r])
    BY <1>2, <1>3
  <2>3. ASSUME NEW m \in Msg, t.status[m] = "pending"
        PROVE  m \in Elems(t.queues[m[2]])
    <3>1. m \notin D /\ s.status[m] = "pending"
      BY <1>2, <2>3
    <3>2. m[2] \in Session /\ m \in Elems(s.queues[m[2]])
      BY <1>1, <3>1, MsgFacts DEF Queued
    <3> QED BY <1>2, <1>3, <3>1, <3>2
  <2> QED BY <2>1, <2>2, <2>3 DEF Queued
<1>6. Fresh(t)
  BY <1>1, <1>2 DEF Fresh, Persisted
<1> QED BY <1>4, <1>5, <1>6 DEF Sound

\* pruneMessages deletes stored envelopes only.
LEMMA DoomedFacts ==
  ASSUME NEW s, NEW D \in Doomed(s)
  PROVE  D \in SUBSET Persisted(s)
BY DEF Doomed

\* Operations that leave the mail alone.
LEMMA SameMail ==
  ASSUME NEW s, Sound(s), NEW t \in State,
         t.status = s.status, t.queues = s.queues,
         t.sent = s.sent, t.chan = s.chan
  PROVE  Sound(t)
<1>1. Queued(t)
  BY DEF Sound, Queued
<1>2. Fresh(t)
  BY DEF Sound, Fresh
<1> QED BY <1>1, <1>2 DEF Sound

\* A roster is a list of sessions.
LEMMA MembersType ==
  ASSUME NEW s \in State, NEW c \in Channel
  PROVE  s.members[c] \in Seq(Session) /\ Members(s, c) \subseteq Session
<1>1. s.members[c] \in Seq(Session)
  BY DEF State
<1> QED BY <1>1 DEF Members, Elems

\* createSessionAsOperator touches no mail.
LEMMA OpenChannelSound ==
  ASSUME NEW s, Sound(s), NEW c \in Channel
  PROVE  Sound(OpenChannel(s, c))
<1>1. OpenChannel(s, c) \in State
  BY DEF Sound, State, OpenChannel
<1> QED BY <1>1, SameMail DEF Sound, State, OpenChannel

\* createChannel touches no mail.
LEMMA CreateChannelSound ==
  ASSUME NEW s, Sound(s), NEW c \in Channel, NEW r \in Session
  PROVE  Sound(CreateChannel(s, c, r))
<1> DEFINE o == OpenChannel(s, c)
<1>1. Sound(o)
  BY OpenChannelSound
<1> HIDE DEF o
<1>2. <<r>> \in Seq(Session)
  OBVIOUS
<1>3. [o EXCEPT !.members[c] = <<r>>] \in State
  BY <1>1, <1>2 DEF Sound, State
<1>4. Sound([o EXCEPT !.members[c] = <<r>>])
  BY <1>1, <1>3, SameMail DEF Sound, State
<1> QED BY <1>4 DEF CreateChannel, o

\* joinChannel touches no mail.
LEMMA JoinChannelSound ==
  ASSUME NEW s, Sound(s), NEW c \in Channel, NEW r \in Session
  PROVE  Sound(JoinChannel(s, c, r))
<1>1. Append(s.members[c], r) \in Seq(Session)
  BY MembersType, AppendFacts DEF Sound
<1>2. JoinChannel(s, c, r) \in State
  BY <1>1 DEF Sound, State, JoinChannel
<1> QED BY <1>2, SameMail DEF Sound, State, JoinChannel

\* Pausing and resuming touch no mail.
LEMMA SetPausedSound ==
  ASSUME NEW s, Sound(s), NEW c \in Channel, NEW paused \in BOOLEAN
  PROVE  Sound(SetPaused(s, c, paused))
<1>1. SetPaused(s, c, paused) \in State
  BY DEF Sound, State, SetPaused
<1> QED BY <1>1, SameMail DEF Sound, State, SetPaused

\* markStale touches no mail.
LEMMA MarkStaleSound ==
  ASSUME NEW s, Sound(s), NEW r \in Session
  PROVE  Sound(MarkStale(s, r))
<1>1. MarkStale(s, r) \in State
  BY DEF Sound, State, MarkStale
<1> QED BY <1>1, SameMail DEF Sound, State, MarkStale

\* clearStale touches no mail.
LEMMA ClearStaleSound ==
  ASSUME NEW s, Sound(s), NEW r \in Session
  PROVE  Sound(ClearStale(s, r))
<1>1. ClearStale(s, r) \in State
  BY DEF Sound, State, ClearStale
<1> QED BY <1>1, SameMail DEF Sound, State, ClearStale

\* Removing a channel's record leaves its envelopes to the next drain.
LEMMA CloseSound ==
  ASSUME NEW s, Sound(s), NEW c \in Channel
  PROVE  Sound(Close(s, c))
<1>1. Close(s, c) \in State
  BY EmptyFacts DEF Sound, State, Close
<1>2. /\ Close(s, c).status = s.status
      /\ Close(s, c).queues = s.queues
      /\ Close(s, c).sent = s.sent
      /\ Close(s, c).chan = s.chan
  BY DEF Sound, State, Close
<1> QED BY <1>1, <1>2, SameMail

\* Saving or deleting a session takes its envelopes out of every queue.
LEMMA PurgeChannelSound ==
  ASSUME NEW s, Sound(s), NEW c \in Channel
  PROVE  Sound(PurgeChannel(s, c))
<1> DEFINE D == {m \in Persisted(s) : s.chan[m[1]] = c}
<1>1. Sound(Purge(s, D))
  BY PurgeSound
<1> QED BY <1>1, CloseSound DEF PurgeChannel

\* Time passing touches no mail.
LEMMA TimeSound ==
  ASSUME NEW s, Sound(s)
  PROVE  /\ Sound(Age(s))
         /\ \A c \in Channel, r \in Session : Sound(EndCooldown(s, c, r))
         /\ \A c \in Channel : Sound(Overrun(s, c))
<1>1. Sound(Age(s))
  <2>1. Age(s) \in State
    <3>1. s.aged + 1 \in Nat /\ s \in State
      BY DEF Sound, State
    <3>2. \A n \in Nat : [s EXCEPT !.aged = n] \in State
      BY <3>1 DEF State
    <3>3. Age(s) = [s EXCEPT !.aged = s.aged + 1]
      BY DEF Age
    <3> QED BY <3>1, <3>2, <3>3
  <2>2. /\ Age(s).status = s.status
        /\ Age(s).queues = s.queues
        /\ Age(s).sent = s.sent
        /\ Age(s).chan = s.chan
    BY DEF Sound, State, Age
  <2> QED BY <2>1, <2>2, SameMail
<1>2. ASSUME NEW c \in Channel, NEW r \in Session
      PROVE  Sound(EndCooldown(s, c, r))
  <2>1. EndCooldown(s, c, r) \in State
    BY DEF Sound, State, EndCooldown
  <2> QED BY <2>1, SameMail DEF Sound, State, EndCooldown
<1>3. ASSUME NEW c \in Channel
      PROVE  Sound(Overrun(s, c))
  <2>1. Overrun(s, c) \in State
    BY DEF Sound, State, Overrun
  <2> QED BY <2>1, SameMail DEF Sound, State, Overrun
<1> QED BY <1>1, <1>2, <1>3

\* A departure rejects exactly what it takes out of the queue.
LEMMA RemoveMemberSound ==
  ASSUME NEW s, Sound(s), NEW c \in Channel, NEW r \in Session
  PROVE  Sound(RemoveMember(s, c, r))
<1> DEFINE t == RemoveMember(s, c, r)
           dropped == Elems(s.queues[r])
<1>1. s \in State /\ Queued(s) /\ Fresh(s)
  BY DEF Sound
<1>2. /\ t.status = [m \in Msg |-> IF m \in dropped /\ s.status[m] = "pending"
                                   THEN "rejected" ELSE s.status[m]]
      /\ t.queues = [s.queues EXCEPT ![r] = << >>]
      /\ t.sent = s.sent /\ t.chan = s.chan
  BY <1>1 DEF RemoveMember, State
<1>3. Filter(s.members[c], Session \ {r}) \in Seq(Session)
  BY <1>1, MembersType, FilterFacts
<1>4. t \in State
  <2>1. t.status \in [Msg -> Status]
    BY <1>1, <1>2 DEF State, Status
  <2>2. t.queues \in [Session -> Seq(Msg)]
    BY <1>1, <1>2, EmptyFacts DEF State
  <2> QED BY <1>1, <1>2, <1>3, <2>1, <2>2 DEF State, RemoveMember
<1>5. \A q \in Session : t.queues[q] = IF q = r THEN << >> ELSE s.queues[q]
  BY <1>1, <1>2 DEF State
<1>6. Queued(t)
  <2>1. ASSUME NEW q \in Session, NEW m \in Elems(t.queues[q])
        PROVE  m[2] = q /\ t.status[m] = "pending"
    <3>1. q # r /\ m \in Elems(s.queues[q]) /\ m \in Msg
      BY <1>1, <1>5, EmptyFacts, QueueType
    <3>2. m[2] = q /\ s.status[m] = "pending" /\ m \notin dropped
      BY <1>1, <3>1 DEF Queued
    <3> QED BY <1>2, <3>1, <3>2
  <2>2. \A q \in Session : Distinct(t.queues[q])
    BY <1>1, <1>5, EmptyFacts DEF Queued
  <2>3. ASSUME NEW m \in Msg, t.status[m] = "pending"
        PROVE  m \in Elems(t.queues[m[2]])
    <3>1. m \notin dropped /\ s.status[m] = "pending"
      BY <1>2, <2>3
    <3>2. m[2] \in Session /\ m \in Elems(s.queues[m[2]])
      BY <1>1, <3>1, MsgFacts DEF Queued
    <3> QED BY <1>5, <3>1, <3>2
  <2> QED BY <2>1, <2>2, <2>3 DEF Queued
<1>7. Fresh(t)
  BY <1>1, <1>2 DEF Fresh
<1> QED BY <1>4, <1>6, <1>7 DEF Sound

\* disconnectChannel keeps mail and queues together.
LEMMA DisconnectSound ==
  ASSUME NEW s, Sound(s), NEW c \in Channel, NEW r \in Session
  PROVE  Sound(Disconnect(s, c, r))
BY RemoveMemberSound, CloseSound DEF Disconnect

\* A new send's envelopes are in no queue yet.
LEMMA EnqueueSound ==
  ASSUME NEW s, Sound(s), s.sent < MaxSend,
         NEW c \in Channel, NEW R \in SUBSET Session
  PROVE  Sound(Enqueue(s, c, R))
<1> DEFINE n == s.sent + 1
           t == Enqueue(s, c, R)
<1>1. s \in State /\ Queued(s) /\ Fresh(s)
  BY DEF Sound
<1>2. n \in Send /\ s.sent \in Nat
  <2>1. s.sent \in Nat
    BY <1>1 DEF State
  <2> QED BY <2>1, MailboxAssumption DEF Send
<1>3. /\ t.status = [m \in Msg |-> IF m[1] = n /\ m[2] \in R
                                   THEN "pending" ELSE s.status[m]]
      /\ t.queues = [r \in Session |-> IF r \in R
                       THEN Append(s.queues[r], <<n, r>>) ELSE s.queues[r]]
      /\ t.sent = n
      /\ t.chan = [s.chan EXCEPT ![n] = c]
  BY <1>1 DEF Enqueue, State
<1>4. ASSUME NEW r \in Session
      PROVE  /\ <<n, r>> \in Msg
             /\ s.status[<<n, r>>] = "unsent"
             /\ <<n, r>> \notin Elems(s.queues[r])
  <2>1. <<n, r>> \in Msg /\ <<n, r>>[1] = n
    BY <1>2, MsgFacts
  <2>2. s.status[<<n, r>>] = "unsent"
    BY <1>1, <1>2, <2>1 DEF Fresh
  <2> QED BY <1>1, <2>1, <2>2 DEF Queued
<1>5. ASSUME NEW r \in Session
      PROVE  /\ t.queues[r] \in Seq(Msg)
             /\ Elems(t.queues[r]) = IF r \in R
                  THEN Elems(s.queues[r]) \cup {<<n, r>>} ELSE Elems(s.queues[r])
             /\ Distinct(t.queues[r])
  <2>1. s.queues[r] \in Seq(Msg) /\ Distinct(s.queues[r])
    BY <1>1, QueueType DEF Queued
  <2>2. CASE r \in R
    BY <1>3, <1>4, <2>1, <2>2, AppendFacts
  <2>3. CASE r \notin R
    BY <1>3, <2>1, <2>3
  <2> QED BY <2>2, <2>3
<1>6. t \in State
  <2>1. t.status \in [Msg -> Status]
    BY <1>1, <1>3 DEF State, Status
  <2>2. t.queues \in [Session -> Seq(Msg)]
    BY <1>3, <1>5
  <2>3. [s.chan EXCEPT ![n] = c] \in [Send -> Channel \cup {NoChannel}]
    BY <1>1 DEF State
  <2>4. n \in Nat
    BY <1>2
  <2> HIDE DEF n
  <2>5. [s EXCEPT !.sent = n, !.chan = [s.chan EXCEPT ![n] = c],
                  !.status = t.status, !.queues = t.queues] \in State
    BY <1>1, <2>1, <2>2, <2>3, <2>4 DEF State
  <2>6. t = [s EXCEPT !.sent = n, !.chan = [s.chan EXCEPT ![n] = c],
                      !.status = t.status, !.queues = t.queues]
    BY <1>1, <1>3 DEF Enqueue, n, State
  <2> QED BY <2>5, <2>6
<1>7. Queued(t)
  <2>1. ASSUME NEW r \in Session, NEW m \in Elems(t.queues[r])
        PROVE  m[2] = r /\ t.status[m] = "pending"
    <3>1. m \in Msg
      <4>1. <<n, r>> \in Msg
        BY <1>4
      <4>2. Elems(s.queues[r]) \subseteq Msg
        BY <1>1, QueueType
      <4>3. m \in Elems(s.queues[r]) \cup {<<n, r>>}
        BY <1>5
      <4> QED BY <4>1, <4>2, <4>3
    <3>2. CASE m \in Elems(s.queues[r])
      BY <1>1, <1>3, <3>1, <3>2 DEF Queued
    <3>3. CASE r \in R /\ m = <<n, r>>
      BY <1>3, <3>1, <3>3
    <3> QED BY <1>5, <3>2, <3>3
  <2>2. ASSUME NEW m \in Msg, t.status[m] = "pending"
        PROVE  m \in Elems(t.queues[m[2]])
    <3>1. m[2] \in Session /\ m = <<m[1], m[2]>>
      BY MsgFacts
    <3>2. CASE m[1] = n /\ m[2] \in R
      BY <1>5, <3>1, <3>2
    <3>3. CASE ~(m[1] = n /\ m[2] \in R)
      <4>1. s.status[m] = "pending"
        BY <1>3, <2>2, <3>3
      <4>2. m \in Elems(s.queues[m[2]])
        BY <1>1, <4>1 DEF Queued
      <4> QED BY <1>5, <3>1, <4>2
    <3> QED BY <3>2, <3>3
  <2> QED BY <1>5, <2>1, <2>2 DEF Queued
<1>8. Fresh(t)
  <2>1. ASSUME NEW m \in Msg, m[1] > n
        PROVE  t.status[m] = "unsent"
    <3>1. m[1] \in Nat /\ m[1] # n /\ m[1] > s.sent
      BY <1>2, <2>1, MsgFacts
    <3> QED BY <1>1, <1>3, <3>1 DEF Fresh
  <2>2. ASSUME NEW m \in Msg, m[1] <= n
        PROVE  t.chan[m[1]] \in Channel
    <3>1. m[1] \in Send /\ (m[1] = n \/ m[1] <= s.sent)
      BY <1>2, <2>2, MsgFacts
    <3>2. s.chan \in [Send -> Channel \cup {NoChannel}]
      BY <1>1 DEF State
    <3> QED BY <1>1, <1>3, <3>1, <3>2 DEF Fresh
  <2> QED BY <1>3, <2>1, <2>2 DEF Fresh
<1> QED BY <1>6, <1>7, <1>8 DEF Sound

\* A kick and its notices keep mail and queues together.
LEMMA KickSound ==
  ASSUME NEW s, Sound(s), s.sent < MaxSend,
         NEW c \in Channel, NEW r \in Session
  PROVE  Sound(Kick(s, c, r))
<1> DEFINE t == RemoveMember(s, c, r)
<1>1. Sound(t)
  BY RemoveMemberSound
<1>2. t.sent = s.sent
  BY DEF Sound, State, RemoveMember
<1>3. Members(t, c) \subseteq Session
  BY <1>1, MembersType DEF Sound
<1>4. Sound(Enqueue(t, c, Members(t, c)))
  BY <1>1, <1>2, <1>3, EnqueueSound
<1> QED BY <1>1, <1>4 DEF Kick

\* commitDelivery settles mail that is in no queue.
LEMMA CommitSound ==
  ASSUME NEW s, Sound(s), NEW r, NEW ids
  PROVE  Sound(Commit(s, r, ids))
<1> DEFINE t == Commit(s, r, ids)
<1>1. s \in State /\ Queued(s) /\ Fresh(s)
  BY DEF Sound
<1>2. /\ t.status = [m \in Msg |->
            IF m \in Elems(ids) /\ s.status[m] = "in_flight" /\ m[2] = r
            THEN "delivered" ELSE s.status[m]]
      /\ t.queues = s.queues
      /\ t.sent = s.sent /\ t.chan = s.chan
  BY <1>1 DEF Commit, State
<1>3. t \in State
  <2>1. t.status \in [Msg -> Status]
    BY <1>1, <1>2 DEF State, Status
  <2> QED BY <1>1, <1>2, <2>1 DEF Commit, State
<1>4. \A m \in Msg : t.status[m] = "pending" <=> s.status[m] = "pending"
  BY <1>2
<1>5. Queued(t)
  <2>1. \A r_1 \in Session : Elems(s.queues[r_1]) \subseteq Msg
    BY <1>1, QueueType
  <2> QED BY <1>1, <1>2, <1>4, <2>1 DEF Queued
<1>6. Fresh(t)
  BY <1>1, <1>2 DEF Fresh
<1> QED BY <1>3, <1>5, <1>6 DEF Sound

\* The ids a deliverPending call works with.
IsBatch(r, ids) ==
  /\ ids \in Seq(Msg)
  /\ Distinct(ids)
  /\ \A m \in Elems(ids) : m[2] = r

\* A failed batch is put back exactly as far as it becomes pending.
LEMMA RequeueSound ==
  ASSUME NEW s, Sound(s), NEW r \in Session, NEW ids, IsBatch(r, ids)
  PROVE  Sound(Requeue(s, r, ids))
<1> DEFINE t == Requeue(s, r, ids)
           status == [m \in Msg |->
             IF m \in Retryable(s, ids)
             THEN IF Spent(s, m) THEN "failed" ELSE "pending"
             ELSE s.status[m]]
           front == Returning(s.queues[r], ids, status)
<1>1. s \in State /\ Queued(s) /\ Fresh(s)
  BY DEF Sound
<1>2. /\ t.status = status
      /\ t.queues = [s.queues EXCEPT ![r] = front \o s.queues[r]]
      /\ t.sent = s.sent /\ t.chan = s.chan
  BY <1>1 DEF Requeue, Restored, State
<1>3. /\ front \in Seq(Msg)
      /\ Distinct(front)
      /\ Elems(front) = {m \in Elems(ids) : /\ status[m] = "pending"
                                            /\ m \notin Elems(s.queues[r])}
  <2> DEFINE S == {m \in Msg : /\ status[m] = "pending"
                               /\ m \notin Elems(s.queues[r])}
  <2>1. ids \in Seq(Msg) /\ Distinct(ids)
    BY DEF IsBatch
  <2>2. Elems(ids) \subseteq Msg
    BY <2>1 DEF Elems
  <2>3. front = Filter(ids, S)
    BY DEF Returning
  <2> HIDE DEF front, S, status
  <2>4. /\ front \in Seq(Msg)
        /\ Distinct(front)
        /\ Elems(front) = Elems(ids) \cap S
    BY <2>1, <2>3, FilterFacts
  <2> QED BY <2>2, <2>4 DEF S
<1>4. /\ front \o s.queues[r] \in Seq(Msg)
      /\ Distinct(front \o s.queues[r])
      /\ Elems(front \o s.queues[r]) = Elems(front) \cup Elems(s.queues[r])
  <2>1. s.queues[r] \in Seq(Msg) /\ Distinct(s.queues[r])
    BY <1>1, QueueType DEF Queued
  <2>2. Elems(front) \cap Elems(s.queues[r]) = {}
    BY <1>3
  <2>3. front \in Seq(Msg) /\ Distinct(front)
    BY <1>3
  <2> HIDE DEF front
  <2> DEFINE q == s.queues[r]
  <2>4. q \in Seq(Msg) /\ Distinct(q) /\ Elems(front) \cap Elems(q) = {}
    BY <2>1, <2>2
  <2> HIDE DEF q
  <2>5. /\ front \o q \in Seq(Msg)
        /\ Distinct(front \o q)
        /\ Elems(front \o q) = Elems(front) \cup Elems(q)
    BY <2>3, <2>4, ConcatFacts
  <2> QED BY <2>5 DEF q
<1>5. /\ \A m \in Msg : m \in Retryable(s, ids) =>
            m \in Elems(ids) /\ s.status[m] \notin {"pending", "unsent"}
      /\ status \in [Msg -> Status]
  BY <1>1 DEF Retryable, State, Status
<1> HIDE DEF front
<1>6. \A q \in Session : t.queues[q] =
        IF q = r THEN front \o s.queues[r] ELSE s.queues[q]
  BY <1>1, <1>2 DEF State
<1>7. t \in State
  <2>1. t.queues \in [Session -> Seq(Msg)]
    BY <1>1, <1>2, <1>4 DEF State
  <2>2. t = [s EXCEPT !.status = t.status, !.queues = t.queues]
    BY <1>1, <1>2 DEF Requeue, Restored, State, front
  <2>3. t.status \in [Msg -> Status]
    BY <1>2, <1>5
  <2> HIDE DEF t, status
  <2>4. [s EXCEPT !.status = t.status, !.queues = t.queues] \in State
    BY <1>1, <2>1, <2>3, StateUpdate
  <2> QED BY <2>2, <2>4
<1>8. Queued(t)
  <2>1. ASSUME NEW q \in Session, NEW m \in Elems(t.queues[q])
        PROVE  m[2] = q /\ t.status[m] = "pending"
    <3>1. CASE m \in Elems(s.queues[q])
      <4>1. m \in Msg /\ m[2] = q /\ s.status[m] = "pending"
        BY <1>1, <3>1, QueueType DEF Queued
      <4> QED BY <1>2, <1>5, <4>1
    <3>2. CASE q = r /\ m \in Elems(front)
      BY <1>2, <1>3, <3>2 DEF IsBatch
    <3> QED BY <1>4, <1>6, <2>1, <3>1, <3>2
  <2>2. \A q \in Session : Distinct(t.queues[q])
    BY <1>1, <1>4, <1>6 DEF Queued
  <2>3. ASSUME NEW m \in Msg, t.status[m] = "pending"
        PROVE  m \in Elems(t.queues[m[2]])
    <3>1. m[2] \in Session /\ status[m] = "pending"
      BY <1>2, <2>3, MsgFacts
    <3>2. CASE m \in Retryable(s, ids)
      <4>1. m \in Elems(ids) /\ m[2] = r
        BY <1>5, <3>2 DEF IsBatch
      <4> QED BY <1>3, <1>4, <1>6, <3>1, <4>1
    <3>3. CASE m \notin Retryable(s, ids)
      <4>1. s.status[m] = "pending"
        BY <3>1, <3>3
      <4>2. m \in Elems(s.queues[m[2]])
        BY <1>1, <4>1 DEF Queued
      <4> QED BY <1>4, <1>6, <3>1, <4>2
    <3> QED BY <3>2, <3>3
  <2> QED BY <2>1, <2>2, <2>3 DEF Queued
<1>9. Fresh(t)
  BY <1>1, <1>2, <1>5 DEF Fresh
<1> QED BY <1>7, <1>8, <1>9 DEF Sound

\* The startup sweep queues what it makes pending, once.
LEMMA SweepSound ==
  ASSUME NEW s, Sound(s)
  PROVE  Sound(Sweep(s))
<1> DEFINE t == Sweep(s)
<1>1. s \in State /\ Queued(s) /\ Fresh(s)
  BY DEF Sound
<1>2. /\ t.status = [m \in Msg |-> IF m \in Sweepable(s) THEN "pending"
                                   ELSE s.status[m]]
      /\ t.queues = [r \in Session |-> Swept(s, r) \o s.queues[r]]
      /\ t.sent = s.sent /\ t.chan = s.chan
  BY <1>1 DEF Sweep, Restored, State
<1>3. \A m \in Msg : m \in Sweepable(s) => s.status[m] = "in_flight"
  BY DEF Sweepable
<1>4. ASSUME NEW r \in Session
      PROVE  /\ Swept(s, r) \in Seq(Msg)
             /\ Distinct(Swept(s, r))
             /\ \A m \in Msg : m \in Elems(Swept(s, r)) <=>
                  /\ m \in Sweepable(s) /\ m[2] = r
                  /\ m \notin Elems(s.queues[r])
             /\ Elems(Swept(s, r)) \subseteq Msg
  <2> DEFINE K == {n \in Send : /\ <<n, r>> \in Sweepable(s)
                                /\ <<n, r>> \notin Elems(s.queues[r])}
  <2>1. /\ Swept(s, r) \in Seq(Msg)
        /\ Distinct(Swept(s, r))
        /\ Elems(Swept(s, r)) = {<<n, r>> : n \in K}
    BY InOrderFacts DEF Swept
  <2>2. ASSUME NEW m \in Msg
        PROVE  m \in Elems(Swept(s, r)) <=>
                 /\ m \in Sweepable(s) /\ m[2] = r
                 /\ m \notin Elems(s.queues[r])
    <3>1. m[1] \in Send /\ m = <<m[1], m[2]>>
      BY MsgFacts
    <3>2. m \in Elems(Swept(s, r)) <=> m[2] = r /\ m[1] \in K
      BY <2>1, <3>1
    <3> QED BY <3>1, <3>2
  <2>3. Elems(Swept(s, r)) \subseteq Msg
    BY <2>1 DEF Elems
  <2> QED BY <2>1, <2>2, <2>3
<1>5. ASSUME NEW r \in Session
      PROVE  /\ t.queues[r] \in Seq(Msg)
             /\ Distinct(t.queues[r])
             /\ Elems(t.queues[r]) = Elems(Swept(s, r)) \cup Elems(s.queues[r])
  <2>1. s.queues[r] \in Seq(Msg) /\ Distinct(s.queues[r])
    BY <1>1, QueueType DEF Queued
  <2>2. Elems(Swept(s, r)) \cap Elems(s.queues[r]) = {}
    BY <1>4
  <2>3. t.queues[r] = Swept(s, r) \o s.queues[r]
    BY <1>2
  <2> QED BY <1>4, <2>1, <2>2, <2>3, ConcatFacts
<1>6. t \in State
  <2>1. t.status \in [Msg -> Status]
    BY <1>1, <1>2 DEF State, Status
  <2>2. t.queues \in [Session -> Seq(Msg)]
    BY <1>2, <1>5
  <2>3. t = [s EXCEPT !.status = t.status, !.queues = t.queues]
    BY <1>1, <1>2 DEF Sweep, Restored, State
  <2> HIDE DEF t
  <2>4. [s EXCEPT !.status = t.status, !.queues = t.queues] \in State
    BY <1>1, <2>1, <2>2, StateUpdate
  <2> QED BY <2>3, <2>4
<1>7. Queued(t)
  <2>1. ASSUME NEW r \in Session, NEW m \in Elems(t.queues[r])
        PROVE  m[2] = r /\ t.status[m] = "pending"
    <3>1. CASE m \in Elems(s.queues[r])
      BY <1>1, <1>2, <3>1, QueueType DEF Queued
    <3>2. CASE m \in Elems(Swept(s, r))
      BY <1>2, <1>4, <3>2
    <3> QED BY <1>5, <2>1, <3>1, <3>2
  <2>2. ASSUME NEW m \in Msg, t.status[m] = "pending"
        PROVE  m \in Elems(t.queues[m[2]])
    <3>1. m[2] \in Session
      BY MsgFacts
    <3>2. CASE m \in Sweepable(s)
      BY <1>4, <1>5, <3>1, <3>2
    <3>3. CASE m \notin Sweepable(s)
      <4>1. s.status[m] = "pending"
        BY <1>2, <2>2, <3>3
      <4>2. m \in Elems(s.queues[m[2]])
        BY <1>1, <4>1 DEF Queued
      <4> QED BY <1>5, <3>1, <4>2
    <3> QED BY <3>2, <3>3
  <2> QED BY <1>5, <2>1, <2>2 DEF Queued
<1>8. Fresh(t)
  BY <1>1, <1>2, <1>3 DEF Fresh
<1> QED BY <1>6, <1>7, <1>8 DEF Sound

-----------------------------------------------------------------------------
(***************************************************************************)
(* Draining.                                                               *)
(***************************************************************************)
\* drainQueue sorts the indices of the queue: what stays was neither
\* rejected, aged out nor taken.
LEMMA DrainSorts ==
  ASSUME NEW s, NEW r \in Session
  PROVE  /\ Orphaned(s, r) \subseteq DOMAIN s.queues[r]
         /\ Expired(s, r) \subseteq DOMAIN s.queues[r]
         /\ Taken(s, r) \subseteq DOMAIN s.queues[r]
         /\ Remaining(s, r) \subseteq DOMAIN s.queues[r]
         /\ Remaining(s, r) \cap Orphaned(s, r) = {}
         /\ Remaining(s, r) \cap Expired(s, r) = {}
         /\ Remaining(s, r) \cap Taken(s, r) = {}
         /\ Addressed(s, r) \subseteq Orphaned(s, r) \cup Expired(s, r)
              \cup Taken(s, r) \cup Remaining(s, r)
              \cup {i \in DOMAIN s.queues[r] :
                      s.status[s.queues[r][i]] \in {"delivered", "in_flight"}}
<1>1. /\ Addressed(s, r) \subseteq DOMAIN s.queues[r]
      /\ Orphaned(s, r) \subseteq Addressed(s, r)
      /\ Held(s, r) \subseteq Addressed(s, r) \ Orphaned(s, r)
      /\ Waiting(s, r) \subseteq
           Addressed(s, r) \ (Orphaned(s, r) \cup Held(s, r))
      /\ Expired(s, r) \subseteq Waiting(s, r)
  BY DEF Addressed, Orphaned, Held, Waiting, Expired
<1>2. Taken(s, r) \subseteq Candidates(s, r)
  BY DEF Taken, Reached
<1>3. Candidates(s, r) = Waiting(s, r) \ Expired(s, r)
  BY DEF Candidates
<1>4. Remaining(s, r) = Held(s, r) \cup (Candidates(s, r) \ Taken(s, r))
  BY DEF Remaining
<1>5. \A i \in Addressed(s, r) \ (Orphaned(s, r) \cup Held(s, r)) :
        \/ i \in Waiting(s, r)
        \/ s.status[s.queues[r][i]] \in {"delivered", "in_flight"}
  BY DEF Waiting
<1> QED BY <1>1, <1>2, <1>3, <1>4, <1>5

\* The envelopes handed over are distinct and the recipient's own.
LEMMA BatchFacts ==
  ASSUME NEW s, Sound(s), NEW r \in Session
  PROVE  IsBatch(r, Batch(s, r))
<1>1. s.queues[r] \in Seq(Msg) /\ Distinct(s.queues[r])
  BY QueueType DEF Sound, Queued
<1>2. Taken(s, r) \in SUBSET DOMAIN s.queues[r]
  BY DrainSorts
<1>3. /\ Batch(s, r) \in Seq(Msg)
      /\ Distinct(Batch(s, r))
      /\ Elems(Batch(s, r)) = {s.queues[r][i] : i \in Taken(s, r)}
  BY <1>1, <1>2, PickFacts DEF Batch
<1>4. Elems(Batch(s, r)) \subseteq Elems(s.queues[r])
  BY <1>2, <1>3 DEF Elems
<1> QED BY <1>4, <1>3 DEF IsBatch, Sound, Queued

\* A drain takes out of the queue exactly what it settles or hands over.
LEMMA DrainSound ==
  ASSUME NEW s, Sound(s), NEW r \in Session
  PROVE  Sound(Drain(s, r))
<1> DEFINE t == Drain(s, r)
           q == s.queues[r]
           O == At(s, r, Orphaned(s, r))
           E == At(s, r, Expired(s, r))
           T == At(s, r, Taken(s, r))
           K == Remaining(s, r)
<1>1. s \in State /\ Queued(s) /\ Fresh(s)
  BY DEF Sound
<1>2. /\ q \in Seq(Msg) /\ Distinct(q)
      /\ \A i \in DOMAIN q : /\ q[i] \in Msg /\ q[i][2] = r
                             /\ s.status[q[i]] = "pending"
      /\ K \in SUBSET DOMAIN q
  BY <1>1, QueueType, DrainSorts DEF Queued, Elems
<1>3. /\ t.status = [m \in Msg |-> CASE m \in O -> "rejected"
                                      [] m \in E -> "stale"
                                      [] m \in T -> "in_flight"
                                      [] OTHER -> s.status[m]]
      /\ t.queues = [s.queues EXCEPT ![r] = Pick(q, K)]
      /\ t.sent = s.sent /\ t.chan = s.chan
  BY <1>1 DEF Drain, DrainAs, State
<1>4. /\ Pick(q, K) \in Seq(Msg) /\ Distinct(Pick(q, K))
      /\ Elems(Pick(q, K)) = {q[i] : i \in K}
  BY <1>2, PickFacts
<1>5. O \cup E \cup T \subseteq Elems(q)
  BY DrainSorts DEF At, Elems
<1>6. ASSUME NEW i \in K
      PROVE  q[i] \notin O \cup E \cup T
  BY <1>2, DrainSorts DEF At, Distinct
<1>7. ASSUME NEW i \in DOMAIN q, q[i] \notin O \cup E \cup T
      PROVE  i \in K
  <2>1. i \in Addressed(s, r)
    BY <1>2 DEF Addressed, Persisted
  <2>2. s.status[q[i]] \notin {"delivered", "in_flight"}
    BY <1>2
  <2> QED BY <1>7, <2>1, <2>2, DrainSorts DEF At
<1>8. \A c \in Channel : Handovers(s, r, c) \in Nat
  <2>1. Len(q) \in Nat /\ DOMAIN q = 1..Len(q)
    BY <1>2
  <2> QED BY <1>1, <2>1, RankFacts, DrainSorts DEF Handovers
<1>9. t \in State
  <2>1. t.status \in [Msg -> Status]
    BY <1>1, <1>3 DEF State, Status
  <2>2. t.queues \in [Session -> Seq(Msg)]
    BY <1>1, <1>3, <1>4 DEF State
  <2>3. t.attempts \in [Msg -> Nat]
    BY <1>1 DEF State, Drain, DrainAs
  <2>4. t.total \in [Channel -> Nat]
    BY <1>1, <1>8 DEF State, Drain, DrainAs
  <2>5. t.cooling \subseteq Channel \X Session
    <3>1. ASSUME NEW m \in T
          PROVE  ChannelOf(s, m) \in Channel
      <4>1. m \in Msg /\ s.status[m] = "pending"
        BY <1>2, DrainSorts DEF At
      <4>2. m[1] \in Nat /\ s.sent \in Nat
        BY <1>1, <4>1, MsgFacts DEF State
      <4>3. ~(m[1] > s.sent)
        BY <1>1, <4>1 DEF Fresh
      <4> QED BY <1>1, <4>1, <4>2, <4>3 DEF Fresh, ChannelOf
    <3>2. s.cooling \subseteq Channel \X Session
      BY <1>1 DEF State
    <3>3. t.cooling = s.cooling \cup {<<ChannelOf(s, m), r>> : m \in T}
      BY <1>1 DEF State, Drain, DrainAs
    <3> QED BY <3>1, <3>2, <3>3
  <2> QED BY <1>1, <2>1, <2>2, <2>3, <2>4, <2>5 DEF State, Drain, DrainAs
<1>10. \A p \in Session : t.queues[p] = IF p = r THEN Pick(q, K) ELSE s.queues[p]
  BY <1>1, <1>3 DEF State
<1> HIDE DEF t, O, E, T, K
<1>11. Queued(t)
  <2>1. ASSUME NEW p \in Session, NEW m \in Elems(t.queues[p])
        PROVE  m[2] = p /\ t.status[m] = "pending"
    <3>1. CASE p = r
      <4>1. PICK i \in K : m = q[i]
        BY <1>4, <1>10, <2>1, <3>1
      <4> QED BY <1>2, <1>3, <1>6, <3>1, <4>1
    <3>2. CASE p # r
      <4>1. m \in Elems(s.queues[p]) /\ m \in Msg
        BY <1>1, <1>10, <2>1, <3>2, QueueType
      <4>2. m[2] = p /\ s.status[m] = "pending"
        BY <1>1, <4>1 DEF Queued
      <4>3. m \notin Elems(q)
        BY <1>1, <3>2, <4>2 DEF Queued
      <4> QED BY <1>3, <1>5, <4>1, <4>2, <4>3
    <3> QED BY <3>1, <3>2
  <2>2. \A p \in Session : Distinct(t.queues[p])
    BY <1>1, <1>4, <1>10 DEF Queued
  <2>3. ASSUME NEW m \in Msg, t.status[m] = "pending"
        PROVE  m \in Elems(t.queues[m[2]])
    <3>1. m \notin O \cup E \cup T /\ s.status[m] = "pending"
      BY <1>3, <2>3
    <3>2. m[2] \in Session /\ m \in Elems(s.queues[m[2]])
      BY <1>1, <3>1, MsgFacts DEF Queued
    <3>3. CASE m[2] = r
      <4>1. PICK i \in DOMAIN q : m = q[i]
        BY <3>2, <3>3 DEF Elems
      <4>2. i \in K
        BY <1>7, <3>1, <4>1
      <4> QED BY <1>4, <1>10, <3>2, <3>3, <4>1, <4>2
    <3> QED BY <1>10, <3>2, <3>3
  <2> QED BY <2>1, <2>2, <2>3 DEF Queued
<1>12. Fresh(t)
  <2>1. ASSUME NEW m \in Msg, m[1] > s.sent
        PROVE  t.status[m] = "unsent"
    <3>1. s.status[m] = "unsent"
      BY <1>1, <2>1 DEF Fresh
    <3>2. m \notin Elems(q)
      BY <1>2, <3>1 DEF Elems
    <3> QED BY <1>3, <1>5, <3>1, <3>2
  <2> QED BY <1>1, <1>3, <2>1 DEF Fresh
<1>13. Sound(t)
  BY <1>9, <1>11, <1>12 DEF Sound
<1> QED BY <1>13 DEF t

\* A batch is made of queued envelopes.
LEMMA BatchQueued ==
  ASSUME NEW s, Sound(s), NEW r \in Session, NEW m \in Elems(Batch(s, r))
  PROVE  m \in Msg /\ s.status[m] = "pending"
<1>1. s.queues[r] \in Seq(Msg) /\ Elems(s.queues[r]) \subseteq Msg
  BY QueueType DEF Sound
<1>2. Taken(s, r) \subseteq DOMAIN s.queues[r]
  BY DrainSorts
<1>3. Elems(Batch(s, r)) = {s.queues[r][j] : j \in Taken(s, r)}
  BY <1>1, <1>2, PickFacts DEF Batch
<1>4. m \in Elems(s.queues[r])
  BY <1>2, <1>3 DEF Elems
<1> QED BY <1>1, <1>4 DEF Sound, Queued

-----------------------------------------------------------------------------
(***************************************************************************)
(* What an operation may do to mail that was sent before it: relations     *)
(* between the file before and after it, one stronger than the other.      *)
(***************************************************************************)
Refused == {"rejected", "stale", "failed", "purged"}

\* From s to t nothing refused comes back, nothing sent is unsent and no
\* budget is overrun.
Keeps(s, t) ==
  /\ \A m \in Msg : s.status[m] \in Refused =>
       t.status[m] = s.status[m] \/ t.status[m] = "purged"
  /\ \A m \in Msg : s.status[m] # "unsent" => t.status[m] # "unsent"
  /\ \A c \in Channel : Budget[c] # 0 /\ s.total[c] <= Budget[c] =>
       t.total[c] <= Budget[c]

\* The same, and nothing is committed.
Continues(s, t) ==
  /\ Keeps(s, t)
  /\ \A m \in Msg : t.status[m] = "delivered" => s.status[m] = "delivered"

Out == {"in_flight", "delivered"}

\* The same, and mail that was handed over is left alone or deleted: all
\* operations but the three that settle a batch.
Spares(s, t) ==
  /\ Continues(s, t)
  /\ \A m \in Msg : s.status[m] \in Out => t.status[m] \in {s.status[m], "purged"}
  /\ \A m \in Msg : t.status[m] \in {"unsent", "pending"} =>
       s.status[m] \in {"unsent", "pending"}

\* Operations may be composed.
LEMMA KeepsTransitive ==
  ASSUME NEW s, NEW t, NEW u, Keeps(s, t), Keeps(t, u)
  PROVE  Keeps(s, u)
BY DEF Keeps, Refused

\* Also those that spare what is out.
LEMMA SparesTransitive ==
  ASSUME NEW s, NEW t, NEW u, Spares(s, t), Spares(t, u)
  PROVE  Spares(s, u)
<1>1. Continues(s, u)
  BY KeepsTransitive DEF Spares, Continues
<1>2. \A m \in Msg : s.status[m] \in Out => u.status[m] \in {s.status[m], "purged"}
  BY DEF Spares, Continues, Keeps, Refused
<1> QED BY <1>1, <1>2 DEF Spares

\* The relations one by one.
LEMMA SparesKeeps ==
  ASSUME NEW s, NEW t, Spares(s, t)
  PROVE  Continues(s, t) /\ Keeps(s, t)
BY DEF Spares, Continues

\* What continues is kept.
LEMMA ContinuesKeeps ==
  ASSUME NEW s, NEW t, Continues(s, t)
  PROVE  Keeps(s, t)
BY DEF Continues

\* An operation on neither statuses nor counts.
LEMMA SparesSame ==
  ASSUME NEW s, NEW t, t.status = s.status, t.total = s.total
  PROVE  Spares(s, t)
BY DEF Spares, Continues, Keeps, Out

\* Deleting is not bringing back.
LEMMA PurgeSpares ==
  ASSUME NEW s, Sound(s), NEW D \in SUBSET Persisted(s)
  PROVE  Spares(s, Purge(s, D))
<1>1. /\ Purge(s, D).status = [m \in Msg |-> IF m \in D THEN "purged"
                                             ELSE s.status[m]]
      /\ Purge(s, D).total = s.total
  BY DEF Sound, State, Purge
<1> QED BY <1>1 DEF Spares, Continues, Keeps, Out

\* A channel's record goes with its count.
LEMMA CloseSpares ==
  ASSUME NEW s, Sound(s), NEW c \in Channel
  PROVE  Spares(s, Close(s, c))
<1>1. /\ Close(s, c).status = s.status
      /\ Close(s, c).total = [s.total EXCEPT ![c] = 0]
  BY DEF Sound, State, Close
<1>2. s.total \in [Channel -> Nat] /\ Budget \in [Channel -> Nat]
  BY MailboxAssumption DEF Sound, State
<1> QED BY <1>1, <1>2 DEF Spares, Continues, Keeps, Out

\* Saving or deleting a session.
LEMMA PurgeChannelSpares ==
  ASSUME NEW s, Sound(s), NEW c \in Channel
  PROVE  Spares(s, PurgeChannel(s, c))
<1> DEFINE D == {m \in Persisted(s) : s.chan[m[1]] = c}
           t == Purge(s, D)
<1>1. Sound(t) /\ Spares(s, t)
  BY PurgeSound, PurgeSpares
<1>2. Spares(t, Close(t, c))
  BY <1>1, CloseSpares
<1>3. Spares(s, Close(t, c))
  BY <1>1, <1>2, SparesTransitive
<1> QED BY <1>3 DEF PurgeChannel

\* A new send's envelopes were never refused before.
LEMMA EnqueueSpares ==
  ASSUME NEW s, Sound(s), NEW c \in Channel, NEW R
  PROVE  Spares(s, Enqueue(s, c, R))
<1> DEFINE n == s.sent + 1
<1>1. /\ Enqueue(s, c, R).status =
           [m \in Msg |-> IF m[1] = n /\ m[2] \in R
                          THEN "pending" ELSE s.status[m]]
      /\ Enqueue(s, c, R).total = s.total
  BY DEF Sound, State, Enqueue
<1>2. n \in Nat /\ n > s.sent
  BY DEF Sound, State
<1>3. \A m \in Msg : m[1] = n => s.status[m] = "unsent"
  BY <1>2 DEF Sound, Fresh
<1> QED BY <1>1, <1>3 DEF Spares, Continues, Keeps, Refused, Out

\* Only pending mail is rejected.
LEMMA RemoveMemberSpares ==
  ASSUME NEW s, Sound(s), NEW c \in Channel, NEW r \in Session
  PROVE  Spares(s, RemoveMember(s, c, r))
<1>1. /\ RemoveMember(s, c, r).status =
           [m \in Msg |->
              IF m \in Elems(s.queues[r]) /\ s.status[m] = "pending"
              THEN "rejected" ELSE s.status[m]]
      /\ RemoveMember(s, c, r).total = s.total
  BY DEF Sound, State, RemoveMember
<1> QED BY <1>1 DEF Spares, Continues, Keeps, Refused, Out

\* Leaving a channel.
LEMMA DisconnectSpares ==
  ASSUME NEW s, Sound(s), NEW c \in Channel, NEW r \in Session
  PROVE  Spares(s, Disconnect(s, c, r))
<1> DEFINE t == RemoveMember(s, c, r)
<1>1. Sound(t) /\ Spares(s, t)
  BY RemoveMemberSound, RemoveMemberSpares
<1>2. Spares(t, Close(t, c))
  BY <1>1, CloseSpares
<1>3. Spares(s, Close(t, c))
  BY <1>1, <1>2, SparesTransitive
<1> QED BY <1>1, <1>3 DEF Disconnect

\* A kick rejects what was pending and queues new notices only.
LEMMA KickSpares ==
  ASSUME NEW s, Sound(s), NEW c \in Channel, NEW r \in Session
  PROVE  Spares(s, Kick(s, c, r))
<1> DEFINE t == RemoveMember(s, c, r)
<1>1. Sound(t) /\ Spares(s, t)
  BY RemoveMemberSound, RemoveMemberSpares
<1>2. Spares(t, Enqueue(t, c, Members(t, c)))
  BY <1>1, EnqueueSpares
<1>3. Spares(s, Enqueue(t, c, Members(t, c)))
  BY <1>1, <1>2, SparesTransitive
<1> QED BY <1>1, <1>3 DEF Kick

\* Only mail in flight is committed.
LEMMA CommitKeeps ==
  ASSUME NEW s, Sound(s), NEW r, NEW ids
  PROVE  Keeps(s, Commit(s, r, ids))
<1>1. /\ Commit(s, r, ids).status =
           [m \in Msg |->
              IF m \in Elems(ids) /\ s.status[m] = "in_flight" /\ m[2] = r
              THEN "delivered" ELSE s.status[m]]
      /\ Commit(s, r, ids).total = s.total
  BY DEF Sound, State, Commit
<1> QED BY <1>1 DEF Keeps, Refused

\* Only mail that is out is retried.
LEMMA RequeueContinues ==
  ASSUME NEW s, Sound(s), NEW r \in Session, NEW ids
  PROVE  Continues(s, Requeue(s, r, ids))
<1>1. /\ Requeue(s, r, ids).status =
           [m \in Msg |->
              IF m \in Retryable(s, ids)
              THEN IF Spent(s, m) THEN "failed" ELSE "pending"
              ELSE s.status[m]]
      /\ Requeue(s, r, ids).total = s.total
  BY DEF Sound, State, Requeue
<1>2. \A m \in Retryable(s, ids) : s.status[m] \in {"delivered", "in_flight"}
  BY DEF Retryable
<1> QED BY <1>1, <1>2 DEF Continues, Keeps, Refused

\* Only mail in flight is swept.
LEMMA SweepContinues ==
  ASSUME NEW s, Sound(s)
  PROVE  Continues(s, Sweep(s))
<1>1. /\ Sweep(s).status =
           [m \in Msg |-> IF m \in Sweepable(s) THEN "pending"
                          ELSE s.status[m]]
      /\ Sweep(s).total = s.total
  BY DEF Sound, State, Sweep
<1>2. \A m \in Sweepable(s) : s.status[m] = "in_flight"
  BY DEF Sweepable
<1> QED BY <1>1, <1>2 DEF Continues, Keeps, Refused

\* A set of indices with a greatest element has at most one more element
\* than those below it.
LEMMA BelowTheLast ==
  ASSUME NEW n \in Nat, NEW K \in SUBSET (1..n), K # {}
  PROVE  \E i \in K : Cardinality(K) = Cardinality({j \in K : j < i}) + 1
<1>1. IsFiniteSet(K) /\ Cardinality(K) \in Nat
  BY RankFacts
<1>2. Cardinality(K) # 0
  BY <1>1, FS_EmptySet
<1>3. PICK i \in K : Rank(K, i) = Cardinality(K)
  BY <1>1, <1>2, RankOnto
<1> DEFINE below == {j \in K : j < i}
<1>4. i \in Int /\ \A j \in K : j \in Int
  OBVIOUS
<1>5. below \in SUBSET K /\ i \notin below
  BY <1>4
<1>6. {j \in K : j <= i} = below \cup {i}
  <2>1. i \in K
    BY <1>3
  <2>2. \A j \in K : j <= i <=> (j < i \/ j = i)
    BY <1>4
  <2> QED BY <2>1, <2>2
<1>7. IsFiniteSet(below)
  BY <1>1, <1>5, FS_Subset
<1>8. Cardinality(below \cup {i}) = Cardinality(below) + 1
  BY <1>5, <1>7, FS_AddElement
<1> QED BY <1>3, <1>6, <1>8 DEF Rank

\* The budget is tested for every envelope, counting the reached ones of its
\* channel before it: a batch cannot overrun it.
LEMMA BatchWithinBudget ==
  ASSUME NEW s, Sound(s), NEW r \in Session, NEW c \in Channel,
         Budget[c] # 0, s.total[c] <= Budget[c]
  PROVE  s.total[c] + Handovers(s, r, c) <= Budget[c]
<1> DEFINE q == s.queues[r]
           K == {i \in Taken(s, r) : ChannelOf(s, q[i]) = c}
<1>1. Len(q) \in Nat /\ DOMAIN q = 1..Len(q)
  BY QueueType DEF Sound
<1>2. K \in SUBSET (1..Len(q)) /\ Handovers(s, r, c) = Cardinality(K)
  BY <1>1, DrainSorts DEF Handovers
<1>3. s.total[c] \in Nat /\ Budget[c] \in Nat
  BY MailboxAssumption DEF Sound, State
<1>4. CASE K = {}
  <2>1. Cardinality(K) = 0
    BY <1>4, FS_EmptySet
  <2> HIDE DEF K
  <2> QED BY <1>2, <1>3, <2>1
<1>5. CASE K # {}
  <2>1. PICK i \in K : Cardinality(K) = Cardinality({j \in K : j < i}) + 1
    BY <1>1, <1>2, <1>5, BelowTheLast
  <2> DEFINE before == SameChannelBefore(s, r, i)
  <2>2. {j \in K : j < i} \in SUBSET before
    BY DEF Taken, SameChannelBefore
  <2>3. before \in SUBSET (1..Len(q))
    BY <1>1 DEF SameChannelBefore, Reached, Candidates, Waiting, Addressed
  <2>4. /\ IsFiniteSet(before) /\ Cardinality(before) \in Nat
        /\ Cardinality({j \in K : j < i}) <= Cardinality(before)
    BY <1>1, <2>2, <2>3, RankFacts, FS_Subset
  <2>5. s.total[c] + Cardinality(before) < Budget[c]
    BY DEF Taken, Affordable
  <2>6. Cardinality({j \in K : j < i}) \in Nat
    BY <2>2, <2>4, FS_Subset, FS_CardinalityType
  <2> QED BY <1>2, <1>3, <2>1, <2>4, <2>5, <2>6
<1> QED BY <1>4, <1>5

\* drainQueue changes pending mail only, and charges within the budget.
LEMMA DrainSpares ==
  ASSUME NEW s, Sound(s), NEW r \in Session
  PROVE  Spares(s, Drain(s, r))
<1> DEFINE t == Drain(s, r)
           q == s.queues[r]
           O == At(s, r, Orphaned(s, r))
           E == At(s, r, Expired(s, r))
           T == At(s, r, Taken(s, r))
<1>1. O \cup E \cup T \subseteq Elems(q)
  BY DrainSorts DEF At, Elems
<1>2. \A m \in O \cup E \cup T : s.status[m] = "pending"
  BY <1>1 DEF Sound, Queued
<1>3. t.status = [m \in Msg |-> CASE m \in O -> "rejected"
                                  [] m \in E -> "stale"
                                  [] m \in T -> "in_flight"
                                  [] OTHER -> s.status[m]]
  BY DEF Sound, State, Drain, DrainAs
<1>4. \A c \in Channel : t.total[c] = s.total[c] + Handovers(s, r, c)
  BY DEF Sound, State, Drain, DrainAs
<1> HIDE DEF t, q, O, E, T
<1>5. \A m \in Msg : s.status[m] \in Refused => t.status[m] = s.status[m]
  <2> SUFFICES ASSUME NEW m \in Msg, s.status[m] \in Refused
               PROVE  t.status[m] = s.status[m]
    OBVIOUS
  <2>1. m \notin O /\ m \notin E /\ m \notin T
    BY <1>2 DEF Refused
  <2> QED BY <1>3, <2>1
<1>6. \A m \in Msg : /\ s.status[m] # "unsent" => t.status[m] # "unsent"
                     /\ t.status[m] = "delivered" => s.status[m] = "delivered"
  BY <1>3
<1>7. \A m \in Msg : s.status[m] \in Out => t.status[m] = s.status[m]
  <2> SUFFICES ASSUME NEW m \in Msg, s.status[m] \in Out
               PROVE  t.status[m] = s.status[m]
    OBVIOUS
  <2>1. m \notin O /\ m \notin E /\ m \notin T
    BY <1>2 DEF Out
  <2> QED BY <1>3, <2>1
<1>8. \A m \in Msg : t.status[m] \in {"unsent", "pending"} =>
                      s.status[m] = t.status[m]
  BY <1>3
<1>9. Continues(s, t) /\ Keeps(s, t)
  BY <1>4, <1>5, <1>6, BatchWithinBudget DEF Continues, Keeps
<1>10. Spares(s, t)
  BY <1>7, <1>8, <1>9 DEF Spares
<1> QED BY <1>10 DEF t

\* What a drain hands over is out from then on.
LEMMA BatchHandedOver ==
  ASSUME NEW s, Sound(s), NEW r \in Session, NEW m \in Elems(Batch(s, r))
  PROVE  m \in Msg /\ m[2] = r /\ Drain(s, r).status[m] = "in_flight"
<1> DEFINE q == s.queues[r]
<1>1. q \in Seq(Msg) /\ Distinct(q)
  BY QueueType DEF Sound, Queued
<1>2. /\ Taken(s, r) \subseteq DOMAIN q
      /\ Orphaned(s, r) \subseteq DOMAIN q
      /\ Expired(s, r) \subseteq DOMAIN q
      /\ Taken(s, r) \cap Orphaned(s, r) = {}
      /\ Taken(s, r) \cap Expired(s, r) = {}
  BY DrainSorts DEF Taken, Reached, Candidates, Waiting
<1>3. Elems(Batch(s, r)) = {q[j] : j \in Taken(s, r)}
  BY <1>1, <1>2, PickFacts DEF Batch
<1>4. PICK j \in Taken(s, r) : m = q[j]
  BY <1>3
<1>5. \A i \in Orphaned(s, r) \cup Expired(s, r) : q[i] # q[j]
  BY <1>1, <1>2 DEF Distinct
<1>6. /\ m \notin At(s, r, Orphaned(s, r))
      /\ m \notin At(s, r, Expired(s, r))
      /\ m \in At(s, r, Taken(s, r))
  BY <1>4, <1>5 DEF At
<1>7. m \in Msg /\ m[2] = r
  BY BatchQueued, BatchFacts DEF IsBatch
<1>8. Drain(s, r).status =
        [n \in Msg |-> CASE n \in At(s, r, Orphaned(s, r)) -> "rejected"
                         [] n \in At(s, r, Expired(s, r)) -> "stale"
                         [] n \in At(s, r, Taken(s, r)) -> "in_flight"
                         [] OTHER -> s.status[n]]
  BY DEF Sound, State, Drain, DrainAs
<1> QED BY <1>6, <1>7, <1>8

-----------------------------------------------------------------------------
(***************************************************************************)
(* Which operations send, hand over, or change who is where.               *)
(***************************************************************************)
\* Nothing is sent.
SendsNone(s, t) ==
  \A m \in Msg : s.status[m] = "unsent" => t.status[m] = "unsent"

\* Nothing is handed over.
HandsNone(s, t) ==
  \A m \in Msg : t.status[m] = "in_flight" => s.status[m] = "in_flight"

\* Rosters and pauses are as they were.
SameRooms(s, t) ==
  t.life = s.life /\ t.members = s.members /\ t.paused = s.paused

\* Neither of them.
Idles(s, t) == SendsNone(s, t) /\ HandsNone(s, t) /\ SameRooms(s, t)

\* Deleting mail, and the end of a cooldown.
LEMMA PurgeIdles ==
  ASSUME NEW s, Sound(s), NEW D \in SUBSET Persisted(s)
  PROVE  Idles(s, Purge(s, D))
<1> DEFINE t == Purge(s, D)
<1>1. t.status = [m \in Msg |-> IF m \in D THEN "purged" ELSE s.status[m]]
      /\ SameRooms(s, t)
  BY DEF Sound, State, Purge, SameRooms
<1>2. \A m \in D : s.status[m] # "unsent"
  BY DEF Persisted
<1> HIDE DEF t
<1>3. Idles(s, t)
  BY <1>1, <1>2 DEF Idles, SendsNone, HandsNone
<1> QED BY <1>3 DEF t

\* A cooldown says nothing of mail or members.
LEMMA EndCooldownIdles ==
  ASSUME NEW s, Sound(s), NEW c, NEW r
  PROVE  Idles(s, EndCooldown(s, c, r))
BY DEF Sound, State, EndCooldown, Idles, SendsNone, HandsNone, SameRooms

\* Settling a batch.
LEMMA CommitIdles ==
  ASSUME NEW s, Sound(s), NEW r, NEW ids
  PROVE  Idles(s, Commit(s, r, ids))
<1> DEFINE t == Commit(s, r, ids)
<1>1. t.status = [m \in Msg |->
        IF m \in Elems(ids) /\ s.status[m] = "in_flight" /\ m[2] = r
        THEN "delivered" ELSE s.status[m]]
      /\ SameRooms(s, t)
  BY DEF Sound, State, Commit, SameRooms
<1> HIDE DEF t
<1>2. Idles(s, t)
  BY <1>1 DEF Idles, SendsNone, HandsNone
<1> QED BY <1>2 DEF t

\* Also when it is given back.
LEMMA RequeueIdles ==
  ASSUME NEW s, Sound(s), NEW r, NEW ids
  PROVE  Idles(s, Requeue(s, r, ids))
<1> DEFINE t == Requeue(s, r, ids)
<1>1. t.status = [m \in Msg |->
        IF m \in Retryable(s, ids)
        THEN IF Spent(s, m) THEN "failed" ELSE "pending"
        ELSE s.status[m]]
      /\ SameRooms(s, t)
  BY DEF Sound, State, Requeue, SameRooms
<1>2. \A m \in Retryable(s, ids) : s.status[m] \in {"delivered", "in_flight"}
  BY DEF Retryable
<1> HIDE DEF t
<1>3. Idles(s, t)
  BY <1>1, <1>2 DEF Idles, SendsNone, HandsNone
<1> QED BY <1>3 DEF t

\* Or swept.
LEMMA SweepIdles ==
  ASSUME NEW s, Sound(s)
  PROVE  Idles(s, Sweep(s))
<1> DEFINE t == Sweep(s)
<1>1. t.status = [m \in Msg |-> IF m \in Sweepable(s) THEN "pending"
                                ELSE s.status[m]]
      /\ SameRooms(s, t)
  BY DEF Sound, State, Sweep, SameRooms
<1>2. \A m \in Sweepable(s) : s.status[m] = "in_flight"
  BY DEF Sweepable
<1> HIDE DEF t
<1>3. Idles(s, t)
  BY <1>1, <1>2 DEF Idles, SendsNone, HandsNone
<1> QED BY <1>3 DEF t

\* A drain hands over mail of its session only.
LEMMA DrainRooms ==
  ASSUME NEW s, Sound(s), NEW r \in Session
  PROVE  /\ SendsNone(s, Drain(s, r)) /\ SameRooms(s, Drain(s, r))
         /\ \A m \in Msg : Drain(s, r).status[m] = "in_flight" =>
              s.status[m] = "in_flight" \/ m[2] = r
<1> DEFINE t == Drain(s, r)
           q == s.queues[r]
           O == At(s, r, Orphaned(s, r))
           E == At(s, r, Expired(s, r))
           T == At(s, r, Taken(s, r))
<1>1. O \cup E \cup T \subseteq Elems(q)
  BY DrainSorts DEF At, Elems
<1>2. \A m \in O \cup E \cup T : s.status[m] = "pending" /\ m[2] = r
  BY <1>1 DEF Sound, Queued
<1>3. t.status = [m \in Msg |-> CASE m \in O -> "rejected"
                                  [] m \in E -> "stale"
                                  [] m \in T -> "in_flight"
                                  [] OTHER -> s.status[m]]
  BY DEF Sound, State, Drain, DrainAs
<1>4. SameRooms(s, t)
  BY DEF Sound, State, Drain, DrainAs, SameRooms
<1> HIDE DEF t, O, E, T
<1>5. SendsNone(s, t)
  <2> SUFFICES ASSUME NEW m \in Msg, s.status[m] = "unsent"
               PROVE  t.status[m] = "unsent"
    BY DEF SendsNone
  <2>1. m \notin O /\ m \notin E /\ m \notin T
    BY <1>2
  <2> QED BY <1>3, <2>1
<1>6. \A m \in Msg : t.status[m] = "in_flight" =>
        s.status[m] = "in_flight" \/ m[2] = r
  BY <1>2, <1>3
<1> QED BY <1>4, <1>5, <1>6 DEF t

\* A send is for the recipients it names.
LEMMA EnqueueRooms ==
  ASSUME NEW s, Sound(s), NEW c, NEW R
  PROVE  /\ HandsNone(s, Enqueue(s, c, R)) /\ SameRooms(s, Enqueue(s, c, R))
         /\ \A m \in Msg : Enqueue(s, c, R).status[m] # "unsent" =>
              s.status[m] # "unsent" \/ m[2] \in R
<1> DEFINE n == s.sent + 1
           t == Enqueue(s, c, R)
<1>1. t.status = [m \in Msg |-> IF m[1] = n /\ m[2] \in R
                                THEN "pending" ELSE s.status[m]]
      /\ SameRooms(s, t)
  BY DEF Sound, State, Enqueue, SameRooms
<1> HIDE DEF t, n
<1>2. HandsNone(s, t)
  BY <1>1 DEF HandsNone
<1>3. \A m \in Msg : t.status[m] # "unsent" => s.status[m] # "unsent" \/ m[2] \in R
  BY <1>1
<1> QED BY <1>1, <1>2, <1>3 DEF t

\* Nobody but the member who leaves is missing afterwards.
LEMMA RemoveMemberRooms ==
  ASSUME NEW s, Sound(s), NEW c \in Channel, NEW r
  PROVE  LET t == RemoveMember(s, c, r)
         IN  /\ SendsNone(s, t) /\ HandsNone(s, t)
             /\ t.life = s.life /\ t.paused = s.paused
             /\ \A d \in Channel : Members(s, d) \ {r} \subseteq Members(t, d)
             /\ \A d \in Channel : Members(t, d) \subseteq Members(s, d)
<1> DEFINE t == RemoveMember(s, c, r)
           dropped == Elems(s.queues[r])
<1>1. t.status = [m \in Msg |-> IF m \in dropped /\ s.status[m] = "pending"
                                THEN "rejected" ELSE s.status[m]]
      /\ t.life = s.life /\ t.paused = s.paused
      /\ t.members = [s.members EXCEPT ![c] = Filter(s.members[c], Session \ {r})]
  BY DEF Sound, State, RemoveMember
<1>2. s.members[c] \in Seq(Session) /\ s.members \in [Channel -> Seq(Session)]
  BY MembersType DEF Sound, State
<1>3. Elems(Filter(s.members[c], Session \ {r})) = Elems(s.members[c]) \cap (Session \ {r})
  BY <1>2, FilterFacts
<1>4. Elems(s.members[c]) \subseteq Session
  BY MembersType DEF Sound, Members
<1> HIDE DEF t, dropped
<1>5. \A d \in Channel : t.members[d] = IF d = c THEN Filter(s.members[c], Session \ {r})
                                        ELSE s.members[d]
  BY <1>1, <1>2
<1>6. \A d \in Channel : /\ Members(s, d) \ {r} \subseteq Members(t, d)
                         /\ Members(t, d) \subseteq Members(s, d)
  BY <1>3, <1>4, <1>5 DEF Members
<1>7. SendsNone(s, t) /\ HandsNone(s, t)
  BY <1>1 DEF SendsNone, HandsNone
<1> QED BY <1>1, <1>6, <1>7 DEF t

\* A join is an addition.
LEMMA JoinRooms ==
  ASSUME NEW s, Sound(s), NEW c \in Channel, NEW r \in Session
  PROVE  LET t == JoinChannel(s, c, r)
         IN  /\ t.status = s.status /\ t.total = s.total
             /\ t.life = s.life /\ t.paused = s.paused
             /\ \A d \in Channel : Members(s, d) \subseteq Members(t, d)
<1> DEFINE t == JoinChannel(s, c, r)
<1>1. /\ t.status = s.status /\ t.total = s.total
      /\ t.life = s.life /\ t.paused = s.paused
      /\ t.members = [s.members EXCEPT ![c] = Append(s.members[c], r)]
  BY DEF Sound, State, JoinChannel
<1>2. s.members \in [Channel -> Seq(Session)]
  BY DEF Sound, State
<1>3. Elems(Append(s.members[c], r)) = Elems(s.members[c]) \cup {r}
  BY <1>2, AppendFacts
<1> HIDE DEF t
<1>4. \A d \in Channel : Members(s, d) \subseteq Members(t, d)
  BY <1>1, <1>2, <1>3 DEF Members
<1> QED BY <1>1, <1>4 DEF t

-----------------------------------------------------------------------------
(***************************************************************************)
(* The mail contract, as a relation between two states: what the step from *)
(* s to t does to each envelope and to what each channel was charged.      *)
(***************************************************************************)
\* The moves without a hand-over.
Settles(s, t, m) ==
  \/ t.status[m] = s.status[m]
  \/ s.status[m] = "unsent" /\ t.status[m] \in {"pending", "purged"}
  \/ s.status[m] = "in_flight" /\ t.status[m] \in {"delivered", "pending"}
  \/ s.status[m] = "delivered" /\ t.status[m] = "pending" /\ ~Spent(s, m)
  \/ s.status[m] = "pending" /\ t.status[m] \in Refusals
  \/ s.status[m] \in Out /\ t.status[m] = "failed" /\ Spent(s, m)
  \/ s.status[m] # "unsent" /\ t.status[m] = "purged"

HandsOver(s, t, m) ==
  /\ s.status[m] = "pending" /\ t.status[m] \in Out \cup {"purged"}
  /\ s.chan[m[1]] \in Taking(s)

HandedIn(s, t) == {m \in Msg : t.attempts[m] # s.attempts[m]}

Charged(s, t, c) ==
  /\ t.total[c] = s.total[c]
       + Cardinality({m \in HandedIn(s, t) : s.chan[m[1]] = c})
  /\ Budget[c] # 0 /\ s.total[c] <= Budget[c] => t.total[c] <= Budget[c]

KeepsRooms(s, t) ==
  /\ \A m \in Msg : s.status[m] # "unsent" => t.chan[m[1]] = s.chan[m[1]]
  /\ \A c \in Channel : s.life[c] = "gone" => t.life[c] = "gone"

Honours(s, t) ==
  /\ \A m \in Msg :
       \/ HandsOver(s, t, m) /\ t.attempts[m] = s.attempts[m] + 1
       \/ Settles(s, t, m) /\ t.attempts[m] = s.attempts[m]
  /\ \A m, n \in HandedIn(s, t) : m[2] = n[2]
  /\ KeepsRooms(s, t)
  /\ \A c \in Channel : t.life[c] = "gone" \/ Charged(s, t, c)

\* What operations that neither send nor settle do: some pending mail is
\* refused, some stored mail deleted.
Tends(s, t) ==
  /\ \A m \in Msg :
       \/ t.status[m] = s.status[m]
       \/ s.status[m] # "unsent" /\ t.status[m] = "purged"
       \/ s.status[m] = "pending" /\ t.status[m] \in Refusals
  /\ t.attempts = s.attempts
  /\ KeepsRooms(s, t)
  /\ \A c \in Channel : t.life[c] = "gone" \/ t.total[c] = s.total[c]

SameBooks(s, t) ==
  /\ t.attempts = s.attempts /\ t.total = s.total
  /\ t.chan = s.chan /\ t.life = s.life

\* A step without a hand-over charges nothing.
LEMMA SettlingHonours ==
  ASSUME NEW s, Sound(s), NEW t, \A m \in Msg : Settles(s, t, m),
         t.attempts = s.attempts, KeepsRooms(s, t),
         \A c \in Channel : t.life[c] = "gone" \/ t.total[c] = s.total[c]
  PROVE  Honours(s, t)
<1>1. HandedIn(s, t) = {}
  BY DEF HandedIn
<1>2. ASSUME NEW c \in Channel, t.total[c] = s.total[c]
      PROVE  Charged(s, t, c)
  <2>1. {m \in HandedIn(s, t) : s.chan[m[1]] = c} = {}
    BY <1>1
  <2>2. Cardinality({m \in HandedIn(s, t) : s.chan[m[1]] = c}) = 0
    BY <2>1, FS_EmptySet
  <2>3. s.total[c] \in Nat
    BY DEF Sound, State
  <2> QED BY <1>2, <2>2, <2>3 DEF Charged
<1> QED BY <1>1, <1>2 DEF Honours

LEMMA TendsHonours ==
  ASSUME NEW s, Sound(s), NEW t, Tends(s, t)
  PROVE  Honours(s, t)
<1>1. \A m \in Msg : Settles(s, t, m)
  BY DEF Tends, Settles
<1> QED BY <1>1, SettlingHonours DEF Tends

LEMMA TendsTransitive ==
  ASSUME NEW s, NEW t, NEW u, Tends(s, t), Tends(t, u)
  PROVE  Tends(s, u)
<1>1. \A m \in Msg :
        \/ u.status[m] = s.status[m]
        \/ s.status[m] # "unsent" /\ u.status[m] = "purged"
        \/ s.status[m] = "pending" /\ u.status[m] \in Refusals
  BY DEF Tends, Refusals
<1>2. KeepsRooms(s, u)
  BY DEF Tends, KeepsRooms, Refusals
<1>3. \A c \in Channel : u.life[c] = "gone" \/ u.total[c] = s.total[c]
  BY DEF Tends, KeepsRooms
<1> QED BY <1>1, <1>2, <1>3 DEF Tends

\* A step that changes neither mail nor books.
SameMailAndBooks(s, t) == t.status = s.status /\ SameBooks(s, t)

LEMMA TendsSame ==
  \A s, t : SameMailAndBooks(s, t) => Tends(s, t)
BY DEF Tends, KeepsRooms, SameMailAndBooks, SameBooks

\* The same before the step.
LEMMA HonoursFrom ==
  ASSUME NEW s, NEW t, NEW u, SameBooks(s, t), t.status = s.status,
         t.paused = s.paused, Honours(t, u)
  PROVE  Honours(s, u)
<1>1. Taking(s) = Taking(t)
  BY DEF Taking, Active, SameBooks
<1>2. HandedIn(s, u) = HandedIn(t, u)
  BY DEF HandedIn, SameBooks
<1>3. ASSUME NEW m \in Msg
      PROVE  /\ HandsOver(t, u, m) => HandsOver(s, u, m)
             /\ Settles(t, u, m) => Settles(s, u, m)
  BY <1>1 DEF HandsOver, Settles, Spent, SameBooks
<1>4. KeepsRooms(s, u)
  BY DEF Honours, KeepsRooms, SameBooks
<1>5. \A c \in Channel : Charged(t, u, c) => Charged(s, u, c)
  BY <1>2 DEF Charged, SameBooks
<1> QED BY <1>2, <1>3, <1>4, <1>5 DEF Honours, SameBooks

\* And after it, when each envelope still made one of the moves.
LEMMA HonoursThen ==
  ASSUME NEW s, NEW t, NEW u, Honours(s, t), SameBooks(t, u),
         \A m \in Msg : /\ HandsOver(s, t, m) => HandsOver(s, u, m)
                        /\ Settles(s, t, m) => Settles(s, u, m)
  PROVE  Honours(s, u)
<1>1. HandedIn(s, u) = HandedIn(s, t)
  BY DEF HandedIn, SameBooks
<1>2. KeepsRooms(s, u)
  BY DEF Honours, KeepsRooms, SameBooks
<1>3. \A c \in Channel : Charged(s, t, c) => Charged(s, u, c)
  BY <1>1 DEF Charged, SameBooks
<1> QED BY <1>1, <1>2, <1>3 DEF Honours, SameBooks

\* Deleting stored mail.
LEMMA PurgeTends ==
  ASSUME NEW s, Sound(s), NEW D \in SUBSET Persisted(s)
  PROVE  /\ Tends(s, Purge(s, D)) /\ SameBooks(s, Purge(s, D))
         /\ Purge(s, D).paused = s.paused
         /\ \A m \in Msg : Purge(s, D).status[m] =
              IF m \in D THEN "purged" ELSE s.status[m]
<1>1. /\ Purge(s, D).status = [m \in Msg |-> IF m \in D THEN "purged"
                                             ELSE s.status[m]]
      /\ SameBooks(s, Purge(s, D)) /\ Purge(s, D).paused = s.paused
  BY DEF Sound, State, Purge, SameBooks
<1>2. \A m \in D : s.status[m] # "unsent"
  BY DEF Persisted
<1> QED BY <1>1, <1>2 DEF Tends, KeepsRooms, SameBooks

\* A save that prunes keeps the contract if what it saves does.
LEMMA PrunedHonours ==
  ASSUME NEW s, NEW t, Sound(t), Honours(s, t), NEW D \in SUBSET Persisted(t)
  PROVE  Honours(s, Purge(t, D))
<1> DEFINE u == Purge(t, D)
<1>1. SameBooks(t, u)
  BY PurgeTends
<1>2. \A m \in Msg : u.status[m] = t.status[m]
                      \/ (u.status[m] = "purged" /\ t.status[m] # "unsent")
  BY PurgeTends DEF Persisted
<1> HIDE DEF u
<1>3. ASSUME NEW m \in Msg
      PROVE  /\ HandsOver(s, t, m) => HandsOver(s, u, m)
             /\ Settles(s, t, m) => Settles(s, u, m)
  BY <1>2 DEF HandsOver, Settles, Out
<1>4. Honours(s, u)
  BY <1>1, <1>3, HonoursThen
<1> QED BY <1>4 DEF u

\* A channel goes with its count.
LEMMA CloseTends ==
  ASSUME NEW s, Sound(s), NEW c \in Channel
  PROVE  Tends(s, Close(s, c))
<1>1. /\ Close(s, c).status = s.status
      /\ Close(s, c).attempts = s.attempts
      /\ Close(s, c).chan = s.chan
      /\ Close(s, c).life = [s.life EXCEPT ![c] = "gone"]
      /\ Close(s, c).total = [s.total EXCEPT ![c] = 0]
  BY DEF Sound, State, Close
<1>2. /\ s.life \in [Channel -> {"new", "active", "gone"}]
      /\ s.total \in [Channel -> Nat]
  BY DEF Sound, State
<1> QED BY <1>1, <1>2 DEF Tends, KeepsRooms

LEMMA PurgeChannelTends ==
  ASSUME NEW s, Sound(s), NEW c \in Channel
  PROVE  Tends(s, PurgeChannel(s, c))
<1> DEFINE D == {m \in Persisted(s) : s.chan[m[1]] = c}
           t == Purge(s, D)
<1>1. Sound(t) /\ Tends(s, t)
  BY PurgeSound, PurgeTends
<1>2. Tends(t, Close(t, c))
  BY <1>1, CloseTends
<1>3. Tends(s, Close(t, c))
  BY <1>1, <1>2, TendsTransitive
<1> QED BY <1>3 DEF PurgeChannel

LEMMA RemoveMemberTends ==
  ASSUME NEW s, Sound(s), NEW c \in Channel, NEW r \in Session
  PROVE  Tends(s, RemoveMember(s, c, r))
<1>1. /\ RemoveMember(s, c, r).status =
           [m \in Msg |->
              IF m \in Elems(s.queues[r]) /\ s.status[m] = "pending"
              THEN "rejected" ELSE s.status[m]]
      /\ SameBooks(s, RemoveMember(s, c, r))
  BY DEF Sound, State, RemoveMember, SameBooks
<1> QED BY <1>1 DEF Tends, KeepsRooms, SameBooks, Refusals

LEMMA DisconnectTends ==
  ASSUME NEW s, Sound(s), NEW c \in Channel, NEW r \in Session
  PROVE  Tends(s, Disconnect(s, c, r))
<1> DEFINE t == RemoveMember(s, c, r)
<1>1. Sound(t) /\ Tends(s, t)
  BY RemoveMemberSound, RemoveMemberTends
<1>2. Tends(t, Close(t, c))
  BY <1>1, CloseTends
<1>3. Tends(s, Close(t, c))
  BY <1>1, <1>2, TendsTransitive
<1> QED BY <1>1, <1>3 DEF Disconnect

\* Creating, joining and pausing channels, marks and time leave the mail.
LEMMA RestTends ==
  ASSUME NEW s, Sound(s)
  PROVE  /\ \A c \in Channel, r \in Session :
              /\ CanCreate(s, c) => /\ Tends(s, OpenChannel(s, c))
                                    /\ Tends(s, CreateChannel(s, c, r))
              /\ Tends(s, JoinChannel(s, c, r))
         /\ \A c, b : Tends(s, SetPaused(s, c, b))
         /\ \A r : Tends(s, MarkStale(s, r)) /\ Tends(s, ClearStale(s, r))
         /\ Tends(s, Age(s))
         /\ \A c, r : Tends(s, EndCooldown(s, c, r))
         /\ \A c : Tends(s, Overrun(s, c))
<1>1. s \in State
  BY DEF Sound
<1>2. ASSUME NEW c \in Channel, NEW r \in Session, CanCreate(s, c)
      PROVE  Tends(s, OpenChannel(s, c)) /\ Tends(s, CreateChannel(s, c, r))
  <2> DEFINE Opened(t) ==
        /\ t.status = s.status /\ t.attempts = s.attempts
        /\ t.total = s.total /\ t.chan = s.chan
        /\ t.life = [s.life EXCEPT ![c] = "active"]
  <2>1. Opened(OpenChannel(s, c)) /\ Opened(CreateChannel(s, c, r))
    BY <1>1 DEF State, OpenChannel, CreateChannel
  <2>2. s.life[c] = "new" /\ s.life \in [Channel -> {"new", "active", "gone"}]
    BY <1>1, <1>2 DEF State, CanCreate
  <2>3. ASSUME NEW t, Opened(t)
        PROVE  Tends(s, t)
    BY <2>2, <2>3 DEF Tends, KeepsRooms
  <2> QED BY <2>1, <2>3
<1>3. \A c, r : SameMailAndBooks(s, JoinChannel(s, c, r))
  BY <1>1 DEF State, JoinChannel, SameMailAndBooks, SameBooks
<1>4. \A c, b : SameMailAndBooks(s, SetPaused(s, c, b))
  BY <1>1 DEF State, SetPaused, SameMailAndBooks, SameBooks
<1>5. \A r : /\ SameMailAndBooks(s, MarkStale(s, r))
             /\ SameMailAndBooks(s, ClearStale(s, r))
  BY <1>1 DEF State, MarkStale, ClearStale, SameMailAndBooks, SameBooks
<1>6. SameMailAndBooks(s, Age(s))
  BY <1>1 DEF State, Age, SameMailAndBooks, SameBooks
<1>7. /\ \A c, r : SameMailAndBooks(s, EndCooldown(s, c, r))
      /\ \A c : SameMailAndBooks(s, Overrun(s, c))
  BY <1>1 DEF State, EndCooldown, Overrun, SameMailAndBooks, SameBooks
<1> QED BY <1>2, <1>3, <1>4, <1>5, <1>6, <1>7, TendsSame

\* A send posts envelopes that were not sent before; what comes before it in
\* the same section may refuse or delete others.
LEMMA EnqueueHonours ==
  ASSUME NEW s, Sound(s), NEW t, Sound(t), Tends(s, t),
         NEW c \in Channel, NEW R
  PROVE  Honours(s, Enqueue(t, c, R))
<1> DEFINE n == t.sent + 1
           u == Enqueue(t, c, R)
<1>1. /\ u.status = [m \in Msg |-> IF m[1] = n /\ m[2] \in R
                                   THEN "pending" ELSE t.status[m]]
      /\ u.attempts = t.attempts /\ u.total = t.total /\ u.life = t.life
      /\ u.chan = [t.chan EXCEPT ![n] = c]
  BY DEF Sound, State, Enqueue
<1>2. n \in Nat /\ n > t.sent
  BY DEF Sound, State
<1>3. \A m \in Msg : m[1] = n => t.status[m] = "unsent"
  BY <1>2 DEF Sound, Fresh
<1>4. t.chan \in [Send -> Channel \cup {NoChannel}]
  BY DEF Sound, State
<1> HIDE DEF u, n
<1>5. ASSUME NEW m \in Msg
      PROVE  Settles(s, u, m)
  BY <1>1, <1>3 DEF Tends, Settles, Refusals
<1>6. KeepsRooms(s, u)
  <2>1. ASSUME NEW m \in Msg, s.status[m] # "unsent"
        PROVE  u.chan[m[1]] = s.chan[m[1]]
    <3>1. t.status[m] # "unsent" /\ t.chan[m[1]] = s.chan[m[1]]
      BY <2>1 DEF Tends, KeepsRooms, Refusals
    <3>2. m[1] # n /\ m[1] \in Send
      BY <1>3, <3>1, MsgFacts
    <3> QED BY <1>1, <1>4, <3>1, <3>2
  <2> QED BY <1>1, <2>1 DEF Tends, KeepsRooms
<1>7. Honours(s, u)
  BY <1>1, <1>5, <1>6, SettlingHonours DEF Tends
<1> QED BY <1>7 DEF u

LEMMA KickHonours ==
  ASSUME NEW s, Sound(s), NEW c \in Channel, NEW r \in Session
  PROVE  Honours(s, Kick(s, c, r))
<1> DEFINE t == RemoveMember(s, c, r)
<1>1. Sound(t) /\ Tends(s, t)
  BY RemoveMemberSound, RemoveMemberTends
<1>2. Honours(s, Enqueue(t, c, Members(t, c))) /\ Honours(s, t)
  BY <1>1, EnqueueHonours, TendsHonours
<1> QED BY <1>1, <1>2 DEF Kick

\* A commit after what was handed over or settled in the same section.
LEMMA CommitHonours ==
  ASSUME NEW s, NEW t, Sound(t), Honours(s, t), NEW r, NEW ids
  PROVE  Honours(s, Commit(t, r, ids))
<1> DEFINE u == Commit(t, r, ids)
<1>1. /\ u.status = [m \in Msg |->
              IF m \in Elems(ids) /\ t.status[m] = "in_flight" /\ m[2] = r
              THEN "delivered" ELSE t.status[m]]
      /\ SameBooks(t, u)
  BY DEF Sound, State, Commit, SameBooks
<1> HIDE DEF u
<1>2. ASSUME NEW m \in Msg
      PROVE  /\ HandsOver(s, t, m) => HandsOver(s, u, m)
             /\ Settles(s, t, m) => Settles(s, u, m)
  BY <1>1 DEF HandsOver, Settles, Out, Refusals
<1>3. Honours(s, u)
  BY <1>1, <1>2, HonoursThen
<1> QED BY <1>3 DEF u

LEMMA RequeueHonours ==
  ASSUME NEW s, Sound(s), NEW r \in Session, NEW ids
  PROVE  Honours(s, Requeue(s, r, ids))
<1> DEFINE t == Requeue(s, r, ids)
<1>1. /\ t.status = [m \in Msg |->
              IF m \in Retryable(s, ids)
              THEN IF Spent(s, m) THEN "failed" ELSE "pending"
              ELSE s.status[m]]
      /\ SameBooks(s, t)
  BY DEF Sound, State, Requeue, SameBooks
<1>2. \A m \in Retryable(s, ids) : s.status[m] \in Out
  BY DEF Retryable, Out
<1> HIDE DEF t
<1>3. \A m \in Msg : Settles(s, t, m)
  BY <1>1, <1>2 DEF Settles, Out
<1>4. KeepsRooms(s, t)
  BY <1>1 DEF SameBooks, KeepsRooms
<1>5. Honours(s, t)
  BY <1>1, <1>3, <1>4, SettlingHonours DEF SameBooks
<1> QED BY <1>5 DEF t

LEMMA SweepHonours ==
  ASSUME NEW s, Sound(s)
  PROVE  Honours(s, Sweep(s))
<1> DEFINE t == Sweep(s)
<1>1. /\ t.status = [m \in Msg |-> IF m \in Sweepable(s) THEN "pending"
                                   ELSE s.status[m]]
      /\ SameBooks(s, t)
  BY DEF Sound, State, Sweep, SameBooks
<1>2. \A m \in Sweepable(s) : s.status[m] = "in_flight"
  BY DEF Sweepable
<1> HIDE DEF t
<1>3. \A m \in Msg : Settles(s, t, m)
  BY <1>1, <1>2 DEF Settles
<1>4. KeepsRooms(s, t)
  BY <1>1 DEF SameBooks, KeepsRooms
<1>5. Honours(s, t)
  BY <1>1, <1>3, <1>4, SettlingHonours DEF SameBooks
<1> QED BY <1>5 DEF t

\* A queue without repetition names as many envelopes as it has entries.
LEMMA EntriesCount ==
  ASSUME NEW q \in Seq(Msg), Distinct(q), NEW K \in SUBSET DOMAIN q
  PROVE  Cardinality({q[i] : i \in K}) = Cardinality(K)
<1> DEFINE f == [i \in K |-> q[i]]
           T == {q[i] : i \in K}
<1>1. K \in SUBSET (1..Len(q)) /\ Len(q) \in Nat
  OBVIOUS
<1>2. IsFiniteSet(K)
  BY <1>1, RankFacts
<1>3. f \in Bijection(K, T)
  <2>1. f \in [K -> T] /\ \A y \in T : \E i \in K : f[i] = y
    OBVIOUS
  <2>2. \A i, j \in K : f[i] = f[j] => i = j
    BY DEF Distinct
  <2> HIDE DEF f, T
  <2> QED BY <2>1, <2>2
          DEF Bijection, Injection, Surjection, IsInjective
<1>4. ExistsBijection(K, T)
  BY <1>3 DEF ExistsBijection
<1> HIDE DEF f, T
<1>5. Cardinality(T) = Cardinality(K)
  BY <1>2, <1>4, FS_Bijection
<1> QED BY <1>5 DEF T

\* A drain hands over what it takes, from channels that take mail, to one
\* recipient, and charges each of them its share.
LEMMA DrainHonours ==
  ASSUME NEW s, Sound(s), NEW r \in Session
  PROVE  Honours(s, Drain(s, r))
<1> DEFINE t == Drain(s, r)
           q == s.queues[r]
           O == At(s, r, Orphaned(s, r))
           E == At(s, r, Expired(s, r))
           T == At(s, r, Taken(s, r))
<1>1. /\ t.status = [m \in Msg |-> CASE m \in O -> "rejected"
                                     [] m \in E -> "stale"
                                     [] m \in T -> "in_flight"
                                     [] OTHER -> s.status[m]]
      /\ t.attempts = [m \in Msg |-> IF m \in T THEN s.attempts[m] + 1
                                     ELSE s.attempts[m]]
      /\ \A c \in Channel : t.total[c] = s.total[c] + Handovers(s, r, c)
      /\ t.chan = s.chan /\ t.life = s.life
  BY DEF Sound, State, Drain, DrainAs
<1>2. q \in Seq(Msg) /\ Distinct(q) /\ s.attempts \in [Msg -> Nat]
  BY QueueType DEF Sound, Queued, State
<1>3. /\ Taken(s, r) \subseteq DOMAIN q
      /\ Orphaned(s, r) \subseteq DOMAIN q
      /\ Expired(s, r) \subseteq DOMAIN q
      /\ Taken(s, r) \cap Orphaned(s, r) = {}
      /\ Taken(s, r) \cap Expired(s, r) = {}
      /\ Taken(s, r) \cap Held(s, r) = {}
      /\ Taken(s, r) \subseteq Addressed(s, r)
  BY DrainSorts DEF Taken, Reached, Candidates, Waiting
<1>4. /\ O \cup E \cup T \subseteq Elems(q) /\ Elems(q) \subseteq Msg
      /\ T \cap O = {} /\ T \cap E = {}
  BY <1>2, <1>3 DEF At, Elems, Distinct
<1>5. \A m \in Elems(q) : s.status[m] = "pending" /\ m[2] = r
  BY DEF Sound, Queued
<1>6. ASSUME NEW m \in T
      PROVE  s.chan[m[1]] \in Taking(s)
  <2>1. PICK i \in Taken(s, r) : m = q[i]
    BY DEF At
  <2>2. m \in Msg /\ s.status[m] = "pending"
    BY <1>4, <1>5
  <2>3. s.sent \in Nat /\ m[1] \in Nat
    BY <2>2, MsgFacts DEF Sound, State
  <2>4. s.chan[m[1]] \in Channel
    BY <2>2, <2>3 DEF Sound, Fresh
  <2>5. i \in Addressed(s, r) /\ i \notin Orphaned(s, r) /\ i \notin Held(s, r)
    BY <1>3
  <2>6. ChannelOf(s, q[i]) = s.chan[m[1]]
    BY <2>1 DEF ChannelOf
  <2> QED BY <2>4, <2>5, <2>6 DEF Orphaned, Held, Taking
<1>7. HandedIn(s, t) = T
  BY <1>1, <1>2, <1>4 DEF HandedIn
<1>8. ASSUME NEW c \in Channel
      PROVE  Charged(s, t, c)
  <2> DEFINE K == {i \in Taken(s, r) : ChannelOf(s, q[i]) = c}
  <2>1. {m \in T : s.chan[m[1]] = c} = {q[i] : i \in K}
    BY DEF At, ChannelOf
  <2>2. K \in SUBSET DOMAIN q
    BY <1>3
  <2> HIDE DEF K
  <2>3. Cardinality({q[i] : i \in K}) = Cardinality(K)
    BY <1>2, <2>2, EntriesCount
  <2>4. Handovers(s, r, c) = Cardinality(K)
    BY DEF K, Handovers
  <2>5. Budget[c] # 0 /\ s.total[c] <= Budget[c] =>
          s.total[c] + Handovers(s, r, c) <= Budget[c]
    BY BatchWithinBudget
  <2>6. t.total[c] = s.total[c] + Handovers(s, r, c)
    BY <1>1
  <2>7. Cardinality({m \in HandedIn(s, t) : s.chan[m[1]] = c})
          = Handovers(s, r, c)
    BY <1>7, <2>1, <2>3, <2>4
  <2> HIDE DEF t
  <2> QED BY <2>5, <2>6, <2>7 DEF Charged
<1> HIDE DEF t, q, O, E, T
<1>9. ASSUME NEW m \in Msg
      PROVE  \/ HandsOver(s, t, m) /\ t.attempts[m] = s.attempts[m] + 1
             \/ Settles(s, t, m) /\ t.attempts[m] = s.attempts[m]
  <2>1. CASE m \in T
    <3>1. s.status[m] = "pending" /\ t.status[m] = "in_flight"
      BY <1>1, <1>4, <1>5, <2>1
    <3> QED BY <1>1, <1>6, <2>1, <3>1 DEF HandsOver, Out
  <2>2. CASE m \notin T
    <3>1. CASE m \in O \cup E
      BY <1>1, <1>4, <1>5, <2>2, <3>1 DEF Settles, Refusals
    <3>2. CASE m \notin O \cup E
      BY <1>1, <2>2, <3>2 DEF Settles
    <3> QED BY <3>1, <3>2
  <2> QED BY <2>1, <2>2
<1>10. KeepsRooms(s, t)
  BY <1>1 DEF KeepsRooms
<1>11. \A m, n \in HandedIn(s, t) : m[2] = n[2]
  BY <1>4, <1>5, <1>7
<1>12. Honours(s, t)
  BY <1>8, <1>9, <1>10, <1>11 DEF Honours
<1> QED BY <1>12 DEF t

\* The channels that are there are within their budgets.
WithinBudget(s) ==
  \A c \in Channel :
    Budget[c] # 0 /\ s.life[c] # "gone" => s.total[c] <= Budget[c]

LEMMA BudgetHonoured ==
  ASSUME NEW s, NEW t, WithinBudget(s), Honours(s, t)
  PROVE  WithinBudget(t)
BY DEF WithinBudget, Honours, KeepsRooms, Charged

=============================================================================
