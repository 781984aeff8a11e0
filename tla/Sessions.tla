------------------------------ MODULE Sessions ------------------------------
(***************************************************************************)
(* Saving, resuming and deleting sessions: buildSessionArchive,            *)
(* commitSessionSave, resumeSession and deleteSession of                   *)
(* src/src/core/engine.ts with the archive files of src/src/core/archive.ts*)
(* as the OpenCode plugin, the MCP tools, the console and the CLI call     *)
(* them.                                                                   *)
(*                                                                         *)
(* A live session is in the state file, a saved one in a file of its own.  *)
(* A save writes both, one after the other, inside one locked section, so  *)
(* it can stop in between.  All other sections write one file and are one  *)
(* step; the lock itself is the subject of StateLock, the queues and what  *)
(* a save does to mail in flight that of Delivery.                         *)
(***************************************************************************)
EXTENDS Integers, Sequences, FiniteSets

CONSTANTS
  Agent,        \* sessions of hosts
  Pinned,       \* those that use the MCP tools
  Console,      \* the operator at the GUI or the CLI
  Channel,      \* sessions that agents create, by their newChannelId
  NoChannel,
  MaxMail,      \* bound on sends: Mail == 1..MaxMail, in the order sent
  MaxLadder,    \* MAX_RESUME_LADDER, 8 in the code
  MaxStored,    \* MAX_PERSISTED_MESSAGES, 2000 in the code
  MaxFaults     \* bound on saves that stop half way

ASSUME SessionsAssumption ==
  /\ Pinned \subseteq Agent /\ Console \notin Agent
  /\ NoChannel \notin Channel
  /\ MaxMail \in Nat
  /\ MaxLadder \in Nat \ {0} /\ MaxStored \in Nat \ {0}
  /\ MaxFaults \in Nat

VARIABLES
  chan,        \* the sessions in the state file
  stored,      \* the messages in the state file
  archive,     \* the archive files
  saving,      \* the session whose save holds the lock half done
  sentTo,      \* the session each message was sent to (history)
  dropped,     \* messages a cap or a deletion removed (history)
  deleted,     \* sessions someone deleted (history)
  interrupted, \* sessions with a save that stopped half way (history)
  faults

sessionsVars == <<chan, stored, archive, saving, sentTo, dropped, deleted,
                  interrupted, faults>>

Who == Agent \cup {Console}
Mail == 1..MaxMail

\* The name a session was created with has no suffix; a resumed one may add
\* "-r2", "-r3" and so on, to a name that already has some.
ChannelName == Seq(2..(MaxLadder + 1))

ChannelRecord ==
  [live : BOOLEAN, name : ChannelName, members : SUBSET Agent,
   parent : Channel \cup {NoChannel}]
ArchiveFile ==
  [state : {"none", "good", "broken"}, name : ChannelName,
   members : SUBSET Agent, messages : SUBSET Mail]

NeverOpened == [live |-> FALSE, name |-> <<>>, members |-> {}, parent |-> NoChannel]
NoFile == [state |-> "none", name |-> <<>>, members |-> {}, messages |-> {}]

SessionsTypeOK ==
  /\ chan \in [Channel -> ChannelRecord]
  /\ stored \subseteq Mail
  /\ archive \in [Channel -> ArchiveFile]
  /\ saving \in Channel \cup {NoChannel}
  /\ sentTo \in [Mail -> Channel \cup {NoChannel}]
  /\ dropped \subseteq Mail
  /\ deleted \subseteq Channel
  /\ interrupted \subseteq Channel
  /\ faults \in 0..MaxFaults

SessionsInit ==
  /\ chan = [s \in Channel |-> NeverOpened]
  /\ stored = {}
  /\ archive = [s \in Channel |-> NoFile]
  /\ saving = NoChannel
  /\ sentTo = [m \in Mail |-> NoChannel]
  /\ dropped = {}
  /\ deleted = {}
  /\ interrupted = {}
  /\ faults = 0

-----------------------------------------------------------------------------
Live == {s \in Channel : chan[s].live}
Ended(s) == [NeverOpened EXCEPT !.parent = chan[s].parent]
MessagesOf(s) == {m \in stored : sentTo[m] = s}

Unused(s) == chan[s] = NeverOpened /\ archive[s] = NoFile /\ s \notin deleted
             /\ \A m \in Mail : sentTo[m] # s
             /\ \A t \in Channel : chan[t].parent # s

\* An MCP tool first asks that its member is on the roster of some session.
MayCall(w) == w \in Pinned => \E s \in Live : w \in chan[s].members

LockFree == saving = NoChannel

Create(w, s) ==
  /\ LockFree /\ Unused(s)
  /\ \A t \in Live : chan[t].name # <<>>
  /\ chan' = [chan EXCEPT ![s] = [NeverOpened EXCEPT !.live = TRUE,
                                    !.members = {w} \ {Console}]]
  /\ UNCHANGED <<stored, archive, saving, sentTo, dropped, deleted,
                 interrupted, faults>>

JoinChannel(a, s) ==
  /\ LockFree /\ s \in Live /\ a \notin chan[s].members
  /\ chan' = [chan EXCEPT ![s].members = @ \cup {a}]
  /\ UNCHANGED <<stored, archive, saving, sentTo, dropped, deleted,
                 interrupted, faults>>

\* The last member that leaves takes the session with it; the messages stay
\* in the state file until they are pruned.
LeaveChannel(a, s) ==
  /\ LockFree /\ s \in Live /\ a \in chan[s].members
  /\ chan' = [chan EXCEPT ![s] =
                 IF chan[s].members = {a} THEN Ended(s)
                 ELSE [chan[s] EXCEPT !.members = chan[s].members \ {a}]]
  /\ UNCHANGED <<stored, archive, saving, sentTo, dropped, deleted,
                 interrupted, faults>>

\* pruneMessages: the oldest messages beyond the cap.
Pruned(all) == {m \in all : Cardinality({n \in all : n >= m}) > MaxStored}

NextMail(m) == sentTo[m] = NoChannel /\ \A n \in 1..(m - 1) : sentTo[n] # NoChannel

SendMail(a, s, m) ==
  /\ LockFree /\ s \in Live
  /\ a \in chan[s].members /\ chan[s].members # {a}
  /\ NextMail(m)
  /\ sentTo' = [sentTo EXCEPT ![m] = s]
  /\ LET all == stored \cup {m} IN
       /\ stored' = all \ Pruned(all)
       /\ dropped' = dropped \cup Pruned(all)
  /\ UNCHANGED <<chan, archive, saving, deleted, interrupted, faults>>

-----------------------------------------------------------------------------
(* Saving.                                                                 *)

MaySave(w, s) == s \in Live /\ MayCall(w) /\ (w # Console => w \in chan[s].members)

Archive(s) ==
  [state |-> "good", name |-> chan[s].name, members |-> chan[s].members,
   messages |-> MessagesOf(s)]

\* Slips for the mutant runs: the state file is written first, and a purge
\* that leaves the channel.
PurgeFirst(w, s) ==
  /\ LockFree /\ MaySave(w, s)
  /\ stored' = stored \ MessagesOf(s)
  /\ saving' = s
  /\ UNCHANGED <<chan, archive, sentTo, dropped, deleted, interrupted, faults>>
PurgeMessages(s) == UNCHANGED chan /\ stored' = stored \ MessagesOf(s)

WriteArchive(w, s) ==
  /\ LockFree /\ MaySave(w, s)
  /\ archive' = [archive EXCEPT ![s] = Archive(s)]
  /\ saving' = s
  /\ UNCHANGED <<chan, stored, sentTo, dropped, deleted, interrupted, faults>>

\* commitSessionSave, and the same purge in the routes that delete.
Purge(s) ==
  /\ chan' = [chan EXCEPT ![s] = Ended(s)]
  /\ stored' = stored \ MessagesOf(s)

CommitSave ==
  /\ saving # NoChannel
  /\ Purge(saving)
  /\ saving' = NoChannel
  /\ UNCHANGED <<archive, sentTo, dropped, deleted, interrupted, faults>>

CountFault == faults < MaxFaults /\ faults' = faults + 1

\* The state file cannot be written, or the process dies before it is.
SaveStops ==
  /\ CountFault
  /\ saving # NoChannel /\ saving' = NoChannel
  /\ interrupted' = interrupted \cup {saving}
  /\ UNCHANGED <<chan, stored, archive, sentTo, dropped, deleted>>

\* Both renames fail and the direct write of the archive stops half way:
\* what is there cannot be read, and the section ends.
ArchiveTorn(w, s) ==
  /\ CountFault
  /\ LockFree /\ MaySave(w, s)
  /\ archive' = [archive EXCEPT ![s] = [NoFile EXCEPT !.state = "broken"]]
  /\ interrupted' = interrupted \cup {s}
  /\ UNCHANGED <<chan, stored, saving, sentTo, dropped, deleted>>

-----------------------------------------------------------------------------
(* Resuming and deleting.                                                  *)

Readable(s) == archive[s].state = "good"

\* The ladder of names; past its end the resume is refused.
Taken(n) == \E t \in Live : chan[t].name = n
Rungs(n) == <<n>> \o [i \in 1..MaxLadder |-> Append(n, i + 1)]
FreeRungs(n) == {i \in 1..(MaxLadder + 1) : ~Taken(Rungs(n)[i])}
FirstFree(n) == {i \in FreeRungs(n) : \A j \in FreeRungs(n) : i <= j}

MayResume(w, s) ==
  /\ Readable(s)
  /\ MayCall(w)
  /\ w # Console => w \in archive[s].members

\* An archive is found by its name, which gives the latest, or else by its
\* id, so that each can be resumed.
Resume(w, s, new) ==
  /\ LockFree /\ Unused(new)
  /\ MayResume(w, s)
  /\ \E i \in FirstFree(archive[s].name) :
       chan' = [chan EXCEPT ![new] =
                  [live |-> TRUE, name |-> Rungs(archive[s].name)[i],
                   members |-> {}, parent |-> s]]
  /\ UNCHANGED <<stored, archive, saving, sentTo, dropped, deleted,
                 interrupted, faults>>

\* A live session is deleted by a member or the operator, without a look at
\* the archive files.
DeleteLive(w, s) ==
  /\ LockFree /\ MaySave(w, s)
  /\ Purge(s)
  /\ dropped' = dropped \cup MessagesOf(s)
  /\ deleted' = deleted \cup {s}
  /\ UNCHANGED <<archive, saving, sentTo, interrupted, faults>>

\* What is not a live name is taken for the id of an archive; the console
\* also takes a name.  Nobody is asked to be on its roster.
DeleteArchive(w, s) ==
  /\ LockFree /\ MayCall(w)
  /\ archive[s].state # "none"
  /\ archive' = [archive EXCEPT ![s] = NoFile]
  /\ dropped' = dropped \cup (archive[s].messages \ stored)
  /\ deleted' = deleted \cup {s}
  /\ UNCHANGED <<chan, stored, saving, sentTo, interrupted, faults>>

-----------------------------------------------------------------------------
SessionsNext ==
  \/ \E w \in Who, s \in Channel :
       \/ Create(w, s)
       \/ WriteArchive(w, s) \/ ArchiveTorn(w, s)
       \/ DeleteLive(w, s) \/ DeleteArchive(w, s)
       \/ \E new \in Channel : Resume(w, s, new)
  \/ \E a \in Agent, s \in Channel :
       \/ JoinChannel(a, s) \/ LeaveChannel(a, s)
       \/ \E m \in Mail : SendMail(a, s, m)
  \/ CommitSave \/ SaveStops

SessionsSpec == SessionsInit /\ [][SessionsNext]_sessionsVars

-----------------------------------------------------------------------------
(* Properties.                                                             *)

\* "Saving is NOT deleting: everything OpenComms received is preserved"
\* (engine.ts): a message stays in the state file or in a readable archive
\* of its session, also when saves stop half way or tear the archive, unless
\* the cap or a deletion removed it.
Preserved ==
  \A m \in Mail :
    sentTo[m] # NoChannel /\ m \notin dropped =>
      \/ m \in stored
      \/ Readable(sentTo[m]) /\ m \in archive[sentTo[m]].messages

\* Nothing of a deleted session is left in either file, if none of its
\* saves stopped half way: after one that did, deleting the live session
\* leaves an archive that can be resumed.
DeletedIsGone ==
  \A s \in deleted \ interrupted :
    ~chan[s].live /\ archive[s] = NoFile /\ MessagesOf(s) = {}

\* A saved session has ended: it cannot be live, with mail to deliver, while
\* its archive can be resumed, again unless a save stopped half way.
SavedIsQuiet ==
  \A s \in Channel \ (interrupted \cup {saving}) :
    Readable(s) => ~chan[s].live /\ MessagesOf(s) = {}

\* No two live sessions have the same name, whatever was resumed.
NamesDiffer ==
  \A s, t \in Live : s # t => chan[s].name # chan[t].name

\* Together: a session is live, saved or deleted, and one of these only.
EndsOnce == SessionsTypeOK /\ DeletedIsGone /\ SavedIsQuiet /\ NamesDiffer
=============================================================================
