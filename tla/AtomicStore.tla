----------------------------- MODULE AtomicStore -----------------------------
(***************************************************************************)
(* What StateStore.withLock promises: a load, a change and a save are one  *)
(* step, so that each change is applied to the result of all the changes   *)
(* before it.  The content of the file is the set of changes it contains.  *)
(* A change that was saved while two processes were in may be lost (it is  *)
(* not in kept); when there is none, kept = past and a change is added to  *)
(* all the changes there were, which is what the other modules take for    *)
(* granted.                                                                *)
(***************************************************************************)
CONSTANT Change      \* the changes that the processes may make

VARIABLES
  store,   \* the changes in the file
  past,    \* the changes ever saved
  kept     \* those that may not be lost

Init == store = {} /\ past = {} /\ kept = {}

Apply(u) ==
  /\ u \notin past
  /\ past' = past \cup {u}
  /\ \E base \in SUBSET past : kept \subseteq base /\ store' = base \cup {u}
  /\ kept' \in {kept, kept \cup {u}}

Next == \E u \in Change : Apply(u)

Spec == Init /\ [][Next]_<<store, past, kept>>

=============================================================================
