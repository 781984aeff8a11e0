\* Three processes: one may die with the lock in its hands, one may hold it
\* longer than LOCK_STALE_MS.
SPECIFICATION FairSpec
CONSTANTS
  p1 = p1
  p2 = p2
  p3 = p3
  NoProc = NoProc
  Proc = {p1, p2, p3}
  Mortal = {p1}
  Slow = {p2}
  MaxChanges = 2
INVARIANTS
  OneHolder
PROPERTIES
  UpdatesAtomic
  LockRecovers
CHECK_DEADLOCK FALSE
