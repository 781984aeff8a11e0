\* A conversation from its creation on, with members coming and going, mail
\* sent, pushed by its owner or the fallback process, pulled and purged.
\* One save or one pull answer may fail; nobody starts late.
SPECIFICATION Spec
CONSTANTS
  p1 = p1
  p2 = p2
  a = a
  b = b
  c1 = c1
  NoChannel = NoChannel
  Session = {a, b}
  Channel = {c1}
  Instance = {p1, p2}
  InitialUp = {p1, p2}
  Hosted <- OwnerAndOther
  InitialMembers <- EmptyProject
  Mode <- PairModes
  MaxSend = 2
  MaxMembers = 2
  MaxAttempts = 2
  MaxPersisted = 2
  Budget <- SmallBudget
  TimeBudgeted = {}
  Windowed = {b}
  Managed = {}
  FaultKinds = {"store", "pull"}
  MaxFaults = 1
  Senders = {a}
  Churn = {"kick", "leave", "join", "pause", "close", "cool", "stale"}
INVARIANTS
  RepeatsAccounted
  PendingIffQueued
PROPERTIES
  NeverResurrected
  KeepsContract
CHECK_DEADLOCK FALSE
