\* A second process starts, and sweeps, while the first delivers; either
\* may crash or lose an acknowledgement.  The conversation has a budget of
\* three handovers and of time, and its mail ages and cools down.
SPECIFICATION FairSpec
CONSTANTS
  p1 = p1
  p2 = p2
  a = a
  b = b
  c1 = c1
  NoChannel = NoChannel
  Session = {a, b}
  Channel = {c1}
  Instance = {p1, p2}
  InitialUp = {p1}
  Hosted <- OwnerAndOther
  InitialMembers <- Pair
  Mode <- PairModes
  MaxSend = 1
  MaxMembers = 2
  MaxAttempts = 2
  MaxPersisted = 2
  Budget <- SmallBudget
  TimeBudgeted = {c1}
  Windowed = {b}
  Managed = {}
  FaultKinds = {"crash", "ack"}
  MaxFaults = 2
  Senders = {a}
  Churn = {"age", "cool"}
INVARIANTS
  DeliveriesSound
PROPERTIES
  FlightsLand
  RefusalIsFinal
CHECK_DEADLOCK FALSE
