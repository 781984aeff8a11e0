\* Two channels, two pinned members, one of them spawned.
SPECIFICATION Spec
CONSTANTS
  u = u
  p = p
  q = q
  h1 = h1
  h2 = h2
  c1 = c1
  c2 = c2
  k1 = k1
  k2 = k2
  j1 = j1
  j2 = j2
  NoChannel = NoChannel
  NoNative = NoNative
  NoMember = NoMember
  Session = {u, p, q}
  Channel = {c1, c2}
  MaxSend = 2
  MaxMembers = 3
  MaxAttempts = 2
  MaxPersisted = 10
  Budget <- NoBudget
  TimeBudgeted = {}
  Windowed = {}
  Managed = {}
  Native = {h1, h2}
  Pinned = {p, q}
  EnvPin <- OneNamed
  Home <- Homes
  Plans <- HookPlans
  Spawned = {p}
  Hook = {j1, j2}
  Run = {k1, k2}
  ArgvRoom = 1
  Senders = {u}
  Rooms <- TwoRooms
  MaxFaults = 2
  MaxChurn = 2
INVARIANTS
  MailAccounted
  TurnsApart
PROPERTIES
  NotStolen
CHECK_DEADLOCK FALSE
