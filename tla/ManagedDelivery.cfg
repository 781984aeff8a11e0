\* An agent that may get a second session, a member that sends to it, and
\* two controllers, the second after a stop, a resume or a restart.
SPECIFICATION FairSpec
CONSTANTS
  u = u
  g1 = g1
  h1 = h1
  a1 = a1
  c1 = c1
  k1 = k1
  k2 = k2
  NoChannel = NoChannel
  NoHost = NoHost
  NoController = NoController
  NoName = NoName
  NoOp = NoOp
  Session = {u, g1, h1}
  Host = {g1, h1}
  Managed = {g1, h1}
  Agent = {a1}
  Name = {}
  Op = {}
  MaxAgents = 64
  Channel = {c1}
  Controller = {k1, k2}
  HomeHost <- OneHome
  InitialMembers <- SmallRoom
  MaxSend = 2
  MaxMembers = 3
  MaxAttempts = 2
  MaxPersisted = 10
  Budget <- NoBudget
  TimeBudgeted = {}
  Windowed = {}
  Senders = {u}
  Plans <- OperatorPlans
  MaxFaults = 1
  MaxSwitches = 2
INVARIANTS
  PromptsSound
  PausesAccounted
PROPERTIES
  UncertainWaits
  StopHolds
  MailMoves
  KeepsContract
CHECK_DEADLOCK FALSE
