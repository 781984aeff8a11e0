\* Two agents, two calls at once, three sessions to open, one fault.
SPECIFICATION FairSpec
CONSTANTS
  a1 = a1
  a2 = a2
  h1 = h1
  h2 = h2
  h3 = h3
  n1 = n1
  n2 = n2
  o1 = o1
  x1 = x1
  x2 = x2
  Agent = {a1, a2}
  Name = {n1, n2}
  Op = {o1}
  NoOp = NoOp
  NoName = NoName
  Host = {h1, h2}
  NoHost = NoHost
  MaxAgents = 2
  Requests <- ThreeRequests
  Call = {x1, x2}
  MaxFaults = 1
INVARIANTS
  RosterSound
  StoppedIsQuiet
PROPERTIES
  IdentityKept
  StartingEnds
CHECK_DEADLOCK FALSE
