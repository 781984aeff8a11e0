\* An OpenCode agent, an MCP member and the operator; three sessions, a
\* ladder of one rung and a cap of two messages.
SPECIFICATION SessionsSpec
CONSTANTS
  a = a
  b = b
  s1 = s1
  s2 = s2
  s3 = s3
  Agent = {a, b}
  Pinned = {b}
  Console = Console
  Channel = {s1, s2, s3}
  NoChannel = NoChannel
  MaxMail = 3
  MaxLadder = 1
  MaxStored = 2
  MaxFaults = 1
INVARIANTS
  Preserved
  EndsOnce
SYMMETRY Symmetry
CHECK_DEADLOCK FALSE
