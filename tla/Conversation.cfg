SPECIFICATION ConversationSpec
CONSTANTS
  a = a
  b = b
  x = x
  y = y
  Session = {a, b}
  Operator = Operator
  NoSession = NoSession
  Label = {"Reviewer", "reviewer", "Builder"}
  Role <- Roles
  Content = {x, y}
  NoContent = NoContent
  MaxMembers = 2
  RateLimit = 1
  Window = 1
  StaleAfter = 2
  MaxHops = 1
  MaxPersisted = 2
  MaxSend = 3
  MaxMoves = 4
  MaxTime = 4
INVARIANTS
  GateHolds
  ClockSound
SYMMETRY Alike
CHECK_DEADLOCK FALSE
