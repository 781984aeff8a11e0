\* Two tasks, one resting on the other, three envelopes, one interrupted section.
SPECIFICATION Spec
CONSTANTS
  t1 = t1
  t2 = t2
  a1 = a1
  a2 = a2
  o1 = o1
  o2 = o2
  o3 = o3
  o4 = o4
  k1 = k1
  c1 = c1
  c2 = c2
  Task = {t1, t2}
  Agent = {a1, a2}
  Operator = Operator
  Op = {o1, o2, o3, o4}
  NoOp = NoOp
  Criterion = {k1}
  Channel = {c1, c2}
  LongChannel = {c2}
  Plans <- WorkPlans
  Refusals = {"rejected"}
  MaxMsg = 3
  MaxRevision = 5
  MaxTasks = 2
  MaxHandoffs = 2
  MaxRounds = 1
  MaxFaults = 1
INVARIANTS
  MailAccounted
  OneLiveEnvelope
  CompletionEarned
PROPERTIES
  LedgerKept
CHECK_DEADLOCK FALSE
