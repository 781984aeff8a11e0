\* Two projects, two HTTP connections and the bridge; two faults.
SPECIFICATION FairSpec
CONSTANTS
  pA = pA
  pB = pB
  h1 = h1
  h2 = h2
  k1 = k1
  k2 = k2
  k3 = k3
  Project = {pA, pB}
  NoProject = NoProject
  Connection = {h1, h2}
  Bridge = Bridge
  Child = {k1, k2, k3}
  NoChild = NoChild
  Plans <- ManyPlans
  Started = {pA, NoProject}
  MaxAsked = 4
  MaxFaults = 2
INVARIANTS
  RequestsStayHome
  ChildrenSound
  StopRetained
PROPERTIES
  RequestsAnswered
