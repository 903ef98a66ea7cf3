CONSTANTS
  g1 = g1  g2 = g2  c1 = c1  c2 = c2  None = None
  Groups <- TwoGroups
  Readers <- OneGroup
  Consumers <- TwoConsumers
  MaxId = 2
  MaxTime = 1
SPECIFICATION Spec
SYMMETRY Symmetry
VIEW Seen
CONSTRAINT Bounded
CHECK_DEADLOCK FALSE
INVARIANTS GroupsSound LagExact ReplicaAgrees
PROPERTIES AckedSafe
