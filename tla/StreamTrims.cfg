CONSTANTS
  g1 = g1  g2 = g2  c1 = c1  c2 = c2  None = None
  Groups <- OneGroup
  Readers <- OneGroup
  Consumers <- OneConsumer
  MaxId = 2
  MaxTime = 0
SPECIFICATION Spec
CHECK_DEADLOCK FALSE
INVARIANT TrimsAgree
