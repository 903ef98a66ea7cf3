SPECIFICATION FairSpec
CONSTANTS
  a = a
  b = b
  c = c
  Nodes = {a, b, c}
  None = None
  Rank <- MCRank
  CreatedEpoch <- MCCreated
  Source = b
  Target = a
  Keys = {k1}
CHECK_DEADLOCK FALSE
INVARIANTS SlotsSound
PROPERTIES MastersConverge
