SPECIFICATION Spec
CONSTANTS
  Voters = {b, c}
  Candidates = {r1, r2}
  Old = a
  MaxEpoch = 3
  MaxCrashes = 0
SYMMETRY Symmetry
CHECK_DEADLOCK FALSE
INVARIANTS SingleWinner
