SPECIFICATION Spec
CONSTANTS
  Voters = {b, c}
  Candidates = {r1, r2}
  Old = a
  MaxEpoch = 3
  MaxCrashes = 1
SYMMETRY Symmetry
VIEW Seen
CHECK_DEADLOCK FALSE
INVARIANTS OneWinnerPerEpoch ElectionsSound
PROPERTIES OwnerEpochGrows
