CONSTANTS
  None = None
  Pair = {u1, u2}
  Convs = {c1, c2, c3}
  MaxMsgs = 3
  MaxFails = 1
SPECIFICATION DMSpec
SYMMETRY Symmetry
CHECK_DEADLOCK FALSE
INVARIANTS OneDirect MessagesSound
