SPECIFICATION Spec
CONSTANTS
  Clients = {c1, c2}
  Dbs = {d1, d2}
  Keys = {k}
  MaxWrites = 1
  MaxQueue = 1
  MaxMulti = 1
  Files <- MCFiles
SYMMETRY Symmetry
CHECK_DEADLOCK FALSE
INVARIANTS RunsOnWhatWasSeen WatchersSound
PROPERTIES NoFalseAlarm
