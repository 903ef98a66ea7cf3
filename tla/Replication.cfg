SPECIFICATION FairSpec
CONSTANTS
  Servers = {a, b, c}
  None = None
  Primary = a
  backlog_size = 1
  MaxWrites = 2
  MaxEvents = 2
CHECK_DEADLOCK FALSE
INVARIANTS StreamCompletes HistoriesSound
PROPERTIES ReplicasEndEqual
