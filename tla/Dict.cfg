SPECIFICATION DictSpec
CONSTANTS
  DictKeys = {0, 1, 2, 3}
  Hash <- MCHash
  CursorBits = 3
  DICT_HT_INITIAL_EXP = 0
  HASHTABLE_MIN_FILL = 2
  dict_force_resize_ratio = 4
  EmptyVisits = 2
INVARIANTS TablesSound CursorAdvances
PROPERTIES ImplementsKeyScan IterExact
