CONSTANTS
  l1 = l1  l2 = l2  m1 = m1  e1 = e1  None = None
  Leaves <- TwoLeaves
  Tabs = {t1}
  Managers <- TheManager
  Leads <- TheExecutive
  Start = 3
  MaxDays = 2
  MaxFails = 1
SPECIFICATION Spec
SYMMETRY Symmetry
CHECK_DEADLOCK FALSE
INVARIANTS BalanceSound
PROPERTIES DaysKept
