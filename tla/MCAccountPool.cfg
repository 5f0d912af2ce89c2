CONSTANTS
  w1 = w1
  c1 = c1
  f1 = f1
  f2 = f2
  l1 = l1
  l2 = l2
  None = None
  Torn = Torn
  Window <- MCWindow
  Cli <- MCCli
  Families <- MCFamilies
  Labels <- MCLabels
  MaxAccounts = 2
  MaxRolls = 1
SPECIFICATION Spec
INVARIANTS PoolTypeOK TokensSurvive CacheIsWhole ImportsAreWhole MarksStand
CONSTRAINT Spared
SYMMETRY Symmetry
CHECK_DEADLOCK FALSE
