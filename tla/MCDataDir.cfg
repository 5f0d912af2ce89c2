CONSTANTS
  m1 = m1
  t1 = t1
  r1 = r1
  None = None
  Torn = Torn
  Main <- MCMain
  Tasks <- MCTasks
  Runs <- MCRuns
  MaxRoots = 2
SPECIFICATION Spec
INVARIANTS DirTypeOK PairsMatch TrustLasts SettingsStand
PROPERTY KeepsRegistry
CONSTRAINT Spared
