\* One launch, with fairness; the slot is launched once, so it may come to rest.
CONSTANTS
  d1 = d1
  h1 = h1
  Helper = h1
  None = None
  Free = Free
  Foreign = Foreign
  Daemons <- MCDaemons
  Helpers <- MCHelpers
  Squatters = TRUE
  MaxEdits = 0
SPECIFICATION SupervisorFairSpec
PROPERTIES ImplementsLifecycle CalmStopLeavesClean CommandsReturn LaunchSettles
CHECK_DEADLOCK FALSE
