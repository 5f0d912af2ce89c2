\* README: reopening the window re-attaches to a running daemon.
CONSTANTS
  d1 = d1
  d2 = d2
  h1 = h1
  Helper = h1
  None = None
  Free = Free
  Foreign = Foreign
  Daemons <- MCDaemons
  Helpers <- MCHelpers
  Squatters = FALSE
  MaxEdits = 0
SPECIFICATION SupervisorSpec
PROPERTY ReopenReattaches
CHECK_DEADLOCK FALSE
