\* README: a stale pairing is discarded on the next poll.
CONSTANTS
  d1 = d1
  h1 = h1
  Helper = h1
  None = None
  Free = Free
  Foreign = Foreign
  Daemons <- MCDaemons
  Helpers <- MCHelpers
  Squatters = FALSE
  MaxEdits = 0
SPECIFICATION SupervisorFairSpec
PROPERTY StalePairingDiscarded
CHECK_DEADLOCK FALSE
