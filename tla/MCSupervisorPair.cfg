\* Two launches; each slot is launched once, so the system may come to rest.
CONSTANTS
  d1 = d1
  d2 = d2
  h1 = h1
  Helper = h1
  None = None
  Free = Free
  Foreign = Foreign
  Daemons <- MCDaemons
  Helpers <- MCHelpers
  Squatters = FALSE
  MaxEdits = 0
SPECIFICATION SupervisorSpec
INVARIANTS SupervisorTypeOK OrphansWereOvertaken
CONSTRAINT PortIsOurs
SYMMETRY Symmetry
CHECK_DEADLOCK FALSE
