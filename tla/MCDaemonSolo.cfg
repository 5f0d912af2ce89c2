\* One daemon at a time: what it owes the machine, and that it gets there.
CONSTANTS
  d1 = d1
  Free = Free
  Foreign = Foreign
  Daemons <- MCDaemons
  Helpers <- MCHelpers
  MaxEdits = 1
  Words <- MCWords
  Hosts <- MCHosts
  UserTexts <- MCUserTexts
SPECIFICATION TextSpec
INVARIANTS ServingIsRedirected BlockAsText OwnLinesStay AppliedIsCurrent
PROPERTIES StopRestores StartupSettles
