\* The log line of a failed enable batch against what the batch leaves.
CONSTANTS
  d1 = d1
  Free = Free
  Foreign = Foreign
  Daemons <- MCDaemons
  Helpers <- MCHelpers
  MaxEdits = 0
  Words <- MCWords
  Hosts <- MCHosts
  UserTexts <- MCUserTexts
SPECIFICATION TextSpec
PROPERTY FailedEnableLeavesHosts
