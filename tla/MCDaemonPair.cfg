\* Two daemons and one restore batch of the window, sharing hosts.staged.
CONSTANTS
  d1 = d1
  d2 = d2
  h1 = h1
  Free = Free
  Foreign = Foreign
  Daemons <- MCDaemons
  Helpers <- MCHelpers
  MaxEdits = 1
SPECIFICATION Spec
INVARIANTS TypeOK StrandNeedsMishap EditsSurvive
SYMMETRY Symmetry
