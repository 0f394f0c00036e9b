SPECIFICATION StatsSpec
CONSTANTS
  MaxIncs = 3
  MaxResets = 2
  MaxExits = 2
  MaxFailures = 0
  Missing = Missing
  Partial = Partial


INVARIANTS ResetForgets
