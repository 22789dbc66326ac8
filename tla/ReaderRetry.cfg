CONSTANTS
  QD = 3
  WindowSize = 2
  Align = 2
  Sizes <- MCSizes
SPECIFICATION FairSpec
PROPERTY EveryNextReturns
CHECK_DEADLOCK FALSE
