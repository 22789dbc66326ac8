CONSTANTS
  QD = 3
  BufferSize = 2
  Align = 2
  MaxUnits = 7
  Preallocs <- MCPreallocs
  Resubmits = FALSE
SPECIFICATION FairSpec
INVARIANTS
  BufferExclusive
  PoolOutlivesWrites
PROPERTIES
  ImplementsSink
  CallsReturn
\* A destroyed writer stops; a wait after a failed write may block for good.
CHECK_DEADLOCK FALSE
