CONSTANTS
  QD = 2
  Len = 2
  MaxStarts = 3
SPECIFICATION IoSpec
INVARIANTS
  TransfersExact
  FailuresSurface
  NoneOutlives
  HandlesFit
PROPERTIES
  ImplementsContract
  WaitsReturn
  DrainEnds
\* A destroyed backend stops; a wait may block on a stalled device.
CHECK_DEADLOCK FALSE
