CONSTANTS
  QD = 3
  WindowSize = 2
  Align = 2
  Sizes <- MCSizes
SPECIFICATION FairSpec
INVARIANTS
  TypeOK
  RingSound
  BufferExclusive
  PoolOutlivesReads
  WantHasSlot
  AwaitedReadPending
PROPERTIES
  ImplementsStream
  NextReturns
  DrainEnds
\* A destroyed reader stops; a wait() repeated after a failed read may block.
CHECK_DEADLOCK FALSE
