CONSTANTS
  QD = 2
  BufferSize = 2
  Align = 1
  MaxUnits = 5
  Preallocs <- MCPreallocs
  Resubmits = TRUE
SPECIFICATION FairSpec
INVARIANT NothingMisplaced
CHECK_DEADLOCK FALSE
