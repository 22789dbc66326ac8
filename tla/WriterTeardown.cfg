CONSTANTS
  QD = 2
  BufferSize = 2
  Align = 2
  MaxUnits = 5
  Preallocs <- MCPreallocs
  Resubmits = FALSE
SPECIFICATION FairSpec
PROPERTY DestructorReturns
CHECK_DEADLOCK FALSE
