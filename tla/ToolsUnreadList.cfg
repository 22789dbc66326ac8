CONSTANTS
  BlockLen = 4
  StreamLen = 24
  MaxRequest = 11
  Segments = {3, 7, 8}
  Capacity = 8
  Granule = 4
  MaxUnits = 24
  Lengths = {0}
  Texts <- MCTexts
  Multiplier <- MCMultiplier
  SegmentBytes = 4
  Disk <- MCDisk
  ListFiles <- MCListFiles
  KeyFiles <- MCKeyFiles
  Commands <- MCCommands
SPECIFICATION Spec
INVARIANTS
  UnreadListFails
CHECK_DEADLOCK FALSE
