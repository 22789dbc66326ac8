CONSTANTS
  BlockLen = 2
  BlocksPerChunk = 2
  Kernels <- MCKernels
  Word = 16
  MaxChunks = 64
  MaxStack = 6
  Agents = {a1, a2, a3}
  Window = 4
  MinPart = 1
  Budgets = {2, 3, 8}
  Inputs = {0, 2, 11, 13, 16, 17, 29, 32, 33, 49}
  MaxUnits = 50
  MaxPlain = 100
SPECIFICATION HashingSpec
INVARIANTS
  FoldedIsReference
  RecursiveIsReference
  KernelsAgree
  StackSuffices
  DigestIsReference
  CountersAgree
  PushesSound
