CONSTANTS
  opA = opA
  opB = opB
  Workers = {w1, w2}
  Operations = {opA, opB}
  MaxShape = 3
  Plans <- MCPlans
  Threads = {t1, t2}
  Sizes = {1, 2}
  Cores = 3
  MaxCalls = 2
SPECIFICATION SchedulerSpec
INVARIANTS
  HoldersLive
  SizeHonoured
PROPERTIES
  ImplementsBulk
  OperationsComplete
  PoolStops
CHECK_DEADLOCK FALSE
