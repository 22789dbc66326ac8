CONSTANTS
  Threads = {t1}
  MaxCalls = 2
  MaxFaults = 0
  Requests <- MCRequests
  Registry <- MCRegistry
SPECIFICATION Spec
INVARIANT RefusedProbeIsSafe
CHECK_DEADLOCK FALSE
