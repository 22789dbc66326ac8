CONSTANTS
  Threads = {t1, t2}
  MaxCalls = 2
  MaxFaults = 1
  Requests <- MCRequests
  Registry <- MCRegistry
SPECIFICATION Spec
SYMMETRY MCSymmetry
INVARIANTS
  RunsOnThisCpu
  UpgradeSeen
  SignalScoped
  TunersTimeTheirMode
CHECK_DEADLOCK FALSE
