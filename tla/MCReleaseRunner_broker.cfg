SPECIFICATION Spec
CONSTANTS
  j1 = j1
  j2 = j2
  Job <- MCOneJob
  MaxRunners = 2
  MaxAttempts = 3
  Brokered = TRUE
  MaxNames = 3
  MaxFaults = 3
INVARIANTS OneAllocationPerJob
PROPERTIES BrokeredOnce EveryAllocationEnds
