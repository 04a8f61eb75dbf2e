SPECIFICATION Spec
CONSTANTS
  j1 = j1
  j2 = j2
  Job <- MCJob
  MaxRunners = 1
  MaxAttempts = 2
  Brokered = FALSE
  MaxNames = 2
  MaxFaults = 2
SYMMETRY MCSymmetry
INVARIANTS TypeOK SlotLimit NothingForgotten AttemptsBounded
PROPERTIES NoLiveKill
