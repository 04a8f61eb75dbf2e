SPECIFICATION Spec
CONSTANTS
  a = a
  b = b
  f = f
  Commit <- MCCommit
  ContractOf <- MCContract
  Fork <- MCFork
  MaxRuns = 3
  legacy = legacy
  v = v
  w = w
  Revision <- MCRevision
  LEGACY_CONTROLLER <- legacy
  MaxImages = 3
  MaxFaults = 1
SYMMETRY MCSymmetry
INVARIANTS TypeOK ApprovedBases
CHECK_DEADLOCK FALSE
