SPECIFICATION Spec
CONSTANTS
  Job = {1, 2}
  MaxRunners = 1
  MaxAttempts = 2
  MaxLaunches = 2
  MaxFaults = 1
INVARIANTS TypeOK Tracked
PROPERTIES WorkerLimit IdleKeepsRegistration RegistrationsEnd
CHECK_DEADLOCK FALSE
