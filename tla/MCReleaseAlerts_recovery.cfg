SPECIFICATION Spec
CONSTANTS
  blocked = blocked
  overdue = overdue
  stale = stale
  pass1 = pass1
  pass2 = pass2
  watchdog = watchdog
  Stale <- stale
  Watchdog <- watchdog
  Reason <- MCReason
  Blocking <- MCBlocking
  Pass <- MCOnePass
  MaxFaults = 1
PROPERTIES RecoveryArrives
