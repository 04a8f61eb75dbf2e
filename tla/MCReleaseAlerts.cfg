SPECIFICATION Spec
CONSTANTS
  blocked = blocked
  overdue = overdue
  stale = stale
  pass1 = pass1
  pass2 = pass2
  watchdog = watchdog
  Stale <- stale
  Watchdog <- watchdog
  Reason <- MCBlocking
  Blocking <- MCBlocking
  Pass <- MCPass
  MaxFaults = 1
INVARIANTS TypeOK
PROPERTIES OwnerUpToDate NoRepeat AlertsArrive
