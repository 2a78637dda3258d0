SPECIFICATION FairSpec
CONSTANTS
  Maxes = {0, 1, 2}
  MaxRequests = 3
  MaxFaults = 1
INVARIANTS
  AttemptsWithinMax
  ChargedOnce
  SuspendedUnpaid
PROPERTY
  AttemptsEnd
CHECK_DEADLOCK FALSE
