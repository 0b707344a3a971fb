CONSTANTS
  old = old
  new = new
  Procs <- TwoBuilds
  None = None
  Interval <- MCInterval
  Lease = 2
  RenewEvery = 1
  OpLimit = 1
  MaxTime = 6
  MaxFaults = 1
SPECIFICATION FairSpec
INVARIANT OneLiveRun NeverBlockedLong NothingLeftBehind
PROPERTY LeaseRespected StopEnds OncePerInterval
