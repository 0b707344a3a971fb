CONSTANTS
  Procs = {p1, p2}
  Deliveries = {d1, d2}
  None = None
  Timeout = 1
  Lease = 3
  Batch = 2
  Backoff <- OneRetry
  DisableAfter = 2
  MaxFaults = 1
SPECIFICATION FairSpec
INVARIANT OneAttemptAtATime GivesUp StreakJustified
PROPERTY OutcomeStands EventuallyOver
