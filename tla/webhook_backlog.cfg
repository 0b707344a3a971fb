CONSTANTS
  Procs = {p1, p2}
  Deliveries = {d1, d2, d3}
  None = None
  Timeout = 1
  Lease = 2
  Batch = 3
  Backoff <- OneRetry
  DisableAfter = 2
  MaxFaults = 0
SPECIFICATION Spec
INVARIANT OneAttemptAtATime
