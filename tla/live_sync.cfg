\* Two faults with one call hold for the invariants as well, in 6.6 million states.
CONSTANTS
  Replicas = {r1, r2}
  None = None
  MaxWrites = 1
  MaxFaults = 1
  MaxSockets = 2
  MaxCalls = 1
SPECIFICATION FairSpec
INVARIANT NothingMissed 
PROPERTY RevokedLeaves 
\* The device is at rest when the bounds are used up.
CHECK_DEADLOCK FALSE
