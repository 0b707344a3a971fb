CONSTANTS
  Tabs = {t1}
  Chains = {c1}
  Workspaces = {w1}
  None = None
  Elsewhere = Elsewhere
  MaxRows = 3
  MaxEdits = 0
  MaxFaults = 1
  MaxEvents = 3
SPECIFICATION FairSpec
INVARIANT StopEndsItsOwnEntry
PROPERTY SentInOrder HeldChainNotSent EventuallySettled
