CONSTANTS
  Tabs = {t1}
  Chains = {c1}
  Workspaces = {w1}
  None = None
  Elsewhere = Elsewhere
  MaxRows = 2
  MaxEdits = 0
  MaxFaults = 0
  MaxEvents = 2
SPECIFICATION Spec
INVARIANT ChainStandsTogether
