CONSTANTS
  Tabs = {t1, t2}
  Chains = {c1}
  Workspaces = {w1}
  None = None
  Elsewhere = Elsewhere
  MaxRows = 2
  MaxEdits = 1
  MaxFaults = 1
  MaxEvents = 3
SPECIFICATION Spec
SYMMETRY DeviceSymmetry
INVARIANT NothingLost AppliedOnce OneInput
PROPERTY KeepsLedger
