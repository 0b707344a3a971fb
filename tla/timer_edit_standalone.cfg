CONSTANTS
  Calls = {c1, c2}
  Old = old
  None = none
  here = here
  there = there
  Setups <- EditsStandalone
  Before <- EarlierEntries
  Limit = 2
SPECIFICATION Spec
CHECK_DEADLOCK FALSE
PROPERTIES FirstCloseStands
