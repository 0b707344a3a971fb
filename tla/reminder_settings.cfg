CONSTANTS
  a1 = a1
  a2 = a2
  e1 = e1
  e2 = e2
  p1 = p1
  p2 = p2
  None = None
  Actors <- Requesters
  Entries <- TrackedTime
  Invoices = {1, 2}
  Payments <- RequestIds
  Totals = {2}
  Stages = {1, 2}
  Topics <- MoneyOnly
  MaxRequests = 5
SPECIFICATION Spec
CHECK_DEADLOCK FALSE
SYMMETRY Symmetry
INVARIANT OneMailPerStage
