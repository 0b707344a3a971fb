CONSTANTS
  c1 = c1
  c2 = c2
  c3 = c3
  c4 = c4
  o1 = o1
  o2 = o2
  Calls <- AllCalls
  Operations <- AllOperations
  OperationOf <- MCOperationOf
  HashOf <- MCHashOf
  None = None
  MaxConflicts = 2
SPECIFICATION FairSpec
CHECK_DEADLOCK FALSE
INVARIANT EffectOnce PublishedOnce
PROPERTY KeepsReceipts EventuallyAnswered
