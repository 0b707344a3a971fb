CONSTANTS
  Calls = {c1, c2, c3}
  Old = old
  None = none
  here = here
  there = there
  Setups <- TransactionsAndNot
  Before <- EarlierEntries
  Limit = 2
SPECIFICATION FairSpec
CHECK_DEADLOCK FALSE
INVARIANTS OneRunning DurationsMatch
PROPERTIES FirstCloseStands DiscardsOnlyRunning AnswerHolds ReachKept EventuallyAnswered
