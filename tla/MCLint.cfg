SPECIFICATION MCSpec
CONSTANTS
  alice = alice
  bob = bob
  Workers = {w1, w2}
  Keys <- MCKeys
  LimitOf <- MCLimitOf
  Window = 2
  MaxTime = 3
  MaxRequests = 4
  NULL = NULL
  Repairs <- MCRepairs
  Tables <- MCTables
  OuterRows <- MCOuterRows
  MaxRounds = 3
  Sample <- MCSample
  MaxScript = 4
INVARIANTS WindowIsKept RewritesAreSafe FindingsAreStatementwise
PROPERTIES LimiterKeepsItsPromise RiskOnlyGrows
CHECK_DEADLOCK FALSE
