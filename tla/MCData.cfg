SPECIFICATION MCSpec
CONSTANTS
  gui = gui
  worker = worker
  Threads <- MCThreads
  MaxNesting = 2
  MaxFrames = 3
  MaxWrites = 3
  Queries = {q1, q2}
  Results = {r1, r2}
  None = None
  MaxFindings = 2
  MaxRows = 3
  Selects <- MCSelects
  Fields = {"a", "b"}
  Tables <- MCTables
  Files <- MCFiles
  BatchSize = 2
  NULL = NULL
  Text = Text
INVARIANTS TransactionsAreHonest GatewaysAreHonest ConvertersKeepTheMeaning
PROPERTY WritesAreNested
CHECK_DEADLOCK FALSE
