SPECIFICATION GSpec
CONSTANTS
  Dialects = {"duckdb", "tsql"}
  Presets = {"nord_slate"}
  Rules = {"r1"}
  Default = "duckdb"
  Closed = closed
INVARIANT DisabledRulesStayQuiet
CHECK_DEADLOCK FALSE
