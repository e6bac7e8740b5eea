SPECIFICATION MCSpec
CONSTANTS
  first = first
  second = second
  Flushers <- MCFlushers
  App = app
  Nobody = nobody
  BufferSize = 2
  MaxEvents = 4
  Callers = {t1, t2}
  Dialects = {d1, d2}
  None = none
  AllowRemote = FALSE
  Enabled = TRUE
  AUDIT_MAX = 3
  MaxRecords = 4
  MaxTime = 4
INVARIANTS EventsAreKept FlusherIsControlled RecordsAddUp
PROPERTY FlushesHappen
CHECK_DEADLOCK FALSE
