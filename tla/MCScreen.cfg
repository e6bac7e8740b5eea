SPECIFICATION MCSpec
CONSTANTS
  MaxQueries = 3
  Dialects = {"duckdb", "tsql"}
  Presets = {"nord_slate"}
  Rules = {"r1"}
  Default = "duckdb"
  Closed = closed
  Names = {"date", "dates", "id"}
  Extends <- MCExtends
  Buffers <- MCBuffers
  Values = {"", "value", "id"}
  MaxSettings = 3
  Commands <- MCCommands
  Letters = {"a", "b"}
  MaxLength = 3
  Rails <- MCRails
  MinPane = 2
  Sash = 1
  Rooms = {4, 8}
  TabPaths = {"x", "y", "z"}
  NoTab = "none"
  MaxMoves = 5
  Results <- MCResults
  NoColumn = NoColumn
  Null = 0
  Page = 0
  MaxClicks = 5
  Frames = 3
  OpenWidth = 6
  ClosedWidth = 0
  ScoresSet = {0, 6, 9}
  KeptToasts = 3
  MaxEvents = 5
INVARIANTS
  QueriesKeepApart
  PreferencesHold
  DockIsTrue
  PaletteHolds
  FrameIsTrue
  ArrowsTellTheOrder
  MotionsSettle
CHECK_DEADLOCK FALSE
