SPECIFICATION MCSpec
CONSTANTS
  Clients = {c1, c2}
  BatchSize = 3
  MaxMessages = 3
  Uris = {"a", "b"}
  Texts = {"", "bad", "good"}
  Fix <- MCFix
  Lines <- MCLines
  MaxFrames = 3
INVARIANTS ServiceKeepsCount EditorSeesItsText AnsweredInOrder
PROPERTY BatchEnds
CHECK_DEADLOCK FALSE
