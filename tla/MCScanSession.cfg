SPECIFICATION FairSpec
CONSTANTS
  orders = orders
  users = users
  Stdin = stdin
  NoFile = nofile
  Files <- MCFiles
  Fixable <- MCFixable
  FirstContent <- MCFirstContent
  Intakes <- MCIntakes
  Drafts = {"clean"}
  MaxScans = 2
  MaxViews = 3
INVARIANT SessionTellsTheTruth
PROPERTY ScanEnds
