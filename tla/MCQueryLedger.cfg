\* The main thread and the query worker, a limit of two entries so that the slice
\* and the file-system steps all happen, one more inode than the two threads can
\* hold open.
SPECIFICATION FairSpec
CONSTANTS
  Threads = {main, worker}
  NoThread = NoThread
  MAX_ENTRIES = 2
  Inodes = {1, 2, 3, 4}
  MaxRecords = 3
INVARIANT HistoryIsKept
PROPERTIES CallsEnd SavesAtomically
