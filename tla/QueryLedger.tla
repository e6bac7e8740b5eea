---------------------------- MODULE QueryLedger ----------------------------
(***************************************************************************)
(* The query-history ledger of the desktop workbench                       *)
(* (sqlean_lint/ui/query_history.py, class QueryHistoryLedger): a list of  *)
(* executed queries kept in memory behind a mutex and mirrored to a JSON   *)
(* file through a temporary file that is renamed over it.                  *)
(*                                                                         *)
(* The mutex guards the in-memory list only.  _persist runs after it has   *)
(* been released, and every thread writes through the same temporary name, *)
(* so two persists may interleave at each of their file-system calls.      *)
(*                                                                         *)
(* A recorded query is a number: the order in which the queries were       *)
(* recorded.  Files are POSIX: a name leads to an inode, an open file      *)
(* keeps its inode when the name moves, open("w") truncates.               *)
(***************************************************************************)
EXTENDS Integers, Sequences

CONSTANTS
  Threads,      \* threads that call record() and clear()
  NoThread,     \* the mutex is free
  MAX_ENTRIES,  \* query_history.MAX_ENTRIES (500 in the code)
  Inodes,       \* inode numbers the file system may hand out
  MaxRecords    \* bound: queries recorded in a behaviour

ASSUME LedgerAssumption ==
  /\ NoThread \notin Threads
  /\ MAX_ENTRIES \in Nat \ {0}
  /\ Inodes \subseteq Nat \ {0}
  /\ MaxRecords \in Nat

VARIABLES
  entries,     \* self._entries
  lock,        \* holder of self._lock
  pc,          \* where each thread is in record() or clear()
  snap,        \* data: the list a persist is about to write
  fd,          \* inode of the temporary file a thread has open (0: none)
  tmp, file,   \* the two directory entries (0: absent)
  disk,        \* contents of each inode
  recorded,    \* how many queries were ever recorded (history)
  degraded,    \* the last persist to end failed with an OSError (history)
  overlapped   \* two persists have run at the same time (history)

vars == <<entries, lock, pc, snap, fd, tmp, file, disk,
          recorded, degraded, overlapped>>

memory == <<entries, lock>>
disks  == <<tmp, file, disk>>

(***************************************************************************)
(* What an inode holds: nothing yet (just truncated), a JSON document, or  *)
(* bytes that are none: half a document, or two on top of each other.      *)
(***************************************************************************)
Blank   == [kind |-> "blank", rows |-> <<>>]
Torn    == [kind |-> "torn",  rows |-> <<>>]
Json(s) == [kind |-> "json",  rows |-> s]

\* The slice [-MAX_ENTRIES:].
Newest(s) ==
  IF Len(s) > MAX_ENTRIES
  THEN SubSeq(s, Len(s) - MAX_ENTRIES + 1, Len(s))
  ELSE s

\* _load, from inodes d: no file, or one that does not parse, is an empty history.
LoadFrom(d) ==
  IF file = 0 THEN <<>>
  ELSE IF d[file].kind = "json" THEN Newest(d[file].rows) ELSE <<>>

Load == LoadFrom(disk)

\* An inode with no name and no open file is given back to the file system.
Reclaimed(d, named, open) ==
  [i \in Inodes |->
     IF i \in named \/ \E t \in Threads : open[t] = i THEN d[i] ELSE Blank]

\* The inodes when the writes of threads W stop halfway.
Halfway(W) ==
  [i \in Inodes |->
     IF \E t \in W : pc[t] = "write" /\ fd[t] = i THEN Torn ELSE disk[i]]

Persisting(t) == pc[t] \in {"open", "write", "replace"}

Quiet == \A t \in Threads : pc[t] = "idle"

Init ==
  /\ entries = <<>>
  /\ lock = NoThread
  /\ pc = [t \in Threads |-> "idle"]
  /\ snap = [t \in Threads |-> <<>>]
  /\ fd = [t \in Threads |-> 0]
  /\ tmp = 0
  /\ file = 0
  /\ disk = [i \in Inodes |-> Blank]
  /\ recorded = 0
  /\ degraded = FALSE
  /\ overlapped = FALSE

-----------------------------------------------------------------------------
(***************************************************************************)
(* record(): append and trim under the mutex.  The two are separate steps  *)
(* because _persist of another thread reads the list without the mutex.    *)
(***************************************************************************)
RecordAppend(t) ==
  /\ pc[t] = "idle"
  /\ lock = NoThread
  /\ recorded < MaxRecords
  /\ recorded' = recorded + 1
  /\ entries' = Append(entries, recorded + 1)
  /\ lock' = t
  /\ pc' = [pc EXCEPT ![t] = "trim"]
  /\ UNCHANGED <<snap, fd, disks, degraded, overlapped>>

\* Mutant: the mutex is never given back.
RecordTrimKeepsLock(t) ==
  /\ pc[t] = "trim"
  /\ entries' = Newest(entries)
  /\ pc' = [pc EXCEPT ![t] = "snapshot"]
  /\ UNCHANGED <<lock, snap, fd, disks, recorded, degraded, overlapped>>

RecordTrim(t) ==
  /\ pc[t] = "trim"
  /\ entries' = Newest(entries)
  /\ lock' = NoThread
  /\ pc' = [pc EXCEPT ![t] = "snapshot"]
  /\ UNCHANGED <<snap, fd, disks, recorded, degraded, overlapped>>

\* clear(): one assignment under the mutex.
Clear(t) ==
  /\ pc[t] = "idle"
  /\ lock = NoThread
  /\ entries' = <<>>
  /\ pc' = [pc EXCEPT ![t] = "snapshot"]
  /\ UNCHANGED <<lock, snap, fd, disks, recorded, degraded, overlapped>>

(***************************************************************************)
(* _persist, outside the mutex.                                            *)
(***************************************************************************)
\* data = [... for e in self._entries]: appends seen while the comprehension
\* runs are included, a reassignment is not, so the result is the value the
\* attribute had at one moment of the loop.
PersistSnapshot(t) ==
  /\ pc[t] = "snapshot"
  /\ snap' = [snap EXCEPT ![t] = entries]
  /\ overlapped' = (overlapped \/ \E u \in Threads : Persisting(u))
  /\ pc' = [pc EXCEPT ![t] = "open"]
  /\ UNCHANGED <<memory, fd, disks, recorded, degraded>>

InUse == {tmp, file} \cup {fd[t] : t \in Threads}

\* Mutant: the history file itself is opened for writing.
PersistOpenInPlace(t) ==
  /\ pc[t] = "open"
  /\ \E i \in Inodes :
       /\ IF file # 0 THEN i = file
          ELSE i \notin InUse /\ \A j \in Inodes \ InUse : i <= j
       /\ file' = i
       /\ fd' = [fd EXCEPT ![t] = i]
       /\ disk' = [disk EXCEPT ![i] = Blank]
  /\ pc' = [pc EXCEPT ![t] = "write"]
  /\ UNCHANGED <<memory, snap, tmp, recorded, degraded, overlapped>>

\* open(tmp, "w"): truncates the temporary file that is there, or creates it
\* on the lowest free inode.
PersistOpen(t) ==
  /\ pc[t] = "open"
  /\ \E i \in Inodes :
       /\ IF tmp # 0 THEN i = tmp
          ELSE i \notin InUse /\ \A j \in Inodes \ InUse : i <= j
       /\ tmp' = i
       /\ fd' = [fd EXCEPT ![t] = i]
       /\ disk' = [disk EXCEPT ![i] = Blank]
  /\ pc' = [pc EXCEPT ![t] = "write"]
  /\ UNCHANGED <<memory, snap, file, recorded, degraded, overlapped>>

\* write and close.  Into an inode another thread has filled since it was
\* truncated, the bytes land on top of that document: what results is the new
\* document if it covers the old one, and two documents mixed if it does not.
PersistWrite(t) ==
  /\ pc[t] = "write"
  /\ \E c \in IF disk[fd[t]] = Blank THEN {Json(snap[t])} ELSE {Json(snap[t]), Torn} :
       disk' = Reclaimed([disk EXCEPT ![fd[t]] = c], {tmp, file}, [fd EXCEPT ![t] = 0])
  /\ fd' = [fd EXCEPT ![t] = 0]
  /\ pc' = [pc EXCEPT ![t] = "replace"]
  /\ UNCHANGED <<memory, snap, tmp, file, recorded, degraded, overlapped>>

\* Mutant: the rename is forgotten.
PersistReplaceForgotten(t) ==
  /\ pc[t] = "replace"
  /\ degraded' = FALSE
  /\ snap' = [snap EXCEPT ![t] = <<>>]
  /\ pc' = [pc EXCEPT ![t] = "idle"]
  /\ UNCHANGED <<memory, fd, disks, recorded, overlapped>>

\* tmp.replace(path): the rename, or FileNotFoundError (an OSError, swallowed)
\* when another thread has already renamed the temporary file away.
PersistReplace(t) ==
  /\ pc[t] = "replace"
  /\ IF tmp # 0
     THEN /\ file' = tmp /\ tmp' = 0 /\ degraded' = FALSE
          /\ disk' = Reclaimed(disk, {tmp}, fd)
     ELSE degraded' = TRUE /\ UNCHANGED disks
  /\ snap' = [snap EXCEPT ![t] = <<>>]
  /\ pc' = [pc EXCEPT ![t] = "idle"]
  /\ UNCHANGED <<memory, fd, recorded, overlapped>>

\* An OSError of mkdir, open, write or rename: _persist gives up, the temporary
\* file stays as it is, or half written.
PersistFails(t) ==
  /\ Persisting(t)
  /\ degraded' = TRUE
  /\ snap' = [snap EXCEPT ![t] = <<>>]
  /\ fd' = [fd EXCEPT ![t] = 0]
  /\ \E W \in SUBSET {t} :
       disk' = Reclaimed(Halfway(W), {tmp, file}, [fd EXCEPT ![t] = 0])
  /\ pc' = [pc EXCEPT ![t] = "idle"]
  /\ UNCHANGED <<memory, tmp, file, recorded, overlapped>>

\* The process ends at any point, also halfway through a write, and a new one
\* builds the ledger: _load.
Restart ==
  /\ \E W \in SUBSET Threads :
       /\ entries' = LoadFrom(Halfway(W))
       /\ disk' = Reclaimed(Halfway(W), {tmp, file}, [t \in Threads |-> 0])
  /\ lock' = NoThread
  /\ pc' = [t \in Threads |-> "idle"]
  /\ snap' = [t \in Threads |-> <<>>]
  /\ fd' = [t \in Threads |-> 0]
  /\ degraded' = FALSE
  /\ UNCHANGED <<tmp, file, recorded, overlapped>>

-----------------------------------------------------------------------------
Step(t) ==
  \/ RecordTrim(t)
  \/ PersistSnapshot(t)
  \/ PersistOpen(t)
  \/ PersistWrite(t)
  \/ PersistReplace(t)
  \/ PersistFails(t)

Next ==
  \/ \E t \in Threads : RecordAppend(t) \/ Clear(t) \/ Step(t)
  \/ Restart

Spec == Init /\ [][Next]_vars

\* A thread that is inside record() or clear() keeps running.
FairSpec == Spec /\ \A t \in Threads : WF_vars(Step(t))

-----------------------------------------------------------------------------
(***************************************************************************)
(* Properties.                                                             *)
(***************************************************************************)
\* Every variable keeps its type, and only a thread between the append and the
\* slice of record() holds the mutex.
TypeOK ==
  /\ entries \in Seq(Nat)
  /\ lock \in Threads \cup {NoThread}
  /\ pc \in [Threads -> {"idle", "trim", "snapshot", "open", "write", "replace"}]
  /\ snap \in [Threads -> Seq(Nat)]
  /\ fd \in [Threads -> Inodes \cup {0}]
  /\ tmp \in Inodes \cup {0}
  /\ file \in Inodes \cup {0}
  /\ disk \in [Inodes -> [kind : {"blank", "json", "torn"}, rows : Seq(Nat)]]
  /\ recorded \in Nat
  /\ degraded \in BOOLEAN
  /\ overlapped \in BOOLEAN
  /\ lock # NoThread => pc[lock] = "trim"

\* all(), search() and len() take the mutex: whoever can take it sees a list
\* within the limit, whatever the other threads and restarts have done; the
\* list is over the limit only inside one record(), and by one entry.
LockedViewCapped ==
  /\ lock = NoThread => Len(entries) <= MAX_ENTRIES
  /\ Len(entries) <= MAX_ENTRIES + 1

Increasing(s) == \A i, j \in 1 .. Len(s) : i < j => s[i] < s[j]

\* However threads, failed writes and restarts interleave, neither the list nor
\* a file that parses ever shows a query twice, out of order, or one that was
\* never recorded.
HistoryInOrder ==
  /\ Increasing(entries)
  /\ \A i \in Inodes : Increasing(disk[i].rows)

\* As long as two persists have not run at the same time, the process can die
\* at any step, or a write can fail, and the history file still parses: the
\* temporary file and the rename do protect it.
FileIntact == ~overlapped /\ file # 0 => disk[file].kind = "json"

\* With the same proviso, once no call is in progress a restart finds the list
\* the running program shows (unless the last write failed).
QuietMeansSaved == ~overlapped /\ ~degraded /\ Quiet => Load = entries

\* What the drawer shows is the list of queries that were run: typed, capped, each
\* once and in order (the first three above, query_history.py:105-151).
ListIsKept == TypeOK /\ LockedViewCapped /\ HistoryInOrder

\* The file is a copy of that list that survives failures and crashes (the two
\* above, query_history.py:81-103).
FileIsKept == FileIntact /\ QuietMeansSaved

\* The history is kept, on the screen and on disk (the two above).
HistoryIsKept == ListIsKept /\ FileIsKept

\* "Thread-safe via a mutex" (query_history.py:71): the same with no proviso.
ThreadSafePersistence == ~degraded /\ Quiet => Load = entries

\* The ledger implements a list that is saved atomically: until two persists
\* overlap, no failure and no crash, at any file-system call, leaves a restart
\* anything but the list of the last complete persist; after that, still a
\* history (query_history.py:81-103).
Copies == {Newest(snap[t]) : t \in {u \in Threads : Persisting(u)}}
Saved == INSTANCE SavedList
         WITH list <- Newest(entries), count <- recorded, copies <- Copies,
              saved <- Load, spoilt <- overlapped
SavesAtomically == Saved!Spec

\* A record() or clear() that has begun ends: the mutex is always given back
\* and no file-system outcome leaves a call stuck.
CallsEnd ==
  \A t \in Threads : pc[t] # "idle" ~> pc[t] = "idle" /\ lock # t
=============================================================================
