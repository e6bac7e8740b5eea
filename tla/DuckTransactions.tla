-------------------------- MODULE DuckTransactions --------------------------
(***************************************************************************)
(* Explicit transactions of DuckDBLocalConnector                           *)
(* (sqlean_lint/connectors/duckdb_local.py): one connection and one nesting*)
(* depth, shared by the threads that hold the connector.                   *)
(*                                                                         *)
(* DuckDB is modelled as the connector uses it: a stack of frames, the     *)
(* transaction and its savepoints, over the set of committed writes.  A    *)
(* release that knows no SAVEPOINT raises on it; both kinds are explored.  *)
(* A failed statement leaves no write and does not end the transaction.    *)
(*                                                                         *)
(* The callers are explicit, for the promises are theirs: mine[t] holds,   *)
(* per transaction t believes to be in, the writes t made there.           *)
(***************************************************************************)
EXTENDS Integers, Sequences

CONSTANTS
  Threads,     \* threads that share the connector
  MaxNesting,  \* bound: transactions a thread nests
  MaxFrames,   \* bound: frames DuckDB holds (a rolled back savepoint stays)
  MaxWrites    \* bound: writes in a behaviour

ASSUME DuckAssumption ==
  MaxNesting \in Nat /\ MaxFrames \in Nat /\ MaxWrites \in Nat

VARIABLES
  connected,   \* _connection is not None
  depth,       \* _tx_depth
  frames,      \* DuckDB: open transaction and savepoints, [name, writes]
  committed,   \* DuckDB: durable writes
  savepoints,  \* DuckDB: SAVEPOINT is known
  pc,          \* of each thread: "idle", or within a failed execute_query_safe
  mine,        \* the caller's view of its open transactions, outermost first
  kept,        \* writes a caller was told are committed (history)
  dropped,     \* writes a caller was told are rolled back (history)
  written,     \* number of writes so far (history)
  shared,      \* a thread used the connector during another's work (history)
  nestedFail,  \* a statement failed two transactions deep (history)
  cut          \* close() came within a transaction (history)

dbVars == <<frames, committed>>
callVars == <<mine, kept, dropped>>
vars == <<connected, depth, dbVars, savepoints, pc, callVars, written, shared,
          nestedFail, cut>>

Init ==
  /\ connected = FALSE /\ depth = 0
  /\ frames = <<>> /\ committed = {} /\ savepoints \in BOOLEAN
  /\ pc = [t \in Threads |-> "idle"]
  /\ mine = [t \in Threads |-> <<>>]
  /\ kept = {} /\ dropped = {} /\ written = 0
  /\ shared = FALSE /\ nestedFail = FALSE /\ cut = FALSE

-----------------------------------------------------------------------------
(***************************************************************************)
(* DuckDB.  Each operator is one statement; its guard in Can... tells      *)
(* whether the statement succeeds, and one that fails changes nothing.     *)
(***************************************************************************)
Frame(name, writes) == [name |-> name, writes |-> writes]

AllWrites(fs) == UNION {fs[i].writes : i \in DOMAIN fs}

Names == {frames[i].name : i \in DOMAIN frames}

\* The newest frame of that name.
At(name) == CHOOSE i \in DOMAIN frames :
              /\ frames[i].name = name
              /\ \A j \in DOMAIN frames : frames[j].name = name => j <= i

CanBegin == frames = <<>>
CanSavepoint == savepoints /\ frames # <<>>
CanEnd == frames # <<>>
CanName(name) == savepoints /\ name \in Names \ {0}

Push(name) == frames' = Append(frames, Frame(name, {}))

DbCommit == committed' = committed \cup AllWrites(frames) /\ frames' = <<>>
DbRollback == frames' = <<>> /\ UNCHANGED committed

\* RELEASE SAVEPOINT: its writes join the frame below.
DbRelease(name) ==
  LET i == At(name)
      kept_ == SubSeq(frames, 1, i - 1)
      moved == AllWrites(SubSeq(frames, i, Len(frames)))
  IN  /\ frames' = [kept_ EXCEPT ![i - 1].writes = @ \cup moved]
      /\ UNCHANGED committed

\* ROLLBACK TO SAVEPOINT: the savepoint itself remains.
DbRollbackTo(name) ==
  /\ frames' = Append(SubSeq(frames, 1, At(name) - 1), Frame(name, {}))
  /\ UNCHANGED committed

-----------------------------------------------------------------------------
Busy(u) == mine[u] # <<>> \/ pc[u] # "idle"

\* Thread t uses the connector now.
Uses(t) ==
  /\ connected
  /\ shared' = (shared \/ \E u \in Threads \ {t} : Busy(u))
  /\ UNCHANGED <<connected, savepoints>>

\* connect(), at most one connection at a time.
Connect ==
  /\ ~connected
  /\ connected' = TRUE
  /\ UNCHANGED <<depth, dbVars, savepoints, pc, callVars, written, shared,
                 nestedFail, cut>>

Opened(s) == UNION {s[i] : i \in DOMAIN s}

\* close(), between calls: DuckDB drops the open transaction; _tx_depth stays as
\* it is.
Close ==
  /\ connected
  /\ \A t \in Threads : pc[t] = "idle"
  /\ connected' = FALSE
  /\ frames' = <<>>
  /\ mine' = [t \in Threads |-> <<>>]
  /\ dropped' = dropped \cup UNION {Opened(mine[t]) : t \in Threads}
  /\ cut' = (cut \/ depth > 0)
  /\ UNCHANGED <<depth, committed, savepoints, pc, kept, written, shared, nestedFail>>

\* Mutant: the depth is raised before the statement, which may raise.
BeginTransactionEager(t) ==
  /\ Uses(t)
  /\ pc[t] = "idle"
  /\ Len(mine[t]) < MaxNesting /\ Len(frames) < MaxFrames
  /\ depth' = depth + 1
  /\ IF IF depth = 0 THEN CanBegin ELSE CanSavepoint
     THEN /\ Push(depth)
          /\ mine' = [mine EXCEPT ![t] = Append(@, {})]
     ELSE UNCHANGED <<frames, mine>>
  /\ UNCHANGED <<committed, pc, kept, dropped, written, nestedFail, cut>>

\* begin_transaction, under _tx_lock: BEGIN or SAVEPOINT tx_<depth>; if the
\* statement raises, nothing has changed.
BeginTransaction(t) ==
  /\ Uses(t)
  /\ pc[t] = "idle"
  /\ Len(mine[t]) < MaxNesting /\ Len(frames) < MaxFrames
  /\ IF depth = 0 THEN CanBegin ELSE CanSavepoint
  /\ Push(depth)
  /\ depth' = depth + 1
  /\ mine' = [mine EXCEPT ![t] = Append(@, {})]
  /\ UNCHANGED <<committed, pc, kept, dropped, written, nestedFail, cut>>

\* execute_query, or execute_query_safe on good SQL: one more write, durable at
\* once when no transaction is open.
Write(t) ==
  /\ Uses(t)
  /\ pc[t] = "idle"
  /\ written < MaxWrites
  /\ written' = written + 1
  /\ IF frames = <<>>
     THEN committed' = committed \cup {written} /\ UNCHANGED frames
     ELSE /\ frames' = [frames EXCEPT ![Len(frames)].writes = @ \cup {written}]
          /\ UNCHANGED committed
  /\ IF mine[t] = <<>>
     THEN kept' = kept \cup {written} /\ UNCHANGED mine
     ELSE /\ mine' = [mine EXCEPT ![t][Len(mine[t])] = @ \cup {written}]
          /\ UNCHANGED kept
  /\ UNCHANGED <<depth, pc, dropped, nestedFail, cut>>

Inner(t) == mine[t][Len(mine[t])]
Outer(t) == SubSeq(mine[t], 1, Len(mine[t]) - 1)

\* The caller hears that its innermost transaction is committed.
ToldCommitted(t) ==
  /\ IF Len(mine[t]) = 1
     THEN kept' = kept \cup Inner(t) /\ mine' = [mine EXCEPT ![t] = <<>>]
     ELSE /\ mine' = [mine EXCEPT ![t] =
                        [Outer(t) EXCEPT ![Len(mine[t]) - 1] = @ \cup Inner(t)]]
          /\ UNCHANGED kept
  /\ UNCHANGED dropped

ToldRolledBack(t) ==
  /\ mine' = [mine EXCEPT ![t] = Outer(t)]
  /\ dropped' = dropped \cup Inner(t)
  /\ UNCHANGED kept

\* Mutant: a nested commit is a COMMIT, too.
CommitAtOnce(t) ==
  /\ Uses(t)
  /\ pc[t] = "idle"
  /\ mine[t] # <<>>
  /\ \/ depth <= 0 /\ UNCHANGED <<depth, dbVars>>
     \/ depth >= 1 /\ CanEnd /\ depth' = depth - 1 /\ DbCommit
  /\ ToldCommitted(t)
  /\ UNCHANGED <<pc, written, nestedFail, cut>>

\* commit: the depth goes down before the statement.  Nothing to do at depth 0.
Commit(t) ==
  /\ Uses(t)
  /\ pc[t] = "idle"
  /\ mine[t] # <<>>
  /\ \/ depth <= 0 /\ UNCHANGED <<depth, dbVars>>
     \/ depth = 1 /\ CanEnd /\ depth' = 0 /\ DbCommit
     \/ /\ depth > 1
        /\ CanName(depth - 1)
        /\ depth' = depth - 1
        /\ DbRelease(depth - 1)
  /\ ToldCommitted(t)
  /\ UNCHANGED <<pc, written, nestedFail, cut>>

\* COMMIT raises on a conflict, and DuckDB rolls back.
CommitConflict(t) ==
  /\ Uses(t)
  /\ pc[t] = "idle"
  /\ Len(mine[t]) = 1
  /\ depth = 1 /\ CanEnd
  /\ depth' = 0
  /\ DbRollback
  /\ ToldRolledBack(t)
  /\ UNCHANGED <<pc, written, nestedFail, cut>>

-----------------------------------------------------------------------------

\* The body of rollback, when its statement succeeds.
Undone ==
  \/ depth <= 0 /\ UNCHANGED depth /\ DbRollback
  \/ depth = 1 /\ CanEnd /\ depth' = 0 /\ DbRollback
  \/ depth > 1 /\ CanName(depth - 1) /\ depth' = depth - 1 /\ DbRollbackTo(depth - 1)

\* ... and when it raises: the depth has gone down all the same.
UndoRaises ==
  /\ depth > 0
  /\ IF depth = 1 THEN ~CanEnd ELSE ~CanName(depth - 1)
  /\ depth' = depth - 1
  /\ UNCHANGED dbVars

Rollback(t) ==
  /\ Uses(t)
  /\ pc[t] = "idle"
  /\ mine[t] # <<>>
  /\ Undone
  /\ ToldRolledBack(t)
  /\ UNCHANGED <<pc, written, nestedFail, cut>>

\* rollback() by a caller that is in no transaction: "or all if none".
RollbackAll(t) ==
  /\ Uses(t)
  /\ pc[t] = "idle"
  /\ mine[t] = <<>> /\ depth <= 0 /\ frames # <<>>
  /\ Undone
  /\ UNCHANGED <<pc, callVars, written, nestedFail, cut>>

\* Commit or rollback whose statement finds no transaction or savepoint.
EndRaises(t) ==
  /\ Uses(t)
  /\ pc[t] = "idle"
  /\ UndoRaises
  /\ mine' = [mine EXCEPT ![t] = <<>>]
  /\ UNCHANGED <<pc, kept, dropped, written, nestedFail, cut>>

\* execute_query_safe on a failing statement reports ok = False ...
FailStatement(t) ==
  /\ Uses(t)
  /\ pc[t] = "idle"
  /\ pc' = [pc EXCEPT ![t] = IF depth > 0 THEN "failed" ELSE "idle"]
  /\ mine' = [mine EXCEPT ![t] = <<>>]
  /\ dropped' = dropped \cup Opened(mine[t])
  /\ nestedFail' = (nestedFail \/ depth > 1)
  /\ UNCHANGED <<depth, dbVars, kept, written, cut>>

\* ... after self.rollback(), under _tx_lock ...
FailRollback(t) ==
  /\ Uses(t)
  /\ pc[t] = "failed"
  /\ \/ Undone /\ pc' = [pc EXCEPT ![t] = "undone"]
     \/ UndoRaises /\ pc' = [pc EXCEPT ![t] = "idle"]
  /\ UNCHANGED <<callVars, written, nestedFail, cut>>

\* ... and _tx_depth = 0, without the lock.
FailReset(t) ==
  /\ Uses(t)
  /\ pc[t] = "undone"
  /\ pc' = [pc EXCEPT ![t] = "idle"]
  /\ depth' = 0
  /\ UNCHANGED <<dbVars, callVars, written, nestedFail, cut>>

Next ==
  \/ Connect \/ Close
  \/ \E t \in Threads :
       \/ BeginTransaction(t) \/ Write(t) \/ Commit(t) \/ CommitConflict(t)
       \/ Rollback(t) \/ RollbackAll(t) \/ EndRaises(t)
       \/ FailStatement(t) \/ FailRollback(t) \/ FailReset(t)

Spec == Init /\ [][Next]_vars

-----------------------------------------------------------------------------
(***************************************************************************)
(* Properties.                                                             *)
(***************************************************************************)
Ids == 0..(MaxWrites - 1)
Quiet == \A t \in Threads : pc[t] = "idle"

\* Types; a savepoint stands above a transaction, whose name is 0.
TypeOK ==
  /\ connected \in BOOLEAN /\ depth \in Nat
  /\ frames \in Seq([name : Nat, writes : SUBSET Ids])
  /\ committed \subseteq Ids /\ savepoints \in BOOLEAN
  /\ pc \in [Threads -> {"idle", "failed", "undone"}]
  /\ mine \in [Threads -> Seq(SUBSET Ids)]
  /\ kept \subseteq Ids /\ dropped \subseteq Ids
  /\ frames # <<>> => connected /\ frames[1].name = 0

\* in_transaction() tells what DuckDB does, nesting and failed commits
\* included, as long as each transaction belongs to one thread, none is nested
\* when a statement fails and none is open at close().
DepthIsHonest ==
  Quiet /\ ~shared /\ ~nestedFail /\ ~cut =>
    /\ (depth = 0) <=> (frames = <<>>)
    /\ depth <= Len(frames)
    /\ \A t \in Threads : Busy(t) => Len(mine[t]) = depth

\* What a caller was told is committed, is: writes outside transactions and
\* those of committed ones, with or without savepoints, and even when a
\* transaction was cut off by close().
KeptIsCommitted == ~shared /\ ~nestedFail => kept \subseteq committed

\* What a caller was told is rolled back never becomes durable, even after a
\* failure in a nested transaction.
DroppedIsGone == ~shared => dropped \cap committed = {}

\* A caller can rely on what the connector tells it of transactions: whether one
\* is open, what was kept and what was dropped (the four above).
TransactionsAreHonest == TypeOK /\ DepthIsHonest /\ KeptIsCommitted /\ DroppedIsGone

\* The connector implements nested transactions: until it is shared, or fails in
\* a nested one, a write is durable at once outside a transaction, and inside
\* exactly when the outermost one commits, together with all others of it.
Nested == INSTANCE NestedWrites
           WITH Clients <- Threads, open <- mine, durable <- committed,
                count <- written, spoilt <- shared \/ nestedFail
WritesAreNested == Nested!Spec

\* "a failed statement rolls the transaction back, satisfying the
\* transaction-safety contract" (duckdb_local.py:191): when in_transaction()
\* is False no transaction is open.
FailedStatementEndsTransaction == Quiet /\ depth = 0 => frames = <<>>
=============================================================================
