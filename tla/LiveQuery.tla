------------------------------ MODULE LiveQuery ------------------------------
(***************************************************************************)
(* Live query execution in the dashboard: _run_query starts a daemon       *)
(* thread, the thread runs the SQL through the one QueryRunner             *)
(* (ui/data_grid.py) and posts two callbacks to the Tk thread, which       *)
(* interleaves them with the user's next F5; the result fills the data     *)
(* grid, the chart and the cached rows that the executive report exports.  *)
(* The skeleton loader (ui/toasts.py) pulses while a query is thought to   *)
(* run.  A result is the number of the query that produced it.             *)
(***************************************************************************)
EXTENDS Integers, Sequences, FiniteSets

CONSTANT MaxQueries    \* bound: queries the user starts
ASSUME MaxQueriesAssumption == MaxQueries \in Nat \ {0}

VARIABLES running,     \* Dashboard._query_running
          started,     \* queries started
          queryThread,      \* query -> where its thread is
          lastError,   \* QueryRunner.last_error: shared by the threads
          posts,       \* callbacks queued with after(0, ...)
          status,      \* what the status line says
          grid,        \* the query whose rows DataGrid holds; 0: none
          drawn,       \* body rows drawn on the canvas
          cached,      \* _last_grid_rows, also the chart's rows
          pulsing,     \* SkeletonPulse._running
          ticks,       \* _tick callbacks scheduled
          crossed      \* history: a query started between the two callbacks of another

qvars == <<running, started, queryThread, lastError, posts, status, grid, drawn,
           cached, pulsing, ticks, crossed>>

Queries == 1..MaxQueries
Outcomes == {"rows", "none", "error"}

QInit == /\ running = FALSE /\ started = 0
         /\ queryThread = [q \in Queries |-> "idle"]
         /\ lastError = FALSE /\ posts = <<>> /\ status = "idle"
         /\ grid = 0 /\ drawn = 0 /\ cached = 0
         /\ pulsing = FALSE /\ ticks = 0 /\ crossed = FALSE

AtWork == {q \in Queries : queryThread[q] \notin {"idle", "done"}}
Reporting == {q \in Queries : queryThread[q] \in {"report rows", "report none", "report error"}}
ResultQueued == \E i \in DOMAIN posts : posts[i].kind = "result"

(* _run_query: refused while a query is thought to run.                    *)
Refuse == /\ running
          /\ status' = "already"
          /\ UNCHANGED <<running, started, queryThread, lastError, posts, grid, drawn,
                         cached, pulsing, ticks, crossed>>

(* Mutant: the guard is not tested.                                        *)
RunQueryUnguarded ==
            /\ started < MaxQueries
            /\ running' = TRUE /\ status' = "running"
            /\ started' = started + 1
            /\ queryThread' = [queryThread EXCEPT ![started + 1] = "spawned"]
            /\ pulsing' = TRUE /\ ticks' = ticks + 1
            /\ crossed' = (crossed \/ Reporting # {} \/ ResultQueued)
            /\ UNCHANGED <<lastError, posts, grid, drawn, cached>>
(* _run_query and _begin_loading: start() ticks even if a tick is pending. *)
RunQuery == /\ ~running /\ started < MaxQueries
            /\ running' = TRUE /\ status' = "running"
            /\ started' = started + 1
            /\ queryThread' = [queryThread EXCEPT ![started + 1] = "spawned"]
            /\ pulsing' = TRUE /\ ticks' = ticks + 1
            /\ crossed' = (crossed \/ Reporting # {} \/ ResultQueued)
            /\ UNCHANGED <<lastError, posts, grid, drawn, cached>>

-----------------------------------------------------------------------------
(* The thread of query q.                                                  *)
(* QueryRunner.run: last_error is reset, the SQL is executed.              *)
Execute(q) == /\ queryThread[q] = "spawned"
              /\ queryThread' = [queryThread EXCEPT ![q] = "executing"]
              /\ lastError' = FALSE
              /\ UNCHANGED <<running, started, posts, status, grid, drawn, cached,
                             pulsing, ticks, crossed>>

Executed(q, outcome) ==
    /\ queryThread[q] = "executing"
    /\ queryThread' = [queryThread EXCEPT ![q] = outcome]
    /\ lastError' = (outcome = "error" \/ lastError)
    /\ UNCHANGED <<running, started, posts, status, grid, drawn, cached, pulsing,
                   ticks, crossed>>

(* _execute reads last_error after run() returned, then posts the reset of *)
(* the flag.                                                               *)
PostReset(q) ==
    /\ queryThread[q] \in Outcomes
    /\ posts' = Append(posts, [kind |-> "reset", query |-> q, rows |-> FALSE, error |-> FALSE])
    /\ queryThread' = [queryThread EXCEPT ![q] = IF lastError THEN "report error"
                                       ELSE IF @ = "rows" THEN "report rows" ELSE "report none"]
    /\ UNCHANGED <<running, started, lastError, status, grid, drawn, cached, pulsing,
                   ticks, crossed>>

PostResult(q) ==
    /\ q \in Reporting
    /\ posts' = Append(posts, [kind |-> "result", query |-> q,
                               rows |-> queryThread[q] = "report rows",
                               error |-> queryThread[q] = "report error"])
    /\ queryThread' = [queryThread EXCEPT ![q] = "done"]
    /\ UNCHANGED <<running, started, lastError, status, grid, drawn, cached, pulsing,
                   ticks, crossed>>

-----------------------------------------------------------------------------
(* The Tk thread runs the callbacks in the order they were posted.         *)
ApplyReset ==
    /\ posts # <<>> /\ Head(posts).kind = "reset"
    /\ posts' = Tail(posts) /\ running' = FALSE
    /\ UNCHANGED <<started, queryThread, lastError, status, grid, drawn, cached, pulsing,
                   ticks, crossed>>

(* DataGrid.__init__ stores 0 over the method _visible_count.  Drawing the *)
(* viewport calls it (a TypeError), the wheel and the scrollbar use the 0. *)
VisibleCount == 0

(* _apply_query_result.  With rows, set_dataset stores them, and the       *)
(* TypeError ends the callback before a row is drawn or announced.         *)
ApplyRows ==
    /\ Head(posts).rows
    /\ cached' = Head(posts).query /\ grid' = Head(posts).query
    /\ drawn' = VisibleCount
    /\ UNCHANGED status

ApplyNoRows ==
    /\ ~Head(posts).rows
    /\ grid' = 0 /\ drawn' = 0
    /\ status' = IF Head(posts).error THEN "error" ELSE "0 rows"
    /\ UNCHANGED cached

ApplyResult ==
    /\ posts # <<>> /\ Head(posts).kind = "result"
    /\ posts' = Tail(posts)
    /\ running' = FALSE /\ pulsing' = FALSE      \* _end_loading
    /\ ApplyRows \/ ApplyNoRows
    /\ UNCHANGED <<started, queryThread, lastError, ticks, crossed>>

(* SkeletonPulse._tick, 40 ms later.                                       *)
Tick == /\ ticks > 0
        /\ ticks' = IF pulsing THEN ticks ELSE ticks - 1
        /\ UNCHANGED <<running, started, queryThread, lastError, posts, status, grid,
                       drawn, cached, pulsing, crossed>>

(* DataGrid.clear, from its button or "Clear Workspace" of the palette.    *)
ClearGrid == /\ grid # 0
             /\ grid' = 0 /\ drawn' = 0
             /\ UNCHANGED <<running, started, queryThread, lastError, posts, status,
                            cached, pulsing, ticks, crossed>>

(* _step_wheel, _on_vscroll: the body is drawn again from the new start.   *)
ScrollGrid == /\ grid # 0
              /\ drawn' = VisibleCount
              /\ UNCHANGED <<running, started, queryThread, lastError, posts, status, grid,
                             cached, pulsing, ticks, crossed>>

ThreadStep(q) == \/ Execute(q)
                 \/ \E outcome \in Outcomes : Executed(q, outcome)
                 \/ PostReset(q)
                 \/ PostResult(q)

QNext == \/ Refuse \/ RunQuery \/ ClearGrid \/ ScrollGrid \/ Tick
         \/ ApplyReset \/ ApplyResult
         \/ \E q \in Queries : ThreadStep(q)

QSpec == QInit /\ [][QNext]_qvars

-----------------------------------------------------------------------------
(* Every variable keeps its kind of value.                                 *)
QTypeOK ==
    /\ running \in BOOLEAN /\ started \in 0..MaxQueries
    /\ queryThread \in [Queries -> {"idle", "spawned", "executing", "done", "report rows",
                               "report none", "report error"} \cup Outcomes]
    /\ lastError \in BOOLEAN
    /\ status \in {"idle", "running", "already", "error", "0 rows"}
    /\ grid \in 0..MaxQueries /\ cached \in 0..MaxQueries /\ drawn \in Nat
    /\ pulsing \in BOOLEAN /\ ticks \in Nat /\ crossed \in BOOLEAN

(***************************************************************************)
(* Two queries never run at once on the one connection, and a query        *)
(* reports its own error and not another's, unless the user started one    *)
(* in the gap between the two callbacks of the query before it             *)
(* (_run_query, _execute, _apply_query_result).                            *)
(***************************************************************************)
OverlapNeedsTheGap ==
    ~crossed => /\ Cardinality(AtWork) <= 1
                /\ AtWork \ Reporting # {} => running

(***************************************************************************)
(* The rows the executive report exports are the rows in the grid, as long *)
(* as the grid holds any (_apply_query_result, _export_report).            *)
(***************************************************************************)
ExportedRowsAreShown == grid # 0 => cached = grid

(* What the dashboard shows and exports is of one query at a time (the two *)
(* above).                                                                 *)
QueriesKeepApart == QTypeOK /\ OverlapNeedsTheGap /\ ExportedRowsAreShown

(***************************************************************************)
(* "Feed the RAW records straight into the virtualized grid, which only    *)
(* materialises the visible viewport" (gui.py:2315): a result with rows    *)
(* shows some of them.                                                     *)
(***************************************************************************)
RowsAreDrawn == grid # 0 => drawn > 0
=============================================================================
