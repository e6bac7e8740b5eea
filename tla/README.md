# A TLA+ model of sqlean-lint

`sqlean-lint` is a SQL linter with a command line, a language server, a REST
service, a web studio and a desktop workbench (Tk). Around a pipeline over the
`sqlglot` parser stands code that is hard to get right: files rewritten by
several threads, background threads that start, stop and time out, a queue
shared by scans, a rate limiter called from a thread pool, a licence file with
three writers, payment events in any order, nested transactions on one shared
connection, two tab strips that must agree, callbacks that overtake one another.
This directory specifies that code in TLA+, checks instances with TLC and proves
theorems about it with TLAPS. All paths below are relative to `src/sqlean_lint/`.

    tlc -workers 2 -config MCQueryLedger.cfg QueryLedger.tla       # one run
    tlapm QueryLedger_proofs.tla                                   # one proof module

`PROJECT.json` lists the runs, the mutants (a plausible bug for every property,
which the run of that property finds), the source lines behind every definition,
the findings, the hazards and the theorems.

## The system

| part | code | state | what is hard |
|---|---|---|---|
| Query-history ledger | `ui/query_history.py` | entries, mutex, JSON file and its temporary file | persist runs outside the mutex, one temporary name, crashes and I/O errors |
| Interaction recorder | `telemetry.py` | bounded buffer, mutex, stop event, current thread | concurrent flushes, a join with a timeout, callbacks that hang or raise |
| Usage log, audit log | `telemetry.py`, `api/rbac.py`, `api/graphql.py` | JSONL file; list of audit entries | clear and rotation from several threads |
| Licence store | `license_manager.py`, `finance/billing.py`, `gui.py` | one JSON file: cached licence and lease | writes in place, two writes per purchase, dates at their boundary |
| Entitlements | `finance/billing.py`, `license.py`, `cli.py` | provisioned licence, cached key hint | redelivered and reordered events, no network |
| API rate limiter | `api/server.py` | request times per key | called from a pool of threads without a lock |
| API service | `api/server.py` | a batch's results, the table of WebSocket clients | semaphore and gather, a task that raises, the loop blocked |
| Language and MCP server | `lsp_server.py`, `mcp_server.py` | document table | malformed frames, answers and ids, the end of the loop |
| Scan session | `gui.py` (Dashboard, ScanWorker) | files, findings, queue, workers | overlapping scans on one queue, files rewritten while they are read |
| Tabs, undo, session file | `gui.py`, `ui/tab_manager.py`, `ui/workspace.py`, `ui/history_tracker.py` | two tab strips, the document, panes, ring, file | nested callbacks, late previews, one ring for all documents |
| Live query, grids | `gui.py`, `ui/data_grid.py`, `ui/virtual_grid.py` | running flag, last result, sort and scroll | two callbacks posted by one worker |
| Preferences, dock, palette, frame, motion | `gui.py`, `config.py`, `ui/*` | two configurations, panels, entry, rails, timers | what one path sets and another forgets |
| DuckDB transactions | `connectors/duckdb_local.py` | connection, nesting depth | depth and database through failures and between threads |
| Gateways, converters | `connectors/polyglot.py` | clients, trails, cache; none | partial writes, lost replies, reconnection; meaning kept by translation |
| Lint engine, gates, rewrites | `engine.py`, `rules/`, `cost_model.py`, `cli.py`, `action.py`, `optimizer.py`, `autofix.py` | none | one statement seen beside its neighbours; rewrites and NULLs |
| Pipeline, observability, experiments, outbound | `ai/mlops.py`, `observability.py`, `growth/`, `cloud/`, `support/` | store, SDK, flags, profile, reports | outages in the middle, a lock that is not reentrant |
| Web Studio | `server.py`, `webstudio.py` | the page's panes, history table | answers out of order |

How they meet. The workbench records each executed query in the ledger from its
worker thread; the dashboard starts one `ScanWorker` per scan, which talks to the
Tk thread only through the queue that `_poll_queue` drains; previews and query
results come back through `after(0, …)`. The REST service calls the limiter
before every handler. The checkout webhook and the activation view write the file
that `is_licensed` reads. There is no other shared state between the parts, so
each is a specification of its own, and what composes with it appears as its
environment (the user, Stripe, DuckDB, the file system, the driver, a callback).
Parts that do share state are in one module: the two tab strips with the undo
ring and the session file; the dashboard with its workers; the page with its
server; both configurations with the scan they govern.

## Modules

| module | models | run |
|---|---|---|
| `SavedList` | abstract: a list that is saved atomically | through `QueryLedger` |
| `QueryLedger` | `QueryHistoryLedger` over a POSIX file system | `ledger` |
| `InteractionRecorder` | the recorder and its flush threads | `usage` |
| `UsageRecords` | `TelemetryLogger`, the audit list, the admin dashboard's sums | `usage` |
| `LicenseStore` | the licence file, its writers and `is_licensed` | `license`, `license_paid` |
| `Entitlements` | webhooks, portal, online and offline activation | `license` |
| `SlidingWindow` | abstract: what a rate limiter promises | through `RateLimiter` |
| `RateLimiter` | `_RateLimiter` and `RateLimitInfo`, statement by statement | `lint` |
| `Rewrites` | the optimizer passes behind `lint --fix` and the previews | `lint` |
| `LintRun` | a script through engine, fallback splitter, rules, cost model, gates and Pro rules | `lint` |
| `LintService` | batch, WebSocket and `POST /lint` on one event loop | `api` |
| `RpcServers` | the language server and the MCP server | `api` |
| `NestedWrites` | abstract: nested transactions | through `DuckTransactions` |
| `DuckTransactions` | the connector over a modelled DuckDB | `data` |
| `Gateways` | Snowflake, MongoDB and Redis gateways | `data` |
| `Converters` | `sql_to_mongodb`, `csv_to_sql` | `data` |
| `ScanSession` | Dashboard, ScanWorker, queue, auto-fix | `scan` |
| `TabWorkspace` | tab strips, previews, panes, undo, save, session file | `tabs` |
| `LiveQuery` | `_run_query`, its worker, its callbacks, the skeleton | `screen` |
| `ResultGrid` | `DataGrid` and `VirtualGrid` | `screen` |
| `Preferences` | the two configurations and the settings window | `screen`, `rules_off` |
| `DockPanels` | pages, dock tabs, grid/chart toggle, query parameters | `screen` |
| `Palette` | the command palette | `screen` |
| `WorkspaceFrame` | rails, sashes, tab header | `screen` |
| `Motion` | tweens, the sliding panel, the score, toasts | `screen` |
| `RefactorPipeline` | `SQLRefactoringPipeline` over a vector store | `services` |
| `Observability` | set-up, lock, log handler, interceptor | `services` |
| `Experiments` | one feature flag; the analytics sinks | `services` |
| `Outbound` | the cloud profile and its page; crash reports | `services` |
| `WebStudio` | the page and the threads that answer it | `services` |
| `*_proofs` | theorems | |

A small component does not earn a state space of its own, so the MC modules
`MCUsage`, `MCLicensing`, `MCLint`, `MCApi`, `MCData`, `MCScreen` and `MCServices`
put several side by side: a constant `subject`, chosen in the initial state, says
which component a behaviour is of, the others stay as they start. Nothing of the
components is shared by this; it is a disjoint union of their state graphs. The runs
`ledger` and `tabs` check the component's module itself, its constants given in the
configuration.

**QueryLedger.** `entries` and `lock` are the attributes of the ledger; `pc` is
where each thread is between two steps that another thread can see. The file
system is explicit: names lead to inodes, `open(…, "w")` truncates the inode behind
a name, and an open file keeps its inode when the name is renamed away, so a late
writer writes into the history file itself. `PersistFails` is the swallowed
`OSError` at any of the calls, `Restart` the end of the process at any step and the
`_load` of the next one; both may leave a write halfway done. A query is the number
of its recording; bytes that are no document are `Torn`.

**SavedList.** What the drawer counts on: a list of the newest queries, copies of it on
their way, and the saved list a restart goes back to. A copy is saved or lost as a whole.
A copy taken beside another that is not yet saved spoils the promise for good, as two
overlapping persists do in the code; then the saved list may be any history. The refinement
maps the saved list to what `_load` would return now, and the copies to the snapshots of
the threads inside `_persist`: writing the temporary file is a stutter.

**InteractionRecorder.** `flush` is two steps under the mutex and the callback after
it. Every generation of the background thread shares the one stop event.
`stop_background_flush` is set, join, final flush; the join may expire while, and
only while, the thread is in the callback. A callback may raise, which ends a
background thread.

**UsageRecords.** The logger's lock covers an append; `clear` counts, then unlinks.
The audit list is appended to and cut by request threads without a lock.
`overlapped` and `collided` are history: a clear met an append, two threads cut at
once. The dashboard's sums are operators over the file.

**LicenseStore.** The file holds a cached licence and a lease. Each
`_write_own_state` is two steps, truncate and fill, and `Crash` may come between
them or between the two writes of the checkout webhook. The repository embeds no
public key (`EMBEDDED_PUBLIC_KEY = ""`), so signatures are only verified in a build
that sets one; the model is of such a build. The writers are taken one at a time.

**Entitlements.** Events are pending, delivered in any order and more than once;
`Process` is what Stripe's and Chargebee's handlers do with one. The command line
activates a key online, caches its hint, and validates against the hint without a
network; a key is a sequence, so that prefixes are real. The three dots the cache puts after
a hint are characters like any other: a key with a dot may continue them, and `OfflineGrace`
promises only of keys without one that they continue an accepted key.

**SlidingWindow, RateLimiter.** Each attribute access of `check` and `is_allowed` is
a step of one pool thread. `raced[k]` becomes true when two checks of key `k` are in
progress at once; `SlidingWindow` calls such a key spoiled and promises nothing
about it. The refinement maps the list in `_keys` to the abstract admissions.

**Rewrites.** A statement is its WHERE clause and the sort of one CTE. `sqlglot` prints
a tree without the parentheses it does not hold, so a clause is kept as it is printed: a
condition is its disjuncts in order, each a set of operands, and what stands in the
parentheses of an operand is a condition further on in the clause. A pass works on the
text that comes out: this is where a disjunction escapes the subquery (the key joins
its last disjunct) and a range escapes its NOT (which then stands before the first half
only). Rows are decided in three-valued logic over every small table.

**LintRun.** A statement is what the rules see of it: joins, SELECTs, comparisons,
NOTs, LIKEs, each with its line, whether it parses, and the marks of its text at which
`split_statement_offsets` changes its mind: quotes, comment marks, semicolons, line ends.
`lint_source` parses the whole script or, if any statement does not parse, cuts it where
the splitter does (`Modes`, `Cut`): it knows `'...'` strings and two kinds of comments, so
a quote left open runs on through the next statements (`Runs`), and an apostrophe or a
semicolon in a quoted name opens a string or cuts a valid statement in two (`CutWithin`).
Lines of a piece count from its start. Two simplifications: the pieces of a statement cut
within are taken not to parse and are one failure, and a run of statements between two cuts
parses if all of it does. `Known` names the statements told of truly: all of a script that
parses, else those with no such statement at or before them. Findings are a set: each names
its node, and nothing looks at their order. The gates of the command line and of the GitHub
action, and the Pro engine of `check`, follow.

**LintService.** Tasks of a batch wait for the semaphore, lint on the executor, give
the semaphore back; `gather` answers when all are done or one has raised. A blocked
loop (`POST /lint`) admits no other step. A WebSocket handler takes one message at a
time and may fail on each.

**RpcServers.** A client fills a pipe, the server takes a frame. Documents change
through open, change and save; diagnostics are named by the text they were computed
from. `broken` frames, unknown methods, raising handlers, MCP arrays and
notifications come in any order.

**ScanSession.** The main thread's callbacks are atomic except auto-fix, which
rewrites files one by one while workers read, and which ends in a modal dialog that
keeps the event loop running. Workers put one event per file and `done`; nothing
stops a worker and events carry no scan. `tabs` are the open tabs and `current` the file
in the editor, as far as scans depend on them: clearing closes the tabs one by one and may
leave any file of them in the editor (each close loads a neighbour, `TabWorkspace` says
which), and `View` stands for what other handlers (explorer, tab strip, new tab, save) do
to both. `latest` and `alone` are history: the files of the last scan, and whether anything
was in flight when it started or one of its files was saved since.

**TabWorkspace.** `desk` is what the Tk thread holds, `disk` the files. A handler with
all callbacks it fires (close, neighbour, preview) is one step. A preview posts the
optimised text later, in any order. Other programs may make a file unreadable; then its
tab is highlighted all the same and the document of before stays under it, with `failed`
true until a file is shown. A text is its file, whether it is one statement,
several or longer than the preview, and whether statements are missing from it.

**LiveQuery, ResultGrid.** The worker is its steps; both callbacks are events of the Tk
thread, with the user's next F5 between them. The grids sort, scroll and drag widths;
a row is a function from columns to values and NULL sorts last.

**Preferences.** The application and the dashboard each hold a configuration; the
settings window copies the one and is applied to both, the palette and the session
change the dashboard's. A scan takes what it runs from the latter. The appearance of the
screen is set by `_load_theme`, by the settings window and by the palette; `apply_theme`,
which all of them may call, makes it dark (`Tokens`). `applied` and `previewed` are history:
the dashboard took over a configuration since, or the window showed a theme that was only
tried.

**DockPanels, Palette, WorkspaceFrame, Motion.** One widget's state each; every
callback is a step. A palette key acts on press and, through `<KeyRelease>`, once
more. Sashes drag in small pixels; tweens count frames, and their timers fire in any
order.

**DuckTransactions.** `depth` is `_tx_depth`; `frames` what DuckDB holds, a transaction
and its savepoints. `execute_query_safe` on a failing statement is three steps, for
the reset of the depth is outside the lock. `savepoints` is chosen at the start:
DuckDB releases differ in whether they parse `SAVEPOINT`. `mine[t]` is what each
caller believes; `kept` and `dropped` are the writes it was told about; `shared`,
`nestedFail` and `cut` record the conditions outside which the properties are stated.

**NestedWrites.** What a client of nested transactions counts on: a write outside lasts at
once, one inside is held back until the outermost commit, and then with all of that
transaction; an abort drops it. The refinement maps `open` to `mine`, `durable` to
`committed`, `count` to `written`, and takes the promise for spoilt once `shared` or
`nestedFail` is true: a savepoint, its release and the reset of the depth are stutters.
Spoilt or not, what is durable never shrinks and was written.

**Gateways, Converters.** Each gateway connects on first use and keeps its client
through failures; servers go up and down between and during calls. A write of findings may
stop after any number of rows, or store them all and lose the reply: then the call raises,
and what it stored is `partial`. A `setex` whose reply is lost is `False` to the caller and
in `doubtful` from then on: Redis may store it at once or later. The pipeline of a
SELECT is built clause by clause and run on small tables beside the SELECT; the CSV
script is written batch by batch. `WellFormed` says of a statement that it names columns of
its table. `Sound` names what the conversion loses: DISTINCT, HAVING, OFFSET, a limit of 0,
two items of one name, a comparison with anything but a literal, or with a negative one (`JsonValue`:
both become text), an order by what is not shown or by one column twice, a renamed
column, a group without an aggregate; and `WithoutNulls` says that an aggregate of all rows
needs a row. A stable sort makes both sides comparable row by row.

**RefactorPipeline.** A call looks up by resemblance, asks the model, stores. Other
processes store too; store, key and switch change between the steps. `Bill` is the HTTP 200:
an answer that is paid may still be unreadable (`AnswerUnread`) and ends as the local text,
which is stored only if it differs. `excused` counts the calls that may pay again, by cause.

**Observability.** `frames[w]` is a thread's stack of `init_otel` calls, so that a thread
waiting for its own lock is a state and not an absence.

**Experiments, Outbound.** A user's bucket is any number that is a function of the id (a
SHA-256), the cloud's answers any function of the user. What may part a user from a cohort
is modelled around it: the process ends and the next one has another hash seed, another
anonymous id and no client; `connect()` fails, the service goes away, the flag is switched
or registered anew, perhaps disabled. A caller without an id is `Unset` and draws one per
use. `told` is what callers were answered in force, `strays` what they were answered out of
force, `ids` what the sinks were sent. The cloud profile may be torn or refuse to be
written; a report goes through its channels one by one, and a ticket may be made whose
answer is lost.

**WebStudio.** Requests are answered by a thread each and drawn in any order; the page
clears and types meanwhile. A lint writes the history table before it answers, and may
fail because the table is locked.

## Runs

| run | bounds | shows |
|---|---|---|
| `ledger` | 2 threads, limit 2, 3 records, 4 inodes | list capped and in order; file parses and matches the list unless two persists overlap; every call ends; refinement of `SavedList` |
| `usage` | 2 flushers, buffer 2, 4 events; 2 callers, audit limit 3, 4 records, 4 half days | no event lost or counted twice; one flusher; flushes happen; dashboards add up |
| `license` | 2 machines, lease 2, term 4, 6 days; term 1, 3 days, 3 deliveries; hint 2 | what was granted or paid for holds for its term; the offline grace |
| `scan` | 2 files, 2 scans, 3 views (files shown, closed or saved) | what "Done", "Ready" and the auto-fix button tell; scans end |
| `tabs` | 2 files (one of several statements, one longer than the preview), ring 1, 2 posts, 6 steps | strips, document and session agree and panes settle; files keep their own text |
| `lint` | 2 pool threads, limits 1 and 2, window 2, 4 requests; 3 rounds; scripts of 4, of statements with and without open or quoted marks | refinement of `SlidingWindow`; rewrites keep rows; findings do not depend on neighbours; risk only grows |
| `api` | batch of 3, 2 clients, 3 messages; 3 frames | results reach whom they belong to, in order; every batch ends |
| `data` | 2 threads, 2 levels, 3 frames, 3 writes; 2 findings, 3 rows; tables of up to 3 rows | commits and rollbacks are what callers were told; refinement of `NestedWrites`; audit trails and caches; translations keep the meaning |
| `screen` | 3 queries; 3 settings; entries of 3 letters; 5 moves, clicks, events | one query at a time; preferences take effect; dock, palette, frame, grids and motions tell the truth |
| `services` | 2 texts × 2 dialects, 2 threads, 3 requests, 3 sends, 2 reports | paid once; built once; stable cohorts; nothing unasked; the page tells one story and settles |
| `license_paid` | as `license` | **violated**: a paid term ends with the lease |
| `rules_off` | 1 rule, 2 dialects | **violated**: a rule that is switched off runs |

A property that is a conjunction of named parts (`HistoryIsKept`,
`LicenceIsKept`, …) is stated with them in its module.

Why the bounds are enough. Every race of interest is between two actors; a third
only repeats one of the two. The ledger's limit of two with three records makes the
slice drop an entry, and four inodes are one more than two threads and two names can
use. Four events overflow the buffer of two before and after a flush; an audit limit
of three is cut at the fourth entry. Six days outlive lease and term, whichever comes
first; a hint of two characters has keys of one, two and three. A window of two and
four ticks hold an entry exactly at the edge. Two scans are the first that overlap, and three views open both
files, so that clearing leaves one of them, and save or close one between the scans. Two documents are the first that can be confused, six steps open, edit, undo
and save each once over. Two levels are the first that needs a savepoint and three
frames one more, for a savepoint stays after a rollback to it. Three requests let two
answers overtake the first. Three rounds of the optimizer are one more than any
statement needs. Tables of two rows over two values and a NULL decide every comparison
the rewrites make.

Deadlock is checked in `ledger` and `scan`. The other instances stop when their counts
of events, days or requests are spent, and say so in their configuration. No symmetry
is used: several runs check liveness, and keys, texts and days are not interchangeable.

Fairness. The ledger and the recorder assume that a thread inside a call goes on (`WF`
of its steps) and that a timed wait ends. Taking a contended mutex is strongly fair
(`SF` of `FlushLen`), because every holder releases it after two statements. The scan
assumes weak fairness of each worker, of the poll that Tk reschedules every 100 ms, and
of auto-fix including the closing of its dialog. In `LintService` the executor runs what
it was given (`WF` of `HandleLint`, `LintEnd`); the steps that need the event loop
(`Acquire`, `Release`, `Gather`) are strongly fair because asyncio's ready queue is
first-in first-out, while `POST /lint` may block the loop again and again. In
`WebStudio` each request's thread and the browser's drawing of its answer are weakly
fair, request by request. Users, records and starts are never obliged.

Provisos are part of what is found. `overlapped`, `raced`, `shared`, `nestedFail`,
`cut`, `timedOut`, `alone`, `crossed`, `undone`, `collided`, `failed`, `doubtful`, `Known`,
`Sound` and the pitfalls of `Rewrites` are the exact conditions outside which the code keeps its promise. Where a
docstring promises more, the promise itself is a definition too, in no configuration
because it does not hold; added to the configuration in place of the invariants, it
makes TLC print the schedule:

| promise | module | add to |
|---|---|---|
| `ThreadSafePersistence` | `QueryLedger` | `MCQueryLedger.cfg` |
| `StoppedForGood` | `InteractionRecorder` | `MCUsage.cfg` |
| `WithinLimit` | `RateLimiter` | `MCLint.cfg` |
| `EveryRewriteKeepsRows` | `Rewrites` | `MCLint.cfg` |
| `FailedStatementEndsTransaction` | `DuckTransactions` | `MCData.cfg` |
| `NoStatementLost` | `TabWorkspace` | `MCTabWorkspace.cfg` |
| `RowsAreDrawn` | `LiveQuery` | `MCScreen.cfg` |

## Proofs

All for arbitrary constants: any number of threads, keys, events, inodes, days,
queries, clients, documents, files, texts, requests. Each module proves an inductive strengthening of its
property (`IInv`: initially, kept by every action, implies the property).

* **QueryLedger_proofs** – `HistoryIsKept`. The mutex alone gives the cap.
  Order needs the invariant on every copy of the list (`OrderInv`: memory, snapshots,
  inodes) with the bound "no entry is newer than the last record". The file needs
  `AloneInv` (one persisting thread; it writes into an empty temporary inode that is not
  the history file and renames exactly its snapshot) and `SavedInv` (the list is pending,
  being persisted as it is, known to be unsaved, or saved). `SavesAtomically` follows step by
  step: what `_load` returns depends on the inode of the history file alone (`LoadSame`), and
  while one thread persists, nothing but its rename touches that inode, a write that stops
  halfway included (`FileUntouched`). `PromisedHistories` is of the abstract list alone.
* **Usage_proofs** – of `InteractionRecorder`, `EventsAreKept`, `FlusherIsControlled`, and
  the action property `FinalFlush`. The count needs `LengthInv`: between the length and the clear
  nobody appends, since the thread holds the mutex. `OnlyInv` says that before any timeout
  the only live thread is the current one; `StopInv` that what a stop found recorded has
  left the buffer once the application is past its flush. Of `UsageRecords`, `RecordsAddUp`:
  `Undisturbed` says that as long as no clear met an append, an append writes to the file
  that is there and a clear has counted all of it; a sum over the dialects, and over the
  days, is the number of records (`TotalIsCount`), less those of the one day the window
  cuts (`VolumeAddsUp`). `AuditInv` counts the threads that have appended and not yet
  looked: the list is longer than its limit by at most as many.
* **Licensing_proofs** – `LicenceIsKept`: none of its parts is inductive, for the file
  is empty in the middle of a write; the invariant speaks of the *stored* blob (the one
  being written, if any) and ties its lease to the first grant.
  `EntitlementFollowsPayments`: `ProvisionedInv` says that an undisturbed file carries the
  secret, the term and, for a single item, the plan and the seats of the last payment; each
  of the four kinds of grant is shown to give them (`GrantsAreTyped`, from the least and the
  largest of a set of numbers). `OfflineGrace`: an undisturbed cache holds the hint of the
  last accepted key (`ActivationInv`), and a key without a dot that continues the hint of a
  longer one would have to have the hint's first dot in its place (`HintsAreHonest`).
* **Lint_proofs** – of `RateLimiter`, `WindowIsKept`, `LimiterKeepsItsPromise`. As long as no two
  checks of a key overlap, the object of the key remembers every admission of the window
  that ends now (`KeyInv`), and what a check is about to assign is exactly the
  recent part of it. With that each step maps to a step of `SlidingWindow` or a stutter
  (`Begin` of a second check spoils the key), a refusal is of a full window, and the rule
  of the abstract limiter bounds every window (`WindowsAreBounded`). Of `LintRun`,
  `FindingsAreStatementwise` and the action property `RiskOnlyGrows`. After closed
  statements the splitter is back in the mode a statement begins in and has cut at each end
  (`ClosedPrefix`), so a statement with closed ones before it has a piece of its own and is
  told what it is told alone (`OwnPiece`, `KnownFindings`); if all are known the findings of
  the script are those of its statements, moved (`FindingsAre`), and moving keeps the
  severity, so a gate fails on the script exactly when it fails on a statement alone
  (`FailsStatementwise`); the largest severity is one of them (`WorstIs`). `ResultInv` says
  which script the last result is of: the present one, or the one without its last
  statement. That statement moves no line above it (`LastLineOfFront`), so findings are only
  added, and each term of the cost grows with its count (`CappedGrows`, `DepthBonusGrows`).
  Of `Rewrites`, `RewritesAreSafe`. What a clause is worth is a recursion from its last
  condition to its first (`ValuesAre`, its existence by a least counterexample). A range is
  worth what its equality was (`RangeLiteral`), so the first pass leaves every condition as it
  was; after the second a condition is as it was, or, as the body of a replaced NOT IN, as it
  was with its key (`Fares`), which is what makes the NOT EXISTS before it come out the same
  (`TurnedMeans`). The invariant adds that no pass makes a pitfall, which carries the result
  from round to round (`KeptInv`), and what is no longer found after each pass (`DoneInv`).
* **Frontends_proofs** – three programs that are spoken to while they lint.
  `ServiceKeepsCount`: `Counted` ties the free places of the semaphore to the tasks between
  `Acquire` and `Release`, `StreamInv` orders what a client has received, what its handler
  holds and what it still has to read. `EditorSeesItsText` speaks of an empty pipe; the
  invariant says at every place of the pipe which text of a document the server will hold
  when it gets there (the last one told before it, or what it holds now), so that a save
  without text is already known to find the right one. `AnsweredInOrder` is inductive but for types
  (`AnswerInv`: only what asks is numbered): a call adds a request and its answer, or
  neither, to the end (`OneMoreAnswer`), and a batch does so entry by entry
  (`BatchKeepsOrder`, a least counterexample along the batch). `SessionTellsTheTruth`: `Underway`
  says how many events the last worker has put (`k`) and how many of them were shown (`p`):
  the queue is the events `p + 1 .. k`, the list is owed what the first `p` say, and the
  summary is "Done" exactly when `p` counts them all. It holds only while the scan is
  alone, which is what the property's proviso says; a save of a file that is being scanned ends it.
* **Services_proofs** – `BuiltOnce`: `LockInv` says who may be on a stack of calls and that
  a thread in the middle of building holds the lock. `PaidOncePerText`: `PaidInv` compares
  the bills of a text with what excuses them, the current call included; a bill without an
  excuse, read or not, leaves a text in the store, where the next lookup finds it. `PageHolds`:
  `RequestsInv` says what a request on its way may carry, so that whichever is drawn next
  keeps the panes together. `CohortsHold`: `CohortInv` says that what a user was
  told in force is what the flag of now gives the id, whatever came between, and that a process
  has a client exactly when it reached the service; `IdsInv` that GA4's client bears the id of
  SQLEAN_LINT_ANON_ID where that is set. `OnlyWhatWasAsked` adds what the profile file may hold
  between its two writes and what each channel of a report under way still owes.
* **Data_proofs** – `TransactionsAreHonest`: `DuckInv` relates the writes in each of
  DuckDB's frames to the level of the caller that made them (`InStep`: each level has
  exactly the writes from its frame to the next), or says how a failed statement has parted
  them (`Bond`). `GatewaysAreHonest` adds that a MongoDB gateway without a collection has stored
  nothing and that what is cached, within reach or not, is trusted or doubtful. `WritesAreNested` follows step by step: an undisturbed
  caller is in a transaction exactly when DuckDB is (`HonestTurn`), and since no savepoint
  of it is called 0, the frames DuckDB commits with the outermost transaction are exactly
  the writes that transaction holds (`WritesAreMine`). `NestedIsolation` is of the abstract
  module alone: a write is in one place, wherever it is moved (`MovedHolds`).
  `ConvertersKeepTheMeaning`: `ConvertersInv` and `Inserted` say how much of the pipeline and
  of the script there is. A pipeline runs a stage at a time (`RunThen`), so each clause is
  taken for itself: the rows kept are the same where only
  literals that come through are compared (`KeptAlike`), an aggregate of a group is the
  same number (`AggregatesAlike`), and from there on the two lists are `Alike`, of one length
  and with the same numbers under the names of the SELECT, which sorting and cutting preserve.
  A sort by several keys is a total order of the rows' places (`SortIsTotal`, the keys being
  compared like the letters of a word), and a finite set under a total order is a list
  (`RankedIs`); what is a recursion over the stages or a sum is unfolded by a least
  counterexample (`RunsAgree`, `TotalIs`).
* **Screen_proofs** – `TabsAgree`, which says of the panes that they settle, and `FilesKeepTheirOwnText` from one
  invariant: a desk keeps its `Shape` (what is highlighted is a tab; editor and left pane hold
  the open document, and so will the right one when the newest preview is posted), and its
  strips `Agree`; a preview that cannot be read changes neither. "New" and "Clear" break the second in the middle, so it is shown only that
  close-all, a fold, runs through desks of the right shape (`ClosedOneByOne`, from the
  recursive function the fold stands for, with a least counterexample in place of induction)
  and ends without a tab, where it holds again. `QueriesKeepApart` and `PreferencesHold`; `MotionsSettle`, where the
  invariant says that the engines of the score are in the order they were started in and
  the last one draws the last score; `FrameIsTrue`, where it says that a dragged rail is as
  wide as its bounds let the pointer make it and the gap is what it leaves. `DockIsTrue`:
  parameters are found and substituted by folds; from the recursive function a fold stands
  for (`Chain`), a least counterexample gives that each place is written with its own value
  and once (`WrittenOneByOne`), unless a name or a value clashes. `PaletteHolds`: letters
  found at their first places are found whenever the text can be spelt at all
  (`FirstAreEarly`), so a score tells what is meant (`ScoreTells`); and because better-than is
  a total order, counting who is ahead of a command gives each its own place in the list
  (`InRankIs`, `FilterIs`). The invariant adds that the list is the text's while no key is down.
  `ArrowsTellTheOrder`: by the same ranking a sort is a permutation (`SortKeeps`), and the
  window of a `VirtualGrid` shows each row at its place (`WindowShows`), so what is drawn is
  sorted when the rows are and a row is copied as it was seen.

The lemmas about the operators the models are built from stand where they are first
needed: what `RemoveAt`, `Restrict` and the counting of places (`NthPlaces`: the n-th
element of a finite set of numbers) return, and that two lists that tell of their places
join to one (`ListsJoin`).

Only model-checked: liveness (`CallsEnd`, `FlushesHappen`, `ScanEnds`, `BatchEnds`,
`PageSettles`), which the prover does not do under fairness. Every other property of the
passing runs is a theorem.

Assumptions: the `ASSUME` of each module, evaluated by TLC in each run. They say that
sentinels are no real value, that bounds and limits are numbers, and of what shape the data are
that come from outside: commands have three texts, a result's rows have its columns, a statement
names columns of its table, what stands in the parentheses of an operand is its own and comes
after it, and the columns of a file are of one length.

## Findings

Each is stated with the line it contradicts in `PROJECT.json`; the run shows it, as a
violation or as the proviso its property needs.

1. `ui/query_history.py:99` – not thread-safe on disk: one temporary name, written outside
   the mutex. The drawer takes `ledger or QueryHistoryLedger()`, and an empty ledger is
   false.
2. `telemetry.py:298` – after a join that times out the thread is forgotten; it may flush
   again, and beside a newly started one. `:342` – an enabled logger always forwards.
3. `finance/billing.py:479` – the lease written after a purchase drops the licence just
   saved, so a year paid for ends after 30 days. `license_manager.py:334` – "open or extend"
   never extends. `license.py:195` – no key longer than the hint works offline.
4. `api/server.py:113` – unlocked limiter: more requests than the limit. A WebSocket handler
   that fails other than by a disconnect leaves its connection in the table (`:288`).
   `api/rbac.py:54` – the audit log is cut by count, not by the hour.
5. `optimizer.py:168` – rewrites change results with NULLs, with a disjunctive subquery, under
   a NOT, with a captured column. `engine.py:112` – lines of a script that does not parse
   count from the segment. `:265` – in such a script a quote left open swallows the statements
   after it, and an apostrophe or semicolon in a quoted name cuts a valid one.
6. `gui.py:2415` – "Scan current file" clears the dashboard first: it then scans nothing, or the
   file whose tab was closed last. `:2220` – a tab whose file cannot be read is highlighted over
   the document that Save writes. `gui.py:157` –
   rules that are switched off run. `gui.py:1431`, `:2427` – Run Statement and Format followed
   by Save lose the other statements; so does saving a file longer than the preview.
7. `connectors/duckdb_local.py:220` – a failed statement in a nested transaction leaves the
   outer one open while the connector says there is none.
8. `connectors/polyglot.py:743` – the MongoDB gateway writes once. `:88` – types are guessed
   from headers. `:363` – negative numbers and columns are compared as text.
9. `ui/data_grid.py:204` – a field hides the method of its name; no row is drawn.
   `ui/command_palette.py:284` – releasing an arrow key puts the selection back.
   `ui/workspace.py:194` – a rail forgets its width; the right rail's sash moves it the wrong
   way. `ui/toasts.py:119` – toasts cover one another. `ui/animations.py:233` – a jump during a
   slide is undone by the slide. `ui/virtual_grid.py` – the sort arrow stays over a new result.
   `gui.py:1613` – parameters are substituted within longer names. `gui.py:1822` – the theme is
   saved and not restored. `ui/design_system.py:603` – a light configuration starts dark.
10. `lsp_server.py:264` – malformed frames are not answered, and results are sent under
    `params`. `mcp_server.py:168` – notifications of known methods are answered.
11. `observability.py:124` – a failed set-up can wait for itself; `:64` – the return value of a
    second set-up. `ai/mlops.py:539` – with AI off nothing is formatted; `:340` – an answer that cannot be read
    is paid again and again. `growth/experimentation.py:321` – users without an id change cohorts;
    `:229` – out of reach the answer may be no variant of the flag. `cloud/sync.py:84` –
    success without a transfer. `support/ticketing.py:279` – no dry-run by default.
    `webstudio.py:353` – the page's history is always empty.

## Not modelled

* **API authentication** (`api/auth.py`): the validator applies `json.loads` to the dictionary
  `jwt.get_unverified_header` returns, so every bearer token is refused before the key cache
  and the validator's state are reached.
* **Syntax trees**: parsing, printing and most rules are predicates over the external `sqlglot`;
  `LintRun` and `Rewrites` model the ones whose results depend on neighbours, NULLs or order.
* **Text and pictures**: reports, exports, the chat assistant, the code view, the minimap, the
  completion list, the design system. They keep nothing that outlives a repaint.
* **Single calls**: the updater, the BigQuery and Snowflake schema connectors, the diagnostics
  bundle, `dbt` and FinOps readers.
* **The PostgreSQL gateway** (`connectors/polyglot.py:391`): its `connect()` imports
  `sqlalchemy.func`, which is no module, and raises before the gateway keeps anything.
* **`#` comments and dialects' own quotes** in `LintRun`: the sample has the marks the splitter
  reads; what `sqlglot` takes for a comment or a string beyond them is a text without marks, or
  with marks that the splitter misreads.
* **Comparisons of a flag's answer** (`growth/experimentation.py`): the allow-list of beta rules,
  `toggle_experimental_rule` and `distribution` call `evaluate` and keep nothing.
* **What a rule raises**: `_lint_ast_node` catches it; a rule that raised in `ScanWorker.run`
  (`gui.py:182`), which does not, would leave the dashboard in "Scanning", but no input is known
  to make one raise. **A wall clock set back** (`api/server.py:111`) revives expired requests; the
  model's clock does not go back, for the abstract window is defined by it.
* **Two writers of the licence file** and **two ledgers on one file**: there is no lock between
  them, and what two of them leave depends on the platform's writes.
* Configuration discovery, transpiler, profiler and DAG layout: pure wrappers without state.

## Plan

The merge of configuration sources and the remaining Pro rules as operators of `LintRun` and
`Preferences`.
