----------------------------- MODULE ScanSession -----------------------------
(***************************************************************************)
(* Scanning and auto-fixing in the desktop dashboard (sqlean_lint/gui.py): *)
(* the Tk main thread, one ScanWorker thread per scan, and the queue they  *)
(* all share.  A scan is never cancelled and its events carry no mark of   *)
(* the scan they belong to.                                                *)
(*                                                                         *)
(* A file is what a scan makes of it: "clean", "issue" (findings) or       *)
(* "broken" (it does not read or parse); auto-fix rewrites it in place, so *)
(* that a thread reading it in the middle finds it "torn", an empty text   *)
(* that does not parse.  The rows of one file in the findings list are     *)
(* one row here.  Of the tabs only which files have one is kept, and of    *)
(* the preview only its file: TabWorkspace has the order and the texts.    *)
(***************************************************************************)
EXTENDS Integers, Sequences, FiniteSets

CONSTANTS
  Files,       \* the .sql files the user may choose
  Fixable,     \* those whose findings the fixers of DEFAULT_RULES remove
  Stdin,       \* Path("/dev/stdin"), at its end in a desktop launch
  NoFile,      \* no file is shown in the preview
  FirstContent,\* what a scan makes of each file at the start
  Intakes,     \* sequences of files one intake may add
  Drafts,      \* what a scan would make of the texts the user saves
  MaxScans,    \* bound: scans started in a behaviour
  MaxViews     \* bound: files shown, saved and closed in a behaviour

ASSUME ScanAssumption ==
  /\ Fixable \subseteq Files
  /\ Stdin \notin Files /\ NoFile \notin Files /\ "done" \notin Files \cup {Stdin}
  /\ FirstContent \in [Files -> {"clean", "issue", "broken"}]
  /\ Intakes \subseteq Seq(Files) \ {<<>>}
  /\ Drafts \subseteq {"clean", "issue", "broken"}
  /\ MaxScans \in Nat \ {0} /\ MaxViews \in Nat

VARIABLES
  content,   \* what a scan of each file would find now
  listbox,   \* _file_listbox
  current,   \* _current_file
  tabs,      \* files that have a tab in _tabs
  results,   \* _results, a row per file: [path, kind]
  summary,   \* _summary_label
  autofix,   \* _autofix_btn is enabled
  queue,     \* _queue
  worker,    \* the ScanWorkers started, in order: [todo, read]
  phase,     \* of the main thread: "idle", "fixing" or "dialog"
  fixing,    \* files _apply_fixes has still to treat
  latest,    \* files of the last scan started; <<>> after a clear (history)
  alone,     \* nothing was in flight when the list was last reset, and none of
             \* the files scanned was saved since (history)
  views      \* files shown, saved and closed (history)

viewVars == <<current, tabs, views>>
fixVars == <<phase, fixing>>
vars == <<content, listbox, viewVars, results, summary, autofix, queue, worker,
          fixVars, latest, alone>>

Event(kind, path) == [kind |-> kind, path |-> path]
Row(kind, path)   == [path |-> path, kind |-> kind]

Init ==
  /\ content = FirstContent
  /\ listbox = <<>> /\ current = NoFile /\ tabs = {} /\ views = 0
  /\ results = <<>> /\ summary = "Ready" /\ autofix = FALSE
  /\ queue = <<>> /\ worker = <<>>
  /\ phase = "idle" /\ fixing = <<>>
  /\ latest = <<>> /\ alone = TRUE

-----------------------------------------------------------------------------
(***************************************************************************)
(* ScanWorker.run: for each file, read it, lint it, put one event; then    *)
(* put "done".                                                             *)
(***************************************************************************)
Running(w) == worker[w].todo # <<>>

Outcome(path) == IF path = Stdin THEN "torn" ELSE content[path]

WorkerRead(w) ==
  /\ Running(w)
  /\ worker[w].read = "nothing"
  /\ Head(worker[w].todo) # "done"
  /\ worker' = [worker EXCEPT ![w].read = Outcome(Head(worker[w].todo))]
  /\ UNCHANGED <<content, listbox, viewVars, results, summary, autofix, queue,
                 fixVars, latest, alone>>

\* Mutant: a file that cannot be read ends the scan.
WorkerPutStops(w) ==
  /\ Running(w)
  /\ worker[w].read # "nothing"
  /\ queue' = Append(queue, Event(worker[w].read, Head(worker[w].todo)))
  /\ worker' = [worker EXCEPT ![w] =
       [todo |-> IF @.read \in {"torn", "broken"} THEN <<>> ELSE Tail(@.todo), read |-> "nothing"]]
  /\ UNCHANGED <<content, listbox, viewVars, results, summary, autofix,
                 fixVars, latest, alone>>

WorkerPut(w) ==
  /\ Running(w)
  /\ worker[w].read # "nothing"
  /\ queue' = Append(queue, Event(worker[w].read, Head(worker[w].todo)))
  /\ worker' = [worker EXCEPT ![w] = [todo |-> Tail(@.todo), read |-> "nothing"]]
  /\ UNCHANGED <<content, listbox, viewVars, results, summary, autofix,
                 fixVars, latest, alone>>

WorkerDone(w) ==
  /\ Running(w)
  /\ Head(worker[w].todo) = "done"
  /\ queue' = Append(queue, Event("done", NoFile))
  /\ worker' = [worker EXCEPT ![w].todo = <<>>]
  /\ UNCHANGED <<content, listbox, viewVars, results, summary, autofix,
                 fixVars, latest, alone>>

InFlight == queue # <<>> \/ \E w \in DOMAIN worker : Running(w)

-----------------------------------------------------------------------------
(***************************************************************************)
(* _poll_queue, every 100 ms: drain the queue.  A clean file adds no row;  *)
(* "done" shows the count and enables the button if there are rows.        *)
(***************************************************************************)
Shown(events) == {i \in DOMAIN events : events[i].kind \notin {"done", "clean"}}
RowOf(e) == Row(IF e.kind = "issue" THEN "issue" ELSE "error", e.path)
Nth(places, n) == CHOOSE i \in places : Cardinality({j \in places : j <= i}) = n
RowsOf(events) == [n \in 1..Cardinality(Shown(events)) |-> RowOf(events[Nth(Shown(events), n)])]

OffersFix(events) ==
  \E i \in DOMAIN events :
    /\ events[i].kind = "done"
    /\ results # <<>> \/ \E j \in Shown(events) : j < i

\* The dialog that reports the fixes keeps the event loop running.
PollQueue ==
  /\ phase \in {"idle", "dialog"}
  /\ queue # <<>>
  /\ results' = results \o RowsOf(queue)
  /\ IF \E i \in DOMAIN queue : queue[i].kind = "done"
     THEN /\ summary' = "Done"
          /\ autofix' = (autofix \/ OffersFix(queue))
     ELSE UNCHANGED <<summary, autofix>>
  /\ queue' = <<>>
  /\ UNCHANGED <<content, listbox, viewVars, worker, fixVars, latest, alone>>

-----------------------------------------------------------------------------
(***************************************************************************)
(* The user's commands, each one callback of the main thread.              *)
(***************************************************************************)
\* Mutant: the rows of the previous scan stay.
StartScanKeepsRows(files) ==
  /\ Len(worker) < MaxScans
  /\ summary' = "Scanning"
  /\ autofix' = FALSE
  /\ worker' = Append(worker, [todo |-> Append(files, "done"), read |-> "nothing"])
  /\ latest' = files
  /\ alone' = ~InFlight
  /\ UNCHANGED <<results, queue>>

\* _start_scan: a new worker on the shared queue; older ones go on.
StartScan(files) ==
  /\ Len(worker) < MaxScans
  /\ results' = <<>>
  /\ summary' = "Scanning"
  /\ autofix' = FALSE
  /\ worker' = Append(worker, [todo |-> Append(files, "done"), read |-> "nothing"])
  /\ latest' = files
  /\ alone' = ~InFlight
  /\ UNCHANGED queue

\* _add_paths (drop, browse, directory): list, preview the first, scan.  One
\* that does not read is listed and scanned without being shown.
AddPaths(files) ==
  /\ phase = "idle"
  /\ listbox' = listbox \o files
  /\ \/ current' = files[1] /\ tabs' = tabs \cup {files[1]}
     \/ content[files[1]] = "broken" /\ UNCHANGED <<current, tabs>>
  /\ StartScan(files)
  /\ UNCHANGED <<content, views, fixVars>>

\* close_all closes the tabs in turn, each time showing the neighbour of one that
\* was highlighted: with several tabs the preview may end on any of their files.
Left == {NoFile} \cup IF Cardinality(tabs) > 1 THEN tabs ELSE {}

ResetLists ==
  /\ listbox' = <<>> /\ tabs' = {}
  /\ results' = <<>> /\ summary' = "Ready" /\ autofix' = FALSE
  /\ latest' = <<>>
  /\ alone' = ~InFlight
  /\ UNCHANGED <<queue, worker>>

\* _on_clear: neither the queue nor a running worker is touched, and the tabs
\* are closed after the current file is forgotten.
Clear ==
  /\ phase = "idle"
  /\ current' \in Left
  /\ ResetLists
  /\ UNCHANGED <<content, views, fixVars>>

\* _scan_current_file clears first and adds what is current then: the file
\* close_all has left, or None, on which _add_paths raises.
ScanCurrentFile ==
  /\ phase = "idle"
  /\ current # NoFile
  /\ current' \in Left
  /\ IF current' = NoFile THEN ResetLists
     ELSE listbox' = <<current'>> /\ tabs' = {current'} /\ StartScan(<<current'>>)
  /\ UNCHANGED <<content, views, fixVars>>

\* Without a file, but with text in the editor, it scans standard input.
ScanStdin ==
  /\ phase = "idle"
  /\ current = NoFile
  /\ StartScan(<<Stdin>>)
  /\ UNCHANGED <<content, listbox, viewVars, fixVars>>

-----------------------------------------------------------------------------
(***************************************************************************)
(* The tabs and the editor, while no dialog is open.                       *)
(***************************************************************************)
View ==
  /\ phase = "idle"
  /\ views < MaxViews
  /\ views' = views + 1
  /\ UNCHANGED <<listbox, results, summary, autofix, queue, worker, fixVars, latest>>

\* _load_file_preview from the explorer, a tab or the dialog that opens a file.
Show(f) ==
  /\ View
  /\ current' = f /\ tabs' = tabs \cup {f}
  /\ UNCHANGED <<content, alone>>

\* The neighbour is shown if the tab was highlighted and the neighbour reads.
CloseTab(f) ==
  /\ View
  /\ f \in tabs
  /\ tabs' = tabs \ {f} /\ current' \in {current} \cup tabs'
  /\ UNCHANGED <<content, alone>>

NewTab ==
  /\ View
  /\ current' \in Left /\ tabs' = {}
  /\ UNCHANGED <<content, alone>>

\* _on_save_file.  That a worker may find the file torn meanwhile is of no
\* account where alone ceases to hold.
Save(f, draft) ==
  /\ View
  /\ current \in {f, NoFile}
  /\ content' = [content EXCEPT ![f] = draft]
  /\ current' = f /\ tabs' = tabs \cup {f}
  /\ alone' = (alone /\ \A i \in DOMAIN latest : latest[i] # f)

-----------------------------------------------------------------------------
(***************************************************************************)
(* _on_autofix (button, palette or Ctrl+R, which the disabled button does  *)
(* not stop): rewrite the listed files one by one, report, scan them.      *)
(***************************************************************************)
AutofixBegins ==
  /\ phase = "idle"
  /\ Len(worker) < MaxScans
  /\ phase' = "fixing"
  /\ fixing' = listbox
  /\ UNCHANGED <<content, listbox, viewVars, results, summary, autofix, queue,
                 worker, latest, alone>>

Rewritten(f) == content[f] = "issue" /\ f \in Fixable

\* A file that does not parse, or that the fixers leave as it is, is skipped.
FixSkip ==
  /\ phase = "fixing"
  /\ fixing # <<>>
  /\ ~Rewritten(Head(fixing)) /\ content[Head(fixing)] # "torn"
  /\ fixing' = Tail(fixing)
  /\ UNCHANGED <<content, listbox, viewVars, results, summary, autofix, queue,
                 worker, phase, latest, alone>>

\* path.write_text truncates the file ...
FixTruncate ==
  /\ phase = "fixing"
  /\ fixing # <<>>
  /\ Rewritten(Head(fixing))
  /\ content' = [content EXCEPT ![Head(fixing)] = "torn"]
  /\ UNCHANGED <<listbox, viewVars, results, summary, autofix, queue, worker,
                 fixVars, latest, alone>>

\* ... and fills it.
FixWrite ==
  /\ phase = "fixing"
  /\ fixing # <<>>
  /\ content[Head(fixing)] = "torn"
  /\ content' = [content EXCEPT ![Head(fixing)] = "clean"]
  /\ fixing' = Tail(fixing)
  /\ UNCHANGED <<listbox, viewVars, results, summary, autofix, queue, worker,
                 phase, latest, alone>>

FixReport ==
  /\ phase = "fixing"
  /\ fixing = <<>>
  /\ phase' = "dialog"
  /\ UNCHANGED <<content, listbox, viewVars, results, summary, autofix, queue,
                 worker, fixing, latest, alone>>

\* The report is closed, and every listed file is scanned again.
DialogClosed ==
  /\ phase = "dialog"
  /\ phase' = "idle"
  /\ StartScan(listbox)
  /\ UNCHANGED <<content, listbox, viewVars, fixing>>

WorkerStep(w) == WorkerRead(w) \/ WorkerPut(w) \/ WorkerDone(w)

AutofixStep == FixSkip \/ FixTruncate \/ FixWrite \/ FixReport \/ DialogClosed

Next ==
  \/ \E w \in DOMAIN worker : WorkerRead(w) \/ WorkerPut(w) \/ WorkerDone(w)
  \/ PollQueue
  \/ \E files \in Intakes : AddPaths(files)
  \/ Clear \/ ScanCurrentFile \/ ScanStdin
  \/ \E f \in Files : Show(f) \/ CloseTab(f) \/ \E draft \in Drafts : Save(f, draft)
  \/ NewTab
  \/ AutofixBegins
  \/ FixSkip \/ FixTruncate \/ FixWrite \/ FixReport \/ DialogClosed

Spec == Init /\ [][Next]_vars

\* Every thread is scheduled, Tk runs the poll again and again, and a dialog
\* is closed at last; the user need not do anything.
FairSpec ==
  /\ Spec
  /\ \A w \in 1..MaxScans : WF_vars(w \in DOMAIN worker /\ WorkerStep(w))
  /\ WF_vars(PollQueue)
  /\ WF_vars(AutofixStep)

-----------------------------------------------------------------------------
(***************************************************************************)
(* Properties.                                                             *)
(***************************************************************************)
Kinds == {"clean", "issue", "broken", "torn"}

\* Types; only the file being rewritten is torn, and only while it is.
TypeOK ==
  /\ content \in [Files -> Kinds]
  /\ listbox \in Seq(Files) /\ current \in Files \cup {NoFile} /\ tabs \subseteq Files
  /\ results \in Seq([path : Files \cup {Stdin}, kind : {"issue", "error"}])
  /\ summary \in {"Ready", "Scanning", "Done"} /\ autofix \in BOOLEAN
  /\ queue \in Seq([kind : Kinds \cup {"done"}, path : Files \cup {Stdin, NoFile}])
  /\ phase \in {"idle", "fixing", "dialog"}
  /\ \A f \in Files : content[f] = "torn" =>
       phase = "fixing" /\ fixing # <<>> /\ f = Head(fixing)

\* The kind of row the list owes a file.
RowFor(path) == Row(IF Outcome(path) = "issue" THEN "issue" ELSE "error", path)

\* at leads from the rows to the places that owe one: in order, each once.
Lists(rows, places, at) ==
  /\ at \in [DOMAIN rows -> places]
  /\ \A i, j \in DOMAIN rows : i < j => at[i] < at[j]
  /\ \A k \in places : \E i \in DOMAIN rows : at[i] = k

\* "Done" tells the truth: the list shows the findings of the files of the last
\* scan as they are on disk, in order, each once, and no row of another scan,
\* provided that nothing was in flight when that scan was started and that no
\* file of it was saved since.
DoneTellsTheTruth ==
  alone /\ summary = "Done" /\ phase = "idle" =>
    LET owed == {i \in DOMAIN latest : Outcome(latest[i]) # "clean"}
    IN  \E at \in [DOMAIN results -> owed] :
          /\ Lists(results, owed, at)
          /\ \A i \in DOMAIN results : results[i] = RowFor(latest[at[i]])

\* The lists of a cleared dashboard stay clear unless a scan was in flight: no
\* late event fills them again, whatever is shown, closed or saved, and whatever
\* file close_all left in the editor.
ReadyStaysEmpty ==
  summary = "Ready" =>
    /\ latest = <<>> /\ listbox = <<>> /\ ~autofix
    /\ alone => results = <<>> /\ queue = <<>>

\* Whatever overlaps, the button is enabled only by a finished scan that left
\* rows in the list.
AutofixOffersFindings == autofix => summary = "Done" /\ results # <<>>

\* What the dashboard says of a scan is what the scan found: the summary, the
\* cleared list and the Auto-Fix button (the four above, gui.py:2773-2841).
SessionTellsTheTruth ==
  TypeOK /\ DoneTellsTheTruth /\ ReadyStaysEmpty /\ AutofixOffersFindings

\* "Scanning" is never the last word, overlapping scans and failing files
\* included.
ScanEnds == summary = "Scanning" ~> summary # "Scanning"
=============================================================================
