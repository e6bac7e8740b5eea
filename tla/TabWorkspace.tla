---------------------------- MODULE TabWorkspace ----------------------------
(***************************************************************************)
(* The documents of the dashboard (gui.py): the tab bar above the editor   *)
(* (ui/tab_manager.py), the tab header of the workspace (ui/workspace.py), *)
(* the split preview, the rolling undo ring, Save, Auto-Fix and the        *)
(* session file.  Every handler runs on the Tk thread, so a handler with   *)
(* all the callbacks it fires is one step; the optimised previews are      *)
(* computed by daemon threads and posted back in any order.  A file may be *)
(* gone or unreadable for a while; its tab stays.                          *)
(*                                                                         *)
(* A text is what one file holds: which file it came from, whether it is   *)
(* one statement, several, or longer than the preview, and whether some of *)
(* the file's statements are missing from it.                              *)
(***************************************************************************)
EXTENDS Integers, SequencesExt

CONSTANTS Files,      \* the .sql files on disk
          Scripts,    \* those of several statements
          Long,       \* those longer than the preview
          Scratch,    \* "/scratch/untitled.sql", a tab without a file
          None,
          MaxCopies,  \* bound: times a path is listed in _open_paths
          MaxPosts,   \* bound: previews being optimised
          MaxRing,    \* bound: undo snapshots kept (20 in the code)
          MaxSteps    \* bound: what the user does

ASSUME TabAssumption == /\ None \notin Files \cup {Scratch}
                        /\ {MaxCopies, MaxPosts, MaxRing, MaxSteps} \subseteq Nat

VARIABLES desk,       \* the Dashboard's fields and widgets
          disk,       \* what each file holds
          remembered,  \* open_paths in ~/.sqlean_lint_session.json
          ring,       \* HistoryTracker._ring
          undone      \* history: a snapshot was put into the editor

vars == <<desk, disk, remembered, ring, undone>>

Kinds == {"none", "one", "many", "huge", "cut"}
Texts == [of: Files \cup {None}, kind: Kinds, lost: BOOLEAN]
Blank == [of |-> None, kind |-> "none", lost |-> FALSE]
IsBlank(t) == t.kind = "none"
KindOf(f) == IF f \in Long THEN "huge" ELSE IF f \in Scripts THEN "many" ELSE "one"

(* sqlglot.parse_one and ast_nodes[0] keep the first statement only.       *)
First(t) == IF t.kind \in {"none", "one"} THEN t
            ELSE [t EXCEPT !.kind = "one", !.lost = TRUE]

(* The first 120 KB of a longer file, and a comment that says so.          *)
Cut(t) == IF t.kind = "huge" THEN [t EXCEPT !.kind = "cut", !.lost = TRUE] ELSE t

Opened(tabs, f) == IF Contains(tabs, f) THEN tabs ELSE Append(tabs, f)
Place(tabs, f) == CHOOSE i \in DOMAIN tabs : tabs[i] = f
Neighbour(tabs, f) ==
    LET rest == RemoveAt(tabs, Place(tabs, f)) IN
    IF rest = <<>> THEN None
    ELSE rest[IF Place(tabs, f) < Len(rest) THEN Place(tabs, f) ELSE Len(rest)]

(***************************************************************************)
(* _load_file_preview: the path is compared with strings, so it is added   *)
(* to _open_paths whatever they hold.  Three fields are history: whether   *)
(* the newest preview was posted before an older one, the paths closed in  *)
(* the workspace header since they were last opened, and whether the file  *)
(* of the tab highlighted last could not be read.                          *)
(***************************************************************************)
Loaded(d, f, t) ==
    [d EXCEPT !.file = f, !.sql = t, !.pane = t, !.opt = t,
              !.bar = Opened(@, f), !.active = f,
              !.header = Opened(@, f), !.headerActive = f,
              !.open[f] = @ + 1, !.posts = Append(@, First(t)),
              !.overtaken = FALSE, !.dropped = @ \ {f}, !.failed = FALSE]

(* Mutant: a path that was ever remembered is not added again.             *)
PreviewForgetful(d, f) == IF f \in d.away THEN d
                          ELSE [Loaded(d, f, Cut(disk[f])) EXCEPT !.open[f] = d.open[f]]
(* A file that is no file, or that raises OSError, is not shown.           *)
Preview(d, f) == IF f \in d.away THEN d ELSE Loaded(d, f, Cut(disk[f]))

(* CTkTabBar.select highlights the tab, whatever _on_tab_changed then      *)
(* makes of its file.                                                      *)
Activate(d, f) == Preview([d EXCEPT !.active = f, !.failed = TRUE], f)

(* _on_tab_closed removes one copy.                                        *)
Forget(d, f) ==
    IF f \in Files /\ d.open[f] > 0 THEN [d EXCEPT !.open[f] = @ - 1] ELSE d

(* CTkTabBar.close: the neighbour of the active tab is selected first, and *)
(* on_change loads its preview.                                            *)
BarClose(d, f) ==
    IF ~Contains(d.bar, f) THEN d
    ELSE LET next   == Neighbour(d.bar, f)
             closed == [d EXCEPT !.bar = RemoveAt(@, Place(@, f)),
                                 !.active = IF @ = f THEN None ELSE @]
         IN  Forget(IF d.active = f /\ next # None THEN Activate(closed, next)
                    ELSE closed, f)

(* _TabHeader.close: its on_select only writes the status line.            *)
HeaderClose(d, f) ==
    IF ~Contains(d.header, f) THEN d
    ELSE Forget([d EXCEPT !.header = RemoveAt(@, Place(@, f)),
                          !.headerActive = IF @ = f THEN Neighbour(d.header, f) ELSE @], f)

BarCloseAll(d) == FoldLeft(BarClose, d, d.bar)
HeaderCloseAll(d) == FoldLeft(HeaderClose, d, d.header)

Fresh == [file |-> None, sql |-> Blank, pane |-> Blank, opt |-> Blank,
          bar |-> <<>>, active |-> None, header |-> <<>>, headerActive |-> None,
          open |-> [f \in Files |-> 0], posts |-> <<>>, listed |-> {},
          overtaken |-> FALSE, dropped |-> {}, away |-> {}, failed |-> FALSE, steps |-> 0]

Init == /\ desk = Fresh
        /\ disk = [f \in Files |-> [of |-> f, kind |-> KindOf(f), lost |-> FALSE]]
        /\ remembered = {}
        /\ ring = <<>>
        /\ undone = FALSE

-----------------------------------------------------------------------------
(* A step of the Tk thread, within the bounds.                             *)
Becomes(d) == /\ \A f \in Files : d.open[f] <= MaxCopies
              /\ Len(d.posts) <= MaxPosts
              /\ desk.steps < MaxSteps
              /\ desk' = [d EXCEPT !.steps = desk.steps + 1]

(* _add_paths: the files go to the hidden list, the first is previewed.    *)
AddPaths(f, fs) ==
    /\ Becomes(Preview([desk EXCEPT !.listed = @ \cup fs \cup {f}], f))
    /\ UNCHANGED <<disk, remembered, ring, undone>>

(* A click in the explorer, or the dialog that opens a file.               *)
Explore(f) ==
    /\ Becomes(Preview(desk, f))
    /\ UNCHANGED <<disk, remembered, ring, undone>>

(* A click on a tab of the bar, or Ctrl+Tab.                               *)
Select(f) ==
    /\ Contains(desk.bar, f)
    /\ Becomes(Activate(desk, f))
    /\ UNCHANGED <<disk, remembered, ring, undone>>

(* Other programs: these files cannot be read now, and the others can.     *)
Unreadable(fs) ==
    /\ Becomes([desk EXCEPT !.away = fs])
    /\ UNCHANGED <<disk, remembered, ring, undone>>

SelectInHeader(f) ==
    /\ Contains(desk.header, f)
    /\ Becomes([desk EXCEPT !.headerActive = f])
    /\ UNCHANGED <<disk, remembered, ring, undone>>

CloseTab(f) ==
    /\ Contains(desk.bar, f)
    /\ Becomes(BarClose(desk, f))
    /\ UNCHANGED <<disk, remembered, ring, undone>>

CloseInHeader(f) ==
    /\ Contains(desk.header, f)
    /\ Becomes([HeaderClose(desk, f) EXCEPT !.dropped = @ \cup {f}])
    /\ UNCHANGED <<disk, remembered, ring, undone>>

(* _new_tab                                                                *)
NewTab ==
    /\ LET d == BarCloseAll([desk EXCEPT !.file = None, !.sql = Blank,
                                         !.pane = Blank, !.opt = Blank])
       IN  Becomes([d EXCEPT !.header = Opened(@, Scratch), !.headerActive = Scratch])
    /\ UNCHANGED <<disk, remembered, ring, undone>>

(* _on_clear: the fields are emptied before the tabs are closed.           *)
Clear ==
    /\ Becomes(HeaderCloseAll(BarCloseAll(
           [desk EXCEPT !.listed = {}, !.file = None, !.sql = Blank,
                        !.open = [f \in Files |-> 0]])))
    /\ UNCHANGED <<disk, remembered, ring, undone>>

(* Mutant: the posted text becomes the document.                           *)
PostPreviewAsDocument(i) ==
    /\ i \in DOMAIN desk.posts
    /\ desk' = [desk EXCEPT !.pane = desk.sql, !.opt = desk.posts[i], !.sql = desk.posts[i],
                            !.posts = RemoveAt(@, i),
                            !.overtaken = @ \/ (1 < i /\ i = Len(desk.posts))]
    /\ UNCHANGED <<disk, remembered, ring, undone>>
(* _apply_optimized_preview: the text that is current now, beside the      *)
(* optimised text of the document the thread was started for.              *)
PostPreview(i) ==
    /\ i \in DOMAIN desk.posts
    /\ desk' = [desk EXCEPT !.pane = desk.sql, !.opt = desk.posts[i],
                            !.posts = RemoveAt(@, i),
                            !.overtaken = @ \/ (1 < i /\ i = Len(desk.posts))]
    /\ UNCHANGED <<disk, remembered, ring, undone>>

(* _run_statement_under_cursor: the statement replaces the document.       *)
RunStatement ==
    /\ ~IsBlank(desk.pane)
    /\ Becomes([desk EXCEPT !.sql = First(desk.pane)])
    /\ UNCHANGED <<disk, remembered, ring, undone>>

(* _format_sql; text that does not parse is left alone.                    *)
FormatSql ==
    /\ ~IsBlank(desk.sql)
    /\ LET t == First(desk.sql) IN
       Becomes([desk EXCEPT !.sql = t, !.pane = t, !.opt = t])
    /\ UNCHANGED <<disk, remembered, ring, undone>>

(***************************************************************************)
(* _on_save_file: the current text, or the left pane when it is empty.     *)
(* With no file the user names one, whose text it then is.  The write may  *)
(* fail, and nothing changes; opening the tab selects it and reads the     *)
(* file again.                                                             *)
(***************************************************************************)
Content == IF IsBlank(desk.sql) THEN desk.pane ELSE desk.sql

Save(target) ==
    /\ target = desk.file \/ desk.file = None
    /\ LET text == IF desk.file = None THEN [Content EXCEPT !.of = target, !.lost = FALSE]
                   ELSE Content
       IN  /\ disk' = [disk EXCEPT ![target] = text]
           /\ Becomes(Loaded([desk EXCEPT !.away = @ \ {target}], target, Cut(text)))
    /\ UNCHANGED <<remembered, ring, undone>>

(* _on_autofix / _apply_fixes on the listed files; the ones that do not    *)
(* read, parse or need a fix are skipped.  No preview is read again.       *)
Autofix(fs) ==
    /\ fs \subseteq desk.listed \ desk.away
    /\ disk' = [f \in Files |-> IF f \in fs THEN First(disk[f]) ELSE disk[f]]
    /\ Becomes(desk)
    /\ UNCHANGED <<remembered, ring, undone>>

(* A key in the editor: HistoryTracker.push, once per 30 seconds.          *)
TrackEdit ==
    /\ ~(ring # <<>> /\ Last(ring) = desk.pane)
    /\ LET r == Append(ring, desk.pane) IN
       ring' = IF Len(r) > MaxRing THEN Tail(r) ELSE r
    /\ Becomes(desk)
    /\ UNCHANGED <<disk, remembered, undone>>

(* _undo_edit / take_undo                                                  *)
UndoEdit ==
    /\ ring # <<>>
    /\ ring' = Front(ring)
    /\ Becomes([desk EXCEPT !.pane = Last(ring)])
    /\ undone' = TRUE
    /\ UNCHANGED <<disk, remembered>>

(* _on_quit writes the session; a crash does not.  The next run restores   *)
(* the paths, and opens no tab for them.                                   *)
Listed(d) == {f \in Files : d.open[f] > 0}

Relaunch(saves) ==
    /\ remembered' = IF saves THEN Listed(desk) ELSE remembered
    /\ Becomes([Fresh EXCEPT !.away = desk.away, !.open = [f \in Files |-> IF f \in remembered' THEN 1 ELSE 0]])
    /\ ring' = <<>>
    /\ UNCHANGED <<disk, undone>>

Next ==
    \/ \E f \in Files : \/ \E fs \in SUBSET Files : AddPaths(f, fs)
                        \/ Explore(f)
                        \/ Select(f)
                        \/ CloseTab(f)
                        \/ Save(f)
    \/ \E f \in Files \cup {Scratch} : SelectInHeader(f) \/ CloseInHeader(f)
    \/ \E fs \in SUBSET Files : Autofix(fs) \/ Unreadable(fs)
    \/ \E i \in 1..MaxPosts : PostPreview(i)
    \/ \E saves \in BOOLEAN : Relaunch(saves)
    \/ NewTab \/ Clear \/ RunStatement \/ FormatSql \/ TrackEdit \/ UndoEdit

Spec == Init /\ [][Next]_vars

-----------------------------------------------------------------------------
(* Every variable keeps its kind of value.                                 *)
TypeOK ==
    /\ disk \in [Files -> Texts]
    /\ remembered \subseteq Files
    /\ ring \in Seq(Texts) /\ Len(ring) <= MaxRing
    /\ desk.file \in Files \cup {None}
    /\ desk.sql \in Texts /\ desk.pane \in Texts /\ desk.opt \in Texts
    /\ desk.bar \in Seq(Files) /\ IsInjective(desk.bar)
    /\ desk.header \in Seq(Files \cup {Scratch}) /\ IsInjective(desk.header)
    /\ desk.active \in Range(desk.bar) \cup {None}
    /\ desk.headerActive \in Range(desk.header) \cup {None}

(***************************************************************************)
(* The highlighted tab of the bar names the file that Save would write:    *)
(* nested callbacks (close, neighbour, preview) never leave them apart,    *)
(* except that a tab whose file cannot be read is highlighted over the     *)
(* document of before, until a file is shown (gui.py:2220, 2886, 2895).    *)
(***************************************************************************)
ActiveTabIsDocument == desk.active # None /\ ~desk.failed => desk.file = desk.active

(***************************************************************************)
(* A file is only ever overwritten with its own text, as long as no undo   *)
(* put the snapshot of another document into the editor (_undo_edit,       *)
(* _run_statement_under_cursor, _on_save_file).                            *)
(***************************************************************************)
FilesKeepTheirOwnText ==
    ~undone => \A f \in Files : disk[f].of = f

(***************************************************************************)
(* Once every posted preview has been applied, in the order the documents  *)
(* were opened, both panes show the document that is open, the one Save    *)
(* would write, whichever tab is highlighted                               *)
(* (_async_process_preview, _apply_optimized_preview).                     *)
(***************************************************************************)
PanesSettle ==
    (desk.posts = <<>> /\ desk.file # None /\ ~desk.overtaken /\ ~undone)
        => desk.pane.of = desk.file /\ desk.opt.of = desk.file

(***************************************************************************)
(* A tab open in the bar is among the paths the session would remember,    *)
(* unless its other tab, in the workspace header, was closed               *)
(* (_load_file_preview, _on_tab_closed, _save_session).                    *)
(***************************************************************************)
OpenTabsAreRemembered == Range(desk.bar) \subseteq Listed(desk) \cup desk.dropped

(* Strips, document, session and panes agree: the three of the above that  *)
(* relate them, whatever is opened, previewed and closed.                  *)
TabsAgree == TypeOK /\ ActiveTabIsDocument /\ PanesSettle /\ OpenTabsAreRemembered

(***************************************************************************)
(* What the documentation window says of Auto-Fix ("provably-safe semantic *)
(* preservation") and _on_save_file of Save ("persist the active SQL back  *)
(* to its file"): no statement of a file is lost.                          *)
(***************************************************************************)
NoStatementLost == \A f \in Files : ~disk[f].lost
=============================================================================
