------------------------------- MODULE WebStudio -------------------------------
(***************************************************************************)
(* The Web Studio: the page of webstudio.py, whose buttons send requests   *)
(* and draw the answers as they come, and server.py, which answers each    *)
(* request on a thread of its own and writes every lint to the history     *)
(* table before it answers.  A text stands for the SQL and the dialect     *)
(* chosen beside it.                                                       *)
(***************************************************************************)
EXTENDS Naturals

CONSTANTS Scripts, Blank,      \* texts of the editor; the empty one
          Rewrite,             \* text -> its safe rewrite, or Blank when there is none
          MaxSends             \* bound: requests the page sends

ASSUME WebAssumption == /\ MaxSends \in Nat /\ Blank \notin Scripts
                        /\ \A t \in Scripts : Rewrite[t] \in Scripts \cup {Blank}

VARIABLES editor,              \* #sql-input
          panes,               \* what each pane shows, and _lastResult; Blank when hidden
          status, lintButton,  \* #status-text says that it waits or something else; the button is enabled
          requests,            \* in flight: [id, kind, sql, answer]
          rows, locked,        \* the texts of the history table; _LOCK is held by a write
          sentCount, mixed     \* history: requests sent; a fix was drawn beside another answer

page == <<editor, panes, status, lintButton, mixed>>
wvars == <<page, requests, rows, locked, sentCount>>
Panes == {"lastResult", "results", "risk", "original", "optimized", "transpiled"}
Empty == [p \in Panes |-> Blank]

WInit == /\ editor \in {t \in Scripts : Rewrite[t] # Blank} /\ status = "told" /\ lintButton = TRUE /\ mixed = FALSE
         /\ panes = Empty /\ requests = {} /\ rows = {} /\ locked = FALSE /\ sentCount = 0

-----------------------------------------------------------------------------
(* The page sends                                                          *)
Send(kind) == /\ sentCount < MaxSends /\ sentCount' = sentCount + 1
              /\ requests' = requests \cup {[id |-> sentCount, kind |-> kind, sql |-> editor, answer |-> "none"]}
Tells == status' = "told" /\ UNCHANGED <<requests, sentCount>>
drawn == <<editor, panes, mixed>>

(* Lint and Refresh: only Lint is disabled while an answer is awaited.     *)
RunLint == /\ IF editor = Blank THEN Tells /\ UNCHANGED lintButton
              ELSE Send("lint") /\ status' = "waiting" /\ lintButton' = FALSE
           /\ UNCHANGED <<drawn, rows, locked>>
OptimizeQuery == /\ editor # Blank /\ Send("optimize") /\ status' = "waiting"
                 /\ UNCHANGED <<drawn, lintButton, rows, locked>>
ApplyFix == /\ IF panes.lastResult = Blank THEN Tells
               ELSE editor # Blank /\ Send("fix") /\ status' = "waiting"
            /\ UNCHANGED <<drawn, lintButton, rows, locked>>
TranspileQuery == /\ editor # Blank
                  /\ \/ Tells
                     \/ Send("transpile") /\ status' = "waiting"
                  /\ UNCHANGED <<drawn, lintButton, rows, locked>>
ClearAll == /\ editor' = Blank /\ status' = "told" /\ mixed' = FALSE /\ panes' = Empty
            /\ UNCHANGED <<lintButton, requests, rows, locked, sentCount>>
(* The user types, or restores an entry of the page's list of history.     *)
TypeSql == /\ editor' \in Scripts
           /\ UNCHANGED <<panes, status, lintButton, mixed, requests, rows, locked, sentCount>>

-----------------------------------------------------------------------------
(* The server answers                                                      *)
Reply(r, a) == requests' = (requests \ {r}) \cup {[r EXCEPT !.answer = a]}
Linter(r) == r.kind \in {"lint", "optimize"}
(* _handle_lint: HistoryStore.add under the class lock, then the answer.   *)
(* A rule or sqlite that raises closes the connection, and so does a       *)
(* server that goes away: the page cannot tell these from an error.        *)
AddBegins(r) == /\ Linter(r) /\ r.answer = "none" /\ ~locked /\ locked' = TRUE /\ Reply(r, "adding")
                /\ UNCHANGED <<page, rows, sentCount>>
AddEnds(r) == /\ r.answer = "adding" /\ locked' = FALSE
              /\ \/ rows' = rows \cup {r.sql} /\ \E a \in {"ok", "error"} : Reply(r, a)
                 \/ UNCHANGED rows /\ Reply(r, "error")
              /\ UNCHANGED <<page, sentCount>>
(* Apply Fix asks for a licence where it is enforced; a transpiler error   *)
(* is an answer too.                                                       *)
Handle(r) == /\ ~Linter(r) /\ r.answer = "none" /\ \E a \in {"ok", "error"} : Reply(r, a)
             /\ UNCHANGED <<page, rows, locked, sentCount>>

-----------------------------------------------------------------------------
(* The page draws                                                          *)
Rewritten(t) == IF t = Blank THEN Blank ELSE Rewrite[t]
(* renderResults, renderRisk and renderDAG of one answer.                  *)
LintPanes(t) == [p \in Panes |-> CASE p = "optimized" -> Rewritten(t)
                                   [] p = "transpiled" -> panes[p] [] OTHER -> t]
(* Mutant: the gauge keeps what it showed.                                 *)
DrawLintPartly(r) == /\ panes' = [LintPanes(r.sql) EXCEPT !["risk"] = panes["risk"]]
                     /\ mixed' = FALSE /\ UNCHANGED editor
DrawLint(r) == panes' = LintPanes(r.sql) /\ mixed' = FALSE /\ UNCHANGED editor
DrawFix(r) == /\ editor' = Rewrite[r.sql] /\ panes' = [panes EXCEPT !["optimized"] = Rewrite[r.sql]]
              /\ mixed' = TRUE
Takes(r) == r \in requests /\ requests' = requests \ {r} /\ UNCHANGED <<rows, locked, sentCount>>
(* Mutant: the button stays disabled after an error.                       *)
LintAgainUnless(r) == lintButton' = IF r.kind = "lint" /\ r.answer = "ok" THEN TRUE ELSE lintButton
LintAgain(r) == lintButton' = IF r.kind = "lint" THEN TRUE ELSE lintButton

Fails(r) == r.answer = "error" /\ Takes(r) /\ status' = "told" /\ LintAgain(r) /\ UNCHANGED drawn
Lints(r) == Linter(r) /\ r.answer = "ok" /\ Takes(r) /\ DrawLint(r) /\ status' = "told" /\ LintAgain(r)
Fixes(r) == /\ r.kind = "fix" /\ r.answer = "ok" /\ Takes(r) /\ UNCHANGED lintButton
            /\ status' = "told" /\ IF Rewrite[r.sql] # Blank THEN DrawFix(r) ELSE UNCHANGED drawn
Transpiles(r) == /\ r.kind = "transpile" /\ r.answer = "ok" /\ Takes(r) /\ status' = "told"
                 /\ panes' = [panes EXCEPT !["transpiled"] = r.sql] /\ UNCHANGED <<editor, lintButton, mixed>>

Server(r) == AddBegins(r) \/ AddEnds(r) \/ Handle(r)
Draws(r) == Fails(r) \/ Lints(r) \/ Fixes(r) \/ Transpiles(r)
WNext == \/ RunLint \/ OptimizeQuery \/ ApplyFix \/ TranspileQuery \/ ClearAll \/ TypeSql
         \/ \E r \in requests : Server(r) \/ Draws(r)
(* Handler threads run, and the browser draws what has come.               *)
WFairness == \A i \in 0..(MaxSends - 1) :
               /\ WF_wvars(\E r \in requests : r.id = i /\ Server(r))
               /\ WF_wvars(\E r \in requests : r.id = i /\ Draws(r))
WSpec == WInit /\ [][WNext]_wvars /\ WFairness

WTypeOK == /\ panes \in [Panes -> Scripts \cup {Blank}] /\ editor \in Scripts \cup {Blank}
           /\ lintButton \in BOOLEAN /\ locked \in BOOLEAN /\ mixed \in BOOLEAN
           /\ rows \subseteq Scripts /\ sentCount \in 0..MaxSends
           /\ \A r \in requests : r.sql \in Scripts

(* However the answers overtake one another and whatever the page cleared  *)
(* meanwhile, the findings, the gauge and the original pane are of one     *)
(* lint, the one Apply Fix goes by, and a lint in the history table; the   *)
(* optimised pane is its rewrite until a fix is drawn.                     *)
PanesTellOneStory == /\ \A p \in {"risk", "original", "lastResult"} : panes[p] = panes["results"]
                     /\ panes["results"] # Blank => panes["results"] \in rows
                     /\ ~mixed => panes["optimized"] = Rewritten(panes["original"])
(* The page keeps its types and its story (the two above).                 *)
PageHolds == WTypeOK /\ PanesTellOneStory
(* A page that waits for nothing does not say that it does, and its Lint   *)
(* button works; and every request is drawn or reported at last.           *)
PageSettles == /\ [](requests = {} => status = "told" /\ lintButton)
               /\ \A i \in 0..(MaxSends - 1) : (\E r \in requests : r.id = i) ~> (\A r \in requests : r.id # i)
=============================================================================
