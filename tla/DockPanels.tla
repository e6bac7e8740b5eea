------------------------------ MODULE DockPanels ------------------------------
(***************************************************************************)
(* What of the workbench is on the screen and what of a query its drawer   *)
(* fills in: the pages of the router shell, the dock with its tabs and     *)
(* toggles, and the parameters of the query.                               *)
(***************************************************************************)
EXTENDS Naturals, Sequences, SequencesExt, FiniteSets

CONSTANTS Names, Extends,      \* parameter names; pairs <<n, p>> where p is a proper prefix of n
          Buffers,             \* buffers: sequences of placeholders [form, name]
          Values,              \* what a parameter may be given: "", a plain text, or a name, which
                               \* stands for a text with that placeholder in it
          MaxSettings          \* bound: uses of the drawer

Forms == {":", "{{}}", "{{ }}", "::"} \* ":name", "{{name}}", "{{ name }}" and a cast
ASSUME DockAssumption == /\ MaxSettings \in Nat /\ "" \in Values
                         /\ Buffers \subseteq Seq([form : Forms, name : Names])

VARIABLES pageShown, activePage, \* pages gridded on the stage; _active_page
          dockShown, collapse, \* the dock is gridded; its button shows it
          dockActive, shown,   \* _dock_active; the panes gridded in the dock
          chartVisible, gridVisible, dagVisible, \* what the toggles remember
          toggled,             \* history: a toggle was used since the tab was selected
          buffer, params, queried, settingsMade \* the editor; _param_values in order; what was run

panels == <<pageShown, activePage, dockShown, collapse, dockActive, shown, chartVisible, gridVisible, dagVisible, toggled>>
query == <<buffer, params, queried, settingsMade>>
dvars == <<panels, query>>
Pages == {"studio", "explorer", "diagnostics", "cloud_sync", "dashboard"}
Tabs == {"results", "chart", "terminal"}

DInit == /\ activePage = "dashboard" /\ pageShown = {"dashboard"}
         /\ dockShown = TRUE /\ collapse = TRUE /\ dockActive = "results"
         /\ shown = {"results", "grid", "analytics"}
         /\ chartVisible = FALSE /\ gridVisible = TRUE /\ dagVisible = TRUE /\ toggled = FALSE
         /\ buffer \in Buffers /\ params = <<>> /\ queried = <<>> /\ settingsMade = 0

-----------------------------------------------------------------------------
ShowPage(key) == /\ pageShown' = (pageShown \ {activePage}) \cup {key} /\ activePage' = key
                 /\ UNCHANGED <<dockShown, collapse, dockActive, shown, chartVisible, gridVisible, dagVisible, toggled>>
(* _select_dock_tab                                                        *)
PanesOf(key) == CASE key = "results" -> {"results", "grid", "analytics"}
                  [] key = "chart" -> {"chart"} [] OTHER -> {"console"}
(* Mutant: the panes of the tab are added to those there are.              *)
SelectDockTabOnly(key) == /\ dockActive' = key /\ dockShown' = TRUE /\ collapse' = TRUE /\ toggled' = FALSE
                          /\ shown' = shown \cup PanesOf(key)
                          /\ UNCHANGED <<pageShown, activePage, chartVisible, gridVisible, dagVisible>>
SelectDockTab(key) == /\ dockActive' = key /\ dockShown' = TRUE /\ collapse' = TRUE /\ toggled' = FALSE
                      /\ shown' = PanesOf(key)
                      /\ UNCHANGED <<pageShown, activePage, chartVisible, gridVisible, dagVisible>>
ToggleDock == /\ collapse' = ~collapse /\ dockShown' = collapse'
              /\ UNCHANGED <<pageShown, activePage, dockActive, shown, chartVisible, gridVisible, dagVisible, toggled>>
(* The toggles go by what they did last, not by what is on the screen.     *)
Toggles(s) == /\ shown' = s /\ toggled' = TRUE
              /\ UNCHANGED <<pageShown, activePage, dockShown, collapse, dockActive>>
ToggleChartView == /\ chartVisible' = ~chartVisible /\ UNCHANGED <<gridVisible, dagVisible>>
                   /\ Toggles(IF chartVisible' THEN (shown \ {"grid"}) \cup {"chart"}
                              ELSE (shown \ {"chart"}) \cup {"grid"})
ToggleDataGrid == /\ gridVisible' = ~gridVisible /\ UNCHANGED <<chartVisible, dagVisible>>
                  /\ Toggles(IF gridVisible' THEN shown \cup {"grid"} ELSE shown \ {"grid"})
ToggleDagViewer == /\ dagVisible' = ~dagVisible /\ UNCHANGED <<chartVisible, gridVisible>>
                   /\ Toggles(IF dagVisible' THEN shown \cup {"analytics"} ELSE shown \ {"analytics"})

-----------------------------------------------------------------------------
(* _find_params: each name once; a cast is none.                           *)
FindParams(b) == {n \in Names : \E i \in DOMAIN b : b[i].name = n /\ b[i].form # "::"}
ValueOf(n) == IF \E i \in DOMAIN params : params[i].name = n
              THEN params[CHOOSE i \in DOMAIN params : params[i].name = n].value ELSE ""
(* The drawer sets every parameter of the buffer, new names last.          *)
Given(n, v) == IF \E i \in DOMAIN params : params[i].name = n
               THEN [i \in DOMAIN params |-> IF params[i].name = n THEN [name |-> n, value |-> v] ELSE params[i]]
               ELSE Append(params, [name |-> n, value |-> v])
ApplyParams(n, v) == /\ n \in FindParams(buffer) /\ settingsMade < MaxSettings
                     /\ params' = Given(n, v) /\ settingsMade' = settingsMade + 1
                     /\ queried' = <<>> /\ UNCHANGED buffer
(* _resolve_params: str.replace of ":name" and "{{name}}" for every stored *)
(* name, whichever buffer it came from.  A placeholder becomes its literal,*)
(* or is spoiled where another name is written into it.                    *)
Written(p, n) == IF p.got # "itself" THEN [p EXCEPT !.got = IF p.got \in Names /\ ValueOf(p.got) = n THEN "spoiled" ELSE p.got]
                 ELSE IF p.name = n /\ p.form \in {":", "{{}}"} THEN [p EXCEPT !.got = n]
                 ELSE IF p.form \in {":", "::"} /\ (p.name = n \/ <<p.name, n>> \in Extends)
                 THEN [p EXCEPT !.got = "spoiled"] ELSE p
Replaced(ps, entry) == IF entry.value = "" THEN ps ELSE [i \in DOMAIN ps |-> Written(ps[i], entry.name)]
ResolveParams(b) == FoldLeft(Replaced, [i \in DOMAIN b |-> [form |-> b[i].form, name |-> b[i].name, got |-> "itself"]], params)
RunsQuery == queried' = ResolveParams(buffer) /\ UNCHANGED <<buffer, params, settingsMade>>
OpensBuffer(b) == buffer' = b /\ queried' = <<>> /\ UNCHANGED <<params, settingsMade>>

PanelNext == /\ UNCHANGED query
             /\ \/ \E page \in Pages : ShowPage(page)
                \/ \E key \in Tabs : SelectDockTab(key)
                \/ ToggleDock \/ ToggleChartView \/ ToggleDataGrid \/ ToggleDagViewer
ParamNext == /\ UNCHANGED panels
             /\ \/ \E n \in Names, v \in Values : ApplyParams(n, v)
                \/ RunsQuery \/ \E b \in Buffers : OpensBuffer(b)
DSpec == DInit /\ [][PanelNext \/ ParamNext]_dvars

DTypeOK == /\ activePage \in Pages /\ pageShown \subseteq Pages /\ dockActive \in Tabs
           /\ shown \subseteq {"results", "console", "grid", "chart", "analytics"}
           /\ {dockShown, collapse, chartVisible, gridVisible, dagVisible, toggled} \subseteq BOOLEAN
           /\ settingsMade \in 0..MaxSettings

(* "only one of the two is visible at a time (grid|chart toggle)", as long *)
(* as no toggle is used on a tab; the list and the console, which share a  *)
(* row too, never overlap, and show the selected tab.                      *)
OneOfTheTwo == /\ ~toggled => shown = PanesOf(dockActive)
               /\ "results" \in shown <=> dockActive = "results"
               /\ "console" \in shown <=> dockActive = "terminal"
               /\ pageShown = {activePage} /\ dockShown = collapse
(* A query is run with each parameter at its own value and the rest of the *)
(* text untouched: short of names that are prefixes of one another, casts  *)
(* to a type that is also a parameter, braces written with spaces, and     *)
(* values that hold a placeholder.                                         *)
ParamsGetTheirValues ==
  \A i \in DOMAIN queried :
    LET p == queried[i] IN
    \/ p.got = (IF ValueOf(p.name) = "" \/ p.form \in {"::", "{{ }}"} THEN "itself" ELSE p.name)
    \/ p.form = "::" /\ ValueOf(p.name) # ""
    \/ \E n \in Names : <<p.name, n>> \in Extends /\ ValueOf(n) # ""
    \/ ValueOf(p.name) \in Names

(* The dock shows one thing at a time, and the parameters it asks for go   *)
(* where they are named (the two above).                                   *)
DockIsTrue == DTypeOK /\ OneOfTheTwo /\ ParamsGetTheirValues
=============================================================================
