------------------------------- MODULE MCScreen -------------------------------
(***************************************************************************)
(* TLC instance of what the dashboard shows: a behaviour is of live        *)
(* queries, of the settings, of the dock's panels, of the parameters of a  *)
(* query, of the command palette, of the workspace frame, of one of the    *)
(* result grids or of one of the things that move.  Parameters of which    *)
(* one's name begins with another's; commands that share letters; a result *)
(* with a NULL and rows that tie, and one with fewer columns.              *)
(***************************************************************************)
EXTENDS LiveQuery, Preferences, DockPanels, Palette, WorkspaceFrame, ResultGrid, Motion

VARIABLE subject
mcvars == <<qvars, gvars, dvars, kvars, wsvars, rvars, mvars, subject>>

MCExtends == {<<"dates", "date">>}
Use(form, name) == [form |-> form, name |-> name]
MCBuffers == {<<Use(":", "dates"), Use("{{}}", "date")>>,
              <<Use(":", "date"), Use("{{ }}", "id"), Use("::", "date")>>,
              <<Use("{{}}", "id"), Use(":", "id")>>}
Cmd(label, hint, family) == [label |-> label, hint |-> hint, family |-> family]
MCCommands == <<Cmd(<<"a", "b">>, <<>>, <<"b">>), Cmd(<<"b", "a", "b">>, <<"a">>, <<>>),
                Cmd(<<"a", "b", "b", "a">>, <<"b", "b">>, <<"a">>)>>
MCRails == [left |-> 4, right |-> 3]
Row(x, y) == [a |-> x, b |-> y]
MCResults == {[columns |-> <<"a", "b">>, rows |-> <<Row(2, 1), Row(0, 1), Row(1, 0)>>],
              [columns |-> <<"b">>, rows |-> <<[b |-> 1], [b |-> 2]>>]}

Idle(s) == /\ s # "settings" => app = [dialect |-> Default, theme |-> "dark", off |-> {}]
           /\ s # "frame" => room = 8
           /\ s # "params" => buffer = <<Use("{{}}", "id"), Use(":", "id")>>
MCInit == /\ subject \in {"query", "settings", "dock", "params", "palette", "frame", "grids", "panel", "score", "toasts"}
          /\ QInit /\ GInit /\ DInit /\ KInit /\ WsInit /\ RInit /\ MInit /\ Idle(subject)
But(vars) == UNCHANGED vars /\ UNCHANGED subject
QueryNext == QNext /\ But(<<gvars, dvars, kvars, wsvars, rvars, mvars>>)
SettingsNext == GNext /\ But(<<qvars, dvars, kvars, wsvars, rvars, mvars>>)
DockNext == PanelNext /\ But(<<qvars, gvars, kvars, wsvars, rvars, mvars>>)
ParamsNext == ParamNext /\ But(<<qvars, gvars, kvars, wsvars, rvars, mvars>>)
PaletteNext == KNext /\ But(<<qvars, gvars, dvars, wsvars, rvars, mvars>>)
FrameNext == WsNext /\ But(<<qvars, gvars, dvars, kvars, rvars, mvars>>)
GridsNext == RNext /\ But(<<qvars, gvars, dvars, kvars, wsvars, mvars>>)
Others == <<qvars, gvars, dvars, kvars, wsvars, rvars>>
MCNext == \/ subject = "query" /\ QueryNext
          \/ subject = "settings" /\ SettingsNext
          \/ subject = "dock" /\ DockNext
          \/ subject = "params" /\ ParamsNext
          \/ subject = "palette" /\ PaletteNext
          \/ subject = "frame" /\ FrameNext
          \/ subject = "grids" /\ GridsNext
          \/ subject = "panel" /\ SlideNext /\ But(Others)
          \/ subject = "score" /\ ScoreNext /\ But(Others)
          \/ subject = "toasts" /\ ToastNext /\ But(Others)
MCSpec == MCInit /\ [][MCNext]_mcvars
=============================================================================
