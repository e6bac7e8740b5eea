----------------------------- MODULE Screen_proofs -----------------------------
(***************************************************************************)
(* Proofs about what the dashboard shows: live queries keep apart, the     *)
(* preferences take effect, what moves settles, the frame and the dock are *)
(* true, parameters get their values, the palette runs what was typed, the *)
(* grids are sorted as they say, and the tabs agree with the documents and *)
(* these with the files, for any number of queries, frames, moves, files,  *)
(* previews, rows and parameters and any dialects, themes, rules, rails,   *)
(* tabs, commands, names and values.                                       *)
(***************************************************************************)
EXTENDS TabWorkspace, LiveQuery, Preferences, DockPanels, Palette, ResultGrid, Motion,
        WorkspaceFrame, SequenceTheorems, FiniteSetTheorems, TLAPS

-----------------------------------------------------------------------------
(***************************************************************************)
(* LiveQuery.  QueriesKeepApart is not inductive: that two queries never   *)
(* run at once rests on how far the newest thread and its two callbacks    *)
(* have come, and on all the threads before it being done.                 *)
(***************************************************************************)
Post == [kind : {"reset", "result"}, query : Queries, rows : BOOLEAN, error : BOOLEAN]

QueryTypes == QTypeOK /\ posts \in Seq(Post)
Stages == {"idle", "spawned", "executing", "done", "report rows", "report none", "report error"}
          \cup Outcomes

\* Where the last query is: its thread at work, between its callbacks or done.
Working == queryThread[started] \in {"spawned", "executing"} \cup Outcomes /\ running /\ posts = <<>>
Halfway == /\ started \in Reporting
            /\ \/ running /\ Len(posts) = 1 /\ posts[1].kind = "reset"
               \/ ~running /\ posts = <<>>
Finished == /\ queryThread[started] = "done"
            /\ \/ running /\ Len(posts) = 2 /\ posts[1].kind = "reset" /\ posts[2].kind = "result"
               \/ ~running /\ Len(posts) = 1 /\ posts[1].kind = "result"
               \/ ~running /\ posts = <<>>

Sequential ==
  /\ \A q \in Queries : q < started => queryThread[q] = "done"
  /\ \A q \in Queries : q > started => queryThread[q] = "idle"
  /\ started = 0 => ~running /\ posts = <<>>
  /\ started > 0 => Working \/ Halfway \/ Finished

QueryInv == QueryTypes /\ (~crossed => Sequential) /\ ExportedRowsAreShown

USE MaxQueriesAssumption

LEMMA QueryInit == QInit => QueryInv
<1>. SUFFICES ASSUME QInit PROVE QueryInv
  OBVIOUS
<1>1. QueryTypes
  <2>1. posts \in Seq(Post)
    BY EmptySeq DEF QInit
  <2>2. started \in 0 .. MaxQueries /\ drawn \in Nat /\ ticks \in Nat
        /\ grid \in 0 .. MaxQueries /\ cached \in 0 .. MaxQueries
    BY DEF QInit
  <2>. QED
    BY <2>1, <2>2, Zenon DEF QInit, QueryTypes, QTypeOK
<1>2. Sequential /\ ExportedRowsAreShown
  BY DEF QInit, Sequential, Queries, ExportedRowsAreShown
<1>. QED
  BY <1>1, <1>2 DEF QueryInv

LEMMA QueryFlags ==
  ASSUME QTypeOK, [QNext]_qvars
  PROVE  {running', lastError', pulsing', crossed'} \subseteq BOOLEAN
<1>0. /\ running \in BOOLEAN /\ lastError \in BOOLEAN
      /\ pulsing \in BOOLEAN /\ crossed \in BOOLEAN
  BY DEF QTypeOK
<1>1. running' \in BOOLEAN
  BY <1>0, Zenon DEF QNext, Refuse, RunQuery, ClearGrid, ScrollGrid, Tick, ApplyReset, ApplyResult,
    ThreadStep, Execute, Executed, PostReset, PostResult, qvars
<1>2. pulsing' \in BOOLEAN
  BY <1>0, Zenon DEF QNext, Refuse, RunQuery, ClearGrid, ScrollGrid, Tick, ApplyReset, ApplyResult,
    ThreadStep, Execute, Executed, PostReset, PostResult, qvars
<1>3. lastError' \in BOOLEAN
  <2>1. ASSUME NEW q \in Queries, NEW o \in Outcomes, Executed(q, o) PROVE lastError' \in BOOLEAN
    <3>1. lastError' = (o = "error" \/ lastError)
      BY <2>1 DEF Executed
    <3>. QED
      BY <3>1
  <2>2. ASSUME ~\E q \in Queries, o \in Outcomes : Executed(q, o) PROVE lastError' = lastError \/ lastError' = FALSE
    BY <2>2, Zenon DEF QNext, Refuse, RunQuery, ClearGrid, ScrollGrid, Tick, ApplyReset, ApplyResult,
      ThreadStep, Execute, PostReset, PostResult, qvars
  <2>. QED
    BY <1>0, <2>1, <2>2
<1>4. crossed' \in BOOLEAN
  <2>1. crossed' = crossed \/ RunQuery
    BY Zenon DEF QNext, Refuse, ClearGrid, ScrollGrid, Tick, ApplyReset, ApplyResult,
      ThreadStep, Execute, Executed, PostReset, PostResult, qvars
  <2>2. RunQuery => crossed' = (crossed \/ Reporting # {} \/ ResultQueued)
    BY DEF RunQuery
  <2>. QED
    BY <1>0, <2>1, <2>2
<1>. QED
  BY <1>1, <1>2, <1>3, <1>4

LEMMA QueryTypesStep ==
  ASSUME QueryTypes, [QNext]_qvars
  PROVE  QueryTypes'
<1>. DEFINE Shown == {"idle", "running", "already", "error", "0 rows"}
            Typed == /\ started \in 0 .. MaxQueries /\ queryThread \in [Queries -> Stages]
                     /\ status \in Shown /\ posts \in Seq(Post)
                     /\ grid \in 0 .. MaxQueries /\ cached \in 0 .. MaxQueries
                     /\ drawn \in Nat /\ ticks \in Nat
<1>0. Typed /\ QTypeOK
  BY DEF QueryTypes, QTypeOK, Stages
<1>a. {"spawned", "executing", "done", "report rows", "report none", "report error"} \subseteq Stages
      /\ Outcomes \subseteq Stages
  BY DEF Stages
<1>b. {"running", "already", "error", "0 rows"} \subseteq Shown
  OBVIOUS
<1>c. 0 \in 0 .. MaxQueries /\ 0 \in Nat
  OBVIOUS
<1>. HIDE DEF Shown
<1>1. ASSUME RunQuery PROVE Typed'
  <2>1. started + 1 \in Queries /\ started + 1 \in 0 .. MaxQueries /\ ticks + 1 \in Nat
    <3>1. started < MaxQueries
      BY <1>1 DEF RunQuery
    <3>. QED
      BY <1>0, <3>1 DEF Queries
  <2>. QED
    BY <1>0, <1>a, <1>b, <1>1, <2>1 DEF RunQuery
<1>2. ASSUME NEW q \in Queries, Execute(q) PROVE Typed'
  BY <1>0, <1>a, <1>2 DEF Execute
<1>3. ASSUME NEW q \in Queries, NEW o \in Outcomes, Executed(q, o) PROVE Typed'
  BY <1>0, <1>a, <1>3 DEF Executed
<1>4. ASSUME NEW q \in Queries, PostReset(q) \/ PostResult(q) PROVE Typed'
  <2>1. PICK p \in Post : posts' = Append(posts, p)
    <3>1. [kind |-> "reset", query |-> q, rows |-> FALSE, error |-> FALSE] \in Post
      BY DEF Post
    <3>2. \A x, y \in BOOLEAN : [kind |-> "result", query |-> q, rows |-> x, error |-> y] \in Post
      BY DEF Post
    <3>. QED
      BY <1>4, <3>1, <3>2 DEF PostReset, PostResult
  <2>2. posts' \in Seq(Post)
    BY <1>0, <2>1, AppendProperties
  <2>. QED
    BY <1>0, <1>a, <1>4, <2>2 DEF PostReset, PostResult
<1>5. ASSUME ApplyReset \/ ApplyResult PROVE Typed'
  <2>1. posts # <<>> /\ posts' = Tail(posts)
    BY <1>5 DEF ApplyReset, ApplyResult
  <2>2. posts' \in Seq(Post) /\ Head(posts) \in Post
    BY <1>0, <2>1, HeadTailProperties
  <2>3. Head(posts).query \in 0 .. MaxQueries
    BY <2>2 DEF Post, Queries
  <2>4. UNCHANGED <<started, queryThread, ticks>>
    BY <1>5 DEF ApplyReset, ApplyResult
  <2>5. /\ status' \in Shown /\ grid' \in 0 .. MaxQueries /\ cached' \in 0 .. MaxQueries /\ drawn' \in Nat
    <3>1. CASE ApplyReset
      BY <1>0, <3>1 DEF ApplyReset
    <3>2. CASE ApplyResult
      <4>1. ApplyRows \/ ApplyNoRows
        BY <3>2 DEF ApplyResult
      <4>2. CASE ApplyRows
        BY <1>0, <2>3, <4>2 DEF ApplyRows, VisibleCount
      <4>3. CASE ApplyNoRows
        BY <1>0, <1>b, <1>c, <4>3, Zenon DEF ApplyNoRows
      <4>. QED
        BY <4>1, <4>2, <4>3
    <3>. QED
      BY <1>5, <3>1, <3>2
  <2>. QED
    BY <1>0, <2>2, <2>4, <2>5
<1>6. ASSUME Tick PROVE Typed'
  <2>1. ticks > 0 => ticks - 1 \in Nat
    BY <1>0
  <2>. QED
    BY <1>0, <1>6, <2>1 DEF Tick
<1>7. ASSUME Refuse \/ ClearGrid \/ ScrollGrid \/ UNCHANGED qvars PROVE Typed'
  BY <1>0, <1>b, <1>c, <1>7, Zenon DEF Refuse, ClearGrid, ScrollGrid, VisibleCount, qvars
<1>8. Typed'
  BY <1>1, <1>2, <1>3, <1>4, <1>5, <1>6, <1>7 DEF QNext, ThreadStep
<1>9. {running', lastError', pulsing', crossed'} \subseteq BOOLEAN
  BY <1>0, QueryFlags
<1>. QED
  BY <1>8, <1>9, Zenon DEF QueryTypes, QTypeOK, Stages, Shown

LEMMA SequentialStep ==
  ASSUME QueryTypes, QueryTypes', ~crossed => Sequential, [QNext]_qvars, ~crossed'
  PROVE  Sequential'
<1>0. /\ started \in 0 .. MaxQueries /\ posts \in Seq(Post) /\ Len(posts) \in Nat
      /\ ~crossed /\ Sequential
      /\ posts = <<>> <=> Len(posts) = 0
      /\ queryThread \in [Queries -> Stages]
  <2>1. crossed => crossed'
    BY DEF QNext, Refuse, RunQuery, ClearGrid, ScrollGrid, Tick, ApplyReset, ApplyResult,
      ThreadStep, Execute, Executed, PostReset, PostResult, qvars
  <2>2. /\ started \in 0 .. MaxQueries /\ posts \in Seq(Post)
        /\ queryThread \in [Queries -> Stages]
    BY DEF QueryTypes, QTypeOK, Stages
  <2>3. Len(posts) \in Nat /\ (posts = <<>> <=> Len(posts) = 0)
    BY <2>2
  <2>. QED
    BY <2>1, <2>2, <2>3
<1>1. CASE RunQuery
  <2>1. ~running /\ Reporting = {} /\ ~ResultQueued
    BY <1>1 DEF RunQuery
  <2>2. posts = <<>> /\ (started > 0 => queryThread[started] = "done")
    <3>1. CASE started = 0
      BY <1>0, <3>1 DEF Sequential
    <3>2. CASE started > 0
      <4>1. ~Working /\ ~Halfway
        BY <2>1 DEF Working, Halfway
      <4>2. Finished
        BY <1>0, <3>2, <4>1 DEF Sequential
      <4>3. Len(posts) = 1 /\ posts[1].kind = "result" => ResultQueued
        BY <1>0 DEF ResultQueued
      <4>. QED
        BY <2>1, <4>2, <4>3 DEF Finished
    <3>. QED
      BY <1>0, <3>1, <3>2
  <2>3. /\ started' = started + 1 /\ running' /\ posts' = <<>>
        /\ queryThread' = [queryThread EXCEPT ![started + 1] = "spawned"]
        /\ started + 1 \in Queries
    BY <1>0, <1>1, <2>2 DEF RunQuery, Queries
  <2>4. Working'
    BY <1>0, <2>3 DEF Working
  <2>5. \A q \in Queries : q < started' => queryThread'[q] = "done"
    <3>1. \A q \in Queries : q < started + 1 => q < started \/ q = started
      BY <1>0 DEF Queries
    <3>2. \A q \in Queries : q < started + 1 => queryThread[q] = "done" /\ q # started + 1
      BY <1>0, <2>2, <3>1 DEF Sequential, Queries
    <3>. QED
      BY <1>0, <2>3, <3>2
  <2>6. \A q \in Queries : q > started' => queryThread'[q] = "idle"
    <3>1. \A q \in Queries : q > started + 1 => q > started /\ q # started + 1
      BY <1>0 DEF Queries
    <3>. QED
      BY <1>0, <2>3, <3>1 DEF Sequential
  <2>7. started' # 0
    BY <1>0, <2>3
  <2>. QED
    BY <2>4, <2>5, <2>6, <2>7 DEF Sequential
<1>2. ASSUME NEW q \in Queries, ThreadStep(q) PROVE Sequential'
  <2>1. queryThread[q] \notin {"idle", "done"}
    BY <1>2 DEF ThreadStep, Execute, Executed, PostReset, PostResult, Reporting, Outcomes
  <2>2. q = started /\ started > 0
    <3>1. ~(q < started) /\ ~(q > started)
      BY <1>0, <2>1 DEF Sequential
    <3>. QED
      BY <1>0, <3>1 DEF Queries
  <2>3. /\ started' = started /\ running' = running
        /\ \A r \in Queries : r # q => queryThread'[r] = queryThread[r]
    BY <1>0, <1>2, <2>1 DEF ThreadStep, Execute, Executed, PostReset, PostResult
  <2>4. Working' \/ Halfway' \/ Finished'
    <3>1. CASE Execute(q) \/ \E o \in Outcomes : Executed(q, o)
      <4>1. posts' = posts /\ queryThread[started] \in {"spawned", "executing"}
            /\ queryThread'[started] \in {"spawned", "executing"} \cup Outcomes
        BY <1>0, <2>1, <2>2, <3>1 DEF Execute, Executed
      <4>2. Working
        BY <1>0, <2>2, <4>1 DEF Sequential, Halfway, Finished, Reporting
      <4>. QED
        BY <2>3, <4>1, <4>2 DEF Working
    <3>2. CASE PostReset(q)
      <4>1. queryThread[started] \in Outcomes
        BY <2>2, <3>2 DEF PostReset
      <4>2. Working
        BY <1>0, <2>2, <4>1 DEF Sequential, Halfway, Finished, Reporting, Outcomes
      <4>3. posts = <<>> /\ running
        BY <4>2 DEF Working
      <4>4. PICK p \in Post : posts' = Append(posts, p) /\ p.kind = "reset"
        <5>1. [kind |-> "reset", query |-> q, rows |-> FALSE, error |-> FALSE] \in Post
          BY DEF Post
        <5>. QED
          BY <3>2, <5>1 DEF PostReset
      <4>5. Len(posts') = 1 /\ posts'[1].kind = "reset"
        BY <4>3, <4>4
      <4>6. queryThread'[started] \in {"report rows", "report none", "report error"}
        BY <1>0, <2>1, <2>2, <3>2 DEF PostReset
      <4>. QED
        BY <2>2, <2>3, <4>3, <4>5, <4>6 DEF Halfway, Reporting
    <3>3. CASE PostResult(q)
      <4>1. queryThread[started] \in {"report rows", "report none", "report error"}
        BY <2>2, <3>3 DEF PostResult, Reporting
      <4>2. Halfway
        BY <1>0, <2>2, <4>1 DEF Sequential, Working, Finished, Outcomes
      <4>3. PICK p \in Post : posts' = Append(posts, p) /\ p.kind = "result"
        <5>1. \A a, b \in BOOLEAN : [kind |-> "result", query |-> q, rows |-> a, error |-> b] \in Post
          BY DEF Post
        <5>. QED
          BY <3>3, <5>1 DEF PostResult
      <4>4. queryThread'[started] = "done"
        BY <1>0, <2>1, <2>2, <3>3 DEF PostResult
      <4>5. /\ Len(posts') = Len(posts) + 1 /\ posts'[Len(posts) + 1].kind = "result"
            /\ Len(posts) = 1 => posts'[1] = posts[1]
        BY <1>0, <4>3, AppendProperties
      <4>6. posts = <<>> => Len(posts') = 1 /\ posts'[1].kind = "result"
        BY <1>0, <4>5
      <4>7. Len(posts) = 1 /\ posts[1].kind = "reset"
              => Len(posts') = 2 /\ posts'[1].kind = "reset" /\ posts'[2].kind = "result"
        BY <1>0, <4>5
      <4>. QED
        BY <2>2, <2>3, <4>2, <4>4, <4>6, <4>7 DEF Halfway, Finished
    <3>. QED
      BY <1>2, <3>1, <3>2, <3>3 DEF ThreadStep
  <2>. QED
    BY <1>0, <2>2, <2>3, <2>4 DEF Sequential, Queries
<1>3. CASE ApplyReset \/ ApplyResult
  <2>1. posts # <<>> /\ posts' = Tail(posts) /\ ~running'
        /\ UNCHANGED <<started, queryThread>>
    BY <1>3 DEF ApplyReset, ApplyResult
  <2>2. /\ Len(posts') = Len(posts) - 1
        /\ Len(posts) = 2 => posts'[1] = posts[2]
        /\ Len(posts) = 1 => posts' = <<>>
        /\ Head(posts) = posts[1]
    BY <1>0, <2>1, HeadTailProperties
  <2>3. started > 0
    BY <1>0, <2>1 DEF Sequential
  <2>4. Halfway' \/ Finished'
    <3>1. CASE Halfway
      <4>1. posts' = <<>>
        BY <2>1, <2>2, <3>1 DEF Halfway
      <4>. QED
        BY <2>1, <3>1, <4>1 DEF Halfway, Reporting
    <3>2. CASE Finished
      <4>1. CASE Len(posts) = 1
        BY <2>1, <2>2, <3>2, <4>1 DEF Finished
      <4>2. CASE Len(posts) = 2
        BY <2>1, <2>2, <3>2, <4>2 DEF Finished
      <4>. QED
        BY <2>1, <3>2, <4>1, <4>2 DEF Finished
    <3>3. ~Working
      BY <2>1 DEF Working
    <3>. QED
      BY <1>0, <2>3, <3>1, <3>2, <3>3 DEF Sequential
  <2>. QED
    BY <1>0, <2>1, <2>3, <2>4 DEF Sequential
<1>4. CASE Refuse \/ ClearGrid \/ ScrollGrid \/ Tick \/ UNCHANGED qvars
  <2>1. UNCHANGED <<started, queryThread, running, posts>>
    BY <1>4 DEF Refuse, ClearGrid, ScrollGrid, Tick, qvars
  <2>. QED
    BY <1>0, <2>1 DEF Sequential, Working, Halfway, Finished, Reporting
<1>. QED
  BY <1>1, <1>2, <1>3, <1>4 DEF QNext

LEMMA QueryStep == QueryInv /\ [QNext]_qvars => QueryInv'
<1>. SUFFICES ASSUME QueryInv, [QNext]_qvars PROVE QueryInv'
  OBVIOUS
<1>1. QueryTypes'
  BY QueryTypesStep DEF QueryInv
<1>2. ~crossed' => Sequential'
  BY <1>1, SequentialStep DEF QueryInv
<1>3. ExportedRowsAreShown'
  BY DEF QueryInv, ExportedRowsAreShown, QNext, Refuse, RunQuery, ClearGrid, ScrollGrid, Tick,
    ApplyReset, ApplyResult, ApplyRows, ApplyNoRows, ThreadStep, Execute, Executed, PostReset,
    PostResult, qvars
<1>. QED
  BY <1>1, <1>2, <1>3 DEF QueryInv

\* Two queries never run at once on the one connection, unless one was started
\* between the two callbacks of another, and the exported rows are those in the
\* grid (_run_query, _execute, _apply_query_result, DataGrid.clear).
THEOREM QueriesAlwaysKeepApart == QSpec => []QueriesKeepApart
<1>1. QueryInv => QueriesKeepApart
  <2>. SUFFICES ASSUME QueryInv PROVE QueriesKeepApart
    OBVIOUS
  <2>1. ASSUME ~crossed
        PROVE  Cardinality(AtWork) <= 1 /\ (AtWork \ Reporting # {} => running)
    <3>1. Sequential /\ started \in 0 .. MaxQueries
      BY <2>1 DEF QueryInv, QueryTypes, QTypeOK
    <3>2. \A q \in AtWork : q = started
      BY <3>1 DEF AtWork, Sequential, Queries
    <3>3. AtWork = {} \/ AtWork = {started}
      BY <3>2
    <3>4. Cardinality(AtWork) <= 1
      <4>1. Cardinality({}) = 0 /\ Cardinality({started}) = 1
        BY FS_EmptySet, FS_Singleton
      <4>2. Cardinality(AtWork) = 0 \/ Cardinality(AtWork) = 1
        BY <3>3, <4>1, Zenon
      <4>. QED
        BY <4>2
    <3>5. AtWork \ Reporting # {} => running
      <4>. SUFFICES ASSUME NEW q \in AtWork \ Reporting PROVE running
        OBVIOUS
      <4>1. q = started /\ q \in Queries /\ queryThread[q] \notin {"idle", "done"} /\ started > 0
        BY <3>2 DEF AtWork, Queries
      <4>. QED
        BY <3>1, <4>1 DEF Sequential, Working, Halfway, Finished
    <3>. QED
      BY <3>4, <3>5
  <2>. QED
    BY <2>1 DEF QueryInv, QueryTypes, QueriesKeepApart, OverlapNeedsTheGap
<1>. QED
  BY <1>1, QueryInit, QueryStep, PTL DEF QSpec

-----------------------------------------------------------------------------
(***************************************************************************)
(* Preferences.  PreferencesHold is not inductive: an open settings window *)
(* and a session file must hold real choices, and only a session that is   *)
(* there excuses a restart from showing another dialect; what the window   *)
(* hands over is dark or light, so the screen can follow it.               *)
(***************************************************************************)
Config == [dialect : Dialects, theme : Themes, off : SUBSET Rules]
PickedSettings == [dialect : Dialects, theme : {"dark", "light"}, off : SUBSET Rules, touched : BOOLEAN]
Saved == [dialect : Dialects, theme : Themes]

PreferenceTypes ==
  /\ app \in Config /\ app.theme \in {"dark", "light"} /\ dash \in Config
  /\ settings = Closed \/ settings \in PickedSettings
  /\ session = Closed \/ session \in Saved
  /\ appearance \in {"dark", "light"} /\ badge \in Dialects /\ chosen \in Dialects
PreferenceFlags == /\ restoring \in BOOLEAN /\ stale \in BOOLEAN
                   /\ applied \in BOOLEAN /\ previewed \in BOOLEAN
\* The look of a theme t, once it is taken over (on) and unless another is tried.
Looks(t, on, tried, look) == tried \/ look = IF on /\ t \notin Presets THEN t ELSE Tokens

Effect ==
  /\ badge = dash.dialect /\ dash.off = app.off
  /\ dash.dialect = chosen \/ stale \/ (restoring /\ session # Closed)
  /\ Looks(dash.theme, applied, previewed, appearance)

PreferenceInv == PreferenceTypes /\ PreferenceFlags /\ Effect

LEMMA ConfigFacts ==
  ASSUME NEW c \in Configs
  PROVE  c \in Config /\ c.theme \in {"dark", "light"} /\ c.theme \notin Presets
BY PreferencesAssumption DEF Configs, Config, Themes

LEMMA PreferenceInit == GInit => PreferenceInv
<1>. SUFFICES ASSUME GInit PROVE PreferenceInv
  OBVIOUS
<1>1. PICK c \in Configs :
        /\ app = c /\ dash = c /\ settings = Closed /\ badge = c.dialect
        /\ session = Closed /\ restoring = TRUE /\ appearance = Tokens
        /\ chosen = c.dialect /\ stale = FALSE /\ applied = FALSE /\ previewed = FALSE
  BY Zenon DEF GInit
<1>2. c \in Config /\ c.dialect \in Dialects /\ c.theme \in {"dark", "light"}
  BY ConfigFacts DEF Config
<1>3. PreferenceTypes
  BY <1>1, <1>2 DEF PreferenceTypes, Tokens
<1>4. PreferenceFlags /\ Effect
  BY <1>1 DEF PreferenceFlags, Effect, Looks
<1>. QED
  BY <1>3, <1>4 DEF PreferenceInv

\* The dashboard takes a configuration over.
LEMMA ApplyFacts ==
  ASSUME PreferenceTypes, PreferenceFlags, Effect, NEW c \in Config, ApplyConfig(c),
         c.theme = dash.theme \/ c.theme \in {"dark", "light"}
  PROVE  /\ dash' = c /\ dash' \in Config /\ badge' = c.dialect /\ badge' \in Dialects
         /\ appearance' \in {"dark", "light"} /\ applied' \in BOOLEAN /\ previewed' \in BOOLEAN
         /\ Looks(dash.theme, applied, previewed, appearance)'
<1>1. dash' = c /\ badge' = c.dialect /\ applied' = TRUE /\ appearance' = Mode(c.theme)
      /\ previewed' = (previewed /\ c.theme \in Presets)
  BY DEF ApplyConfig, TakesOver
<1>2. badge' \in Dialects /\ appearance' \in {"dark", "light"}
  BY <1>1 DEF Mode, Config, PreferenceTypes
<1>3. c.theme \in {"dark", "light"} => c.theme \notin Presets
  BY PreferencesAssumption
<1>4. c.theme \notin {"dark", "light"} => c.theme \in Presets /\ c.theme = dash.theme
  BY DEF Config, Themes
<1>5. CASE c.theme \in {"dark", "light"}
  BY <1>1, <1>2, <1>3, <1>5 DEF Looks, Mode
<1>6. CASE c.theme \notin {"dark", "light"}
  <2>1. appearance' = appearance
    BY <1>1, <1>6 DEF Mode
  <2>2. previewed \/ appearance = Tokens
    BY <1>4, <1>6 DEF Effect, Looks
  <2>. QED
    BY <1>1, <1>2, <1>4, <1>6, <2>1, <2>2 DEF Looks
<1>. QED
  BY <1>5, <1>6

LEMMA DialectFacts ==
  ASSUME NEW c \in Config, NEW d \in Dialects
  PROVE  /\ [c EXCEPT !.dialect = d] \in Config /\ [c EXCEPT !.dialect = d].dialect = d
         /\ [c EXCEPT !.dialect = d].theme = c.theme /\ [c EXCEPT !.dialect = d].off = c.off
BY DEF Config

LEMMA PreferenceStep == PreferenceInv /\ [GNext]_gvars => PreferenceInv'
<1>. SUFFICES ASSUME PreferenceInv, [GNext]_gvars PROVE PreferenceInv'
  OBVIOUS
<1>0. PreferenceTypes /\ PreferenceFlags /\ Effect /\ app \in Config /\ dash \in Config
  BY DEF PreferenceInv, PreferenceTypes
<1>1. ASSUME NEW d \in Dialects, SetDialect(d) PROVE PreferenceInv'
  <2>. DEFINE c == [dash EXCEPT !.dialect = d]
  <2>1. c \in Config /\ c.dialect = d /\ c.off = dash.off /\ c.theme = dash.theme
    BY <1>0, DialectFacts
  <2>2. ApplyConfig(c) /\ chosen' = d /\ stale' = FALSE
        /\ UNCHANGED <<app, settings, worker, session, restoring>>
    BY <1>1 DEF SetDialect
  <2>. HIDE DEF c
  <2>3. /\ dash' = c /\ dash' \in Config /\ badge' = c.dialect /\ badge' \in Dialects
        /\ appearance' \in {"dark", "light"} /\ applied' \in BOOLEAN /\ previewed' \in BOOLEAN
        /\ Looks(dash.theme, applied, previewed, appearance)'
    BY <1>0, <2>1, <2>2, ApplyFacts
  <2>. QED
    BY <1>0, <2>1, <2>2, <2>3, Zenon DEF PreferenceInv, PreferenceTypes, PreferenceFlags, Effect
<1>2. ASSUME NEW t \in Presets, PaletteTheme(t) PROVE PreferenceInv'
  <2>. DEFINE c == [dash EXCEPT !.theme = t]
  <2>1. c \in Config /\ c.dialect = dash.dialect /\ c.off = dash.off /\ c.theme = t /\ c.dialect \in Dialects
    BY <1>0 DEF Config, Themes
  <2>2. /\ dash' = c /\ badge' = c.dialect /\ applied' = TRUE /\ appearance' = Tokens /\ previewed' = FALSE
        /\ UNCHANGED <<app, settings, worker, session, restoring, chosen, stale>>
    BY <1>2 DEF PaletteTheme, TakesOver
  <2>. HIDE DEF c
  <2>3. dash' \in Config /\ badge' \in Dialects /\ appearance' \in {"dark", "light"}
    BY <2>1, <2>2 DEF Tokens
  <2>4. Looks(dash.theme, applied, previewed, appearance)'
    BY <2>1, <2>2 DEF Looks
  <2>5. PreferenceTypes'
    BY <1>0, <2>2, <2>3, Zenon DEF PreferenceTypes
  <2>6. PreferenceFlags'
    BY <1>0, <2>2 DEF PreferenceFlags
  <2>7. Effect'
    BY <1>0, <2>1, <2>2, <2>4, Zenon DEF Effect
  <2>. QED
    BY <2>5, <2>6, <2>7 DEF PreferenceInv
<1>3. ASSUME RestoreSession PROVE PreferenceInv'
  <2>1. restoring' = FALSE /\ UNCHANGED <<app, settings, worker, session>>
    BY <1>3 DEF RestoreSession
  <2>2. CASE session = Closed
    <3>1. UNCHANGED <<dash, badge, appearance, chosen, stale, applied, previewed>>
      BY <1>3, <2>2 DEF RestoreSession
    <3>. QED
      BY <1>0, <2>1, <2>2, <3>1, Zenon DEF PreferenceInv, PreferenceTypes, PreferenceFlags, Effect
  <2>3. CASE session # Closed
    <3>. DEFINE c == [dash EXCEPT !.dialect = session.dialect]
    <3>1. session.dialect \in Dialects
      BY <1>0, <2>3 DEF PreferenceTypes, Saved
    <3>2. c \in Config /\ c.dialect = session.dialect /\ c.off = dash.off /\ c.theme = dash.theme
      BY <1>0, <3>1, DialectFacts
    <3>3. ApplyConfig(c) /\ stale' = (chosen # session.dialect) /\ chosen' = chosen
      BY <1>3, <2>3 DEF RestoreSession
    <3>. HIDE DEF c
    <3>4. /\ dash' = c /\ dash' \in Config /\ badge' = c.dialect /\ badge' \in Dialects
          /\ appearance' \in {"dark", "light"} /\ applied' \in BOOLEAN /\ previewed' \in BOOLEAN
        /\ Looks(dash.theme, applied, previewed, appearance)'
      BY <1>0, <3>2, <3>3, ApplyFacts
    <3>5. stale' \in BOOLEAN /\ (dash'.dialect = chosen' \/ stale')
      BY <3>2, <3>3, <3>4
    <3>. QED
      BY <1>0, <2>1, <3>2, <3>3, <3>4, <3>5, Zenon DEF PreferenceInv, PreferenceTypes, PreferenceFlags, Effect
  <2>. QED
    BY <2>2, <2>3
<1>4. ASSUME OpenSettings \/ Cancel \/ StartScan \/ UNCHANGED gvars PROVE PreferenceInv'
  <2>1. UNCHANGED <<app, dash, appearance, badge, session, restoring, chosen, stale, applied, previewed>>
    BY <1>4 DEF OpenSettings, Cancel, StartScan, gvars
  <2>2. settings' = Closed \/ settings' \in PickedSettings
    <3>1. [dialect |-> app.dialect, theme |-> app.theme, off |-> app.off, touched |-> FALSE] \in PickedSettings
      BY <1>0 DEF Config, PickedSettings, PreferenceTypes
    <3>. QED
      BY <1>0, <1>4, <3>1 DEF OpenSettings, Cancel, StartScan, gvars, PreferenceTypes
  <2>. QED
    BY <1>0, <2>1, <2>2, Zenon DEF PreferenceInv, PreferenceTypes, PreferenceFlags, Effect
<1>5. ASSUME NEW d \in Dialects, NEW t \in {"dark", "light"}, NEW off \in SUBSET Rules, Chooses(d, t, off)
      PROVE  PreferenceInv'
  <2>1. /\ UNCHANGED <<app, dash, badge, session, restoring, chosen, stale, applied>>
        /\ settings' = [dialect |-> d, theme |-> t, off |-> off,
                        touched |-> settings.touched \/ d # settings.dialect]
        /\ appearance' = (IF t # settings.theme THEN t ELSE appearance)
        /\ previewed' = (previewed \/ t # settings.theme)
    BY <1>5 DEF Chooses
  <2>2. settings' \in PickedSettings
    <3>1. \A b \in BOOLEAN : [dialect |-> d, theme |-> t, off |-> off, touched |-> b] \in PickedSettings
      BY DEF PickedSettings, Themes
    <3>2. (settings.touched \/ d # settings.dialect) \in BOOLEAN
      OBVIOUS
    <3>. QED
      BY <2>1, <3>1, <3>2
  <2>3. appearance' \in {"dark", "light"} /\ previewed' \in BOOLEAN
    BY <1>0, <2>1 DEF PreferenceTypes
  <2>4. ~previewed' => ~previewed /\ appearance' = appearance
    BY <2>1
  <2>5. Looks(dash.theme, applied, previewed, appearance)'
    BY <1>0, <2>1, <2>4 DEF Effect, Looks
  <2>. QED
    BY <1>0, <2>1, <2>2, <2>3, <2>5, Zenon DEF PreferenceInv, PreferenceTypes, PreferenceFlags, Effect
<1>6. ASSUME Apply PROVE PreferenceInv'
  <2>1. /\ settings # Closed /\ settings' = Closed /\ app' = Picked
        /\ chosen' = (IF settings.touched THEN settings.dialect ELSE chosen)
        /\ stale' = (settings.dialect # chosen') /\ UNCHANGED <<worker, session, restoring>>
        /\ ApplyConfig(Picked)
    BY <1>6 DEF Apply, Done
  <2>2. Picked \in Config /\ Picked.dialect = settings.dialect /\ settings.dialect \in Dialects
        /\ Picked.theme \in {"dark", "light"}
    BY <1>0, <2>1 DEF PreferenceTypes, PickedSettings, Config, Picked, Themes
  <2>3. /\ dash' = Picked /\ dash' \in Config /\ badge' = Picked.dialect /\ badge' \in Dialects
        /\ appearance' \in {"dark", "light"} /\ applied' \in BOOLEAN /\ previewed' \in BOOLEAN
        /\ Looks(dash.theme, applied, previewed, appearance)'
    BY <1>0, <2>1, <2>2, ApplyFacts
  <2>4. chosen' \in Dialects /\ stale' \in BOOLEAN /\ (dash'.dialect = chosen' \/ stale')
    BY <1>0, <2>1, <2>2, <2>3 DEF PreferenceTypes
  <2>. QED
    BY <1>0, <2>1, <2>2, <2>3, <2>4, Zenon DEF PreferenceInv, PreferenceTypes, PreferenceFlags, Effect
<1>7. ASSUME NEW saves \in BOOLEAN, Restart(saves) PROVE PreferenceInv'
  <2>1. /\ session' = (IF saves THEN [dialect |-> dash.dialect, theme |-> dash.theme] ELSE session)
        /\ chosen' = (IF session' = Closed THEN dash'.dialect ELSE session'.dialect)
        /\ stale' = FALSE
    BY <1>7 DEF Restart
  <2>2. PICK c \in Configs : Starts(c)
    BY <1>7 DEF Restart
  <2>3. /\ app' = c /\ dash' = c /\ settings' = Closed /\ badge' = c.dialect
        /\ restoring' = TRUE /\ appearance' = Tokens /\ applied' = FALSE /\ previewed' = FALSE
    BY <2>2 DEF Starts
  <2>4. c \in Config /\ c.theme \in {"dark", "light"} /\ c.dialect \in Dialects
    BY ConfigFacts DEF Config
  <2>5. session' = Closed \/ session' \in Saved
    <3>1. [dialect |-> dash.dialect, theme |-> dash.theme] \in Saved
      BY <1>0 DEF Config, Saved
    <3>. QED
      BY <1>0, <2>1, <3>1 DEF PreferenceTypes
  <2>6. chosen' \in Dialects /\ (session' = Closed => chosen' = c.dialect)
    BY <2>1, <2>3, <2>4, <2>5 DEF Saved
  <2>7. PreferenceTypes'
    BY <2>3, <2>4, <2>5, <2>6 DEF PreferenceTypes, Tokens
  <2>8. PreferenceFlags'
    BY <2>1, <2>3 DEF PreferenceFlags
  <2>9. Effect'
    BY <2>3, <2>6 DEF Effect, Looks
  <2>. QED
    BY <2>7, <2>8, <2>9 DEF PreferenceInv
<1>. QED
  BY <1>1, <1>2, <1>3, <1>4, <1>5, <1>6, <1>7 DEF GNext

\* The dashboard lints with the dialect its header shows and with the rules the
\* settings switched off; it is dark until it takes a configuration over and looks as
\* the theme of that one from then on (_load_theme, _apply_settings, apply_config,
\* _restore_session, _set_dialect, _apply_palette_theme).
THEOREM PreferencesAlwaysHold == GSpec => []PreferencesHold
<1>1. PreferenceInv => PreferencesHold
  <2>. SUFFICES ASSUME PreferenceInv PROVE PreferencesHold
    OBVIOUS
  <2>1. PreferenceTypes /\ PreferenceFlags /\ Effect
    BY DEF PreferenceInv
  <2>2. GTypeOK
    <3>1. {app, dash} \subseteq [dialect : Dialects, theme : Themes, off : SUBSET Rules]
      BY <2>1 DEF PreferenceTypes, Config
    <3>2. {restoring, stale, applied, previewed} \subseteq BOOLEAN
      BY <2>1, Zenon DEF PreferenceFlags
    <3>. QED
      BY <2>1, <3>1, <3>2, Zenon DEF GTypeOK, PreferenceTypes
  <2>3. SettingsTakeEffect
    BY <2>1, Zenon DEF SettingsTakeEffect, Effect, Looks
  <2>. QED
    BY <2>2, <2>3 DEF PreferencesHold
<1>. QED
  BY <1>1, PreferenceInit, PreferenceStep, PTL DEF GSpec

-----------------------------------------------------------------------------
(***************************************************************************)
(* What RemoveAt leaves, and a fraction that is whole.                     *)
(***************************************************************************)
LEMMA Removed ==
  ASSUME NEW S, NEW s \in Seq(S), NEW i \in DOMAIN s
  PROVE  /\ RemoveAt(s, i) \in Seq(S) /\ Len(RemoveAt(s, i)) = Len(s) - 1
         /\ \A j \in 1 .. (Len(s) - 1) : RemoveAt(s, i)[j] = s[IF j < i THEN j ELSE j + 1]
<1>. DEFINE before == SubSeq(s, 1, i - 1)
            after == SubSeq(s, i + 1, Len(s))
<1>0. i \in 1 .. Len(s) /\ Len(s) \in Nat
  BY LenProperties
<1>1. /\ before \in Seq(S) /\ Len(before) = i - 1
      /\ \A j \in 1 .. (i - 1) : before[j] = s[j]
  BY <1>0, SubSeqProperties
<1>2. /\ after \in Seq(S) /\ Len(after) = Len(s) - i
      /\ \A j \in 1 .. (Len(s) - i) : after[j] = s[i + j]
  BY <1>0, SubSeqProperties
<1>3. RemoveAt(s, i) = before \o after
  BY DEF RemoveAt
<1>. HIDE DEF before, after
<1>4. /\ before \o after \in Seq(S) /\ Len(before \o after) = Len(s) - 1
      /\ \A j \in 1 .. (Len(s) - 1) :
           (before \o after)[j] = IF j <= i - 1 THEN before[j] ELSE after[j - (i - 1)]
  BY <1>0, <1>1, <1>2, ConcatProperties
<1>5. ASSUME NEW j \in 1 .. (Len(s) - 1)
      PROVE  (before \o after)[j] = s[IF j < i THEN j ELSE j + 1]
  <2>1. CASE j < i
    BY <1>0, <1>1, <1>4, <2>1
  <2>2. CASE ~(j < i)
    <3>1. j - (i - 1) \in 1 .. (Len(s) - i) /\ i + (j - (i - 1)) = j + 1 /\ ~(j <= i - 1)
      BY <1>0, <2>2
    <3>. HIDE DEF before, after
    <3>. QED
      BY <1>2, <1>4, <2>2, <3>1
  <2>. QED
    BY <2>1, <2>2
<1>. QED
  BY <1>3, <1>4, <1>5

LEMMA WholeFraction ==
  ASSUME NEW v \in Int, NEW n \in Nat \ {0}
  PROVE  (v * n) \div n = v
OBVIOUS

-----------------------------------------------------------------------------
(***************************************************************************)
(* Motion.  RestIsWhereItSays is not inductive: what a tween comes to rest *)
(* at is where it was aimed, and the last engine of the score is the one   *)
(* that ends last.  Toasts are few and in order, and numbered by events.   *)
(***************************************************************************)
Tweens == [from : Int, to : Int, elapsed : -1 .. (Frames - 1)]
Panels == [open : BOOLEAN, width : Int, tween : Tweens, told : BOOLEAN, jumped : BOOLEAN]

PanelInv == /\ panel \in Panels
            /\ ~panel.jumped => IF Moving(panel.tween) THEN panel.tween.to = Target(panel)
                                ELSE panel.width = Target(panel) /\ panel.told = panel.open

\* An engine of the score: drawn at least once, from 0.
Engines == {t \in Tweens : t.from = 0 /\ t.elapsed >= 1}

ScoreInv ==
  /\ score = [target |-> score.target, shown |-> score.shown, engines |-> score.engines]
  /\ score.target \in Nat /\ score.engines \in Seq(Engines)
  /\ \A i, j \in DOMAIN score.engines : i < j => score.engines[j].elapsed <= score.engines[i].elapsed
  /\ IF score.engines = <<>> THEN score.shown = score.target
     ELSE score.engines[Len(score.engines)].to = score.target

ToastInv ==
  /\ toasts = [shown |-> toasts.shown, due |-> toasts.due]
  /\ toasts.shown \in Seq([number : 1 .. events, place : 1 .. KeptToasts])
  /\ ToastsStayFew

MotionInv == events \in Nat /\ PanelInv /\ ScoreInv /\ ToastInv

USE MotionAssumption

LEMMA TargetIsAWidth == ASSUME NEW p PROVE Target(p) \in Int
BY DEF Target

LEMMA BegunIsATween ==
  ASSUME NEW from \in Int, NEW to \in Int
  PROVE  /\ Begun(from, to) = [from |-> from, to |-> to, elapsed |-> 1]
         /\ Moving(Rest(Begun(from, to))) => Begun(from, to) \in Tweens /\ Rest(Begun(from, to)) = Begun(from, to)
         /\ ~Moving(Rest(Begun(from, to))) => Value(Begun(from, to)) = to
<1>1. Begun(from, to) = [from |-> from, to |-> to, elapsed |-> 1]
  BY DEF Begun, Frame
<1>2. CASE Frames = 1
  <2>1. Value(Begun(from, to)) = from + ((to - from) * 1) \div Frames
    BY <1>1 DEF Value
  <2>. QED
    BY <1>1, <1>2, <2>1 DEF Rest, Still, Moving
<1>3. CASE Frames > 1
  BY <1>1, <1>3 DEF Rest, Moving, Tweens
<1>. QED
  BY <1>1, <1>2, <1>3

LEMMA FrameIsATween ==
  ASSUME NEW t \in Tweens, Moving(t)
  PROVE  LET f == Frame(t)
         IN /\ f.from = t.from /\ f.to = t.to /\ f.elapsed = t.elapsed + 1 /\ Value(f) \in Int
            /\ Moving(Rest(f)) => f \in Tweens /\ Rest(f) = f
            /\ ~Moving(Rest(f)) => /\ Value(f) = t.to /\ t.elapsed = Frames - 1
                                   /\ Rest(f) = Still
<1>. DEFINE f == Frame(t)
<1>1. f = [from |-> t.from, to |-> t.to, elapsed |-> t.elapsed + 1]
  BY DEF Frame, Tweens
<1>0. t.from \in Int /\ t.to \in Int /\ t.elapsed \in 0 .. (Frames - 1)
  BY DEF Tweens, Moving
<1>2. Value(f) = t.from + ((t.to - t.from) * (t.elapsed + 1)) \div Frames
  BY <1>1 DEF Value
<1>3. Value(f) \in Int
  <2>1. (t.to - t.from) * (t.elapsed + 1) \in Int
    BY <1>0
  <2>. QED
    BY <1>0, <1>2, <2>1
<1>4. CASE t.elapsed + 1 >= Frames
  <2>1. t.elapsed + 1 = Frames
    BY <1>0, <1>4
  <2>2. Value(f) = t.from + (t.to - t.from)
    BY <1>0, <1>2, <2>1, WholeFraction
  <2>3. Value(f) = t.to
    BY <1>0, <2>2
  <2>4. Rest(f) = Still /\ ~Moving(Still)
    BY <1>1, <1>4 DEF Rest, Still, Moving
  <2>. QED
    BY <1>0, <1>1, <1>3, <2>1, <2>3, <2>4
<1>5. CASE ~(t.elapsed + 1 >= Frames)
  <2>1. Rest(f) = f
    BY <1>1, <1>5 DEF Rest
  <2>2. f \in Tweens /\ Moving(f)
    BY <1>0, <1>1, <1>5 DEF Tweens, Moving
  <2>. QED
    BY <1>1, <1>3, <2>1, <2>2
<1>. QED
  BY <1>4, <1>5

LEMMA MotionInit == MInit => MotionInv
<1>. SUFFICES ASSUME MInit PROVE MotionInv
  OBVIOUS
<1>1. PanelInv
  <2>1. Still \in Tweens /\ ~Moving(Still)
    BY DEF Still, Tweens, Moving
  <2>. QED
    BY <2>1 DEF MInit, PanelInv, Panels, Target
<1>2. ScoreInv
  BY EmptySeq DEF MInit, ScoreInv
<1>3. ToastInv
  BY EmptySeq DEF MInit, ToastInv, ToastsStayFew
<1>. QED
  BY <1>1, <1>2, <1>3 DEF MotionInv, MInit

\* What holds of a panel, said of any panel.
Settled(p) == /\ p \in Panels
              /\ ~p.jumped => IF Moving(p.tween) THEN p.tween.to = Target(p)
                              ELSE p.width = Target(p) /\ p.told = p.open

LEMMA DrawnPanelIsSettled ==
  ASSUME NEW p \in Panels, NEW t, Value(t) \in Int, ~p.jumped => t.to = Target(p),
         Moving(Rest(t)) => t \in Tweens /\ Rest(t) = t,
         ~Moving(Rest(t)) => Rest(t) = Still /\ (~p.jumped => Value(t) = Target(p))
  PROVE  Settled(DrawnAt(p, t))
<1>. DEFINE d == DrawnAt(p, t)
<1>1. /\ d.open = p.open /\ d.width = Value(t) /\ d.tween = Rest(t) /\ d.jumped = p.jumped
      /\ d.told = IF Moving(Rest(t)) THEN p.told ELSE p.open
  BY Zenon DEF DrawnAt, Panels
<1>2. Rest(t) \in Tweens
  BY DEF Still, Tweens
<1>3. d \in Panels
  <2>1. p.told \in BOOLEAN /\ p.open \in BOOLEAN
    BY Zenon DEF Panels
  <2>2. (IF Moving(Rest(t)) THEN p.told ELSE p.open) \in BOOLEAN
    BY <2>1, Zenon
  <2>. QED
    BY <1>2, <2>2, Zenon DEF DrawnAt, Panels
<1>4. Target(d) = Target(p)
  BY <1>1 DEF Target
<1>. HIDE DEF d
<1>5. ASSUME ~d.jumped
      PROVE  IF Moving(d.tween) THEN d.tween.to = Target(d) ELSE d.width = Target(d) /\ d.told = d.open
  <2>1. ~p.jumped
    BY <1>1, <1>5, Zenon
  <2>2. CASE Moving(Rest(t))
    BY <1>1, <1>4, <2>1, <2>2, Zenon
  <2>3. CASE ~Moving(Rest(t))
    BY <1>1, <1>4, <2>1, <2>3, Zenon
  <2>. QED
    BY <2>2, <2>3
<1>. QED
  BY <1>3, <1>5 DEF Settled, d

LEMMA SlideSettles ==
  ASSUME PanelInv, NEW asked \in BOOLEAN, Slide(asked) \/ Jump(asked)
  PROVE  PanelInv'
<1>0. panel \in Panels /\ panel.width \in Int /\ panel.tween \in Tweens
  BY Zenon DEF PanelInv, Panels
<1>1. CASE Slide(asked)
  <2>. DEFINE p == [panel EXCEPT !.open = asked, !.jumped = FALSE]
  <2>1. p \in Panels /\ p.width = panel.width /\ p.tween = panel.tween /\ ~p.jumped
        /\ p.open = asked
    BY <1>0, Zenon DEF Panels
  <2>2. panel' = Animate(p)
    BY <1>1 DEF Slide
  <2>3. Target(p) \in Int
    BY TargetIsAWidth
  <2>. HIDE DEF p
  <2>4. CASE Moving(p.tween)
    <3>. DEFINE t == [from |-> p.width, to |-> Target(p), elapsed |-> 0]
    <3>1. panel' = [p EXCEPT !.tween = t]
      BY <2>2, <2>4 DEF Animate
    <3>2. t \in Tweens /\ Moving(t) /\ t.to = Target(p)
      BY <1>0, <2>1, <2>3 DEF Tweens, Moving
    <3>. HIDE DEF t
    <3>3. panel' \in Panels /\ panel'.tween = t /\ panel'.open = p.open
      BY <2>1, <3>1, <3>2, Zenon DEF Panels
    <3>4. Target(panel') = Target(p)
      BY <3>3 DEF Target
    <3>. QED
      BY <3>2, <3>3, <3>4, Zenon DEF PanelInv
  <2>5. CASE ~Moving(p.tween)
    <3>. DEFINE t == Begun(p.width, Target(p))
    <3>1. panel' = DrawnAt(p, t)
      BY <2>2, <2>5 DEF Animate
    <3>2. /\ t = [from |-> p.width, to |-> Target(p), elapsed |-> 1]
          /\ Moving(Rest(t)) => t \in Tweens /\ Rest(t) = t
          /\ ~Moving(Rest(t)) => Value(t) = Target(p)
      BY <1>0, <2>1, <2>3, BegunIsATween
    <3>3. t.to = Target(p)
      BY <3>2
    <3>4. ~Moving(Rest(t)) => Rest(t) = Still
      BY <3>2 DEF Rest, Moving
    <3>5. Value(t) \in Int
      <4>1. Value(t) = p.width + ((Target(p) - p.width) * 1) \div Frames
        BY <3>2 DEF Value
      <4>. QED
        BY <1>0, <2>1, <2>3, <4>1
    <3>. HIDE DEF t
    <3>6. Settled(DrawnAt(p, t))
      BY <2>1, <3>2, <3>3, <3>4, <3>5, DrawnPanelIsSettled
    <3>. QED
      BY <3>1, <3>6, Zenon DEF Settled, PanelInv
  <2>. QED
    BY <2>4, <2>5
<1>2. CASE Jump(asked)
  <2>. DEFINE p == [panel EXCEPT !.open = asked]
              j == Moving(panel.tween)
  <2>1. panel' = [p EXCEPT !.width = Target(p), !.told = asked, !.jumped = j]
    BY <1>2 DEF Jump
  <2>2. p \in Panels /\ p.tween = panel.tween /\ p.open = asked
    BY <1>0, Zenon DEF Panels
  <2>3. Target(p) \in Int
    BY TargetIsAWidth
  <2>4. j \in BOOLEAN
    BY DEF Moving
  <2>. HIDE DEF p, j
  <2>5. /\ panel' \in Panels /\ panel'.tween = panel.tween /\ panel'.open = asked /\ panel'.told = asked
        /\ panel'.width = Target(p) /\ panel'.jumped = j
    BY <2>1, <2>2, <2>3, <2>4, Zenon DEF Panels
  <2>6. Target(panel') = Target(p)
    BY <2>2, <2>5 DEF Target
  <2>7. ~panel'.jumped => ~Moving(panel'.tween)
    BY <2>5, Zenon DEF j
  <2>. QED
    BY <2>5, <2>6, <2>7, Zenon DEF PanelInv
<1>. QED
  BY <1>1, <1>2

LEMMA PanelFrameSettles ==
  ASSUME PanelInv, PanelFrame
  PROVE  PanelInv'
<1>. DEFINE t == Frame(panel.tween)
<1>0. panel \in Panels /\ panel.tween \in Tweens /\ Moving(panel.tween)
      /\ (~panel.jumped => panel.tween.to = Target(panel))
  BY Zenon DEF PanelInv, Panels, PanelFrame
<1>1. /\ t.to = panel.tween.to /\ Value(t) \in Int
      /\ Moving(Rest(t)) => t \in Tweens /\ Rest(t) = t
      /\ ~Moving(Rest(t)) => Value(t) = panel.tween.to /\ Rest(t) = Still
  BY <1>0, FrameIsATween
<1>2. panel' = DrawnAt(panel, t)
  BY DEF PanelFrame
<1>. HIDE DEF t
<1>3. Settled(DrawnAt(panel, t))
  BY <1>0, <1>1, DrawnPanelIsSettled
<1>. QED
  BY <1>2, <1>3, Zenon DEF Settled, PanelInv

LEMMA PanelStep ==
  ASSUME PanelInv, SlideNext
  PROVE  PanelInv'
<1>1. panel.open \in BOOLEAN
  BY Zenon DEF PanelInv, Panels
<1>2. (~panel.open) \in BOOLEAN
  OBVIOUS
<1>3. CASE PanelFrame
  BY <1>3, PanelFrameSettles
<1>4. ASSUME NEW asked \in BOOLEAN, Slide(asked) \/ Jump(asked) PROVE PanelInv'
  BY <1>4, SlideSettles
<1>5. CASE TogglePanel
  BY <1>2, <1>4, <1>5 DEF TogglePanel
<1>. QED
  BY <1>3, <1>4, <1>5, Zenon DEF SlideNext

LEMMA SetScoreSettles ==
  ASSUME ScoreInv, NEW s \in ScoresSet, SetScore(s)
  PROVE  ScoreInv'
<1>. DEFINE t == Begun(0, s)
            e == score.engines
<1>0. s \in Nat /\ e \in Seq(Engines)
  BY DEF ScoreInv
<1>1. /\ t = [from |-> 0, to |-> s, elapsed |-> 1]
      /\ Moving(Rest(t)) => t \in Tweens /\ Rest(t) = t
      /\ ~Moving(Rest(t)) => Value(t) = s
  BY <1>0, BegunIsATween
<1>2. score' = [target |-> s, shown |-> Value(t),
                engines |-> IF Moving(Rest(t)) THEN Append(e, t) ELSE e]
  BY DEF SetScore
<1>. HIDE DEF t
<1>3. CASE Moving(Rest(t))
  <2>1. score'.engines = Append(e, t) /\ score'.target = s
    BY <1>2, <1>3
  <2>2. t \in Engines /\ t.elapsed = 1 /\ t.to = s
    BY <1>1, <1>3 DEF Engines
  <2>3. /\ Append(e, t) \in Seq(Engines) /\ Len(Append(e, t)) = Len(e) + 1 /\ Len(e) \in Nat
        /\ \A i \in 1 .. Len(e) : Append(e, t)[i] = e[i]
        /\ Append(e, t)[Len(e) + 1] = t
    BY <1>0, <2>2, AppendProperties
  <2>. DEFINE a == Append(e, t)
  <2>. HIDE DEF a
  <2>4. DOMAIN a = 1 .. (Len(e) + 1) /\ a # <<>>
    BY <2>3 DEF a
  <2>5. \A i \in 1 .. Len(e) : e[i].elapsed \in Nat /\ e[i].elapsed >= 1
    BY <1>0, ElementOfSeq DEF Engines, Tweens
  <2>6. ASSUME NEW i \in DOMAIN a, NEW j \in DOMAIN a, i < j
        PROVE  a[j].elapsed <= a[i].elapsed
    <3>1. i \in 1 .. Len(e)
      BY <2>3, <2>4, <2>6
    <3>2. CASE j \in 1 .. Len(e)
      BY <2>3, <2>6, <3>1, <3>2 DEF ScoreInv, a
    <3>3. CASE j = Len(e) + 1
      BY <2>2, <2>3, <2>5, <3>1, <3>3 DEF a
    <3>. QED
      BY <2>3, <2>4, <3>2, <3>3
  <2>7. a[Len(a)].to = s
    BY <2>2, <2>3 DEF a
  <2>. QED
    BY <1>0, <1>2, <2>1, <2>3, <2>4, <2>6, <2>7 DEF ScoreInv, a
<1>4. CASE ~Moving(Rest(t))
  <2>1. Frames = 1
    BY <1>1, <1>4 DEF Rest, Moving
  <2>2. e = <<>>
    <3>1. \A i \in 1 .. Len(e) : FALSE
      BY <1>0, <2>1, ElementOfSeq DEF Engines, Tweens
    <3>. QED
      BY <1>0, <3>1, LenProperties, EmptySeq
  <2>3. score'.engines = e /\ score'.target = s /\ score'.shown = s
    BY <1>1, <1>2, <1>4
  <2>. QED
    BY <1>0, <1>2, <2>2, <2>3 DEF ScoreInv
<1>. QED
  BY <1>3, <1>4

LEMMA ScoreFrameSettles ==
  ASSUME ScoreInv, ScoreFrame
  PROVE  ScoreInv'
<1>. DEFINE e == score.engines
            n == Len(e)
<1>1. PICK i \in DOMAIN e :
        /\ \A j \in 1 .. (i - 1) : e[j].elapsed > e[i].elapsed
        /\ score' = [score EXCEPT !.shown = Value(Frame(e[i])), !.engines = Redrawn(e, i, Frame(e[i]))]
  BY DEF ScoreFrame
<1>. DEFINE t == Frame(e[i])
<1>2. e \in Seq(Engines) /\ n \in Nat /\ DOMAIN e = 1 .. n /\ e # <<>> /\ i \in 1 .. n
  BY <1>1, LenProperties DEF ScoreInv
<1>3. \A j \in 1 .. n : e[j] \in Engines
  BY <1>2, ElementOfSeq
<1>4. \A j \in 1 .. n : e[j] \in Tweens /\ e[j].from = 0 /\ e[j].elapsed \in 1 .. (Frames - 1)
  BY <1>3 DEF Engines, Tweens
<1>5. e[i] \in Tweens /\ Moving(e[i])
  BY <1>2, <1>4 DEF Moving
<1>6. /\ t.from = 0 /\ t.to = e[i].to /\ t.elapsed = e[i].elapsed + 1
      /\ Moving(Rest(t)) => t \in Tweens
      /\ ~Moving(Rest(t)) => Value(t) = e[i].to /\ e[i].elapsed = Frames - 1
  BY <1>2, <1>4, <1>5, FrameIsATween
<1>7. e[n].to = score.target /\ score.target \in Nat
  BY <1>2 DEF ScoreInv
<1>8. \A j, k \in 1 .. n : j < k => e[k].elapsed <= e[j].elapsed
  BY <1>2 DEF ScoreInv
<1>9. /\ score' = [target |-> score.target, shown |-> Value(t), engines |-> Redrawn(e, i, t)]
  BY <1>1 DEF ScoreInv
<1>. HIDE DEF t, n
<1>10. CASE Moving(Rest(t))
  <2>. DEFINE a == [e EXCEPT ![i] = t]
  <2>1. Redrawn(e, i, t) = a
    BY <1>10 DEF Redrawn
  <2>2. t \in Engines
    BY <1>2, <1>4, <1>6, <1>10 DEF Engines
  <2>3. /\ a \in Seq(Engines) /\ Len(a) = n /\ DOMAIN a = 1 .. n
        /\ a[i] = t /\ \A j \in 1 .. n : j # i => a[j] = e[j]
    BY <1>2, <2>2, ExceptSeq, LenProperties DEF n
  <2>. HIDE DEF a
  <2>4. ASSUME NEW j \in 1 .. n, NEW k \in 1 .. n, j < k PROVE a[k].elapsed <= a[j].elapsed
    <3>1. CASE k = i
      <4>1. j \in 1 .. (i - 1) /\ j # i
        BY <1>2, <2>4, <3>1
      <4>2. a[j] = e[j] /\ a[k] = t /\ e[j].elapsed > e[i].elapsed
        BY <1>1, <2>3, <3>1, <4>1
      <4>. QED
        BY <1>2, <1>4, <1>6, <4>2
    <3>2. CASE j = i
      <4>1. a[j] = t /\ a[k] = e[k] /\ e[k].elapsed <= e[i].elapsed
        BY <1>8, <2>3, <2>4, <3>2
      <4>. QED
        BY <1>2, <1>4, <1>6, <4>1
    <3>3. CASE k # i /\ j # i
      BY <1>8, <2>3, <2>4, <3>3
    <3>. QED
      BY <3>1, <3>2, <3>3
  <2>5. a # <<>> /\ a[n].to = score.target
    <3>1. n \in 1 .. n
      BY <1>2 DEF n
    <3>2. a # <<>>
      BY <2>3, <3>1
    <3>. QED
      BY <1>6, <1>7, <2>3, <3>1, <3>2
  <2>. QED
    BY <1>7, <1>9, <2>1, <2>3, <2>4, <2>5 DEF ScoreInv
<1>11. CASE ~Moving(Rest(t))
  <2>. DEFINE a == RemoveAt(e, i)
  <2>1. Redrawn(e, i, t) = a
    BY <1>11 DEF Redrawn
  <2>2. i = 1
    <3>1. ASSUME i > 1 PROVE FALSE
      <4>1. 1 \in 1 .. (i - 1) /\ 1 \in 1 .. n
        BY <1>2, <3>1
      <4>2. e[1].elapsed > e[i].elapsed /\ e[1].elapsed \in 1 .. (Frames - 1)
        BY <1>1, <1>4, <4>1
      <4>3. e[i].elapsed = Frames - 1
        BY <1>6, <1>11
      <4>. QED
        BY <4>2, <4>3
    <3>. QED
      BY <1>2, <3>1
  <2>3. /\ a \in Seq(Engines) /\ Len(a) = n - 1 /\ DOMAIN a = 1 .. (n - 1)
        /\ \A j \in 1 .. (n - 1) : a[j] = e[j + 1]
    <3>1. /\ a \in Seq(Engines) /\ Len(a) = n - 1
          /\ \A j \in 1 .. (n - 1) : a[j] = e[IF j < i THEN j ELSE j + 1]
      BY <1>2, Removed DEF n
    <3>2. \A j \in 1 .. (n - 1) : ~(j < i)
      BY <2>2
    <3>3. DOMAIN a = 1 .. (n - 1)
      BY <3>1, LenProperties
    <3>. QED
      BY <3>1, <3>2, <3>3
  <2>. HIDE DEF a
  <2>4. \A j, k \in 1 .. (n - 1) : j < k => a[k].elapsed <= a[j].elapsed
    <3>1. ASSUME NEW j \in 1 .. (n - 1), NEW k \in 1 .. (n - 1), j < k PROVE a[k].elapsed <= a[j].elapsed
      <4>1. a[j] = e[j + 1] /\ a[k] = e[k + 1]
        BY <2>3
      <4>2. j + 1 \in 1 .. n /\ k + 1 \in 1 .. n /\ j + 1 < k + 1
        BY <1>2, <3>1
      <4>. QED
        BY <1>8, <4>1, <4>2
    <3>. QED
      BY <3>1
  <2>5. CASE n = 1
    <3>1. a = <<>> /\ Value(t) = score.target
      BY <1>6, <1>7, <1>11, <2>2, <2>3, <2>5, EmptySeq
    <3>. QED
      BY <1>7, <1>9, <2>1, <2>3, <2>4, <3>1 DEF ScoreInv
  <2>6. CASE n > 1
    <3>1. a # <<>> /\ n - 1 \in 1 .. (n - 1) /\ (n - 1) + 1 = n
      BY <1>2, <2>3, <2>6 DEF n
    <3>2. a[Len(a)].to = score.target
      BY <1>7, <2>3, <3>1
    <3>. QED
      BY <1>7, <1>9, <2>1, <2>3, <2>4, <3>1, <3>2 DEF ScoreInv
  <2>. QED
    BY <1>2, <2>5, <2>6
<1>. QED
  BY <1>10, <1>11

LEMMA ScoreStep ==
  ASSUME ScoreInv, ScoreNext
  PROVE  ScoreInv'
BY SetScoreSettles, ScoreFrameSettles DEF ScoreNext

-----------------------------------------------------------------------------
\* The stack with toast n taken out, or with the oldest gone, is still a stack.
Stack(stack, last) ==
  /\ stack \in Seq([number : 1 .. last, place : 1 .. KeptToasts])
  /\ \A i, j \in DOMAIN stack : i < j => stack[i].number < stack[j].number

LEMMA StacksStay ==
  ASSUME ToastInv, events \in Nat, NEW stack, NEW due, toasts' = [shown |-> stack, due |-> due],
         events' \in Nat, Len(stack) <= KeptToasts, Stack(stack, events')
  PROVE  ToastInv'
<1>1. \A i \in DOMAIN stack : stack[i].place \in 1 .. KeptToasts
  <2>1. \A i \in DOMAIN stack : stack[i] \in [number : 1 .. events', place : 1 .. KeptToasts]
    BY ElementOfSeq, LenProperties DEF Stack
  <2>. QED
    BY <2>1
<1>. QED
  BY <1>1 DEF ToastInv, ToastsStayFew, Stack

LEMMA ShorterStack ==
  ASSUME NEW last \in Nat, NEW stack, Stack(stack, last), NEW i \in DOMAIN stack
  PROVE  Stack(RemoveAt(stack, i), last) /\ Len(RemoveAt(stack, i)) = Len(stack) - 1
<1>. DEFINE T == [number : 1 .. last, place : 1 .. KeptToasts]
            a == RemoveAt(stack, i)
<1>1. stack \in Seq(T) /\ Len(stack) \in Nat /\ DOMAIN stack = 1 .. Len(stack)
  BY LenProperties DEF Stack
<1>. HIDE DEF T
<1>2. /\ a \in Seq(T) /\ Len(a) = Len(stack) - 1
      /\ \A j \in 1 .. (Len(stack) - 1) : a[j] = stack[IF j < i THEN j ELSE j + 1]
  BY <1>1, Removed
<1>3. DOMAIN a = 1 .. (Len(stack) - 1)
  BY <1>2, LenProperties
<1>. HIDE DEF a
<1>4. ASSUME NEW j \in DOMAIN a, NEW k \in DOMAIN a, j < k PROVE a[j].number < a[k].number
  <2>. DEFINE J == IF j < i THEN j ELSE j + 1
              K == IF k < i THEN k ELSE k + 1
  <2>1. J \in DOMAIN stack /\ K \in DOMAIN stack /\ J < K
    BY <1>1, <1>3, <1>4
  <2>2. a[j] = stack[J] /\ a[k] = stack[K]
    BY <1>2, <1>3
  <2>. HIDE DEF J, K
  <2>. QED
    BY <2>1, <2>2 DEF Stack
<1>. QED
  BY <1>2, <1>4 DEF Stack, T, a

LEMMA SpawnStays ==
  ASSUME ToastInv, events \in Nat, events' = events + 1, Spawn(events + 1)
  PROVE  ToastInv'
<1>. DEFINE T == [number : 1 .. events', place : 1 .. KeptToasts]
            s == toasts.shown
            live == IF Len(s) >= KeptToasts THEN Tail(s) ELSE s
            new == Toast(events + 1, Len(live) + 1)
<1>1. s \in Seq([number : 1 .. events, place : 1 .. KeptToasts]) /\ Stack(s, events)
      /\ Len(s) \in Nat /\ DOMAIN s = 1 .. Len(s) /\ Len(s) <= KeptToasts
  BY LenProperties DEF ToastInv, ToastsStayFew, Stack
<1>2. \A i \in 1 .. Len(s) : s[i].number \in 1 .. events /\ s[i].place \in 1 .. KeptToasts
                              /\ s[i] \in T
  <2>1. \A i \in 1 .. Len(s) : s[i] \in [number : 1 .. events, place : 1 .. KeptToasts]
    BY <1>1, ElementOfSeq
  <2>. QED
    BY <2>1
<1>. HIDE DEF T
<1>3. \A i, j \in 1 .. Len(s) : i < j => s[i].number < s[j].number
  BY <1>1 DEF Stack
<1>4. /\ live \in Seq(T) /\ Len(live) \in Nat /\ Len(live) <= KeptToasts - 1
      /\ \A i \in 1 .. Len(live) : live[i].number \in 1 .. events
      /\ \A i, j \in 1 .. Len(live) : i < j => live[i].number < live[j].number
  <2>0. s \in Seq(T)
    <3>1. [number : 1 .. events, place : 1 .. KeptToasts] \subseteq T
      BY DEF T
    <3>. QED
      BY <1>1, <3>1, SeqMonotonic
  <2>1. CASE Len(s) >= KeptToasts
    <3>1. s # <<>>
      BY <1>1, <2>1
    <3>2. /\ Tail(s) \in Seq(T) /\ Len(Tail(s)) = Len(s) - 1
          /\ \A i \in 1 .. (Len(s) - 1) : Tail(s)[i] = s[i + 1]
      BY <2>0, <3>1, HeadTailProperties
    <3>3. live = Tail(s)
      BY <2>1
    <3>. HIDE DEF live
    <3>4. \A i \in 1 .. (Len(s) - 1) : i + 1 \in 1 .. Len(s)
      BY <1>1
    <3>. QED
      BY <1>1, <1>2, <1>3, <3>1, <3>2, <3>3, <3>4
  <2>2. CASE ~(Len(s) >= KeptToasts)
    BY <1>1, <1>2, <1>3, <2>0, <2>2
  <2>. QED
    BY <2>1, <2>2
<1>5. new.number = events + 1 /\ new \in T
  BY <1>4 DEF Toast, T
<1>6. toasts' = [shown |-> Append(live, new), due |-> toasts.due \cup {events + 1}]
  BY DEF Spawn
<1>. HIDE DEF live, new
<1>7. /\ Append(live, new) \in Seq(T) /\ Len(Append(live, new)) = Len(live) + 1
      /\ \A i \in 1 .. Len(live) : Append(live, new)[i] = live[i]
      /\ Append(live, new)[Len(live) + 1] = new
  BY <1>4, <1>5, AppendProperties
<1>. DEFINE a == Append(live, new)
<1>8. DOMAIN a = 1 .. (Len(live) + 1)
  BY <1>7, LenProperties
<1>. HIDE DEF a
<1>9. ASSUME NEW i \in DOMAIN a, NEW j \in DOMAIN a, i < j PROVE a[i].number < a[j].number
  <2>1. i \in 1 .. Len(live) /\ a[i] = live[i]
    BY <1>4, <1>7, <1>8, <1>9 DEF a
  <2>2. CASE j \in 1 .. Len(live)
    BY <1>4, <1>7, <1>9, <2>1, <2>2 DEF a
  <2>3. CASE j = Len(live) + 1
    BY <1>4, <1>5, <1>7, <2>1, <2>3 DEF a
  <2>. QED
    BY <1>4, <1>8, <2>2, <2>3
<1>10. Len(a) <= KeptToasts /\ Stack(a, events') /\ events' \in Nat
  BY <1>4, <1>7, <1>9 DEF Stack, T, a
<1>. QED
  BY <1>6, <1>10, StacksStay DEF a

LEMMA ToastStep ==
  ASSUME ToastInv, events \in Nat, ToastNext
  PROVE  ToastInv'
<1>. DEFINE s == toasts.shown
<1>1. Stack(s, events) /\ Len(s) \in Nat /\ Len(s) <= KeptToasts
  BY LenProperties DEF ToastInv, ToastsStayFew, Stack
<1>2. CASE UserActs /\ Spawn(events + 1)
  BY <1>2, SpawnStays DEF UserActs
<1>3. CASE Dismiss /\ UNCHANGED events
  <2>1. PICK n \in toasts.due : toasts' = [shown |-> Without(s, n), due |-> toasts.due \ {n}]
    BY <1>3 DEF Dismiss
  <2>2. Stack(Without(s, n), events) /\ Len(Without(s, n)) <= KeptToasts
    <3>1. CASE \E i \in DOMAIN s : s[i].number = n
      <4>. DEFINE i == CHOOSE k \in DOMAIN s : s[k].number = n
      <4>1. i \in DOMAIN s /\ Without(s, n) = RemoveAt(s, i)
        BY <3>1, Zenon DEF Without
      <4>. HIDE DEF i
      <4>. QED
        BY <1>1, <4>1, ShorterStack
    <3>2. CASE ~\E i \in DOMAIN s : s[i].number = n
      BY <1>1, <3>2, Zenon DEF Without
    <3>. QED
      BY <3>1, <3>2
  <2>. QED
    BY <1>3, <2>1, <2>2, StacksStay
<1>4. CASE DismissAll /\ UNCHANGED events
  <2>1. toasts' = [shown |-> <<>>, due |-> toasts.due]
    BY <1>4 DEF DismissAll, ToastInv
  <2>2. Stack(<<>>, events) /\ Len(<<>>) <= KeptToasts
    BY EmptySeq DEF Stack
  <2>. QED
    BY <1>4, <2>1, <2>2, StacksStay
<1>. QED
  BY <1>2, <1>3, <1>4 DEF ToastNext

-----------------------------------------------------------------------------
(* Whatever interrupts a motion, what comes to rest is what was asked for  *)
(* last, and toasts do not pile up, for any number of frames, scores and   *)
(* toasts.                                                                 *)
THEOREM MotionsAlwaysSettle == MSpec => []MotionsSettle
<1>1. MotionInv /\ [MNext]_mvars => MotionInv'
  <2>. SUFFICES ASSUME MotionInv, [MNext]_mvars PROVE MotionInv'
    OBVIOUS
  <2>0. events \in Nat /\ PanelInv /\ ScoreInv /\ ToastInv
    BY DEF MotionInv
  <2>1. events' \in Nat /\ events' >= events
    BY <2>0 DEF MNext, SlideNext, ScoreNext, ToastNext, UserActs, mvars
  <2>2. PanelInv'
    <3>1. CASE SlideNext
      BY <2>0, <3>1, PanelStep
    <3>2. CASE UNCHANGED panel
      BY <2>0, <3>2, Zenon DEF PanelInv, Target
    <3>. QED
      BY <3>1, <3>2, Zenon DEF MNext, ScoreNext, ToastNext, mvars
  <2>3. ScoreInv'
    <3>1. CASE ScoreNext
      BY <2>0, <3>1, ScoreStep
    <3>2. CASE UNCHANGED score
      BY <2>0, <3>2, Zenon DEF ScoreInv
    <3>. QED
      BY <3>1, <3>2, Zenon DEF MNext, SlideNext, ToastNext, mvars
  <2>4. ToastInv'
    <3>1. CASE ToastNext
      BY <2>0, <3>1, ToastStep
    <3>2. CASE UNCHANGED toasts
      <4>1. toasts.shown \in Seq([number : 1 .. events, place : 1 .. KeptToasts])
        BY <2>0 DEF ToastInv
      <4>2. [number : 1 .. events, place : 1 .. KeptToasts] \subseteq [number : 1 .. events', place : 1 .. KeptToasts]
        BY <2>0, <2>1
      <4>3. toasts.shown \in Seq([number : 1 .. events', place : 1 .. KeptToasts])
        BY <4>1, <4>2, SeqMonotonic
      <4>. QED
        BY <2>0, <3>2, <4>3, Zenon DEF ToastInv, ToastsStayFew
    <3>. QED
      BY <3>1, <3>2, Zenon DEF MNext, SlideNext, ScoreNext, mvars
  <2>. QED
    BY <2>1, <2>2, <2>3, <2>4 DEF MotionInv
<1>2. MotionInv => MotionsSettle
  BY Zenon DEF MotionInv, PanelInv, ScoreInv, ToastInv, MotionsSettle, RestIsWhereItSays
<1>. QED
  BY <1>1, <1>2, MotionInit, PTL DEF MSpec

-----------------------------------------------------------------------------
(***************************************************************************)
(* WorkspaceFrame.  Of a sash that is dragged, FrameIsTrue says only where *)
(* its rail is now; the inductive invariant says how the width follows     *)
(* from where the sash was pressed, and that one sash is dragged at a time.*)
(***************************************************************************)
RailStates == [expanded : BOOLEAN, packed : BOOLEAN, width : Int]
SashStates == [dragging : BOOLEAN, from : Int, size : Int, moved : BOOLEAN, gap : Int]

SashInv ==
  /\ rail \in [RailNames -> RailStates] /\ sash \in [RailNames -> SashStates]
  /\ pointer \in Int /\ room \in Nat
  /\ \A r \in RailNames : rail[r].packed = rail[r].expanded
  /\ \A r, s \in RailNames : sash[r].dragging /\ sash[s].dragging => r = s
  /\ \A r \in RailNames : sash[r].dragging => sash[r].gap = sash[r].size - sash[r].from
  /\ \A r \in RailNames : sash[r].dragging /\ sash[r].moved => rail[r].width = Size(r, pointer)

\* The strip h tells the truth: HeaderTellsTheTruth of any strip.
Headers == [tabs : Seq(TabPaths), active : TabPaths \cup {NoTab}, dirty : SUBSET TabPaths, starred : SUBSET TabPaths]
Truthful(h) ==
  /\ h \in Headers
  /\ h.active = NoTab <=> h.tabs = <<>>
  /\ h.active # NoTab => Contains(h.tabs, h.active)
  /\ IsInjective(h.tabs) /\ h.starred = h.dirty \cap ToSet(h.tabs)

FrameInv == SashInv /\ Truthful(header)

USE FrameAssumption

LEMMA FrameInit == WsInit => FrameInv
<1>. SUFFICES ASSUME WsInit PROVE FrameInv
  OBVIOUS
<1>1. \A r \in RailNames : Rails[r] \in Int
  BY DEF RailNames
<1>2. \A r \in RailNames : rail[r] \in RailStates /\ rail[r].packed = rail[r].expanded
  <2>1. ASSUME NEW r \in RailNames PROVE rail[r] \in RailStates /\ rail[r].packed = rail[r].expanded
    <3>. DEFINE b == r = "left"
                w == IF b THEN Rails[r] ELSE 0
    <3>1. b \in BOOLEAN /\ w \in Int
      BY <1>1
    <3>2. rail[r] = [expanded |-> b, packed |-> b, width |-> w]
      BY DEF WsInit
    <3>. HIDE DEF b, w
    <3>. QED
      BY <3>1, <3>2 DEF RailStates
  <2>. QED
    BY <2>1
<1>3. rail \in [RailNames -> RailStates]
  BY <1>2, Zenon DEF WsInit
<1>4. sash \in [RailNames -> SashStates] /\ \A r \in RailNames : ~sash[r].dragging
  BY DEF WsInit, SashStates
<1>5. pointer \in Int /\ room \in Nat
  BY DEF WsInit
<1>6. Truthful(header)
  <2>1. header = [tabs |-> <<>>, active |-> NoTab, dirty |-> {}, starred |-> {}]
    BY DEF WsInit
  <2>2. header \in Headers
    BY <2>1, EmptySeq DEF Headers
  <2>3. IsInjective(<<>>)
    BY EmptySeq DEF IsInjective
  <2>. QED
    BY <2>1, <2>2, <2>3 DEF Truthful, ToSet
<1>. QED
  BY <1>2, <1>3, <1>4, <1>5, <1>6, Zenon DEF FrameInv, SashInv

LEMMA SizeIsAWidth ==
  ASSUME SashInv, NEW r \in RailNames, NEW at \in Int
  PROVE  Size(r, at) \in Int
<1>1. sash[r].size \in Int /\ sash[r].from \in Int /\ room \in Int
  BY DEF SashInv, SashStates
<1>. QED
  BY <1>1 DEF Size, Larger, Smaller

\* A field set at one rail leaves the other rails, and its other fields, alone.
LEMMA ToggleKeeps ==
  ASSUME SashInv, NEW r \in RailNames, Toggle(r)
  PROVE  SashInv'
<1>1. PICK c \in RailStates : c.packed = c.expanded /\ rail' = [rail EXCEPT ![r] = c]
  <2>1. [expanded |-> FALSE, packed |-> FALSE, width |-> 0] \in RailStates
    BY DEF RailStates
  <2>2. [expanded |-> TRUE, packed |-> TRUE, width |-> Rails[r]] \in RailStates
    BY DEF RailStates, RailNames
  <2>. QED
    BY <2>1, <2>2 DEF Toggle, Expand, Collapse
<1>. DEFINE d == [sash[r] EXCEPT !.moved = FALSE]
<1>2. sash' = [sash EXCEPT ![r] = d] /\ UNCHANGED <<room, pointer>>
  BY Zenon DEF Toggle
<1>3. sash[r] \in SashStates
  BY DEF SashInv
<1>4. d \in SashStates /\ ~d.moved /\ d.dragging = sash[r].dragging /\ d.gap = sash[r].gap
      /\ d.size = sash[r].size /\ d.from = sash[r].from
  BY <1>3, Zenon DEF SashStates
<1>. HIDE DEF d
<1>5. rail' \in [RailNames -> RailStates] /\ sash' \in [RailNames -> SashStates]
      /\ sash'[r] = d /\ rail'[r] = c
      /\ \A s \in RailNames : s # r => sash'[s] = sash[s] /\ rail'[s] = rail[s]
  BY <1>1, <1>2, <1>4, Zenon DEF SashInv
<1>6. pointer' \in Int /\ room' \in Nat /\ pointer' = pointer /\ room' = room
  BY <1>2 DEF SashInv
<1>7. ASSUME NEW s \in RailNames
      PROVE  /\ rail'[s].packed = rail'[s].expanded
             /\ sash'[s].dragging = sash[s].dragging
             /\ sash'[s].gap = sash[s].gap /\ sash'[s].size = sash[s].size /\ sash'[s].from = sash[s].from
             /\ sash'[s].moved => sash'[s] = sash[s] /\ rail'[s] = rail[s]
  <2>1. CASE s = r
    BY <1>1, <1>4, <1>5, <2>1, Zenon
  <2>2. CASE s # r
    BY <1>5, <2>2, Zenon DEF SashInv
  <2>. QED
    BY <2>1, <2>2
<1>8. \A s \in RailNames : Size(s, pointer)' = Size(s, pointer)
  BY <1>6, <1>7, Zenon DEF Size
<1>9. \A s \in RailNames : sash'[s].dragging /\ sash'[s].moved => rail'[s].width = Size(s, pointer)'
  <2>. SUFFICES ASSUME NEW s \in RailNames, sash'[s].dragging, sash'[s].moved
                PROVE  rail'[s].width = Size(s, pointer)'
    BY Zenon
  <2>1. rail[s].width = Size(s, pointer) /\ rail'[s] = rail[s]
    BY <1>7, Zenon DEF SashInv
  <2>. QED
    BY <1>8, <2>1, Zenon
<1>10. /\ \A s, t \in RailNames : sash'[s].dragging /\ sash'[t].dragging => s = t
       /\ \A s \in RailNames : sash'[s].dragging => sash'[s].gap = sash'[s].size - sash'[s].from
       /\ \A s \in RailNames : rail'[s].packed = rail'[s].expanded
  BY <1>7, Zenon DEF SashInv
<1>. QED
  BY <1>5, <1>6, <1>9, <1>10, Zenon DEF SashInv

LEMMA PressKeeps ==
  ASSUME SashInv, NEW r \in RailNames, PressSash(r)
  PROVE  SashInv'
<1>. DEFINE d == [dragging |-> TRUE, from |-> pointer, moved |-> FALSE,
                  gap |-> rail[r].width - pointer, size |-> rail[r].width]
<1>1. sash' = [sash EXCEPT ![r] = d] /\ UNCHANGED <<rail, room, pointer>>
      /\ \A s \in RailNames : ~sash[s].dragging
  BY DEF PressSash
<1>2. rail[r].width \in Int /\ pointer \in Int
  BY DEF SashInv, RailStates
<1>3. d \in SashStates /\ ~d.moved /\ d.gap = d.size - d.from
  BY <1>2 DEF SashStates
<1>. HIDE DEF d
<1>4. sash' \in [RailNames -> SashStates] /\ sash'[r] = d
      /\ \A s \in RailNames : s # r => sash'[s] = sash[s] /\ ~sash'[s].dragging
  BY <1>1, <1>3, Zenon DEF SashInv
<1>. QED
  BY <1>1, <1>3, <1>4, Zenon DEF SashInv

LEMMA DragKeeps ==
  ASSUME SashInv, NEW r \in RailNames, NEW at \in Int, Drag(r, at)
  PROVE  SashInv'
<1>. DEFINE w == Size(r, at)
            c == [rail[r] EXCEPT !.width = w]
            d == [sash[r] EXCEPT !.moved = TRUE]
<1>1. /\ sash[r].dragging /\ pointer' = at /\ room' = room
      /\ rail' = [rail EXCEPT ![r] = c] /\ sash' = [sash EXCEPT ![r] = d]
  BY Zenon DEF Drag
<1>2. rail[r] \in RailStates /\ sash[r] \in SashStates /\ w \in Int
  BY SizeIsAWidth DEF SashInv
<1>3. /\ c \in RailStates /\ c.width = w /\ c.packed = rail[r].packed /\ c.expanded = rail[r].expanded
      /\ d \in SashStates /\ d.dragging = sash[r].dragging /\ d.gap = sash[r].gap
      /\ d.size = sash[r].size /\ d.from = sash[r].from
  <2>. HIDE DEF w
  <2>. QED
    BY <1>2, Zenon DEF RailStates, SashStates
<1>. HIDE DEF c, d
<1>4. /\ rail' \in [RailNames -> RailStates] /\ sash' \in [RailNames -> SashStates]
      /\ rail'[r] = c /\ sash'[r] = d
      /\ \A s \in RailNames : s # r => sash'[s] = sash[s] /\ rail'[s] = rail[s]
  BY <1>1, <1>3, Zenon DEF SashInv
<1>5. Size(r, pointer)' = w
  BY <1>1, <1>3, <1>4, Zenon DEF Size
<1>6. ASSUME NEW s \in RailNames
      PROVE  /\ rail'[s].packed = rail'[s].expanded
             /\ sash'[s].dragging = sash[s].dragging
             /\ sash'[s].gap = sash[s].gap /\ sash'[s].size = sash[s].size /\ sash'[s].from = sash[s].from
  <2>1. CASE s = r
    BY <1>3, <1>4, <2>1, Zenon DEF SashInv
  <2>2. CASE s # r
    BY <1>4, <2>2, Zenon DEF SashInv
  <2>. QED
    BY <2>1, <2>2
<1>7. ASSUME NEW s \in RailNames, sash'[s].dragging PROVE s = r
  BY <1>1, <1>6, <1>7, Zenon DEF SashInv
<1>8. ASSUME NEW s \in RailNames, sash'[s].dragging PROVE rail'[s].width = Size(s, pointer)'
  <2>1. s = r
    BY <1>7, <1>8
  <2>2. rail'[r].width = w
    BY <1>3, <1>4, Zenon
  <2>. QED
    BY <1>5, <2>1, <2>2, Zenon
<1>9. pointer' \in Int /\ room' \in Nat
  BY <1>1 DEF SashInv
<1>10. \A s \in RailNames : sash'[s].dragging => sash'[s].gap = sash'[s].size - sash'[s].from
  BY <1>6, Zenon DEF SashInv
<1>. QED
  BY <1>4, <1>6, <1>7, <1>8, <1>9, <1>10, Zenon DEF SashInv

LEMMA ReleaseKeeps ==
  ASSUME SashInv, NEW r \in RailNames, ReleaseSash(r)
  PROVE  SashInv'
<1>. DEFINE d == [sash[r] EXCEPT !.dragging = FALSE]
<1>1. sash' = [sash EXCEPT ![r] = d] /\ UNCHANGED <<rail, room, pointer>>
  BY Zenon DEF ReleaseSash
<1>2. sash[r] \in SashStates
  BY DEF SashInv
<1>3. d \in SashStates /\ ~d.dragging
  BY <1>2, Zenon DEF SashStates
<1>. HIDE DEF d
<1>4. sash' \in [RailNames -> SashStates] /\ ~sash'[r].dragging
      /\ \A s \in RailNames : s # r => sash'[s] = sash[s]
  BY <1>1, <1>3, Zenon DEF SashInv
<1>5. \A s \in RailNames : sash'[s].dragging => sash'[s] = sash[s]
  BY <1>4, Zenon
<1>6. \A s \in RailNames : sash'[s].dragging => Size(s, pointer)' = Size(s, pointer)
  BY <1>1, <1>5, Zenon DEF Size
<1>. QED
  BY <1>1, <1>4, <1>5, <1>6, Zenon DEF SashInv

LEMMA SashesKeep ==
  ASSUME SashInv, [WsNext]_wsvars
  PROVE  SashInv'
<1>1. ASSUME NEW r \in RailNames, Toggle(r) \/ PressSash(r) \/ ReleaseSash(r) PROVE SashInv'
  BY <1>1, ToggleKeeps, PressKeeps, ReleaseKeeps
<1>2. ASSUME NEW r \in RailNames, NEW at \in 0 .. Larger(room, 0), Drag(r, at) PROVE SashInv'
  BY <1>2, DragKeeps
<1>3. ASSUME NEW at \in {0, MinPane}, MovePointer(at) PROVE SashInv'
  <2>1. pointer' \in Int /\ UNCHANGED <<rail, room, sash>> /\ \A s \in RailNames : ~sash[s].dragging
    BY <1>3 DEF MovePointer
  <2>. QED
    BY <2>1, Zenon DEF SashInv
<1>4. CASE UNCHANGED <<rail, room, sash, pointer>>
  BY <1>4, Zenon DEF SashInv, Size
<1>. QED
  BY <1>1, <1>2, <1>3, <1>4, Zenon DEF WsNext, SashStep, HeaderStep, wsvars

-----------------------------------------------------------------------------
(***************************************************************************)
(* The strip of tabs, one operation at a time.                             *)
(***************************************************************************)
LEMMA StripFacts ==
  ASSUME NEW h, Truthful(h)
  PROVE  /\ h.tabs \in Seq(TabPaths) /\ Len(h.tabs) \in Nat /\ DOMAIN h.tabs = 1 .. Len(h.tabs)
         /\ \A i \in 1 .. Len(h.tabs) : h.tabs[i] \in TabPaths /\ h.tabs[i] # NoTab
         /\ h.dirty \subseteq TabPaths /\ h.starred \subseteq TabPaths
         /\ \A t : Contains(h.tabs, t) <=> t \in ToSet(h.tabs)
         /\ h.tabs # <<>> <=> Len(h.tabs) > 0
         /\ h = [tabs |-> h.tabs, active |-> h.active, dirty |-> h.dirty, starred |-> h.starred]
<1>1. h.tabs \in Seq(TabPaths)
  BY DEF Truthful, Headers
<1>2. Len(h.tabs) \in Nat /\ DOMAIN h.tabs = 1 .. Len(h.tabs)
  BY <1>1, LenProperties
<1>3. \A i \in 1 .. Len(h.tabs) : h.tabs[i] \in TabPaths /\ h.tabs[i] # NoTab
  BY <1>1, ElementOfSeq
<1>4. \A t : Contains(h.tabs, t) <=> t \in ToSet(h.tabs)
  BY <1>2, Zenon DEF Contains, ToSet
<1>5. h.tabs # <<>> <=> Len(h.tabs) > 0
  BY <1>1, EmptySeq
<1>6. h = [tabs |-> h.tabs, active |-> h.active, dirty |-> h.dirty, starred |-> h.starred]
      /\ h.dirty \subseteq TabPaths /\ h.starred \subseteq TabPaths
  BY DEF Truthful, Headers
<1>. QED
  BY <1>1, <1>2, <1>3, <1>4, <1>5, <1>6

LEMMA ATruthfulStrip ==
  ASSUME NEW tabs \in Seq(TabPaths), NEW active, NEW dirty \in SUBSET TabPaths, NEW starred,
         active = NoTab <=> tabs = <<>>, active # NoTab => active \in ToSet(tabs),
         IsInjective(tabs), starred = dirty \cap ToSet(tabs)
  PROVE  Truthful([tabs |-> tabs, active |-> active, dirty |-> dirty, starred |-> starred])
<1>1. DOMAIN tabs = 1 .. Len(tabs)
  BY LenProperties
<1>2. ToSet(tabs) \subseteq TabPaths
  BY <1>1, ElementOfSeq DEF ToSet
<1>3. \A t : Contains(tabs, t) <=> t \in ToSet(tabs)
  BY <1>1, Zenon DEF Contains, ToSet
<1>4. active \in TabPaths \cup {NoTab}
  BY <1>2
<1>. QED
  BY <1>3, <1>4 DEF Truthful, Headers

LEMMA SelectsKeeps ==
  ASSUME NEW h, Truthful(h), NEW t \in TabPaths
  PROVE  Truthful(Selects(h, t))
<1>1. CASE Contains(h.tabs, t)
  <2>1. t \in ToSet(h.tabs) /\ h.tabs # <<>> /\ t # NoTab
    BY <1>1, StripFacts DEF Contains
  <2>2. Selects(h, t) = [tabs |-> h.tabs, active |-> t, dirty |-> h.dirty, starred |-> h.starred]
    BY <1>1, StripFacts DEF Selects
  <2>. QED
    BY <2>1, <2>2, StripFacts, ATruthfulStrip DEF Truthful
<1>2. CASE ~Contains(h.tabs, t)
  BY <1>2 DEF Selects
<1>. QED
  BY <1>1, <1>2

LEMMA OpensKeeps ==
  ASSUME NEW h, Truthful(h), NEW t \in TabPaths
  PROVE  Truthful(Opens(h, t))
<1>1. CASE Contains(h.tabs, t)
  BY <1>1, SelectsKeeps DEF Opens
<1>2. CASE ~Contains(h.tabs, t)
  <2>. DEFINE n == Len(h.tabs)
              tabs == Append(h.tabs, t)
              starred == IF t \in h.dirty THEN h.starred \cup {t} ELSE h.starred
  <2>0. h.tabs \in Seq(TabPaths) /\ n \in Nat /\ DOMAIN h.tabs = 1 .. n /\ t \notin ToSet(h.tabs)
    BY <1>2, StripFacts
  <2>1. /\ tabs \in Seq(TabPaths) /\ Len(tabs) = n + 1 /\ DOMAIN tabs = 1 .. (n + 1)
        /\ \A i \in 1 .. n : tabs[i] = h.tabs[i]
        /\ tabs[n + 1] = t /\ tabs # <<>>
    <3>1. /\ tabs \in Seq(TabPaths) /\ Len(tabs) = n + 1
          /\ \A i \in 1 .. n : tabs[i] = h.tabs[i]
          /\ tabs[n + 1] = t
      BY <2>0, AppendProperties
    <3>2. DOMAIN tabs = 1 .. Len(tabs)
      BY <3>1, LenProperties
    <3>3. Len(tabs) # 0
      BY <2>0, <3>1
    <3>. QED
      BY <3>1, <3>2, <3>3, EmptySeq
  <2>. HIDE DEF n, tabs
  <2>2. ToSet(tabs) = ToSet(h.tabs) \cup {t}
    <3>1. ToSet(h.tabs) \cup {t} \subseteq ToSet(tabs)
      BY <2>0, <2>1 DEF ToSet
    <3>2. ASSUME NEW i \in DOMAIN tabs PROVE tabs[i] \in ToSet(h.tabs) \cup {t}
      <4>1. CASE i \in 1 .. n
        BY <2>0, <2>1, <4>1 DEF ToSet
      <4>2. CASE i = n + 1
        BY <2>1, <4>2
      <4>. QED
        BY <2>0, <2>1, <4>1, <4>2
    <3>. QED
      BY <3>1, <3>2 DEF ToSet
  <2>3. IsInjective(tabs)
    <3>1. \A i, j \in 1 .. n : h.tabs[i] = h.tabs[j] => i = j
      BY <2>0 DEF Truthful, IsInjective
    <3>2. \A i \in 1 .. n : tabs[i] # t
      BY <2>0, <2>1 DEF ToSet
    <3>3. ASSUME NEW i \in 1 .. (n + 1), NEW j \in 1 .. (n + 1), tabs[i] = tabs[j] PROVE i = j
      <4>1. CASE i \in 1 .. n /\ j \in 1 .. n
        BY <2>1, <3>1, <3>3, <4>1
      <4>2. CASE ~(i \in 1 .. n)
        <5>1. i = n + 1
          BY <2>0, <4>2
        <5>2. ~(j \in 1 .. n)
          BY <2>1, <3>2, <3>3, <5>1
        <5>. QED
          BY <2>0, <5>1, <5>2
      <4>3. CASE ~(j \in 1 .. n)
        <5>1. j = n + 1
          BY <2>0, <4>3
        <5>2. ~(i \in 1 .. n)
          BY <2>1, <3>2, <3>3, <5>1
        <5>. QED
          BY <2>0, <5>1, <5>2
      <4>. QED
        BY <4>1, <4>2, <4>3
    <3>. QED
      BY <2>1, <3>3 DEF IsInjective
  <2>4. starred = h.dirty \cap ToSet(tabs)
    BY <2>2 DEF Truthful
  <2>5. Opens(h, t) = Selects([h EXCEPT !.tabs = tabs, !.starred = starred], t)
    BY <1>2 DEF Opens, tabs
  <2>6. [h EXCEPT !.tabs = tabs, !.starred = starred]
          = [tabs |-> tabs, active |-> h.active, dirty |-> h.dirty, starred |-> starred]
    <3>0. h \in Headers
      BY DEF Truthful
    <3>. DEFINE g == [h EXCEPT !.tabs = tabs, !.starred = starred]
    <3>. HIDE DEF starred
    <3>1. g \in [tabs : {tabs}, active : {h.active}, dirty : {h.dirty}, starred : {starred}]
      BY <3>0, Zenon DEF Headers
    <3>. HIDE DEF g
    <3>2. g = [tabs |-> tabs, active |-> h.active, dirty |-> h.dirty, starred |-> starred]
      BY <3>1
    <3>. QED
      BY <3>2, Zenon DEF g
  <2>7. Contains(tabs, t)
    BY <2>0, <2>1 DEF Contains
  <2>. HIDE DEF starred
  <2>8. Opens(h, t) = [tabs |-> tabs, active |-> t, dirty |-> h.dirty, starred |-> starred]
    BY <2>5, <2>6, <2>7 DEF Selects
  <2>9. t # NoTab /\ t \in ToSet(tabs) /\ h.dirty \in SUBSET TabPaths
    BY <2>2, StripFacts
  <2>10. (t = NoTab <=> tabs = <<>>) /\ tabs \in Seq(TabPaths)
    BY <2>1, <2>9
  <2>11. Truthful([tabs |-> tabs, active |-> t, dirty |-> h.dirty, starred |-> starred])
    BY <2>3, <2>4, <2>9, <2>10, ATruthfulStrip
  <2>. QED
    BY <2>8, <2>11, Zenon
<1>. QED
  BY <1>1, <1>2

LEMMA SetDirtyKeeps ==
  ASSUME NEW h, Truthful(h), NEW t \in TabPaths, NEW on \in BOOLEAN
  PROVE  Truthful(SetDirty(h, t, on))
<1>. DEFINE dirty == IF on THEN h.dirty \cup {t} ELSE h.dirty \ {t}
            starred == IF on /\ Contains(h.tabs, t) THEN h.starred \cup {t} ELSE h.starred \ {t}
<1>1. SetDirty(h, t, on) = [tabs |-> h.tabs, active |-> h.active, dirty |-> dirty, starred |-> starred]
  <2>1. SetDirty(h, t, on) = [h EXCEPT !.dirty = dirty, !.starred = starred]
    BY DEF SetDirty
  <2>. HIDE DEF dirty, starred
  <2>. QED
    BY <2>1, StripFacts
<1>2. h.starred = h.dirty \cap ToSet(h.tabs) /\ (Contains(h.tabs, t) <=> t \in ToSet(h.tabs))
  BY StripFacts DEF Truthful
<1>3. starred = dirty \cap ToSet(h.tabs)
  BY <1>2
<1>4. dirty \in SUBSET TabPaths
  BY StripFacts
<1>5. h.active # NoTab => h.active \in ToSet(h.tabs)
  BY StripFacts, Zenon DEF Truthful
<1>6. /\ h.tabs \in Seq(TabPaths) /\ (h.active = NoTab <=> h.tabs = <<>>)
      /\ IsInjective(h.tabs)
  BY StripFacts, Zenon DEF Truthful
<1>. HIDE DEF dirty, starred
<1>7. Truthful([tabs |-> h.tabs, active |-> h.active, dirty |-> dirty, starred |-> starred])
  BY <1>3, <1>4, <1>5, <1>6, ATruthfulStrip
<1>. QED
  BY <1>1, <1>7, Zenon

LEMMA ClosesAllKeeps ==
  ASSUME NEW h, Truthful(h)
  PROVE  Truthful(ClosesAll(h))
<1>. DEFINE dirty == h.dirty \ ToSet(h.tabs)
            starred == h.starred \ ToSet(h.tabs)
            active == IF Contains(h.tabs, h.active) THEN NoTab ELSE h.active
<1>1. ClosesAll(h) = [tabs |-> <<>>, active |-> active, dirty |-> dirty, starred |-> starred]
  <2>0. h \in Headers
    BY DEF Truthful
  <2>1. ClosesAll(h) = [h EXCEPT !.tabs = <<>>, !.active = active, !.dirty = dirty, !.starred = starred]
    BY DEF ClosesAll
  <2>. HIDE DEF active, dirty, starred
  <2>. QED
    BY <2>0, <2>1 DEF Headers
<1>2. active = NoTab
  BY DEF Truthful
<1>3. starred = {} /\ dirty \in SUBSET TabPaths
  BY StripFacts DEF Truthful
<1>4. <<>> \in Seq(TabPaths) /\ IsInjective(<<>>) /\ ToSet(<<>>) = {}
  BY EmptySeq DEF IsInjective, ToSet
<1>. HIDE DEF active, dirty, starred
<1>. QED
  BY <1>1, <1>2, <1>3, <1>4, ATruthfulStrip

LEMMA ClosesKeeps ==
  ASSUME NEW h, Truthful(h), NEW t \in TabPaths
  PROVE  Truthful(Closes(h, t))
<1>1. CASE ~Contains(h.tabs, t)
  BY <1>1 DEF Closes
<1>2. CASE Contains(h.tabs, t)
  <2>. DEFINE n == Len(h.tabs)
              k == At(h, t)
              tabs == RemoveAt(h.tabs, k)
              dirty == h.dirty \ {t}
              starred == h.starred \ {t}
              next == Smaller(k, Len(tabs))
  <2>0. h.tabs \in Seq(TabPaths) /\ n \in Nat /\ DOMAIN h.tabs = 1 .. n
    BY StripFacts
  <2>1. k \in DOMAIN h.tabs /\ h.tabs[k] = t
    BY <1>2, <2>0, Zenon DEF At, Contains
  <2>2. \A i, j \in 1 .. n : h.tabs[i] = h.tabs[j] => i = j
    BY <2>0 DEF Truthful, IsInjective
  <2>. HIDE DEF k
  <2>3. /\ tabs \in Seq(TabPaths) /\ Len(tabs) = n - 1
        /\ \A j \in 1 .. (n - 1) : tabs[j] = h.tabs[IF j < k THEN j ELSE j + 1]
    BY <2>0, <2>1, Removed
  <2>. HIDE DEF n, tabs
  <2>4. DOMAIN tabs = 1 .. (n - 1)
    BY <2>3, LenProperties
  <2>5. ToSet(tabs) = ToSet(h.tabs) \ {t}
    <3>1. ASSUME NEW j \in 1 .. (n - 1) PROVE tabs[j] \in ToSet(h.tabs) \ {t}
      <4>. DEFINE i == IF j < k THEN j ELSE j + 1
      <4>1. i \in 1 .. n /\ i # k /\ k \in 1 .. n
        BY <2>0, <2>1
      <4>. HIDE DEF i
      <4>2. tabs[j] = h.tabs[i]
        BY <2>3 DEF i
      <4>. QED
        BY <2>0, <2>1, <2>2, <4>1, <4>2 DEF ToSet
    <3>2. ASSUME NEW i \in 1 .. n, h.tabs[i] # t PROVE h.tabs[i] \in ToSet(tabs)
      <4>1. i # k
        BY <2>1, <3>2
      <4>. DEFINE j == IF i < k THEN i ELSE i - 1
      <4>2. j \in 1 .. (n - 1) /\ (IF j < k THEN j ELSE j + 1) = i
        BY <2>0, <2>1, <4>1
      <4>. HIDE DEF j
      <4>3. tabs[j] = h.tabs[i]
        BY <2>3, <4>2
      <4>. QED
        BY <2>4, <4>2, <4>3 DEF ToSet
    <3>. QED
      BY <2>0, <2>4, <3>1, <3>2 DEF ToSet
  <2>6. IsInjective(tabs)
    <3>1. ASSUME NEW i \in 1 .. (n - 1), NEW j \in 1 .. (n - 1), tabs[i] = tabs[j] PROVE i = j
      <4>. DEFINE I == IF i < k THEN i ELSE i + 1
                  J == IF j < k THEN j ELSE j + 1
      <4>1. I \in 1 .. n /\ J \in 1 .. n /\ (I = J => i = j)
        BY <2>0, <2>1
      <4>2. tabs[i] = h.tabs[I] /\ tabs[j] = h.tabs[J]
        BY <2>3
      <4>. HIDE DEF I, J
      <4>. QED
        BY <2>2, <3>1, <4>1, <4>2
    <3>. QED
      BY <2>4, <3>1 DEF IsInjective
  <2>7. starred = dirty \cap ToSet(tabs) /\ dirty \in SUBSET TabPaths
    BY <2>5, StripFacts DEF Truthful
  <2>. HIDE DEF dirty, starred
  <2>8. ClosedTab(h, t) = [tabs |-> tabs, active |-> h.active, dirty |-> dirty, starred |-> starred]
    <3>1. ClosedTab(h, t) = [h EXCEPT !.tabs = tabs, !.dirty = dirty, !.starred = starred]
      BY DEF ClosedTab, tabs, dirty, starred, k
    <3>2. h \in Headers
      BY DEF Truthful
    <3>. QED
      BY <3>1, <3>2 DEF Headers
  <2>9. CASE h.active # t
    <3>1. Closes(h, t) = ClosedTab(h, t)
      BY <1>2, <2>9 DEF Closes
    <3>2. h.active # NoTab /\ h.active \in ToSet(tabs)
      <4>1. h.active # NoTab
        BY <1>2, StripFacts DEF Truthful, Contains
      <4>. QED
        BY <2>5, <2>9, <4>1, StripFacts DEF Truthful
    <3>3. tabs # <<>>
      BY <3>2 DEF ToSet
    <3>. QED
      BY <2>3, <2>6, <2>7, <2>8, <3>1, <3>2, <3>3, ATruthfulStrip
  <2>10. CASE h.active = t /\ tabs = <<>>
    <3>1. Closes(h, t) = [ClosedTab(h, t) EXCEPT !.active = NoTab]
      BY <1>2, <2>8, <2>10 DEF Closes
    <3>2. Closes(h, t) = [tabs |-> tabs, active |-> NoTab, dirty |-> dirty, starred |-> starred]
      BY <2>8, <3>1
    <3>3. Truthful([tabs |-> tabs, active |-> NoTab, dirty |-> dirty, starred |-> starred])
      BY <2>3, <2>6, <2>7, <2>10, ATruthfulStrip
    <3>. QED
      BY <3>2, <3>3, Zenon
  <2>11. CASE h.active = t /\ tabs # <<>>
    <3>. DEFINE r == [tabs |-> tabs, active |-> NoTab, dirty |-> dirty, starred |-> starred]
    <3>1. Closes(h, t) = Selects(r, tabs[next])
      BY <1>2, <2>8, <2>11 DEF Closes, k
    <3>2. next \in 1 .. (n - 1)
      <4>1. n - 1 # 0
        BY <2>3, <2>11, EmptySeq
      <4>. QED
        BY <2>0, <2>1, <2>3, <4>1 DEF Smaller
    <3>. HIDE DEF next
    <3>. DEFINE u == tabs[next]
    <3>3. u \in TabPaths /\ u \in ToSet(tabs) /\ Contains(tabs, u) /\ u # NoTab
      <4>1. u \in TabPaths
        BY <2>3, <3>2, ElementOfSeq
      <4>2. u \in ToSet(tabs) /\ Contains(tabs, u)
        BY <2>3, <2>4, <3>2 DEF ToSet, Contains
      <4>. QED
        BY <4>1, <4>2
    <3>. HIDE DEF u
    <3>4. Closes(h, t) = [tabs |-> tabs, active |-> u, dirty |-> dirty, starred |-> starred]
      BY <3>1, <3>3 DEF Selects, u
    <3>. QED
      BY <2>3, <2>6, <2>7, <2>11, <3>3, <3>4, ATruthfulStrip
  <2>. QED
    BY <2>9, <2>10, <2>11
<1>. QED
  BY <1>1, <1>2

LEMMA TabsKeep ==
  ASSUME Truthful(header), [WsNext]_wsvars
  PROVE  Truthful(header')
<1>1. ASSUME HeaderStep PROVE Truthful(header')
  <2>1. ASSUME NEW t \in TabPaths, header' \in {Opens(header, t), Selects(header, t), Closes(header, t)}
        PROVE  Truthful(header')
    BY <2>1, OpensKeeps, SelectsKeeps, ClosesKeeps
  <2>2. ASSUME NEW t \in TabPaths, header' \in {SetDirty(header, t, on) : on \in BOOLEAN}
        PROVE  Truthful(header')
    <3>1. PICK on \in BOOLEAN : header' = SetDirty(header, t, on)
      BY <2>2
    <3>. QED
      BY <3>1, SetDirtyKeeps
  <2>3. CASE header' = ClosesAll(header)
    BY <2>3, ClosesAllKeeps
  <2>. QED
    BY <1>1, <2>1, <2>2, <2>3, Zenon DEF HeaderStep
<1>2. UNCHANGED header => Truthful(header')
  BY Zenon
<1>. QED
  BY <1>1, <1>2, Zenon DEF WsNext, SashStep, Toggle, PressSash, ReleaseSash, Drag, MovePointer, wsvars

-----------------------------------------------------------------------------
(* The frame shows what it holds: a dragged rail follows the pointer       *)
(* within the room, a rail shows its content while it is open, the strip   *)
(* its active tab and its stars, for any rails, rooms and tabs.            *)
THEOREM FrameIsAlwaysTrue == WsSpec => []FrameIsTrue
<1>1. FrameInv /\ [WsNext]_wsvars => FrameInv'
  <2>1. ASSUME FrameInv, [WsNext]_wsvars PROVE SashInv' /\ Truthful(header')
    BY <2>1, SashesKeep, TabsKeep DEF FrameInv
  <2>. QED
    BY <2>1, Zenon DEF FrameInv, Truthful, Headers
<1>2. FrameInv => FrameIsTrue
  <2>. SUFFICES ASSUME FrameInv PROVE FrameIsTrue
    OBVIOUS
  <2>1. HeaderTellsTheTruth
    BY Zenon DEF FrameInv, Truthful, HeaderTellsTheTruth
  <2>2. ASSUME NEW r \in RailNames PROVE rail[r].packed <=> rail[r].expanded
    BY Zenon DEF FrameInv, SashInv
  <2>3. ASSUME NEW r \in RailNames, sash[r].dragging, sash[r].moved
        PROVE  /\ rail[r].width >= MinPane
               /\ room >= 2 * MinPane + Sash => rail[r].width + Sash + MinPane <= room
               /\ MinPane < rail[r].width /\ rail[r].width + Sash + MinPane < room
                    => rail[r].width - pointer = sash[r].gap
    <3>1. rail[r].width = Size(r, pointer) /\ sash[r].gap = sash[r].size - sash[r].from
      BY <2>3, Zenon DEF FrameInv, SashInv
    <3>2. /\ sash[r].size \in Int /\ sash[r].from \in Int /\ sash[r].gap \in Int
          /\ room \in Nat /\ pointer \in Int
      BY DEF FrameInv, SashInv, SashStates
    <3>. QED
      BY <3>1, <3>2 DEF Size, Larger, Smaller
  <2>. QED
    BY <2>1, <2>2, <2>3, Zenon DEF FrameIsTrue, SashesFollowThePointer
<1>. QED
  BY <1>1, <1>2, FrameInit, PTL DEF WsSpec

-----------------------------------------------------------------------------
(***************************************************************************)
(* Closing every tab, of the bar or of the header, and writing every       *)
(* parameter of a query: one after the other.                              *)
(***************************************************************************)
Stepped(h, d, f) ==
  IF h = "header" THEN HeaderClose(d, f) ELSE IF h = "bar" THEN BarClose(d, f) ELSE Replaced(d, f)

\* A least counterexample: what an induction is made from.
LEMMA Least ==
  ASSUME NEW T, T \subseteq Nat, T # {}
  PROVE  \E i \in T : \A j \in T : i <= j
<1>. DEFINE less == {p \in Nat \X Nat : p[1] < p[2]}
<1>1. IsWellFoundedOn(less, Nat)
  BY NatLessThanWellFounded DEF OpToRel
<1>2. \A i, j \in Nat : <<j, i>> \in less <=> j < i
  OBVIOUS
<1>. HIDE DEF less
<1>3. PICK i \in T : \A j \in T : ~(<<j, i>> \in less)
  BY <1>1, WFMin
<1>4. \A j \in T : ~(j < i)
  BY <1>2, <1>3
<1>5. \A j \in T : j \in Nat /\ i \in Nat
  OBVIOUS
<1>. QED
  BY <1>4, <1>5

LEMMA LargestPlace ==
  ASSUME NEW n \in Nat, NEW s \in SUBSET (1 .. n), s # {}
  PROVE  Max(s) \in s /\ \A y \in s : Max(s) >= y
<1>. DEFINE T == {n - x : x \in s}
<1>1. T \subseteq Nat /\ T # {}
  <2>1. \A x \in s : n - x \in Nat
    OBVIOUS
  <2>2. PICK z \in s : TRUE
    OBVIOUS
  <2>. QED
    BY <2>1, <2>2, Zenon
<1>2. PICK m \in T : \A t \in T : m <= t
  <2>. HIDE DEF T
  <2>. QED
    BY <1>1, Least
<1>3. PICK x \in s : m = n - x
  OBVIOUS
<1>4. \A y \in s : x >= y
  <2>. TAKE y \in s
  <2>1. n - y \in T
    OBVIOUS
  <2>2. m <= n - y
    BY <1>2, <2>1
  <2>. QED
    BY <1>3, <2>2
<1>. QED
  BY <1>4, Zenon DEF Max

Chain(h, d, tabs, n, it) ==
  it = [s \in SUBSET (1 .. n) |-> IF s = {} THEN d ELSE Stepped(h, it[s \ {Max(s)}], tabs[Max(s)])]

LEMMA ChainExtends ==
  ASSUME NEW h, NEW d, NEW tabs, NEW n \in Nat, n # 0, NEW it, Chain(h, d, tabs, n - 1, it)
  PROVE  \E more : Chain(h, d, tabs, n, more)
<1>. DEFINE more == [s \in SUBSET (1 .. n) |-> IF n \in s THEN Stepped(h, it[s \ {n}], tabs[n]) ELSE it[s]]
            next == [s \in SUBSET (1 .. n) |-> IF s = {} THEN d ELSE Stepped(h, more[s \ {Max(s)}], tabs[Max(s)])]
<1>1. ASSUME NEW s \in SUBSET (1 .. n), n \in s
      PROVE  Max(s) = n /\ s # {} /\ s \ {n} \in SUBSET (1 .. n) /\ more[s \ {n}] = it[s \ {n}]
  <2>1. s # {} /\ Max(s) \in s /\ Max(s) >= n
    BY <1>1, LargestPlace
  <2>2. Max(s) \in 1 .. n
    BY <2>1
  <2>3. s \ {n} \in SUBSET (1 .. n) /\ n \notin s \ {n}
    OBVIOUS
  <2>4. more[s \ {n}] = it[s \ {n}]
    BY <2>3, Zenon
  <2>. QED
    BY <2>1, <2>2, <2>3, <2>4
<1>2. ASSUME NEW s \in SUBSET (1 .. n), n \notin s
      PROVE  /\ s \in SUBSET (1 .. (n - 1))
             /\ s # {} => /\ s \ {Max(s)} \in SUBSET (1 .. n)
                          /\ more[s \ {Max(s)}] = it[s \ {Max(s)}]
  <2>1. s \in SUBSET (1 .. (n - 1))
    BY <1>2
  <2>2. s \ {Max(s)} \in SUBSET (1 .. n) /\ n \notin s \ {Max(s)}
    BY <1>2
  <2>3. more[s \ {Max(s)}] = it[s \ {Max(s)}]
    BY <2>2, Zenon
  <2>. QED
    BY <2>1, <2>2, <2>3
<1>3. ASSUME NEW s \in SUBSET (1 .. n)
      PROVE  more[s] = next[s]
  <2>1. CASE n \in s
    <3>. DEFINE m == Max(s)
    <3>1. m = n /\ s # {} /\ more[s \ {n}] = it[s \ {n}]
      BY <1>1, <2>1
    <3>2. next[s] = Stepped(h, more[s \ {m}], tabs[m])
      BY <3>1, Zenon
    <3>3. more[s] = Stepped(h, it[s \ {n}], tabs[n])
      BY <2>1, Zenon
    <3>. HIDE DEF more, next, m
    <3>. QED
      BY <3>1, <3>2, <3>3, Zenon
  <2>2. CASE n \notin s
    <3>1. more[s] = it[s]
      BY <2>2, Zenon
    <3>2. it[s] = IF s = {} THEN d ELSE Stepped(h, it[s \ {Max(s)}], tabs[Max(s)])
      BY <1>2, <2>2, Zenon DEF Chain
    <3>3. next[s] = IF s = {} THEN d ELSE Stepped(h, more[s \ {Max(s)}], tabs[Max(s)])
      BY Zenon
    <3>4. s # {} => more[s \ {Max(s)}] = it[s \ {Max(s)}]
      BY <1>2, <2>2
    <3>. HIDE DEF more, next
    <3>. QED
      BY <3>1, <3>2, <3>3, <3>4, Zenon
  <2>. QED
    BY <2>1, <2>2
<1>4. more = next
  <2>1. DOMAIN more = SUBSET (1 .. n) /\ DOMAIN next = SUBSET (1 .. n)
    OBVIOUS
  <2>2. more = [s \in SUBSET (1 .. n) |-> next[s]]
    BY <1>3, Zenon
  <2>3. next = [s \in SUBSET (1 .. n) |-> next[s]]
    BY Zenon
  <2>. QED
    BY <2>2, <2>3, Zenon
<1>. QED
  BY <1>4, Zenon DEF Chain

LEMMA ChainExists ==
  ASSUME NEW h, NEW d, NEW tabs, NEW n \in Nat
  PROVE  \E it : Chain(h, d, tabs, n, it)
<1>. DEFINE T == {k \in Nat : ~ \E it : Chain(h, d, tabs, k, it)}
<1>1. SUFFICES ASSUME n \in T PROVE FALSE
  BY Zenon
<1>2. PICK k \in T : \A t \in T : k <= t
  <2>1. T \subseteq Nat /\ T # {}
    BY <1>1
  <2>. HIDE DEF T
  <2>. QED
    BY <2>1, Least
<1>3. k \in Nat /\ ~ \E it : Chain(h, d, tabs, k, it)
  BY Zenon
<1>4. k # 0
  <2>1. SUBSET (1 .. 0) = {{}}
    OBVIOUS
  <2>. DEFINE it == [s \in SUBSET (1 .. 0) |-> d]
  <2>2. \A s \in SUBSET (1 .. 0) : s = {}
    BY <2>1
  <2>3. it = [s \in SUBSET (1 .. 0) |-> IF s = {} THEN d ELSE Stepped(h, it[s \ {Max(s)}], tabs[Max(s)])]
    BY <2>2, Zenon
  <2>4. Chain(h, d, tabs, 0, it)
    BY <2>3, Zenon DEF Chain
  <2>. QED
    BY <1>3, <2>4, Zenon
<1>5. k - 1 \in Nat /\ ~(k <= k - 1)
  BY <1>3, <1>4
<1>6. k - 1 \notin T
  <2>. HIDE DEF T
  <2>. QED
    BY <1>2, <1>5
<1>7. PICK it : Chain(h, d, tabs, k - 1, it)
  BY <1>5, <1>6, Zenon
<1>8. \E more : Chain(h, d, tabs, k, more)
  BY <1>3, <1>4, <1>7, ChainExtends
<1>. QED
  BY <1>3, <1>8

\* What the recursion gives for the first k elements, k by k.
Run(h, d, tabs, n, texts) ==
  texts[0] = d /\ \A k \in 1 .. n : texts[k] = Stepped(h, texts[k - 1], tabs[k])

LEMMA ChainRuns ==
  ASSUME NEW h, NEW d, NEW tabs, NEW n \in Nat, NEW it, Chain(h, d, tabs, n, it)
  PROVE  \E texts : Run(h, d, tabs, n, texts) /\ texts[n] = it[1 .. n]
<1>. DEFINE texts == [k \in 0 .. n |-> it[1 .. k]]
<1>1. \A s \in SUBSET (1 .. n) : it[s] = IF s = {} THEN d ELSE Stepped(h, it[s \ {Max(s)}], tabs[Max(s)])
  BY Zenon DEF Chain
<1>2. texts[0] = d
  <2>1. 1 .. 0 = {} /\ 1 .. 0 \in SUBSET (1 .. n) /\ 0 \in 0 .. n
    OBVIOUS
  <2>2. it[1 .. 0] = d
    BY <1>1, <2>1, Zenon
  <2>. QED
    BY <2>1, <2>2, Zenon
<1>3. ASSUME NEW k \in 1 .. n
      PROVE  texts[k] = Stepped(h, texts[k - 1], tabs[k])
  <2>1. 1 .. k \in SUBSET (1 .. n) /\ 1 .. k # {} /\ k \in 0 .. n /\ k - 1 \in 0 .. n /\ k \in Nat
    <3>1. k \in Nat /\ k >= 1 /\ k <= n /\ k \in 0 .. n /\ k - 1 \in 0 .. n
      OBVIOUS
    <3>2. \A i \in 1 .. k : i \in 1 .. n
      BY <3>1
    <3>3. k \in 1 .. k
      BY <3>1
    <3>. QED
      BY <3>1, <3>2, <3>3, Zenon
  <2>2. Max(1 .. k) = k
    <3>1. 1 .. k \in SUBSET (1 .. k) /\ k \in 1 .. k
      BY <2>1
    <3>2. Max(1 .. k) \in 1 .. k /\ Max(1 .. k) >= k
      BY <2>1, <3>1, LargestPlace
    <3>. QED
      BY <2>1, <3>2
  <2>3. (1 .. k) \ {k} = 1 .. (k - 1)
    BY <2>1
  <2>4. it[1 .. k] = Stepped(h, it[(1 .. k) \ {k}], tabs[k])
    BY <1>1, <2>1, <2>2, Zenon
  <2>5. it[1 .. k] = Stepped(h, it[1 .. (k - 1)], tabs[k])
    BY <2>3, <2>4, Zenon
  <2>6. texts[k] = it[1 .. k] /\ texts[k - 1] = it[1 .. (k - 1)]
    BY <2>1, Zenon
  <2>. QED
    BY <2>5, <2>6, Zenon
<1>4. texts[n] = it[1 .. n]
  OBVIOUS
<1>. QED
  <2>. HIDE DEF texts
  <2>. QED
    BY <1>2, <1>3, <1>4, Zenon DEF Run

Strip(h, d) == IF h = "header" THEN d.header ELSE d.bar
AllClosed(h, d) == IF h = "header" THEN HeaderCloseAll(d) ELSE BarCloseAll(d)

\* close_all runs through desks: the first is the given one, each next has one
\* more tab closed, and the last is the result.
LEMMA ClosedOneByOne ==
  ASSUME NEW h \in {"bar", "header"}, NEW d, DOMAIN Strip(h, d) = 1 .. Len(Strip(h, d)), Len(Strip(h, d)) \in Nat
  PROVE  \E desks : /\ desks[0] = d
                    /\ \A k \in 1 .. Len(Strip(h, d)) : desks[k] = Stepped(h, desks[k - 1], Strip(h, d)[k])
                    /\ desks[Len(Strip(h, d))] = AllClosed(h, d)
<1>. DEFINE tabs == Strip(h, d)
            n == Len(tabs)
            it == CHOOSE f : Chain(h, d, tabs, n, f)
<1>1. Chain(h, d, tabs, n, it)
  BY ChainExists, Zenon
<1>2. it[1 .. n] = AllClosed(h, d)
  <2>0. DOMAIN tabs = 1 .. n
    OBVIOUS
  <2>1. CASE h = "header"
    <3>1. tabs = d.header /\ AllClosed(h, d) = HeaderCloseAll(d)
      BY <2>1 DEF Strip, AllClosed
    <3>. DEFINE Same(f) == f = [s \in SUBSET (DOMAIN d.header) |->
                                  IF s = {} THEN d
                                  ELSE HeaderClose(f[s \ {Max(s)}], d.header[Max(s)])]
    <3>2. HeaderCloseAll(d) = (CHOOSE f : Same(f))[DOMAIN d.header]
      BY Zenon DEF HeaderCloseAll, FoldLeft, MapThenFoldSet
    <3>3. \A f : Chain(h, d, tabs, n, f) <=> Same(f)
      BY <2>0, <2>1, <3>1 DEF Chain, Stepped
    <3>. HIDE DEF Same, tabs
    <3>4. (CHOOSE f : Chain(h, d, tabs, n, f)) = (CHOOSE f : Same(f))
      BY <3>3
    <3>. QED
      BY <2>0, <3>1, <3>2, <3>4
  <2>2. CASE h = "bar"
    <3>1. tabs = d.bar /\ AllClosed(h, d) = BarCloseAll(d)
      BY <2>2 DEF Strip, AllClosed
    <3>. DEFINE Same(f) == f = [s \in SUBSET (DOMAIN d.bar) |->
                                  IF s = {} THEN d
                                  ELSE BarClose(f[s \ {Max(s)}], d.bar[Max(s)])]
    <3>2. BarCloseAll(d) = (CHOOSE f : Same(f))[DOMAIN d.bar]
      BY Zenon DEF BarCloseAll, FoldLeft, MapThenFoldSet
    <3>3. \A f : Chain(h, d, tabs, n, f) <=> Same(f)
      BY <2>0, <2>2, <3>1 DEF Chain, Stepped
    <3>. HIDE DEF Same, tabs
    <3>4. (CHOOSE f : Chain(h, d, tabs, n, f)) = (CHOOSE f : Same(f))
      BY <3>3
    <3>. QED
      BY <2>0, <3>1, <3>2, <3>4
  <2>. QED
    BY <2>1, <2>2
<1>. HIDE DEF it
<1>3. n \in Nat
  OBVIOUS
<1>4. PICK desks : Run(h, d, tabs, n, desks) /\ desks[n] = it[1 .. n]
  <2>. HIDE DEF tabs, n
  <2>. QED
    BY <1>1, <1>3, ChainRuns
<1>. QED
  BY <1>2, <1>4, Zenon DEF Run

-----------------------------------------------------------------------------
(***************************************************************************)
(* One tab opened or closed in a strip.                                    *)
(***************************************************************************)
LEMMA TabOpened ==
  ASSUME NEW S, NEW tabs \in Seq(S), IsInjective(tabs), NEW f \in S
  PROVE  /\ Opened(tabs, f) \in Seq(S) /\ IsInjective(Opened(tabs, f))
         /\ Range(Opened(tabs, f)) = Range(tabs) \cup {f}
<1>0. Len(tabs) \in Nat /\ DOMAIN tabs = 1 .. Len(tabs) /\ \A i \in 1 .. Len(tabs) : tabs[i] \in S
  BY LenProperties, ElementOfSeq
<1>1. CASE Contains(tabs, f)
  <2>1. f \in Range(tabs)
    BY <1>0, <1>1 DEF Contains, Range
  <2>2. Range(tabs) \cup {f} = Range(tabs)
    BY <2>1
  <2>. QED
    BY <1>1, <2>2 DEF Opened
<1>2. CASE ~Contains(tabs, f)
  <2>. DEFINE more == Append(tabs, f)
  <2>1. more \in Seq(S) /\ Len(more) = Len(tabs) + 1
        /\ (\A i \in 1 .. Len(tabs) : more[i] = tabs[i]) /\ more[Len(tabs) + 1] = f
    BY AppendProperties
  <2>2. Opened(tabs, f) = more
    BY <1>2 DEF Opened
  <2>3. DOMAIN more = 1 .. (Len(tabs) + 1)
    BY <2>1, LenProperties, Zenon
  <2>. HIDE DEF more
  <2>4. \A i \in 1 .. (Len(tabs) + 1) : i \in 1 .. Len(tabs) \/ i = Len(tabs) + 1
    BY <1>0
  <2>5. \A i \in 1 .. Len(tabs) : tabs[i] # f
    BY <1>0, <1>2 DEF Contains
  <2>6. IsInjective(more)
    BY <1>0, <2>1, <2>3, <2>4, <2>5 DEF IsInjective
  <2>7. \A x : x \in Range(more) <=> x \in Range(tabs) \/ x = f
    <3>1. Len(tabs) + 1 \in 1 .. (Len(tabs) + 1) /\ \A i \in 1 .. Len(tabs) : i \in 1 .. (Len(tabs) + 1)
      BY <1>0
    <3>. QED
      BY <1>0, <2>1, <2>3, <2>4, <3>1, Zenon DEF Range
  <2>. QED
    BY <2>1, <2>2, <2>6, <2>7
<1>. QED
  BY <1>1, <1>2

LEMMA TabClosed ==
  ASSUME NEW S, NEW tabs \in Seq(S), IsInjective(tabs), NEW f, Contains(tabs, f)
  PROVE  LET rest == RemoveAt(tabs, Place(tabs, f))
         IN  /\ rest \in Seq(S) /\ IsInjective(rest)
             /\ Range(rest) = Range(tabs) \ {f}
             /\ Neighbour(tabs, f) \in Range(rest) \cup {None}
<1>. DEFINE p == Place(tabs, f)
            rest == RemoveAt(tabs, p)
            n == Len(tabs)
<1>0. n \in Nat /\ DOMAIN tabs = 1 .. n /\ \A i \in 1 .. n : tabs[i] \in S
  BY LenProperties, ElementOfSeq
<1>1. p \in 1 .. n /\ tabs[p] = f
  BY <1>0 DEF Contains, Place
<1>2. rest \in Seq(S) /\ Len(rest) = n - 1
      /\ \A j \in 1 .. (n - 1) : rest[j] = tabs[IF j < p THEN j ELSE j + 1]
  BY <1>0, <1>1, Removed
<1>3. Len(rest) \in Nat /\ DOMAIN rest = 1 .. (n - 1)
  BY <1>2, LenProperties
<1>. HIDE DEF p, rest, n
<1>4. IsInjective(rest)
  <2>1. SUFFICES ASSUME NEW i \in 1 .. (n - 1), NEW j \in 1 .. (n - 1), rest[i] = rest[j]
                 PROVE  i = j
    BY <1>3 DEF IsInjective
  <2>. DEFINE a == IF i < p THEN i ELSE i + 1
              b == IF j < p THEN j ELSE j + 1
  <2>2. a \in 1 .. n /\ b \in 1 .. n
    BY <1>0, <1>1
  <2>3. rest[i] = tabs[a] /\ rest[j] = tabs[b]
    BY <1>2, Zenon
  <2>. HIDE DEF a, b
  <2>4. a = b
    BY <1>0, <2>1, <2>2, <2>3 DEF IsInjective
  <2>. QED
    BY <1>0, <1>1, <2>4 DEF a, b
<1>5. \A x : x \in Range(rest) <=> x \in Range(tabs) /\ x # f
  <2>1. ASSUME NEW j \in 1 .. (n - 1)
        PROVE  rest[j] \in Range(tabs) /\ rest[j] # f
    <3>. DEFINE b == IF j < p THEN j ELSE j + 1
    <3>1. b \in 1 .. n /\ b # p
      BY <1>0, <1>1
    <3>2. rest[j] = tabs[b]
      BY <1>2, Zenon
    <3>. HIDE DEF b
    <3>. QED
      BY <1>0, <1>1, <3>1, <3>2 DEF IsInjective, Range
  <2>2. ASSUME NEW i \in 1 .. n, tabs[i] # f
        PROVE  \E j \in 1 .. (n - 1) : rest[j] = tabs[i]
    <3>1. i # p
      BY <1>1, <2>2
    <3>2. CASE i < p
      <4>1. i \in 1 .. (n - 1)
        BY <1>0, <1>1, <3>2
      <4>. QED
        BY <1>2, <3>2, <4>1
    <3>3. CASE p < i
      <4>1. i - 1 \in 1 .. (n - 1) /\ ~(i - 1 < p) /\ (i - 1) + 1 = i
        BY <1>0, <1>1, <3>3
      <4>. QED
        BY <1>2, <4>1
    <3>. QED
      BY <1>0, <1>1, <3>1, <3>2, <3>3
  <2>. QED
    BY <1>0, <1>3, <2>1, <2>2, Zenon DEF Range
<1>6. Neighbour(tabs, f) \in Range(rest) \cup {None}
  <2>1. CASE rest = <<>>
    BY <2>1 DEF Neighbour, rest, p
  <2>2. CASE rest # <<>>
    <3>. DEFINE q == IF p < Len(rest) THEN p ELSE Len(rest)
    <3>1. Len(rest) # 0
      BY <1>2, <2>2, EmptySeq
    <3>2. q \in 1 .. (n - 1)
      BY <1>0, <1>1, <1>2, <3>1
    <3>3. Neighbour(tabs, f) = rest[q]
      BY <2>2, Zenon DEF Neighbour, rest, p
    <3>. HIDE DEF q
    <3>. QED
      BY <1>3, <3>2, <3>3 DEF Range
  <2>. QED
    BY <2>1, <2>2
<1>. QED
  BY <1>2, <1>4, <1>5, <1>6 DEF rest, p

-----------------------------------------------------------------------------
(***************************************************************************)
(* The desk: what its fields are, that what is highlighted is a tab, and   *)
(* that the texts are those of the document, or will be once the newest    *)
(* preview has been posted.  The snapshot of an undo may be of any         *)
(* document, so u says whether one was put into the editor.                *)
(***************************************************************************)
Desks == [file : Files \cup {None}, sql : Texts, pane : Texts, opt : Texts,
          bar : Seq(Files), active : Files \cup {None},
          header : Seq(Files \cup {Scratch}), headerActive : Files \cup {Scratch, None},
          open : [Files -> Nat], posts : Seq(Texts), listed : SUBSET Files,
          overtaken : BOOLEAN, dropped : SUBSET (Files \cup {Scratch}),
          away : SUBSET Files, failed : BOOLEAN, steps : Nat]

Strips(d) == /\ d \in Desks
             /\ IsInjective(d.bar) /\ IsInjective(d.header)
             /\ d.active \in Range(d.bar) \cup {None}
             /\ d.headerActive \in Range(d.header) \cup {None}

TextsHeld(d, u) ==
  d.file # None /\ ~u =>
    /\ d.sql.of = d.file /\ d.pane.of = d.file
    /\ d.posts = <<>> /\ ~d.overtaken => d.opt.of = d.file
    /\ d.posts # <<>> /\ ~d.overtaken => Last(d.posts).of = d.file

Shape(d, u) == Strips(d) /\ TextsHeld(d, u)

Remembers(d) == \A f \in Range(d.bar) : d.open[f] > 0 \/ f \in d.dropped
Agree(d) == /\ d.active # None /\ ~d.failed => d.file = d.active
            /\ Remembers(d)

DiskHeld(u) == disk \in [Files -> Texts] /\ (~u => \A f \in Files : disk[f].of = f)

LEMMA TextsStayOfTheirFile ==
  ASSUME NEW t \in Texts
  PROVE  First(t) \in Texts /\ First(t).of = t.of /\ Cut(t) \in Texts /\ Cut(t).of = t.of
BY DEF First, Cut, Texts, Kinds

\* The desk x that shows the file f, made from the desk d.
ShownAs(x, d, f, u) ==
  /\ Shape(x, u)
  /\ x.file = f /\ x.active = f /\ x.bar = Opened(d.bar, f) /\ x.dropped = d.dropped \ {f}
  /\ x.open = [d.open EXCEPT ![f] = @ + 1] /\ x.failed = FALSE

LEMMA DeskLoaded ==
  ASSUME NEW d \in Desks, IsInjective(d.bar), IsInjective(d.header),
         NEW f \in Files, NEW t \in Texts, NEW u \in BOOLEAN, u \/ t.of = f
  PROVE  ShownAs(Loaded(d, f, t), d, f, u)
<1>. DEFINE x == Loaded(d, f, t)
            bar == Opened(d.bar, f)
            head == Opened(d.header, f)
            opens == [d.open EXCEPT ![f] = @ + 1]
            later == Append(d.posts, First(t))
<1>1. bar \in Seq(Files) /\ IsInjective(bar) /\ f \in Range(bar)
  BY TabOpened DEF Desks
<1>2. head \in Seq(Files \cup {Scratch}) /\ IsInjective(head) /\ f \in Range(head)
  <2>1. d.header \in Seq(Files \cup {Scratch}) /\ f \in Files \cup {Scratch}
    BY DEF Desks
  <2>. QED
    BY <2>1, TabOpened
<1>3. opens \in [Files -> Nat]
  BY DEF Desks
<1>4. later \in Seq(Texts) /\ later # <<>> /\ Last(later) = First(t)
  <2>. DEFINE t1 == First(t)
              before == d.posts
  <2>1. t1 \in Texts /\ before \in Seq(Texts)
    BY TextsStayOfTheirFile DEF Desks
  <2>. HIDE DEF t1, before
  <2>2. Append(before, t1) \in Seq(Texts) /\ Append(before, t1) # <<>> /\ Last(Append(before, t1)) = t1
    <3>1. Append(before, t1) \in Seq(Texts) /\ Len(Append(before, t1)) = Len(before) + 1
          /\ Append(before, t1)[Len(before) + 1] = t1 /\ Len(before) \in Nat
      BY <2>1, AppendProperties, LenProperties
    <3>2. Append(before, t1) # <<>>
      BY <3>1, EmptySeq
    <3>. QED
      BY <3>1, <3>2 DEF Last
  <2>. QED
    BY <2>2 DEF t1, before
<1>5. x = [d EXCEPT !.file = f, !.sql = t, !.pane = t, !.opt = t, !.bar = bar, !.active = f,
                    !.header = head, !.headerActive = f, !.open = opens, !.posts = later,
                    !.overtaken = FALSE, !.dropped = d.dropped \ {f}, !.failed = FALSE]
  BY Zenon DEF Loaded
<1>. HIDE DEF bar, head, opens, later
<1>6. /\ x \in Desks
      /\ x.file = f /\ x.sql = t /\ x.pane = t /\ x.opt = t /\ x.bar = bar /\ x.active = f
      /\ x.header = head /\ x.headerActive = f /\ x.open = opens /\ x.posts = later
      /\ x.overtaken = FALSE /\ x.dropped = d.dropped \ {f} /\ x.failed = FALSE
  <2>. HIDE DEF x
  <2>1. d \in Desks /\ f \in Files /\ t \in Texts /\ d.dropped \ {f} \in SUBSET (Files \cup {Scratch})
    BY DEF Desks
  <2>. HIDE DEF Texts
  <2>. QED
    BY <1>1, <1>2, <1>3, <1>4, <1>5, <2>1 DEF Desks
<1>. HIDE DEF x
<1>7. Strips(x)
  BY <1>1, <1>2, <1>6 DEF Strips
<1>8. TextsHeld(x, u)
  BY <1>4, <1>6, TextsStayOfTheirFile DEF TextsHeld
<1>. QED
  BY <1>6, <1>7, <1>8 DEF Shape, ShownAs, x, bar, opens

LEMMA DeskForgets ==
  ASSUME NEW d, NEW u, Shape(d, u), NEW f
  PROVE  LET x == Forget(d, f)
         IN  /\ Shape(x, u)
             /\ x.file = d.file /\ x.active = d.active /\ x.bar = d.bar /\ x.dropped = d.dropped /\ x.failed = d.failed
             /\ x.open \in [Files -> Nat] /\ \A g \in Files : g # f => x.open[g] = d.open[g]
<1>1. d \in Desks
  BY DEF Shape, Strips
<1>2. CASE f \in Files /\ d.open[f] > 0
  <2>. DEFINE opens == [d.open EXCEPT ![f] = @ - 1]
              x == Forget(d, f)
  <2>1. opens \in [Files -> Nat] /\ \A g \in Files : g # f => opens[g] = d.open[g]
    BY <1>1, <1>2 DEF Desks
  <2>2. x = [d EXCEPT !.open = opens]
    BY <1>2, Zenon DEF Forget
  <2>. HIDE DEF opens
  <2>3. /\ x \in Desks /\ x.open = opens
        /\ x.file = d.file /\ x.sql = d.sql /\ x.pane = d.pane /\ x.opt = d.opt /\ x.bar = d.bar
        /\ x.active = d.active /\ x.header = d.header /\ x.headerActive = d.headerActive
        /\ x.posts = d.posts /\ x.overtaken = d.overtaken /\ x.dropped = d.dropped /\ x.failed = d.failed
    BY <1>1, <2>1, <2>2 DEF Desks
  <2>. HIDE DEF x
  <2>4. Strips(x)
    BY <2>3 DEF Shape, Strips
  <2>5. TextsHeld(x, u)
    BY <2>3 DEF Shape, TextsHeld
  <2>. QED
    BY <2>1, <2>3, <2>4, <2>5 DEF Shape, x
<1>3. CASE ~(f \in Files /\ d.open[f] > 0)
  <2>1. Forget(d, f) = d
    BY <1>3 DEF Forget
  <2>. QED
    BY <1>1, <2>1 DEF Desks
<1>. QED
  BY <1>2, <1>3

\* A file that is shown is the document, and its tab is highlighted and remembered.
LEMMA LoadedAgrees ==
  ASSUME NEW d \in Desks, IsInjective(d.bar), IsInjective(d.header), NEW u \in BOOLEAN,
         NEW f \in Files, NEW t \in Texts, u \/ t.of = f
  PROVE  LET x == Loaded(d, f, t)
         IN  /\ Shape(x, u) /\ Range(x.bar) = Range(d.bar) \cup {f}
             /\ x.active # None /\ ~x.failed => x.file = x.active
             /\ Remembers(d) => Remembers(x)
<1>. DEFINE x == Loaded(d, f, t)
<1>1. /\ Shape(x, u) /\ x.file = f /\ x.active = f /\ x.bar = Opened(d.bar, f)
      /\ x.dropped = d.dropped \ {f} /\ x.open = [d.open EXCEPT ![f] = @ + 1] /\ x.failed = FALSE
  <2>1. ShownAs(x, d, f, u)
    BY DeskLoaded, Zenon
  <2>. HIDE DEF x
  <2>. QED
    BY <2>1, Zenon DEF ShownAs
<1>. HIDE DEF x
<1>2. d.bar \in Seq(Files) /\ d.open \in [Files -> Nat]
  BY DEF Desks
<1>3. Range(x.bar) = Range(d.bar) \cup {f} /\ Range(d.bar) \subseteq Files
  <2>1. Range(Opened(d.bar, f)) = Range(d.bar) \cup {f}
    BY <1>2, TabOpened
  <2>2. Range(d.bar) \subseteq Files
    BY <1>2, LenProperties, ElementOfSeq DEF Range
  <2>. QED
    BY <1>1, <2>1, <2>2
<1>4. ASSUME Remembers(d), NEW g \in Range(d.bar) \cup {f}
      PROVE  x.open[g] > 0 \/ g \in x.dropped
  <2>1. CASE g = f
    BY <1>1, <1>2, <2>1
  <2>2. CASE g # f
    <3>1. g \in Files /\ (d.open[g] > 0 \/ g \in d.dropped)
      BY <1>3, <1>4, <2>2 DEF Remembers
    <3>. QED
      BY <1>1, <1>2, <2>2, <3>1
  <2>. QED
    BY <2>1, <2>2
<1>5. Remembers(d) => Remembers(x)
  BY <1>3, <1>4 DEF Remembers
<1>. QED
  BY <1>1, <1>3, <1>5 DEF x

\* The preview of a file on disk, cut or not, or none of a file that is away.
LEMMA DeskPreviewed ==
  ASSUME NEW d, NEW u \in BOOLEAN, Shape(d, u), DiskHeld(u), NEW f \in Files
  PROVE  LET x == Preview(d, f)
         IN  /\ Shape(x, u)
             /\ Range(x.bar) = Range(d.bar) \/ Range(x.bar) = Range(d.bar) \cup {f}
             /\ (d.active # None /\ ~d.failed => d.file = d.active)
                  => (x.active # None /\ ~x.failed => x.file = x.active)
             /\ Remembers(d) => Remembers(x)
<1>. DEFINE t == Cut(disk[f])
<1>1. disk[f] \in Texts /\ (u \/ disk[f].of = f)
  BY DEF DiskHeld
<1>2. t \in Texts /\ (u \/ t.of = f)
  BY <1>1, TextsStayOfTheirFile
<1>3. CASE f \in d.away
  <2>1. Preview(d, f) = d
    BY <1>3 DEF Preview
  <2>. QED
    BY <2>1
<1>4. CASE f \notin d.away
  <2>1. Preview(d, f) = Loaded(d, f, t)
    BY <1>4 DEF Preview
  <2>2. d \in Desks /\ IsInjective(d.bar) /\ IsInjective(d.header)
    BY DEF Shape, Strips
  <2>. HIDE DEF t
  <2>3. /\ Shape(Loaded(d, f, t), u) /\ Range(Loaded(d, f, t).bar) = Range(d.bar) \cup {f}
        /\ Loaded(d, f, t).active # None /\ ~Loaded(d, f, t).failed => Loaded(d, f, t).file = Loaded(d, f, t).active
        /\ Remembers(d) => Remembers(Loaded(d, f, t))
    BY <1>2, <2>2, LoadedAgrees
  <2>. QED
    BY <2>1, <2>3
<1>. QED
  BY <1>3, <1>4

\* A tab of the bar is highlighted, whether its file can be shown or not.
LEMMA TabActivated ==
  ASSUME NEW d, NEW u \in BOOLEAN, Shape(d, u), DiskHeld(u), NEW f \in Files, f \in Range(d.bar)
  PROVE  LET x == Activate(d, f)
         IN  /\ Shape(x, u) /\ Range(x.bar) = Range(d.bar)
             /\ x.active # None /\ ~x.failed => x.file = x.active
             /\ Remembers(d) => Remembers(x)
<1>. DEFINE a == [d EXCEPT !.active = f, !.failed = TRUE]
<1>1. d \in Desks
  BY DEF Shape, Strips
<1>2. /\ a \in Desks /\ a.active = f /\ a.failed = TRUE
      /\ a.file = d.file /\ a.sql = d.sql /\ a.pane = d.pane /\ a.opt = d.opt /\ a.bar = d.bar
      /\ a.header = d.header /\ a.headerActive = d.headerActive
      /\ a.open = d.open /\ a.posts = d.posts /\ a.overtaken = d.overtaken /\ a.dropped = d.dropped
  BY <1>1 DEF Desks
<1>3. Activate(d, f) = Preview(a, f)
  BY DEF Activate
<1>. HIDE DEF a
<1>4. Shape(a, u)
  <2>1. Strips(a)
    BY <1>2 DEF Shape, Strips
  <2>2. TextsHeld(a, u)
    BY <1>2 DEF Shape, TextsHeld
  <2>. QED
    BY <2>1, <2>2 DEF Shape
<1>5. Remembers(d) => Remembers(a)
  BY <1>2 DEF Remembers
<1>. DEFINE x == Preview(a, f)
<1>6. /\ Shape(x, u) /\ (Range(x.bar) = Range(a.bar) \/ Range(x.bar) = Range(a.bar) \cup {f})
      /\ (a.active # None /\ ~a.failed => a.file = a.active)
                  => (x.active # None /\ ~x.failed => x.file = x.active)
      /\ Remembers(a) => Remembers(x)
  BY <1>4, DeskPreviewed
<1>. HIDE DEF x
<1>7. Range(a.bar) \cup {f} = Range(d.bar)
  BY <1>2
<1>. QED
  BY <1>2, <1>3, <1>5, <1>6, <1>7 DEF x

LEMMA BarTabClosed ==
  ASSUME NEW d, NEW u \in BOOLEAN, Shape(d, u), DiskHeld(u), NEW f \in Files
  PROVE  LET x == BarClose(d, f)
         IN  /\ Shape(x, u)
             /\ Range(x.bar) = Range(d.bar) \ {f}
             /\ Agree(d) => Agree(x)
<1>. USE TabAssumption
<1>0. /\ d \in Desks /\ IsInjective(d.bar) /\ IsInjective(d.header)
      /\ d.bar \in Seq(Files) /\ d.open \in [Files -> Nat]
      /\ d.active \in Range(d.bar) \cup {None}
  BY DEF Shape, Strips, Desks
<1>1. CASE ~Contains(d.bar, f)
  <2>1. f \notin Range(d.bar)
    BY <1>0, <1>1, LenProperties DEF Contains, Range
  <2>2. BarClose(d, f) = d
    BY <1>1 DEF BarClose
  <2>. QED
    BY <2>1, <2>2
<1>2. CASE Contains(d.bar, f)
  <2>. DEFINE rest == RemoveAt(d.bar, Place(d.bar, f))
              next == Neighbour(d.bar, f)
              act == IF d.active = f THEN None ELSE d.active
              closed == [d EXCEPT !.bar = rest, !.active = act]
              moved == IF d.active = f /\ next # None THEN Activate(closed, next) ELSE closed
  <2>1. rest \in Seq(Files) /\ IsInjective(rest) /\ Range(rest) = Range(d.bar) \ {f}
        /\ next \in Range(rest) \cup {None}
    BY <1>0, <1>2, TabClosed
  <2>2. BarClose(d, f) = Forget(moved, f)
    <3>1. closed = [d EXCEPT !.bar = RemoveAt(@, Place(@, f)), !.active = IF @ = f THEN None ELSE @]
      BY Zenon
    <3>. QED
      BY <1>2, <3>1, Zenon DEF BarClose
  <2>. HIDE DEF rest, next
  <2>3. act \in Range(rest) \cup {None} /\ act \in Files \cup {None} /\ Range(rest) \subseteq Files
    <3>1. Range(d.bar) \subseteq Files
      BY <1>0, LenProperties, ElementOfSeq DEF Range
    <3>. QED
      BY <1>0, <2>1, <3>1
  <2>4. act = f => FALSE
    BY <2>1, <2>3
  <2>5. act # None => act = d.active
    OBVIOUS
  <2>5a. d.active # f => act = d.active
    OBVIOUS
  <2>5b. d.active = f => act = None
    OBVIOUS
  <2>. HIDE DEF act
  <2>6. /\ closed \in Desks /\ closed.bar = rest /\ closed.active = act
        /\ closed.file = d.file /\ closed.sql = d.sql /\ closed.pane = d.pane /\ closed.opt = d.opt
        /\ closed.header = d.header /\ closed.headerActive = d.headerActive
        /\ closed.open = d.open /\ closed.posts = d.posts /\ closed.overtaken = d.overtaken
        /\ closed.dropped = d.dropped /\ closed.failed = d.failed
    BY <1>0, <2>1, <2>3 DEF Desks
  <2>. HIDE DEF closed
  <2>7. Shape(closed, u)
    <3>1. Strips(closed)
      BY <2>1, <2>3, <2>6 DEF Shape, Strips
    <3>2. TextsHeld(closed, u)
      BY <2>6 DEF Shape, TextsHeld
    <3>. QED
      BY <3>1, <3>2 DEF Shape
  <2>8. Shape(moved, u) /\ Range(moved.bar) = Range(rest)
        /\ (Agree(d) => Agree(moved))
    <3>0. Remembers(d) => Remembers(closed)
      BY <2>1, <2>6 DEF Remembers
    <3>1. CASE d.active = f /\ next # None
      <4>1. next \in Files /\ next \in Range(rest)
        BY <2>1, <2>3, <3>1
      <4>. DEFINE x == Activate(closed, next)
      <4>2. /\ Shape(x, u) /\ Range(x.bar) = Range(closed.bar)
            /\ x.active # None /\ ~x.failed => x.file = x.active
            /\ Remembers(closed) => Remembers(x)
        BY <2>6, <2>7, <4>1, TabActivated
      <4>3. moved = x
        BY <3>1
      <4>. HIDE DEF x, moved
      <4>. QED
        BY <2>6, <3>0, <4>2, <4>3 DEF Agree
    <3>2. CASE ~(d.active = f /\ next # None)
      <4>1. moved = closed
        BY <3>2
      <4>. HIDE DEF moved
      <4>2. Agree(d) => Agree(closed)
        BY <2>5, <2>6, <3>0 DEF Agree
      <4>. QED
        BY <2>6, <2>7, <4>1, <4>2
    <3>. QED
      BY <3>1, <3>2
  <2>. HIDE DEF moved
  <2>. DEFINE x == Forget(moved, f)
  <2>9. /\ Shape(x, u) /\ x.file = moved.file /\ x.active = moved.active /\ x.bar = moved.bar
        /\ x.dropped = moved.dropped /\ x.failed = moved.failed
        /\ \A g \in Files : g # f => x.open[g] = moved.open[g]
    BY <2>8, DeskForgets
  <2>10. Agree(moved) => Agree(x)
    <3>1. \A g \in Range(rest) : g \in Files /\ g # f
      BY <2>1, <2>3
    <3>. QED
      BY <2>8, <2>9, <3>1 DEF Agree, Remembers
  <2>. QED
    BY <2>1, <2>2, <2>8, <2>9, <2>10
<1>. QED
  BY <1>1, <1>2

LEMMA HeaderTabClosed ==
  ASSUME NEW d, NEW u \in BOOLEAN, Shape(d, u), NEW f \in Files \cup {Scratch}
  PROVE  LET x == HeaderClose(d, f)
         IN  /\ Shape(x, u)
             /\ x.file = d.file /\ x.active = d.active /\ x.bar = d.bar /\ x.dropped = d.dropped /\ x.failed = d.failed
             /\ \A g \in Files : g # f => x.open[g] = d.open[g]
<1>. USE TabAssumption
<1>0. /\ d \in Desks /\ IsInjective(d.bar) /\ IsInjective(d.header)
      /\ d.header \in Seq(Files \cup {Scratch})
      /\ d.headerActive \in Range(d.header) \cup {None}
  BY DEF Shape, Strips, Desks
<1>1. CASE ~Contains(d.header, f)
  <2>1. HeaderClose(d, f) = d
    BY <1>1 DEF HeaderClose
  <2>. QED
    BY <2>1
<1>2. CASE Contains(d.header, f)
  <2>. DEFINE rest == RemoveAt(d.header, Place(d.header, f))
              next == Neighbour(d.header, f)
              act == IF d.headerActive = f THEN next ELSE d.headerActive
              closed == [d EXCEPT !.header = rest, !.headerActive = act]
  <2>1. rest \in Seq(Files \cup {Scratch}) /\ IsInjective(rest) /\ Range(rest) = Range(d.header) \ {f}
        /\ next \in Range(rest) \cup {None}
    BY <1>0, <1>2, TabClosed
  <2>2. HeaderClose(d, f) = Forget(closed, f)
    <3>1. closed = [d EXCEPT !.header = RemoveAt(@, Place(@, f)),
                             !.headerActive = IF @ = f THEN Neighbour(d.header, f) ELSE @]
      BY Zenon
    <3>. QED
      BY <1>2, <3>1, Zenon DEF HeaderClose
  <2>. HIDE DEF rest, next
  <2>3. act \in Range(rest) \cup {None} /\ act \in Files \cup {Scratch, None}
    <3>1. Range(d.header) \subseteq Files \cup {Scratch}
      BY <1>0, LenProperties, ElementOfSeq DEF Range
    <3>. QED
      BY <1>0, <2>1, <3>1
  <2>. HIDE DEF act
  <2>4. /\ closed \in Desks /\ closed.header = rest /\ closed.headerActive = act
        /\ closed.file = d.file /\ closed.sql = d.sql /\ closed.pane = d.pane /\ closed.opt = d.opt
        /\ closed.bar = d.bar /\ closed.active = d.active
        /\ closed.open = d.open /\ closed.posts = d.posts /\ closed.overtaken = d.overtaken
        /\ closed.dropped = d.dropped /\ closed.failed = d.failed
    BY <1>0, <2>1, <2>3 DEF Desks
  <2>. HIDE DEF closed
  <2>5. Shape(closed, u)
    <3>1. Strips(closed)
      BY <2>1, <2>3, <2>4 DEF Shape, Strips
    <3>2. TextsHeld(closed, u)
      BY <2>4 DEF Shape, TextsHeld
    <3>. QED
      BY <3>1, <3>2 DEF Shape
  <2>. QED
    BY <2>2, <2>4, <2>5, DeskForgets
<1>. QED
  BY <1>1, <1>2

\* close_all leaves a strip without tabs, and the texts as they should be.
LEMMA AllTabsClosed ==
  ASSUME NEW h \in {"bar", "header"}, NEW d, NEW u \in BOOLEAN, Shape(d, u), DiskHeld(u)
  PROVE  LET x == AllClosed(h, d)
         IN  /\ Shape(x, u)
             /\ h = "bar" => x.bar = <<>>
             /\ h = "header" => x.bar = d.bar /\ x.active = d.active /\ x.file = d.file
<1>. USE TabAssumption
<1>. DEFINE tabs == Strip(h, d)
            n == Len(tabs)
<1>0. tabs \in Seq(Files \cup {Scratch}) /\ (h = "bar" => tabs \in Seq(Files))
  <2>1. d.bar \in Seq(Files) /\ d.header \in Seq(Files \cup {Scratch})
    BY DEF Shape, Strips, Desks
  <2>2. d.bar \in Seq(Files \cup {Scratch})
    BY <2>1, SeqMonotonic
  <2>. QED
    BY <2>1, <2>2 DEF Strip
<1>1. n \in Nat /\ DOMAIN tabs = 1 .. n
  BY <1>0, LenProperties
<1>2. PICK desks : /\ desks[0] = d
                   /\ \A k \in 1 .. n : desks[k] = Stepped(h, desks[k - 1], tabs[k])
                   /\ desks[n] = AllClosed(h, d)
  BY <1>1, ClosedOneByOne
<1>3. \A k \in 1 .. n : tabs[k] \in Files \cup {Scratch} /\ (h = "bar" => tabs[k] \in Files)
  BY <1>0, ElementOfSeq
<1>. DEFINE After(k) == {tabs[i] : i \in (k + 1) .. n}
            Good(k) == /\ Shape(desks[k], u)
                       /\ h = "bar" => Range(desks[k].bar) \subseteq After(k)
                       /\ h = "header" => /\ desks[k].bar = d.bar /\ desks[k].active = d.active
                                          /\ desks[k].file = d.file
<1>4. Good(0)
  <2>1. h = "bar" => Range(d.bar) \subseteq After(0)
    BY <1>1 DEF Strip, Range
  <2>. QED
    BY <1>2, <2>1
<1>5. ASSUME NEW k \in 1 .. n, Good(k - 1)
      PROVE  Good(k)
  <2>. DEFINE before == desks[k - 1]
              x == desks[k]
              f == tabs[k]
  <2>1. CASE h = "header"
    <3>1. x = HeaderClose(before, f)
      BY <1>2, <2>1, Zenon DEF Stepped
    <3>2. Shape(before, u) /\ f \in Files \cup {Scratch}
      BY <1>3, <1>5
    <3>. HIDE DEF f, x, before
    <3>3. Shape(x, u) /\ x.file = before.file /\ x.active = before.active /\ x.bar = before.bar
      BY <3>1, <3>2, HeaderTabClosed
    <3>. QED
      BY <1>5, <2>1, <3>3 DEF f, x, before
  <2>2. CASE h = "bar"
    <3>1. x = BarClose(before, f)
      BY <1>2, <2>2, Zenon DEF Stepped
    <3>2. Shape(before, u) /\ f \in Files
      BY <1>3, <1>5, <2>2
    <3>. HIDE DEF f, x, before
    <3>3. Shape(x, u) /\ Range(x.bar) = Range(before.bar) \ {f}
      BY <3>1, <3>2, BarTabClosed
    <3>4. \A i \in ((k - 1) + 1) .. n : i = k \/ i \in (k + 1) .. n
      BY <1>1
    <3>5. After(k - 1) \ {f} \subseteq After(k)
      BY <3>4 DEF f
    <3>6. Range(before.bar) \subseteq After(k - 1)
      BY <1>5, <2>2 DEF before
    <3>. HIDE DEF After
    <3>7. Range(x.bar) \subseteq After(k)
      BY <3>3, <3>5, <3>6
    <3>. QED
      BY <2>2, <3>3, <3>7 DEF x
  <2>. QED
    BY <2>1, <2>2
<1>6. Good(n)
  <2>. HIDE DEF Good
  <2>. DEFINE T == {k \in 0 .. n : ~Good(k)}
  <2>1. SUFFICES ASSUME ~Good(n) PROVE FALSE
    OBVIOUS
  <2>2. n \in T /\ T \subseteq Nat
    BY <1>1, <2>1
  <2>3. PICK k \in T : \A t \in T : k <= t
    <3>. HIDE DEF T
    <3>. QED
      BY <2>2, Least
  <2>4. k \in 0 .. n /\ ~Good(k)
    OBVIOUS
  <2>5. k # 0
    BY <1>4, <2>4
  <2>6. k \in 1 .. n /\ k \in Nat /\ k - 1 \in 0 .. n /\ ~(k <= k - 1)
    BY <1>1, <2>4, <2>5
  <2>7. k - 1 \notin T
    <3>. HIDE DEF T
    <3>. QED
      BY <2>3, <2>6
  <2>8. Good(k - 1)
    BY <2>6, <2>7
  <2>. QED
    BY <1>5, <2>4, <2>6, <2>8
<1>7. h = "bar" => desks[n].bar = <<>>
  <2>1. After(n) = {}
    BY <1>1
  <2>2. h = "bar" => Range(desks[n].bar) = {}
    BY <1>6, <2>1
  <2>. DEFINE bar == desks[n].bar
  <2>3. bar \in Seq(Files)
    BY <1>6 DEF Shape, Strips, Desks
  <2>. HIDE DEF bar
  <2>4. bar # <<>> => 1 \in DOMAIN bar
    BY <2>3, EmptySeq, LenProperties
  <2>5. bar # <<>> => bar[1] \in Range(bar)
    BY <2>4 DEF Range
  <2>. QED
    BY <2>2, <2>5 DEF bar
<1>. QED
  BY <1>2, <1>6, <1>7

-----------------------------------------------------------------------------
RingHeld == ring \in Seq(Texts) /\ Len(ring) <= MaxRing

TabInv == /\ undone \in BOOLEAN /\ remembered \subseteq Files /\ RingHeld
          /\ DiskHeld(undone)
          /\ Shape(desk, undone) /\ Agree(desk)

\* A step of the Tk thread leaves the desk it has made, one step older.
LEMMA DeskBecomes ==
  ASSUME NEW d, NEW u, Shape(d, u), Agree(d), desk.steps \in Nat, Becomes(d)
  PROVE  Shape(desk', u) /\ Agree(desk')
<1>. DEFINE n == desk.steps + 1
            x == [d EXCEPT !.steps = n]
<1>0. n \in Nat
  OBVIOUS
<1>1. d \in Desks /\ desk' = x
  BY DEF Shape, Strips, Becomes
<1>. HIDE DEF n
<1>2. /\ x \in Desks
      /\ x.file = d.file /\ x.sql = d.sql /\ x.pane = d.pane /\ x.opt = d.opt /\ x.bar = d.bar
      /\ x.active = d.active /\ x.header = d.header /\ x.headerActive = d.headerActive
      /\ x.open = d.open /\ x.posts = d.posts /\ x.overtaken = d.overtaken /\ x.dropped = d.dropped /\ x.failed = d.failed
  BY <1>0, <1>1 DEF Desks
<1>. HIDE DEF x
<1>3. Strips(x)
  BY <1>2 DEF Shape, Strips
<1>4. TextsHeld(x, u)
  BY <1>2 DEF Shape, TextsHeld
<1>5. Agree(x)
  BY <1>2 DEF Agree, Remembers
<1>. QED
  BY <1>1, <1>3, <1>4, <1>5 DEF Shape

\* A desk without tabs in the bar has none highlighted.
LEMMA NoTabs ==
  ASSUME NEW d, NEW u, Shape(d, u), d.bar = <<>>
  PROVE  d.active = None /\ Agree(d)
<1>1. Range(d.bar) = {}
  BY DEF Range
<1>. QED
  BY <1>1 DEF Shape, Strips, Agree, Remembers

\* Files, texts and the lists of them, put into the fields of a desk.
LEMMA DeskRewritten ==
  ASSUME NEW d, NEW u, Shape(d, u), NEW sql \in Texts, NEW pane \in Texts, NEW opt \in Texts,
         d.file = None \/ u \/ (sql.of = d.file /\ pane.of = d.file /\ (opt = d.opt \/ opt.of = d.file))
  PROVE  LET x == [d EXCEPT !.sql = sql, !.pane = pane, !.opt = opt]
         IN  Shape(x, u) /\ (Agree(d) => Agree(x))
<1>. DEFINE x == [d EXCEPT !.sql = sql, !.pane = pane, !.opt = opt]
<1>1. d \in Desks
  BY DEF Shape, Strips
<1>1a. x = [d EXCEPT !.sql = sql, !.pane = pane, !.opt = opt]
  OBVIOUS
<1>. HIDE DEF x
<1>2. /\ x \in Desks
      /\ x.file = d.file /\ x.sql = sql /\ x.pane = pane /\ x.opt = opt /\ x.bar = d.bar
      /\ x.active = d.active /\ x.header = d.header /\ x.headerActive = d.headerActive
      /\ x.open = d.open /\ x.posts = d.posts /\ x.overtaken = d.overtaken /\ x.dropped = d.dropped /\ x.failed = d.failed
  BY <1>1, <1>1a DEF Desks
<1>3. Strips(x)
  BY <1>2 DEF Shape, Strips
<1>4. TextsHeld(x, u)
  BY <1>2 DEF Shape, TextsHeld
<1>5. Agree(d) => Agree(x)
  BY <1>2 DEF Agree, Remembers
<1>. QED
  BY <1>3, <1>4, <1>5 DEF Shape, x

LEMMA EmptyDesk ==
  ASSUME NEW u
  PROVE  /\ Shape(Fresh, u) /\ Agree(Fresh)
         /\ \A opens \in [Files -> Nat], fs \in SUBSET Files :
              /\ Shape([Fresh EXCEPT !.away = fs, !.open = opens], u)
              /\ Agree([Fresh EXCEPT !.away = fs, !.open = opens])
<1>1. Blank \in Texts
  BY DEF Blank, Texts, Kinds
<1>2. <<>> \in Seq(Files) /\ <<>> \in Seq(Files \cup {Scratch}) /\ <<>> \in Seq(Texts)
      /\ IsInjective(<<>>) /\ Range(<<>>) = {}
  BY DEF IsInjective, Range
<1>3. ASSUME NEW x \in Desks, x.file = None, x.bar = <<>>, x.header = <<>>,
             x.active = None, x.headerActive = None
      PROVE  Shape(x, u) /\ Agree(x)
  <2>1. Strips(x)
    BY <1>2, <1>3 DEF Strips
  <2>2. TextsHeld(x, u)
    BY <1>3 DEF TextsHeld
  <2>3. Agree(x)
    BY <1>2, <1>3 DEF Agree, Remembers
  <2>. QED
    BY <2>1, <2>2, <2>3 DEF Shape
<1>4. /\ Fresh \in Desks /\ Fresh.file = None /\ Fresh.bar = <<>> /\ Fresh.header = <<>>
      /\ Fresh.active = None /\ Fresh.headerActive = None
  <2>. DEFINE opens == [f \in Files |-> 0]
  <2>1. opens \in [Files -> Nat]
    OBVIOUS
  <2>. HIDE DEF opens
  <2>. DEFINE e == [file |-> None, sql |-> Blank, pane |-> Blank, opt |-> Blank,
                    bar |-> <<>>, active |-> None, header |-> <<>>, headerActive |-> None,
                    open |-> opens, posts |-> <<>>, listed |-> {},
                    overtaken |-> FALSE, dropped |-> {}, away |-> {}, failed |-> FALSE, steps |-> 0]
  <2>2. e \in Desks /\ e.file = None /\ e.bar = <<>> /\ e.header = <<>> /\ e.active = None /\ e.headerActive = None
    BY <1>1, <1>2, <2>1 DEF Desks
  <2>3. Fresh = e
    BY DEF Fresh, opens
  <2>. HIDE DEF e
  <2>. QED
    BY <2>2, <2>3
<1>. HIDE DEF Fresh
<1>5. ASSUME NEW opens \in [Files -> Nat], NEW fs \in SUBSET Files
      PROVE  /\ Shape([Fresh EXCEPT !.away = fs, !.open = opens], u)
             /\ Agree([Fresh EXCEPT !.away = fs, !.open = opens])
  <2>. DEFINE x == [Fresh EXCEPT !.away = fs, !.open = opens]
  <2>1. x \in Desks /\ x.file = None /\ x.bar = <<>> /\ x.header = <<>> /\ x.active = None /\ x.headerActive = None
    BY <1>4 DEF Desks
  <2>. HIDE DEF x
  <2>2. Shape(x, u) /\ Agree(x)
    BY <1>3, <2>1
  <2>. QED
    BY <2>2 DEF x
<1>. QED
  BY <1>3, <1>4, <1>5

LEMMA InitTabInv == Init => TabInv
<1>. SUFFICES ASSUME Init PROVE TabInv
  OBVIOUS
<1>1. RingHeld /\ undone \in BOOLEAN /\ remembered \subseteq Files
  <2>1. ring = <<>> /\ undone = FALSE /\ remembered = {}
    BY DEF Init
  <2>2. <<>> \in Seq(Texts) /\ Len(<<>>) = 0 /\ 0 <= MaxRing
    BY EmptySeq, TabAssumption
  <2>. QED
    BY <2>1, <2>2 DEF RingHeld
<1>2. DiskHeld(undone)
  BY TabAssumption DEF Init, DiskHeld, Texts, Kinds, KindOf
<1>3. Shape(desk, undone) /\ Agree(desk)
  BY EmptyDesk DEF Init
<1>. QED
  BY <1>1, <1>2, <1>3 DEF TabInv

-----------------------------------------------------------------------------
(***************************************************************************)
(* One lemma for each group of actions.                                    *)
(***************************************************************************)
LEMMA DeskFields ==
  ASSUME TabInv
  PROVE  /\ desk \in Desks /\ desk.steps \in Nat
         /\ desk.sql \in Texts /\ desk.pane \in Texts /\ desk.opt \in Texts
         /\ IsInjective(desk.bar) /\ IsInjective(desk.header)
         /\ desk.file \in Files \cup {None} /\ desk.posts \in Seq(Texts)
         /\ desk.header \in Seq(Files \cup {Scratch}) /\ desk.listed \subseteq Files
BY DEF TabInv, Shape, Strips, Desks

\* A step of the thread that changes neither the files nor the history.
LEMMA OnlyTheDesk ==
  ASSUME TabInv, NEW d, Shape(d, undone), Agree(d), Becomes(d),
         UNCHANGED <<disk, remembered, ring, undone>>
  PROVE  TabInv'
<1>1. Shape(desk', undone) /\ Agree(desk')
  BY DeskBecomes, DeskFields DEF TabInv
<1>2. (Shape(desk, undone))' /\ (Agree(desk))'
  BY <1>1 DEF Shape, Strips, Desks, TextsHeld, Agree, Remembers
<1>. QED
  BY <1>2 DEF TabInv, RingHeld, DiskHeld

LEMMA TabsPreviewed ==
  ASSUME TabInv, NEW f \in Files,
         (\E fs \in SUBSET Files : AddPaths(f, fs)) \/ Explore(f) \/ Select(f)
  PROVE  TabInv'
<1>0. undone \in BOOLEAN /\ DiskHeld(undone) /\ Shape(desk, undone) /\ Agree(desk)
  BY DEF TabInv
<1>1. ASSUME NEW d, Shape(d, undone), Agree(d),
             Becomes(Preview(d, f)), UNCHANGED <<disk, remembered, ring, undone>>
      PROVE  TabInv'
  <2>1. Shape(Preview(d, f), undone) /\ Agree(Preview(d, f))
    BY <1>0, <1>1, DeskPreviewed DEF Agree
  <2>. QED
    BY <1>1, <2>1, OnlyTheDesk
<1>2. CASE Explore(f)
  BY <1>0, <1>1, <1>2 DEF Explore
<1>3. CASE Select(f)
  <2>1. f \in Range(desk.bar)
    <3>1. desk.bar \in Seq(Files)
      BY DeskFields DEF Desks
    <3>. QED
      BY <1>3, <3>1, LenProperties DEF Select, Contains, Range
  <2>2. Shape(Activate(desk, f), undone) /\ Agree(Activate(desk, f))
    BY <1>0, <2>1, TabActivated DEF Agree
  <2>. QED
    BY <1>3, <2>2, OnlyTheDesk DEF Select
<1>4. ASSUME NEW fs \in SUBSET Files, AddPaths(f, fs)
      PROVE  TabInv'
  <2>. DEFINE more == desk.listed \cup fs \cup {f}
              x == [desk EXCEPT !.listed = more]
  <2>1. more \in SUBSET Files
    BY DeskFields
  <2>2. Becomes(Preview(x, f)) /\ UNCHANGED <<disk, remembered, ring, undone>>
    BY <1>4 DEF AddPaths
  <2>. HIDE DEF more
  <2>3. /\ x \in Desks
        /\ x.file = desk.file /\ x.sql = desk.sql /\ x.pane = desk.pane /\ x.opt = desk.opt /\ x.bar = desk.bar
        /\ x.active = desk.active /\ x.header = desk.header /\ x.headerActive = desk.headerActive
        /\ x.open = desk.open /\ x.posts = desk.posts /\ x.overtaken = desk.overtaken
        /\ x.dropped = desk.dropped /\ x.failed = desk.failed
    BY <2>1, DeskFields DEF Desks
  <2>. HIDE DEF x
  <2>4. Shape(x, undone)
    BY <1>0, <2>3 DEF Shape, Strips, TextsHeld
  <2>5. Agree(x)
    BY <1>0, <2>3 DEF Agree, Remembers
  <2>. QED
    BY <1>1, <2>2, <2>4, <2>5
<1>. QED
  BY <1>2, <1>3, <1>4

\* What other programs do to the files changes neither texts nor tabs.
LEMMA FilesGoAway ==
  ASSUME TabInv, NEW fs \in SUBSET Files, Unreadable(fs)
  PROVE  TabInv'
<1>. DEFINE x == [desk EXCEPT !.away = fs]
<1>1. /\ x \in Desks
      /\ x.file = desk.file /\ x.sql = desk.sql /\ x.pane = desk.pane /\ x.opt = desk.opt /\ x.bar = desk.bar
      /\ x.active = desk.active /\ x.header = desk.header /\ x.headerActive = desk.headerActive
      /\ x.open = desk.open /\ x.posts = desk.posts /\ x.overtaken = desk.overtaken
      /\ x.dropped = desk.dropped /\ x.failed = desk.failed
  BY DeskFields DEF Desks
<1>2. Becomes(x) /\ UNCHANGED <<disk, remembered, ring, undone>>
  BY DEF Unreadable
<1>. HIDE DEF x
<1>3. Shape(x, undone)
  BY <1>1 DEF TabInv, Shape, Strips, TextsHeld
<1>4. Agree(x)
  BY <1>1 DEF TabInv, Agree, Remembers
<1>. QED
  BY <1>2, <1>3, <1>4, OnlyTheDesk

LEMMA TabsClosed ==
  ASSUME TabInv, NEW f \in Files, CloseTab(f)
  PROVE  TabInv'
<1>1. Shape(BarClose(desk, f), undone) /\ Agree(BarClose(desk, f))
  BY BarTabClosed DEF TabInv
<1>. QED
  BY <1>1, OnlyTheDesk DEF CloseTab

LEMMA HeaderUsed ==
  ASSUME TabInv, NEW f \in Files \cup {Scratch}, SelectInHeader(f) \/ CloseInHeader(f)
  PROVE  TabInv'
<1>1. CASE SelectInHeader(f)
  <2>. DEFINE x == [desk EXCEPT !.headerActive = f]
  <2>1. desk \in Desks /\ f \in Files \cup {Scratch, None}
    BY DeskFields
  <2>2. /\ x \in Desks /\ x.headerActive = f
        /\ x.file = desk.file /\ x.sql = desk.sql /\ x.pane = desk.pane /\ x.opt = desk.opt
        /\ x.bar = desk.bar /\ x.active = desk.active /\ x.header = desk.header
        /\ x.open = desk.open /\ x.posts = desk.posts /\ x.overtaken = desk.overtaken
        /\ x.dropped = desk.dropped /\ x.failed = desk.failed
    BY <2>1 DEF Desks
  <2>3. Becomes(x) /\ UNCHANGED <<disk, remembered, ring, undone>>
    BY <1>1 DEF SelectInHeader
  <2>. HIDE DEF x
  <2>4. f \in Range(desk.header)
    BY <1>1, DeskFields, LenProperties DEF SelectInHeader, Contains, Range
  <2>5. Strips(x)
    BY <2>2, <2>4 DEF TabInv, Shape, Strips
  <2>6. TextsHeld(x, undone)
    BY <2>2 DEF TabInv, Shape, TextsHeld
  <2>7. Agree(x)
    BY <2>2 DEF TabInv, Agree, Remembers
  <2>. QED
    BY <2>3, <2>5, <2>6, <2>7, OnlyTheDesk DEF Shape
<1>2. CASE CloseInHeader(f)
  <2>. DEFINE c == HeaderClose(desk, f)
              gone == c.dropped \cup {f}
              x == [c EXCEPT !.dropped = gone]
  <2>1. /\ Shape(c, undone) /\ c.file = desk.file /\ c.active = desk.active /\ c.bar = desk.bar
        /\ c.dropped = desk.dropped /\ c.failed = desk.failed /\ \A g \in Files : g # f => c.open[g] = desk.open[g]
    BY HeaderTabClosed DEF TabInv
  <2>2. Becomes(x) /\ UNCHANGED <<disk, remembered, ring, undone>>
    BY <1>2 DEF CloseInHeader
  <2>. HIDE DEF c
  <2>3. c \in Desks /\ gone \in SUBSET (Files \cup {Scratch})
    BY <2>1 DEF Shape, Strips, Desks
  <2>. HIDE DEF gone
  <2>4. /\ x \in Desks /\ x.dropped = gone
        /\ x.file = c.file /\ x.sql = c.sql /\ x.pane = c.pane /\ x.opt = c.opt
        /\ x.bar = c.bar /\ x.active = c.active /\ x.header = c.header
        /\ x.headerActive = c.headerActive
        /\ x.open = c.open /\ x.posts = c.posts /\ x.overtaken = c.overtaken /\ x.failed = c.failed
    BY <2>3 DEF Desks
  <2>. HIDE DEF x
  <2>5. Strips(x)
    BY <2>1, <2>4 DEF Shape, Strips
  <2>6. TextsHeld(x, undone)
    BY <2>1, <2>4 DEF Shape, TextsHeld
  <2>7. Agree(x)
    <3>1. desk.bar \in Seq(Files)
      BY DEF TabInv, Shape, Strips, Desks
    <3>2. Range(desk.bar) \subseteq Files
      BY <3>1, LenProperties, ElementOfSeq DEF Range
    <3>3. \A g \in Range(desk.bar) : g # f => c.open[g] = desk.open[g]
      BY <2>1, <3>2
    <3>4. Agree(desk)
      BY DEF TabInv
    <3>5. \A g \in Range(desk.bar) : c.open[g] > 0 \/ g \in gone
      BY <2>1, <3>3, <3>4 DEF Agree, Remembers, gone
    <3>. QED
      BY <2>1, <2>4, <3>4, <3>5 DEF Agree, Remembers
  <2>. QED
    BY <2>2, <2>5, <2>6, <2>7, OnlyTheDesk DEF Shape
<1>. QED
  BY <1>1, <1>2

LEMMA TabsStartedAnew ==
  ASSUME TabInv, NewTab \/ Clear
  PROVE  TabInv'
<1>0. undone \in BOOLEAN /\ DiskHeld(undone) /\ Shape(desk, undone) /\ desk \in Desks
      /\ Blank \in Texts
  BY DEF TabInv, Shape, Strips, Blank, Texts, Kinds
<1>1. CASE NewTab
  <2>. DEFINE b == [desk EXCEPT !.file = None, !.sql = Blank, !.pane = Blank, !.opt = Blank]
              d == BarCloseAll(b)
              head == Opened(d.header, Scratch)
              x == [d EXCEPT !.header = head, !.headerActive = Scratch]
  <2>1. Becomes(x) /\ UNCHANGED <<disk, remembered, ring, undone>>
    <3>1. x = [d EXCEPT !.header = Opened(@, Scratch), !.headerActive = Scratch]
      BY Zenon
    <3>. QED
      BY <1>1, <3>1, Zenon DEF NewTab
  <2>2. /\ b \in Desks /\ b.file = None
        /\ b.bar = desk.bar /\ b.active = desk.active /\ b.header = desk.header
        /\ b.headerActive = desk.headerActive
    BY <1>0 DEF Desks
  <2>. HIDE DEF b
  <2>3. Shape(b, undone)
    BY <1>0, <2>2 DEF Shape, Strips, TextsHeld
  <2>4. d = AllClosed("bar", b)
    BY DEF AllClosed
  <2>. HIDE DEF d
  <2>5. Shape(d, undone) /\ d.bar = <<>>
    BY <1>0, <2>3, <2>4, AllTabsClosed
  <2>6. d \in Desks /\ IsInjective(d.header) /\ d.header \in Seq(Files \cup {Scratch})
    BY <2>5 DEF Shape, Strips, Desks
  <2>7. head \in Seq(Files \cup {Scratch}) /\ IsInjective(head) /\ Scratch \in Range(head)
    <3>1. Scratch \in Files \cup {Scratch}
      OBVIOUS
    <3>. QED
      BY <2>6, <3>1, TabOpened
  <2>. HIDE DEF head
  <2>8. /\ x \in Desks /\ x.header = head /\ x.headerActive = Scratch
        /\ x.file = d.file /\ x.sql = d.sql /\ x.pane = d.pane /\ x.opt = d.opt
        /\ x.bar = d.bar /\ x.active = d.active
        /\ x.open = d.open /\ x.posts = d.posts /\ x.overtaken = d.overtaken
        /\ x.dropped = d.dropped /\ x.failed = d.failed
    BY <2>6, <2>7 DEF Desks
  <2>. HIDE DEF x
  <2>9. Strips(x)
    BY <2>5, <2>7, <2>8 DEF Shape, Strips
  <2>10. TextsHeld(x, undone)
    BY <2>5, <2>8 DEF Shape, TextsHeld
  <2>11. Shape(x, undone) /\ Agree(x)
    BY <2>5, <2>8, <2>9, <2>10, NoTabs DEF Shape
  <2>. QED
    BY <2>1, <2>11, OnlyTheDesk
<1>2. CASE Clear
  <2>. DEFINE none == [f \in Files |-> 0]
              b == [desk EXCEPT !.listed = {}, !.file = None, !.sql = Blank, !.open = none]
              d == BarCloseAll(b)
              x == HeaderCloseAll(d)
  <2>1. Becomes(x) /\ UNCHANGED <<disk, remembered, ring, undone>>
    BY <1>2, Zenon DEF Clear
  <2>1a. none \in [Files -> Nat]
    OBVIOUS
  <2>. HIDE DEF none
  <2>2. /\ b \in Desks /\ b.file = None
        /\ b.bar = desk.bar /\ b.active = desk.active /\ b.header = desk.header
        /\ b.headerActive = desk.headerActive
    BY <1>0, <2>1a DEF Desks
  <2>. HIDE DEF b
  <2>3. Shape(b, undone)
    BY <1>0, <2>2 DEF Shape, Strips, TextsHeld
  <2>4. d = AllClosed("bar", b) /\ x = AllClosed("header", d)
    BY DEF AllClosed
  <2>. HIDE DEF d, x
  <2>5. Shape(d, undone) /\ d.bar = <<>>
    BY <1>0, <2>3, <2>4, AllTabsClosed
  <2>6. Shape(x, undone) /\ x.bar = <<>>
    BY <1>0, <2>4, <2>5, AllTabsClosed
  <2>. QED
    BY <2>1, <2>6, NoTabs, OnlyTheDesk
<1>. QED
  BY <1>1, <1>2

\* The newest preview, posted after all others, is of the document.
LEMMA PreviewPosted ==
  ASSUME TabInv, NEW i \in Nat, PostPreview(i)
  PROVE  TabInv'
<1>. DEFINE posted == desk.posts
            n == Len(posted)
            rest == RemoveAt(posted, i)
            late == desk.overtaken \/ (1 < i /\ i = n)
            opt == posted[i]
            x == [desk EXCEPT !.pane = desk.sql, !.opt = opt, !.posts = rest, !.overtaken = late]
<1>1. desk \in Desks /\ posted \in Seq(Texts) /\ i \in DOMAIN posted
  BY DeskFields DEF PostPreview
<1>2. n \in Nat /\ i \in 1 .. n /\ opt \in Texts
  BY <1>1, LenProperties, ElementOfSeq
<1>3. rest \in Seq(Texts) /\ Len(rest) = n - 1
      /\ \A j \in 1 .. (n - 1) : rest[j] = posted[IF j < i THEN j ELSE j + 1]
  BY <1>1, Removed
<1>4. desk' = x /\ UNCHANGED <<disk, remembered, ring, undone>>
  BY Zenon DEF PostPreview
<1>5. desk.sql \in Texts /\ late \in BOOLEAN
  BY <1>1 DEF Desks
<1>6. ~late => ~desk.overtaken /\ ~(1 < i /\ i = n)
  OBVIOUS
<1>7. rest = <<>> => n = 1
  <2>1. Len(<<>>) = 0
    BY EmptySeq
  <2>. HIDE DEF rest
  <2>. QED
    BY <1>2, <1>3, <2>1
<1>8. posted # <<>>
  <2>1. Len(<<>>) = 0
    BY EmptySeq
  <2>. QED
    BY <1>2, <2>1
<1>9. rest # <<>> /\ ~late => Last(rest) = Last(posted)
  <2>. HIDE DEF rest, late, posted
  <2>1. SUFFICES ASSUME rest # <<>>, ~late PROVE Last(rest) = Last(posted)
    OBVIOUS
  <2>2. Len(rest) # 0
    BY <1>3, <2>1, EmptySeq
  <2>3. i < n /\ n - 1 \in 1 .. (n - 1) /\ ~(n - 1 < i) /\ (n - 1) + 1 = n
    BY <1>2, <1>3, <1>6, <2>1, <2>2
  <2>4. rest[n - 1] = posted[n]
    BY <1>3, <2>3
  <2>. QED
    BY <1>3, <2>4 DEF Last
<1>10. rest = <<>> => opt = Last(posted)
  BY <1>2, <1>7 DEF Last
<1>. HIDE DEF posted, n, rest, late, opt
<1>11. /\ x \in Desks /\ x.pane = desk.sql /\ x.opt = opt /\ x.posts = rest /\ x.overtaken = late
       /\ x.file = desk.file /\ x.sql = desk.sql
       /\ x.bar = desk.bar /\ x.active = desk.active /\ x.header = desk.header
       /\ x.headerActive = desk.headerActive /\ x.open = desk.open /\ x.dropped = desk.dropped /\ x.failed = desk.failed
  BY <1>1, <1>2, <1>3, <1>5 DEF Desks
<1>. HIDE DEF x
<1>12. Strips(x)
  BY <1>11 DEF TabInv, Shape, Strips
<1>13. TextsHeld(x, undone)
  BY <1>6, <1>8, <1>9, <1>10, <1>11 DEF TabInv, Shape, TextsHeld, posted
<1>14. Agree(x)
  BY <1>11 DEF TabInv, Agree, Remembers
<1>15. (Shape(desk, undone))' /\ (Agree(desk))'
  BY <1>4, <1>12, <1>13, <1>14 DEF Shape, Strips, Desks, TextsHeld, Agree, Remembers
<1>. QED
  BY <1>4, <1>15 DEF TabInv, RingHeld, DiskHeld

LEMMA StatementsRun ==
  ASSUME TabInv, RunStatement \/ FormatSql
  PROVE  TabInv'
<1>0. Shape(desk, undone) /\ Agree(desk)
      /\ desk.sql \in Texts /\ desk.pane \in Texts /\ desk.opt \in Texts /\ desk \in Desks
  BY DeskFields DEF TabInv
<1>1. desk.file = None \/ undone \/ (desk.sql.of = desk.file /\ desk.pane.of = desk.file)
  BY <1>0 DEF Shape, TextsHeld
<1>2. CASE RunStatement
  <2>. DEFINE t == First(desk.pane)
              x == [desk EXCEPT !.sql = t, !.pane = desk.pane, !.opt = desk.opt]
  <2>1. t \in Texts /\ t.of = desk.pane.of
    BY <1>0, TextsStayOfTheirFile
  <2>2. x = [desk EXCEPT !.sql = First(desk.pane)]
    BY <1>0 DEF Desks
  <2>3. Becomes(x) /\ UNCHANGED <<disk, remembered, ring, undone>>
    BY <1>2, <2>2 DEF RunStatement
  <2>. HIDE DEF t
  <2>4. Shape(x, undone) /\ Agree(x)
    BY <1>0, <1>1, <2>1, DeskRewritten
  <2>. QED
    BY <2>3, <2>4, OnlyTheDesk
<1>3. CASE FormatSql
  <2>. DEFINE t == First(desk.sql)
              x == [desk EXCEPT !.sql = t, !.pane = t, !.opt = t]
  <2>1. t \in Texts /\ t.of = desk.sql.of
    BY <1>0, TextsStayOfTheirFile
  <2>2. Becomes(x) /\ UNCHANGED <<disk, remembered, ring, undone>>
    BY <1>3 DEF FormatSql
  <2>. HIDE DEF t
  <2>3. Shape(x, undone) /\ Agree(x)
    BY <1>0, <1>1, <2>1, DeskRewritten
  <2>. QED
    BY <2>2, <2>3, OnlyTheDesk
<1>. QED
  BY <1>2, <1>3

LEMMA FilesWritten ==
  ASSUME TabInv, (\E f \in Files : Save(f)) \/ (\E fs \in SUBSET Files : Autofix(fs))
  PROVE  TabInv'
<1>0. /\ undone \in BOOLEAN /\ DiskHeld(undone) /\ Shape(desk, undone) /\ Agree(desk)
      /\ desk \in Desks /\ IsInjective(desk.bar) /\ IsInjective(desk.header)
      /\ desk.sql \in Texts /\ desk.pane \in Texts /\ desk.steps \in Nat
  BY DeskFields DEF TabInv
\* What is left is to show the written files and the desk; the rest is unchanged.
<1>1. ASSUME UNCHANGED <<remembered, ring, undone>>, disk' \in [Files -> Texts],
             undone \/ \A f \in Files : disk'[f].of = f,
             NEW d, Shape(d, undone), Agree(d), Becomes(d)
      PROVE  TabInv'
  <2>1. Shape(desk', undone) /\ Agree(desk')
    BY <1>0, <1>1, DeskBecomes
  <2>2. (Shape(desk, undone))' /\ (Agree(desk))'
    BY <1>1, <2>1 DEF Shape, Strips, Desks, TextsHeld, Agree, Remembers
  <2>3. (DiskHeld(undone))'
    BY <1>1 DEF DiskHeld
  <2>. QED
    BY <1>1, <2>2, <2>3 DEF TabInv, RingHeld
<1>2. ASSUME NEW target \in Files, Save(target)
      PROVE  TabInv'
  <2>. DEFINE own == IF desk.file = None THEN [Content EXCEPT !.of = target, !.lost = FALSE]
                     ELSE Content
              t == Cut(own)
  <2>1. Content \in Texts /\ (undone \/ desk.file = None \/ Content.of = desk.file)
    BY <1>0 DEF Content, Shape, TextsHeld
  <2>2. own \in Texts /\ (undone \/ own.of = target)
    <3>1. CASE desk.file = None
      <4>1. [Content EXCEPT !.of = target, !.lost = FALSE] \in Texts
            /\ [Content EXCEPT !.of = target, !.lost = FALSE].of = target
        BY <2>1 DEF Texts
      <4>. QED
        BY <3>1, <4>1
    <3>2. CASE desk.file # None
      <4>1. own = Content /\ target = desk.file
        BY <1>2, <3>2 DEF Save
      <4>. QED
        BY <2>1, <3>2, <4>1
    <3>. QED
      BY <3>1, <3>2
  <2>. DEFINE b == [desk EXCEPT !.away = desk.away \ {target}]
  <2>3. /\ disk' = [disk EXCEPT ![target] = own]
        /\ Becomes(Loaded(b, target, t))
        /\ UNCHANGED <<remembered, ring, undone>>
    BY <1>2, Zenon DEF Save
  <2>3a. /\ b \in Desks /\ b.bar = desk.bar /\ b.header = desk.header
         /\ b.open = desk.open /\ b.dropped = desk.dropped
    <3>1. desk.away \ {target} \in SUBSET Files
      BY <1>0 DEF Desks
    <3>. QED
      BY <1>0, <3>1 DEF Desks
  <2>. HIDE DEF b
  <2>. HIDE DEF own
  <2>4. t \in Texts /\ (undone \/ t.of = target)
    BY <2>2, TextsStayOfTheirFile
  <2>. HIDE DEF t
  <2>5. Shape(Loaded(b, target, t), undone) /\ Agree(Loaded(b, target, t))
    <3>1. Remembers(b)
      BY <1>0, <2>3a DEF Agree, Remembers
    <3>. QED
      BY <1>0, <2>3a, <2>4, <3>1, LoadedAgrees DEF Agree
  <2>6. disk' \in [Files -> Texts] /\ (undone \/ \A f \in Files : disk'[f].of = f)
    BY <1>0, <2>2, <2>3 DEF DiskHeld
  <2>. QED
    BY <1>1, <2>3, <2>5, <2>6
<1>3. ASSUME NEW fs \in SUBSET Files, Autofix(fs)
      PROVE  TabInv'
  <2>1. \A f \in Files : First(disk[f]) \in Texts /\ First(disk[f]).of = disk[f].of
    BY <1>0, TextsStayOfTheirFile DEF DiskHeld
  <2>2. disk' = [f \in Files |-> IF f \in fs THEN First(disk[f]) ELSE disk[f]]
        /\ Becomes(desk) /\ UNCHANGED <<remembered, ring, undone>>
    BY <1>3, Zenon DEF Autofix
  <2>3. disk' \in [Files -> Texts] /\ (undone \/ \A f \in Files : disk'[f].of = f)
    BY <1>0, <2>1, <2>2 DEF DiskHeld
  <2>. QED
    BY <1>0, <1>1, <2>2, <2>3
<1>. QED
  BY <1>2, <1>3

LEMMA EditsTracked ==
  ASSUME TabInv, TrackEdit \/ UndoEdit
  PROVE  TabInv'
<1>0. /\ undone \in BOOLEAN /\ DiskHeld(undone) /\ Shape(desk, undone) /\ Agree(desk)
      /\ desk.sql \in Texts /\ desk.pane \in Texts /\ desk.opt \in Texts /\ desk.steps \in Nat
      /\ desk \in Desks /\ ring \in Seq(Texts) /\ Len(ring) \in Nat /\ Len(ring) <= MaxRing
  BY DeskFields, LenProperties DEF TabInv, RingHeld
<1>1. CASE TrackEdit
  <2>. DEFINE r == Append(ring, desk.pane)
              kept == IF Len(r) > MaxRing THEN Tail(r) ELSE r
  <2>1. r \in Seq(Texts) /\ Len(r) = Len(ring) + 1
    BY <1>0, AppendProperties
  <2>2. ring' = kept /\ Becomes(desk) /\ UNCHANGED <<disk, remembered, undone>>
    BY <1>1 DEF TrackEdit
  <2>. HIDE DEF r
  <2>3. r # <<>>
    BY <1>0, <2>1, EmptySeq
  <2>4. Tail(r) \in Seq(Texts) /\ Len(Tail(r)) = Len(r) - 1
    BY <2>1, <2>3, HeadTailProperties
  <2>5. kept \in Seq(Texts) /\ Len(kept) <= MaxRing
    BY <1>0, <2>1, <2>4, TabAssumption
  <2>6. Shape(desk', undone) /\ Agree(desk')
    BY <1>0, <2>2, DeskBecomes
  <2>7. (Shape(desk, undone))' /\ (Agree(desk))'
    BY <2>2, <2>6 DEF Shape, Strips, Desks, TextsHeld, Agree, Remembers
  <2>. QED
    BY <2>2, <2>5, <2>7 DEF TabInv, RingHeld, DiskHeld
<1>2. CASE UndoEdit
  <2>. DEFINE t == Last(ring)
              x == [desk EXCEPT !.sql = desk.sql, !.pane = t, !.opt = desk.opt]
  <2>1. ring # <<>> /\ ring' = Front(ring) /\ undone' = TRUE /\ UNCHANGED <<disk, remembered>>
    BY <1>2 DEF UndoEdit
  <2>2. Len(ring) \in 1 .. Len(ring)
    BY <1>0, <2>1, EmptySeq
  <2>3. t \in Texts
    BY <1>0, <2>2, ElementOfSeq DEF Last
  <2>4. Front(ring) \in Seq(Texts) /\ Len(Front(ring)) <= MaxRing
    <3>1. SubSeq(ring, 1, Len(ring) - 1) \in Seq(Texts) /\ Len(SubSeq(ring, 1, Len(ring) - 1)) = Len(ring) - 1
      <4>. DEFINE m == Len(ring) - 1
      <4>1. m \in Int /\ 1 \in 1 .. (Len(ring) + 1) /\ m \in (1 - 1) .. Len(ring) /\ (m + 1) - 1 = m
        BY <1>0, <2>2
      <4>. HIDE DEF m
      <4>2. SubSeq(ring, 1, m) \in Seq(Texts) /\ Len(SubSeq(ring, 1, m)) = m
        BY <1>0, <4>1, SubSeqProperties
      <4>. QED
        BY <4>2 DEF m
    <3>. QED
      BY <1>0, <3>1, TabAssumption DEF Front
  <2>5. Becomes(x)
    <3>1. x = [desk EXCEPT !.pane = Last(ring)]
      BY <1>0 DEF Desks
    <3>. QED
      BY <1>2, <3>1 DEF UndoEdit
  <2>. HIDE DEF t
  <2>6. Shape(desk, TRUE)
    BY <1>0 DEF Shape, TextsHeld
  <2>7. Shape(x, TRUE) /\ Agree(x)
    BY <1>0, <2>3, <2>6, DeskRewritten
  <2>8. Shape(desk', TRUE) /\ Agree(desk')
    BY <1>0, <2>5, <2>7, DeskBecomes
  <2>9. (Shape(desk, undone))' /\ (Agree(desk))'
    BY <2>1, <2>8 DEF Shape, Strips, Desks, TextsHeld, Agree, Remembers
  <2>. QED
    BY <1>0, <2>1, <2>4, <2>9 DEF TabInv, RingHeld, DiskHeld
<1>. QED
  BY <1>1, <1>2

LEMMA RunsAgain ==
  ASSUME TabInv, NEW saves \in BOOLEAN, Relaunch(saves)
  PROVE  TabInv'
<1>. DEFINE opens == [f \in Files |-> IF f \in remembered' THEN 1 ELSE 0]
            x == [Fresh EXCEPT !.away = desk.away, !.open = opens]
<1>1. Becomes(x) /\ ring' = <<>> /\ UNCHANGED <<disk, undone>>
  BY DEF Relaunch
<1>2. remembered' \subseteq Files
  BY DEF Relaunch, Listed, TabInv
<1>3. opens \in [Files -> Nat] /\ desk.away \in SUBSET Files
  BY DeskFields DEF Desks
<1>. HIDE DEF opens
<1>4. Shape(x, undone) /\ Agree(x)
  BY <1>3, EmptyDesk
<1>5. Shape(desk', undone) /\ Agree(desk')
  BY <1>1, <1>4, DeskBecomes, DeskFields
<1>6. (Shape(desk, undone))' /\ (Agree(desk))'
  BY <1>1, <1>5 DEF Shape, Strips, Desks, TextsHeld, Agree, Remembers
<1>7. <<>> \in Seq(Texts) /\ Len(<<>>) = 0 /\ 0 <= MaxRing
  BY EmptySeq, TabAssumption
<1>. QED
  BY <1>1, <1>2, <1>6, <1>7 DEF TabInv, RingHeld, DiskHeld

LEMMA NextTabInv == TabInv /\ [Next]_vars => TabInv'
<1>. SUFFICES ASSUME TabInv, [Next]_vars PROVE TabInv'
  OBVIOUS
<1>1. CASE UNCHANGED vars
  BY <1>1 DEF vars, TabInv, RingHeld, DiskHeld, Shape, Strips, Desks, TextsHeld, Agree, Remembers
<1>2. CASE \E f \in Files : (\E fs \in SUBSET Files : AddPaths(f, fs)) \/ Explore(f) \/ Select(f)
  BY <1>2, TabsPreviewed
<1>3. CASE \E f \in Files : CloseTab(f)
  BY <1>3, TabsClosed
<1>4. CASE (\E f \in Files : Save(f)) \/ (\E fs \in SUBSET Files : Autofix(fs))
  BY <1>4, FilesWritten
<1>5. CASE \E f \in Files \cup {Scratch} : SelectInHeader(f) \/ CloseInHeader(f)
  BY <1>5, HeaderUsed
<1>6. CASE \E i \in 1 .. MaxPosts : PostPreview(i)
  BY <1>6, PreviewPosted
<1>7. CASE \E saves \in BOOLEAN : Relaunch(saves)
  BY <1>7, RunsAgain
<1>8. CASE NewTab \/ Clear
  BY <1>8, TabsStartedAnew
<1>9. CASE RunStatement \/ FormatSql
  BY <1>9, StatementsRun
<1>10. CASE TrackEdit \/ UndoEdit
  BY <1>10, EditsTracked
<1>11. CASE \E fs \in SUBSET Files : Unreadable(fs)
  BY <1>11, FilesGoAway
<1>. QED
  BY <1>1, <1>2, <1>3, <1>4, <1>5, <1>6, <1>7, <1>8, <1>9, <1>10, <1>11 DEF Next

LEMMA TabInvHolds == Spec => []TabInv
BY InitTabInv, NextTabInv, PTL DEF Spec

\* Both tab strips, the document, the panes and the paths to be remembered agree,
\* whatever is opened, previewed and closed, by one or all at once (ui/tab_manager.py);
\* a tab whose file cannot be read is highlighted over the document of before.
THEOREM TabsAlwaysAgree == Spec => []TabsAgree
<1>1. TabInv => TabsAgree
  <2>. SUFFICES ASSUME TabInv PROVE TabsAgree
    OBVIOUS
  <2>1. TypeOK
    BY DEF TabInv, RingHeld, DiskHeld, Shape, Strips, Desks, TypeOK
  <2>2. ActiveTabIsDocument
    BY DEF TabInv, Agree, ActiveTabIsDocument
  <2>3. desk.bar \in Seq(Files) /\ desk.open \in [Files -> Nat]
    BY DEF TabInv, Shape, Strips, Desks
  <2>4. Range(desk.bar) \subseteq Files
    BY <2>3, LenProperties, ElementOfSeq DEF Range
  <2>5. OpenTabsAreRemembered
    BY <2>4 DEF TabInv, Agree, Remembers, OpenTabsAreRemembered, Listed
  <2>6. PanesSettle
    BY DEF TabInv, Shape, TextsHeld, PanesSettle
  <2>. QED
    BY <2>1, <2>2, <2>5, <2>6 DEF TabsAgree
<1>. QED
  BY <1>1, TabInvHolds, PTL

\* Save, Auto-Fix, Format and Run never write one file's text over another.
THEOREM FilesAlwaysKeepTheirOwnText == Spec => []FilesKeepTheirOwnText
<1>1. TabInv => FilesKeepTheirOwnText
  BY DEF TabInv, DiskHeld, FilesKeepTheirOwnText
<1>. QED
  BY <1>1, TabInvHolds, PTL

-----------------------------------------------------------------------------
(***************************************************************************)
(* DockPanels.  What is on the screen is inductive as it stands; that the  *)
(* parameters get their values rests on each being stored once, and on     *)
(* what one stored parameter after the other writes into a placeholder.    *)
(***************************************************************************)
Stored == [name : Names, value : Values]
Outcome == Names \cup {"itself", "spoiled"}
Placeholders == [form : Forms, name : Names, got : Outcome]

NamedOnce(ps) == \A i, j \in DOMAIN ps : ps[i].name = ps[j].name => i = j
StoredOnce == params \in Seq(Stored) /\ NamedOnce(params)
DockInv == DTypeOK /\ OneOfTheTwo /\ buffer \in Buffers /\ StoredOnce /\ ParamsGetTheirValues

\* None of the cases in which the text around a placeholder is spoiled.
Clean(form, name) == /\ form = "::" => ValueOf(name) = ""
                     /\ \A n \in Names : <<name, n>> \in Extends => ValueOf(n) = ""
                     /\ ValueOf(name) \notin Names

LEMMA ValueStored ==
  ASSUME StoredOnce
  PROVE  /\ \A i \in DOMAIN params : params[i].name \in Names /\ ValueOf(params[i].name) = params[i].value
         /\ \A n \in Names : ValueOf(n) # "" =>
              \E i \in DOMAIN params : params[i].name = n /\ params[i].value # ""
<1>1. \A i \in DOMAIN params : params[i] \in Stored
  BY ElementOfSeq, LenProperties DEF StoredOnce
<1>2. ASSUME NEW i \in DOMAIN params
      PROVE  params[i].name \in Names /\ ValueOf(params[i].name) = params[i].value
  <2>. DEFINE n == params[i].name
              k == CHOOSE j \in DOMAIN params : params[j].name = n
  <2>1. k \in DOMAIN params /\ params[k].name = n
    OBVIOUS
  <2>2. k = i
    <3>. HIDE DEF k
    <3>. QED
      BY <2>1 DEF StoredOnce, NamedOnce
  <2>3. ValueOf(n) = params[k].value
    BY <2>1 DEF ValueOf
  <2>. QED
    BY <1>1, <2>2, <2>3 DEF Stored
<1>3. ASSUME NEW n \in Names, ValueOf(n) # ""
      PROVE  \E i \in DOMAIN params : params[i].name = n /\ params[i].value # ""
  <2>1. PICK i \in DOMAIN params : params[i].name = n
    BY <1>3 DEF ValueOf
  <2>. QED
    BY <1>2, <1>3, <2>1
<1>. QED
  BY <1>2, <1>3

\* One stored parameter written into a placeholder that nothing spoils.
LEMMA WrittenWell ==
  ASSUME StoredOnce, NEW p \in Placeholders, Clean(p.form, p.name),
         NEW e \in Stored, e.value # "", ValueOf(e.name) = e.value,
         p.got = "itself" \/ (p.got = p.name /\ p.form \in {":", "{{}}"} /\ ValueOf(p.name) # "")
  PROVE  LET q == Written(p, e.name)
         IN  /\ q \in Placeholders /\ q.form = p.form /\ q.name = p.name
             /\ q.got = "itself" \/ (q.got = p.name /\ p.form \in {":", "{{}}"} /\ ValueOf(p.name) # "")
             /\ p.got = p.name \/ (e.name = p.name /\ p.form \in {":", "{{}}"}) => q.got = p.name
<1>. DEFINE n == e.name
            q == Written(p, n)
<1>1. n \in Names /\ p.name \in Names /\ ValueOf(n) # ""
  BY DEF Stored, Placeholders
<1>2. \A o \in Outcome : /\ [p EXCEPT !.got = o] \in Placeholders
                         /\ [p EXCEPT !.got = o].form = p.form
                         /\ [p EXCEPT !.got = o].name = p.name
                         /\ [p EXCEPT !.got = o].got = o
  BY DEF Placeholders
<1>3. n \in Outcome /\ "spoiled" \in Outcome /\ p.got \in Outcome
  BY <1>1 DEF Outcome, Placeholders
<1>. HIDE DEF n
<1>4. CASE p.got # "itself"
  <2>1. p.got = p.name /\ ValueOf(p.name) # n
    BY <1>1, <1>4 DEF Clean
  <2>2. q = [p EXCEPT !.got = p.got]
    BY <1>4, <2>1 DEF Written
  <2>3. q.got = p.got /\ q \in Placeholders /\ q.form = p.form /\ q.name = p.name
    BY <1>2, <1>3, <2>2, Zenon
  <2>. HIDE DEF q
  <2>. QED
    BY <1>4, <2>1, <2>3 DEF q, n
<1>5. CASE p.got = "itself" /\ p.name = n /\ p.form \in {":", "{{}}"}
  <2>1. q = [p EXCEPT !.got = n]
    BY <1>5 DEF Written
  <2>2. q.got = n /\ q \in Placeholders /\ q.form = p.form /\ q.name = p.name
    BY <1>2, <1>3, <2>1, Zenon
  <2>. HIDE DEF q
  <2>. QED
    BY <1>1, <1>5, <2>2 DEF q, n
<1>6. CASE p.got = "itself" /\ ~(p.name = n /\ p.form \in {":", "{{}}"})
  <2>1. ~(p.form \in {":", "::"} /\ (p.name = n \/ <<p.name, n>> \in Extends))
    BY <1>1, <1>6 DEF Clean
  <2>2. q = p
    BY <1>6, <2>1 DEF Written
  <2>. HIDE DEF q
  <2>. QED
    BY <1>6, <2>2 DEF q, n
<1>. QED
  BY <1>4, <1>5, <1>6

Bare(b) == [i \in DOMAIN b |-> [form |-> b[i].form, name |-> b[i].name, got |-> "itself"]]

\* _resolve_params runs through texts: the first is the query, each next has one
\* more stored parameter written into it, and the last is what is run.
LEMMA WrittenOneByOne ==
  ASSUME NEW b, StoredOnce
  PROVE  \E texts : /\ texts[0] = Bare(b)
                    /\ \A k \in 1 .. Len(params) : texts[k] = Replaced(texts[k - 1], params[k])
                    /\ texts[Len(params)] = ResolveParams(b)
<1>. DEFINE d == Bare(b)
            n == Len(params)
            it == CHOOSE f : Chain("params", d, params, n, f)
<1>0. n \in Nat /\ DOMAIN params = 1 .. n
  BY LenProperties DEF StoredOnce
<1>1. Chain("params", d, params, n, it)
  BY <1>0, ChainExists, Zenon
<1>2. it[1 .. n] = ResolveParams(b)
  <2>. DEFINE Same(f) == f = [s \in SUBSET (DOMAIN params) |->
                                IF s = {} THEN d ELSE Replaced(f[s \ {Max(s)}], params[Max(s)])]
  <2>1. ResolveParams(b) = (CHOOSE f : Same(f))[DOMAIN params]
    BY Zenon DEF ResolveParams, Bare, FoldLeft, MapThenFoldSet
  <2>. HIDE DEF d
  <2>2. \A f : Chain("params", d, params, n, f) <=> Same(f)
    BY <1>0 DEF Chain, Stepped
  <2>. HIDE DEF Same
  <2>3. (CHOOSE f : Chain("params", d, params, n, f)) = (CHOOSE f : Same(f))
    BY <2>2
  <2>. QED
    BY <1>0, <2>1, <2>3
<1>. HIDE DEF it, n, d
<1>3. PICK texts : Run("params", d, params, n, texts) /\ texts[n] = it[1 .. n]
  BY <1>0, <1>1, ChainRuns
<1>4. \A k \in 1 .. n : texts[k] = Replaced(texts[k - 1], params[k])
  BY <1>3 DEF Run, Stepped
<1>. QED
  BY <1>2, <1>3, <1>4, Zenon DEF Run, n, d

\* What _resolve_params makes of each placeholder that nothing spoils.
LEMMA EachItsValue ==
  ASSUME NEW b \in Buffers, StoredOnce,
         NEW i \in DOMAIN b, Clean(b[i].form, b[i].name)
  PROVE  LET p == ResolveParams(b)[i]
         IN  /\ i \in DOMAIN ResolveParams(b)
             /\ p.form = b[i].form /\ p.name = b[i].name
             /\ p.got = (IF ValueOf(p.name) = "" \/ p.form \in {"::", "{{ }}"} THEN "itself" ELSE p.name)
<1>. DEFINE form == b[i].form
            name == b[i].name
            n == Len(params)
            Filled == form \in {":", "{{}}"} /\ ValueOf(name) # ""
<1>1. form \in Forms /\ name \in Names
  <2>1. b[i] \in [form : Forms, name : Names]
    BY DockAssumption, ElementOfSeq, LenProperties
  <2>. QED
    BY <2>1
<1>2. n \in Nat /\ DOMAIN params = 1 .. n
  BY LenProperties DEF StoredOnce
<1>3. PICK texts : /\ texts[0] = Bare(b)
                   /\ \A k \in 1 .. n : texts[k] = Replaced(texts[k - 1], params[k])
                   /\ texts[n] = ResolveParams(b)
  BY WrittenOneByOne
<1>. DEFINE Right(k) ==
              /\ i \in DOMAIN texts[k] /\ texts[k][i] \in Placeholders
              /\ texts[k][i].form = form /\ texts[k][i].name = name
              /\ texts[k][i].got = "itself" \/ (texts[k][i].got = name /\ Filled)
              /\ Filled /\ (\E j \in 1 .. k : params[j].name = name /\ params[j].value # "")
                   => texts[k][i].got = name
<1>. HIDE DEF n, form, name, Filled
<1>4. Right(0)
  <2>1. i \in DOMAIN texts[0] /\ texts[0][i] = [form |-> form, name |-> name, got |-> "itself"]
    BY <1>3 DEF Bare, form, name
  <2>2. texts[0][i] \in Placeholders /\ texts[0][i].form = form /\ texts[0][i].name = name
        /\ texts[0][i].got = "itself"
    BY <1>1, <2>1 DEF Placeholders, Outcome
  <2>3. 1 .. 0 = {}
    OBVIOUS
  <2>. QED
    BY <2>1, <2>2, <2>3, Zenon
<1>5. ASSUME NEW k \in 1 .. n, Right(k - 1)
      PROVE  Right(k)
  <2>. DEFINE p == texts[k - 1][i]
              q == texts[k][i]
              e == params[k]
              Before == \E j \in 1 .. (k - 1) : params[j].name = name /\ params[j].value # ""
              Now == \E j \in 1 .. k : params[j].name = name /\ params[j].value # ""
  <2>1. e \in Stored /\ ValueOf(e.name) = e.value
    <3>1. params \in Seq(Stored) /\ k \in 1 .. Len(params)
      BY DEF StoredOnce, n
    <3>2. params[k] \in Stored
      BY <3>1, ElementOfSeq
    <3>3. k \in DOMAIN params
      BY <1>2
    <3>4. ValueOf(params[k].name) = params[k].value
      BY <3>3, ValueStored
    <3>. QED
      BY <3>2, <3>4
  <2>2. texts[k] = Replaced(texts[k - 1], e)
    BY <1>3
  <2>3. Now <=> Before \/ (e.name = name /\ e.value # "")
    <3>1. \A j : j \in 1 .. k <=> j \in 1 .. (k - 1) \/ j = k
      BY <1>2
    <3>. QED
      BY <3>1, Zenon
  <2>4. CASE e.value = ""
    <3>1. texts[k] = texts[k - 1]
      BY <2>2, <2>4 DEF Replaced
    <3>2. Now <=> Before
      BY <2>3, <2>4, Zenon
    <3>. HIDE DEF Now, Before, e
    <3>. QED
      BY <1>5, <3>1, <3>2 DEF Now, Before
  <2>5. CASE e.value # ""
    <3>1. i \in DOMAIN texts[k] /\ q = Written(p, e.name)
      BY <1>5, <2>2, <2>5 DEF Replaced
    <3>2. p \in Placeholders /\ p.form = form /\ p.name = name
          /\ (p.got = "itself" \/ (p.got = name /\ Filled))
          /\ (Filled /\ Before => p.got = name)
      BY <1>5, Zenon
    <3>3. Clean(p.form, p.name)
      BY <3>2 DEF form, name
    <3>. HIDE DEF p, q, e, Now, Before
    <3>4. /\ q \in Placeholders /\ q.form = form /\ q.name = name
          /\ q.got = "itself" \/ (q.got = name /\ Filled)
          /\ p.got = name \/ (e.name = name /\ form \in {":", "{{}}"}) => q.got = name
      BY <2>1, <2>5, <3>1, <3>2, <3>3, WrittenWell DEF Filled
    <3>5. Filled /\ Now => q.got = name
      BY <2>3, <3>2, <3>4 DEF Filled
    <3>. QED
      BY <3>1, <3>4, <3>5, Zenon DEF p, q, Now
  <2>. QED
    BY <2>4, <2>5
<1>6. Right(n)
  <2>. HIDE DEF Right
  <2>1. SUFFICES ASSUME ~Right(n) PROVE FALSE
    OBVIOUS
  <2>. DEFINE T == {k \in 0 .. n : ~Right(k)}
  <2>2. T \subseteq Nat /\ n \in T
    BY <1>2, <2>1
  <2>. HIDE DEF T
  <2>3. PICK m \in T : \A t \in T : m <= t
    BY <2>2, Least
  <2>4. m \in 0 .. n /\ ~Right(m)
    BY <2>3 DEF T
  <2>5. m # 0
    BY <1>4, <2>4
  <2>6. m \in 1 .. n /\ m - 1 \in 0 .. n /\ ~(m <= m - 1)
    BY <1>2, <2>4, <2>5
  <2>7. Right(m - 1)
    BY <2>3, <2>6 DEF T
  <2>. QED
    BY <1>5, <2>4, <2>6, <2>7
<1>7. Filled => \E j \in 1 .. n : params[j].name = name /\ params[j].value # ""
  BY <1>1, <1>2, ValueStored DEF Filled
<1>8. form = "::" => ValueOf(name) = ""
  BY DEF Clean, form, name
<1>9. ResolveParams(b)[i].got = (IF ValueOf(name) = "" \/ form \in {"::", "{{ }}"} THEN "itself" ELSE name)
  BY <1>1, <1>3, <1>6, <1>7, <1>8 DEF Filled, Forms
<1>. QED
  <2>1. ResolveParams(b)[i].form = form /\ ResolveParams(b)[i].name = name /\ i \in DOMAIN ResolveParams(b)
    BY <1>3, <1>6
  <2>. QED
    BY <1>9, <2>1 DEF form, name

\* Whatever is written, each placeholder stays where it is.
LEMMA SameText ==
  ASSUME NEW b \in Buffers, StoredOnce
  PROVE  /\ DOMAIN ResolveParams(b) = DOMAIN b
         /\ \A i \in DOMAIN b : /\ ResolveParams(b)[i].form = b[i].form
                                /\ ResolveParams(b)[i].name = b[i].name
<1>. DEFINE n == Len(params)
<1>1. \A i \in DOMAIN b : b[i].form \in Forms /\ b[i].name \in Names
  <2>1. \A i \in DOMAIN b : b[i] \in [form : Forms, name : Names]
    BY DockAssumption, ElementOfSeq, LenProperties
  <2>. QED
    BY <2>1
<1>2. n \in Nat
  BY LenProperties DEF StoredOnce
<1>3. PICK texts : /\ texts[0] = Bare(b)
                   /\ \A k \in 1 .. n : texts[k] = Replaced(texts[k - 1], params[k])
                   /\ texts[n] = ResolveParams(b)
  BY WrittenOneByOne
<1>. HIDE DEF n
<1>. DEFINE Like(k) == /\ DOMAIN texts[k] = DOMAIN b
                       /\ \A i \in DOMAIN b : /\ texts[k][i] \in Placeholders
                                              /\ texts[k][i].form = b[i].form
                                              /\ texts[k][i].name = b[i].name
<1>4. Like(0)
  BY <1>1, <1>3 DEF Bare, Placeholders, Outcome
<1>5. ASSUME NEW k \in 1 .. n, Like(k - 1)
      PROVE  Like(k)
  <2>. DEFINE e == params[k]
  <2>1. e.name \in Names
    <3>1. params \in Seq(Stored) /\ k \in 1 .. Len(params)
      BY DEF StoredOnce, n
    <3>2. params[k] \in Stored
      BY <3>1, ElementOfSeq
    <3>. QED
      BY <3>2 DEF Stored
  <2>2. texts[k] = Replaced(texts[k - 1], e)
    BY <1>3
  <2>. HIDE DEF e
  <2>3. CASE e.value = ""
    <3>1. texts[k] = texts[k - 1]
      BY <2>2, <2>3 DEF Replaced
    <3>. QED
      BY <1>5, <3>1
  <2>4. CASE e.value # ""
    <3>1. /\ DOMAIN texts[k] = DOMAIN b
          /\ \A i \in DOMAIN b : texts[k][i] = Written(texts[k - 1][i], e.name)
      BY <1>5, <2>2, <2>4 DEF Replaced
    <3>2. \A p \in Placeholders : /\ Written(p, e.name) \in Placeholders
                                  /\ Written(p, e.name).form = p.form /\ Written(p, e.name).name = p.name
      <4>1. \A p \in Placeholders, o \in Outcome :
              /\ [p EXCEPT !.got = o] \in Placeholders
              /\ [p EXCEPT !.got = o].form = p.form /\ [p EXCEPT !.got = o].name = p.name
        BY DEF Placeholders
      <4>2. e.name \in Outcome /\ "spoiled" \in Outcome /\ \A p \in Placeholders : p.got \in Outcome
        BY <2>1 DEF Placeholders, Outcome
      <4>3. ASSUME NEW p \in Placeholders
            PROVE  Written(p, e.name) = p \/ \E o \in Outcome : Written(p, e.name) = [p EXCEPT !.got = o]
        BY <4>2 DEF Written
      <4>. TAKE p \in Placeholders
      <4>4. CASE Written(p, e.name) = p
        BY <4>4
      <4>5. CASE \E o \in Outcome : Written(p, e.name) = [p EXCEPT !.got = o]
        BY <4>1, <4>5
      <4>. QED
        BY <4>3, <4>4, <4>5
    <3>. QED
      BY <1>5, <3>1, <3>2
  <2>. QED
    BY <2>3, <2>4
<1>6. Like(n)
  <2>. HIDE DEF Like
  <2>1. SUFFICES ASSUME ~Like(n) PROVE FALSE
    OBVIOUS
  <2>. DEFINE T == {k \in 0 .. n : ~Like(k)}
  <2>2. T \subseteq Nat /\ n \in T
    BY <1>2, <2>1
  <2>. HIDE DEF T
  <2>3. PICK m \in T : \A t \in T : m <= t
    BY <2>2, Least
  <2>4. m \in 0 .. n /\ ~Like(m)
    BY <2>3 DEF T
  <2>5. m # 0
    BY <1>4, <2>4
  <2>6. m \in 1 .. n /\ m - 1 \in 0 .. n /\ ~(m <= m - 1)
    BY <1>2, <2>4, <2>5
  <2>7. Like(m - 1)
    BY <2>3, <2>6 DEF T
  <2>. QED
    BY <1>5, <2>4, <2>6, <2>7
<1>. QED
  BY <1>3, <1>6

LEMMA OnceMore ==
  ASSUME StoredOnce, NEW n \in Names, NEW v \in Values
  PROVE  Given(n, v) \in Seq(Stored) /\ NamedOnce(Given(n, v))
<1>. DEFINE e == [name |-> n, value |-> v]
<1>0. Len(params) \in Nat /\ DOMAIN params = 1 .. Len(params) /\ \A i \in 1 .. Len(params) : params[i] \in Stored
  BY ElementOfSeq, LenProperties DEF StoredOnce
<1>1. e \in Stored /\ e.name = n
  BY DEF Stored
<1>. HIDE DEF e
<1>2. CASE \E i \in DOMAIN params : params[i].name = n
  <2>. DEFINE ps == [i \in 1 .. Len(params) |-> IF params[i].name = n THEN e ELSE params[i]]
  <2>1. Given(n, v) = ps
    BY <1>0, <1>2 DEF Given, e
  <2>2. \A i \in 1 .. Len(params) : ps[i] \in Stored /\ ps[i].name = params[i].name
    BY <1>0, <1>1
  <2>3. ps \in Seq(Stored)
    BY <1>0, <2>2, IsASeq
  <2>4. NamedOnce(ps)
    BY <1>0, <2>2 DEF NamedOnce, StoredOnce
  <2>. QED
    BY <2>1, <2>3, <2>4
<1>3. CASE ~ \E i \in DOMAIN params : params[i].name = n
  <2>. DEFINE ps == Append(params, e)
  <2>1. Given(n, v) = ps
    BY <1>3 DEF Given, e
  <2>2. /\ ps \in Seq(Stored) /\ Len(ps) = Len(params) + 1
        /\ \A i \in 1 .. Len(params) : ps[i] = params[i]
        /\ ps[Len(params) + 1] = e
    BY <1>1, AppendProperties DEF StoredOnce
  <2>3. DOMAIN ps = 1 .. (Len(params) + 1)
    BY <2>2, LenProperties, Zenon
  <2>. HIDE DEF ps
  <2>4. \A i \in DOMAIN ps : \/ i \in DOMAIN params /\ ps[i].name = params[i].name /\ ps[i].name # n
                             \/ i = Len(params) + 1 /\ ps[i].name = n
    BY <1>0, <1>1, <1>3, <2>2, <2>3
  <2>5. NamedOnce(ps)
    BY <2>4 DEF NamedOnce, StoredOnce
  <2>. QED
    BY <2>1, <2>2, <2>5
<1>. QED
  BY <1>2, <1>3

LEMMA DrawerBound == MaxSettings \in Nat
BY DockAssumption, Zenon

LEMMA NothingRun ==
  /\ queried = <<>> => ParamsGetTheirValues
  /\ queried' = <<>> => ParamsGetTheirValues'
<1>1. DOMAIN <<>> = {}
  OBVIOUS
<1>. QED
  BY <1>1, Zenon DEF ParamsGetTheirValues

LEMMA DockInit == DInit => DockInv
<1>. SUFFICES ASSUME DInit PROVE DockInv
  OBVIOUS
<1>. USE DEF DInit
<1>1. OneOfTheTwo
  BY DEF OneOfTheTwo, PanesOf
<1>1a. DTypeOK
  <2>1. 0 \in 0 .. MaxSettings
    BY DrawerBound
  <2>2. {dockShown, collapse, chartVisible, gridVisible, dagVisible, toggled} \subseteq BOOLEAN
    BY Zenon
  <2>3. /\ activePage \in Pages /\ pageShown \subseteq Pages /\ dockActive \in Tabs
        /\ shown \subseteq {"results", "console", "grid", "chart", "analytics"}
    BY DEF Pages, Tabs
  <2>. QED
    BY <2>1, <2>2, <2>3 DEF DTypeOK
<1>2. StoredOnce
  BY DEF StoredOnce, NamedOnce
<1>3. ParamsGetTheirValues
  BY NothingRun
<1>. QED
  BY <1>1, <1>1a, <1>2, <1>3 DEF DockInv

\* What the pages, the dock and its toggles show.
LEMMA ScreenStep ==
  ASSUME DTypeOK, OneOfTheTwo, PanelNext
  PROVE  (DTypeOK /\ OneOfTheTwo)'
<1>0. settingsMade' \in 0 .. MaxSettings
  <2>1. settingsMade \in 0 .. MaxSettings
    BY Zenon DEF DTypeOK
  <2>2. settingsMade' = settingsMade
    BY Zenon DEF PanelNext, query
  <2>. QED
    BY <2>1, <2>2
<1>. USE DEF DTypeOK, OneOfTheTwo
<1>1. ASSUME NEW page \in Pages, ShowPage(page) PROVE (DTypeOK /\ OneOfTheTwo)'
  <2>1. pageShown' = {page} /\ activePage' = page
    BY <1>1 DEF ShowPage
  <2>. QED
    BY <1>0, <1>1, <2>1 DEF ShowPage, PanesOf
<1>2. ASSUME NEW key \in Tabs, SelectDockTab(key) PROVE (DTypeOK /\ OneOfTheTwo)'
  BY <1>0, <1>2 DEF SelectDockTab, PanesOf, Tabs
<1>3. ASSUME ToggleDock PROVE (DTypeOK /\ OneOfTheTwo)'
  <2>1. collapse' \in BOOLEAN /\ dockShown' = collapse'
    BY <1>3, Zenon DEF ToggleDock
  <2>2. {dockShown, collapse, chartVisible, gridVisible, dagVisible, toggled}' \subseteq BOOLEAN
    BY <1>3, <2>1 DEF ToggleDock
  <2>. QED
    BY <1>0, <1>3, <2>1, <2>2 DEF ToggleDock, PanesOf
<1>4. ASSUME ToggleChartView \/ ToggleDataGrid \/ ToggleDagViewer PROVE (DTypeOK /\ OneOfTheTwo)'
  <2>1. {chartVisible', gridVisible', dagVisible'} \subseteq BOOLEAN
    BY <1>4, Zenon DEF ToggleChartView, ToggleDataGrid, ToggleDagViewer
  <2>2. PICK s \in SUBSET {"results", "console", "grid", "chart", "analytics"} :
          /\ Toggles(s) /\ ("results" \in s <=> "results" \in shown) /\ ("console" \in s <=> "console" \in shown)
    BY <1>4 DEF ToggleChartView, ToggleDataGrid, ToggleDagViewer
  <2>. QED
    BY <1>0, <2>1, <2>2 DEF Toggles
<1>. QED
  BY <1>1, <1>2, <1>3, <1>4 DEF PanelNext

\* What is run, the buffer and what is stored change together.
LEMMA ParamStep ==
  ASSUME DockInv, ParamNext
  PROVE  /\ buffer' \in Buffers /\ StoredOnce' /\ ParamsGetTheirValues'
         /\ settingsMade' \in 0 .. MaxSettings
<1>0. settingsMade \in 0 .. MaxSettings /\ buffer \in Buffers /\ StoredOnce
  BY DEF DockInv, DTypeOK
<1>1. ASSUME NEW n \in Names, NEW v \in Values, ApplyParams(n, v)
      PROVE  StoredOnce' /\ queried' = <<>> /\ settingsMade' \in 0 .. MaxSettings /\ buffer' \in Buffers
  <2>1. settingsMade' \in 0 .. MaxSettings /\ queried' = <<>> /\ buffer' \in Buffers /\ params' = Given(n, v)
    <3>1. /\ settingsMade < MaxSettings /\ settingsMade' = settingsMade + 1
          /\ queried' = <<>> /\ buffer' = buffer /\ params' = Given(n, v)
      BY <1>1, Zenon DEF ApplyParams
    <3>2. settingsMade + 1 \in 0 .. MaxSettings
      BY <1>0, <3>1, DrawerBound
    <3>. QED
      BY <1>0, <3>1, <3>2, Zenon
  <2>2. StoredOnce'
    BY <1>0, <2>1, OnceMore DEF StoredOnce, NamedOnce
  <2>. QED
    BY <2>1, <2>2
<1>2. ASSUME NEW b \in Buffers, OpensBuffer(b)
      PROVE  StoredOnce' /\ queried' = <<>> /\ settingsMade' \in 0 .. MaxSettings /\ buffer' \in Buffers
  BY <1>0, <1>2 DEF OpensBuffer, StoredOnce, NamedOnce
<1>3. queried' = <<>> => ParamsGetTheirValues'
  BY NothingRun
<1>4. ASSUME RunsQuery
      PROVE  /\ buffer' \in Buffers /\ StoredOnce' /\ ParamsGetTheirValues'
             /\ settingsMade' \in 0 .. MaxSettings
  <2>1. queried' = ResolveParams(buffer) /\ params' = params /\ buffer' = buffer /\ settingsMade' = settingsMade
    BY <1>4 DEF RunsQuery
  <2>2. \A m : ValueOf(m)' = ValueOf(m)
    BY <2>1 DEF ValueOf
  <2>3. DOMAIN queried' = DOMAIN buffer
    BY <1>0, <2>1, SameText
  <2>4. ASSUME NEW i \in DOMAIN queried'
        PROVE  LET p == queried'[i]
               IN  \/ p.got = (IF ValueOf(p.name) = "" \/ p.form \in {"::", "{{ }}"} THEN "itself" ELSE p.name)
                   \/ p.form = "::" /\ ValueOf(p.name) # ""
                   \/ \E n \in Names : <<p.name, n>> \in Extends /\ ValueOf(n) # ""
                   \/ ValueOf(p.name) \in Names
    <3>1. i \in DOMAIN buffer /\ queried'[i].form = buffer[i].form /\ queried'[i].name = buffer[i].name
      BY <1>0, <2>1, <2>3, SameText
    <3>2. CASE Clean(buffer[i].form, buffer[i].name)
      BY <1>0, <2>1, <3>1, <3>2, EachItsValue
    <3>3. CASE ~Clean(buffer[i].form, buffer[i].name)
      BY <3>1, <3>3 DEF Clean
    <3>. QED
      BY <3>2, <3>3
  <2>5. ParamsGetTheirValues'
    BY <2>2, <2>4 DEF ParamsGetTheirValues
  <2>. QED
    BY <1>0, <2>1, <2>5 DEF StoredOnce, NamedOnce
<1>. QED
  BY <1>1, <1>2, <1>3, <1>4 DEF ParamNext

LEMMA DockStep ==
  ASSUME DockInv, [PanelNext \/ ParamNext]_dvars
  PROVE  DockInv'
<1>0. DTypeOK /\ OneOfTheTwo /\ buffer \in Buffers /\ StoredOnce /\ ParamsGetTheirValues
  BY DEF DockInv
<1>1. ASSUME UNCHANGED query
      PROVE  /\ buffer' \in Buffers /\ StoredOnce' /\ ParamsGetTheirValues'
             /\ settingsMade' \in 0 .. MaxSettings
  <2>1. buffer' = buffer /\ params' = params /\ queried' = queried /\ settingsMade' = settingsMade
    BY <1>1 DEF query
  <2>2. \A m : ValueOf(m)' = ValueOf(m)
    BY <2>1 DEF ValueOf
  <2>3. ParamsGetTheirValues'
    BY <1>0, <2>1, <2>2 DEF ParamsGetTheirValues
  <2>. QED
    BY <1>0, <2>1, <2>3 DEF StoredOnce, NamedOnce, DTypeOK
<1>2. ASSUME UNCHANGED panels, settingsMade' \in 0 .. MaxSettings
      PROVE  (DTypeOK /\ OneOfTheTwo)'
  <2>1. /\ pageShown' = pageShown /\ activePage' = activePage /\ dockShown' = dockShown
        /\ collapse' = collapse /\ dockActive' = dockActive /\ shown' = shown
        /\ chartVisible' = chartVisible /\ gridVisible' = gridVisible
        /\ dagVisible' = dagVisible /\ toggled' = toggled
    BY <1>2 DEF panels
  <2>2. OneOfTheTwo'
    BY <1>0, <2>1, Zenon DEF OneOfTheTwo, PanesOf
  <2>3. DTypeOK'
    BY <1>0, <1>2, <2>1 DEF DTypeOK
  <2>. QED
    BY <2>2, <2>3
<1>3. CASE PanelNext
  <2>1. UNCHANGED query
    BY <1>3 DEF PanelNext
  <2>. QED
    BY <1>0, <1>1, <1>3, <2>1, ScreenStep DEF DockInv
<1>4. CASE ParamNext
  <2>1. UNCHANGED panels
    BY <1>4 DEF ParamNext
  <2>. QED
    BY <1>2, <1>4, <2>1, ParamStep DEF DockInv
<1>5. CASE UNCHANGED dvars
  BY <1>0, <1>1, <1>2, <1>5 DEF dvars, DockInv
<1>. QED
  BY <1>3, <1>4, <1>5

(* The dock shows the selected tab and nothing else until a toggle is used, *)
(* the list and the console never share their row, one page is shown, and a *)
(* query is run with each parameter at its own value, whichever parameters  *)
(* and values there are and however often the drawer is used (RouterShell,  *)
(* the dock and the drawer of gui.py).                                      *)
THEOREM DockAlwaysTrue == DSpec => []DockIsTrue
<1>1. DockInv => DockIsTrue
  BY DEF DockInv, DockIsTrue
<1>. QED
  BY <1>1, DockInit, DockStep, PTL DEF DSpec

-----------------------------------------------------------------------------
(***************************************************************************)
(* Ranking.  A finite set under a total order is a list: the n-th of it is *)
(* the one that n - 1 others come before.                                  *)
(***************************************************************************)
Preceding(F, R, i) == {j \in F : <<j, i>> \in R}
RankOf(F, R, i) == Cardinality(Preceding(F, R, i))
Ordering(F, R) ==
  /\ \A i \in F : <<i, i>> \notin R
  /\ \A i, j \in F : i # j => <<i, j>> \in R \/ <<j, i>> \in R
  /\ \A i, j, k \in F : <<i, j>> \in R /\ <<j, k>> \in R => <<i, k>> \in R
InRank(F, R) == [n \in 1 .. Cardinality(F) |-> CHOOSE i \in F : RankOf(F, R, i) = n - 1]

LEMMA PlacesRise ==
  ASSUME NEW F, IsFiniteSet(F), NEW R, Ordering(F, R)
  PROVE  /\ \A i \in F : RankOf(F, R, i) \in 0 .. (Cardinality(F) - 1)
         /\ \A i, j \in F : <<i, j>> \in R => RankOf(F, R, i) < RankOf(F, R, j)
<1>. DEFINE c == Cardinality(F)
<1>1. c \in Nat
  BY FS_CardinalityType
<1>2. \A i, j : j \in Preceding(F, R, i) <=> j \in F /\ <<j, i>> \in R
  BY Zenon DEF Preceding
<1>3. \A i : Preceding(F, R, i) \in SUBSET F
  BY <1>2, Zenon
<1>4. \A i : /\ IsFiniteSet(Preceding(F, R, i)) /\ RankOf(F, R, i) \in Nat /\ RankOf(F, R, i) <= c
             /\ c = RankOf(F, R, i) => F = Preceding(F, R, i)
  BY <1>3, FS_Subset, FS_CardinalityType DEF RankOf
<1>5. \A i \in F : RankOf(F, R, i) \in 0 .. (c - 1)
  <2>. TAKE i \in F
  <2>1. i \notin Preceding(F, R, i)
    BY <1>2, Zenon DEF Ordering
  <2>2. RankOf(F, R, i) # c
    BY <1>4, <2>1, Zenon
  <2>. QED
    BY <1>1, <1>4, <2>2
<1>6. ASSUME NEW i \in F, NEW j \in F, <<i, j>> \in R PROVE RankOf(F, R, i) < RankOf(F, R, j)
  <2>1. Preceding(F, R, i) \in SUBSET Preceding(F, R, j)
    BY <1>2, <1>6, Zenon DEF Ordering
  <2>2. i \in Preceding(F, R, j) /\ i \notin Preceding(F, R, i)
    BY <1>2, <1>6, Zenon DEF Ordering
  <2>3. Preceding(F, R, j) # Preceding(F, R, i)
    BY <2>2, Zenon
  <2>4. /\ RankOf(F, R, i) <= RankOf(F, R, j)
        /\ RankOf(F, R, j) = RankOf(F, R, i) => Preceding(F, R, j) = Preceding(F, R, i)
    BY <1>4, <2>1, FS_Subset DEF RankOf
  <2>. QED
    BY <1>4, <2>3, <2>4
<1>. QED
  BY <1>5, <1>6, Zenon

LEMMA InRankIs ==
  ASSUME NEW F, IsFiniteSet(F), NEW R, Ordering(F, R), NEW c, c = Cardinality(F)
  PROVE  /\ c \in Nat /\ InRank(F, R) \in [1 .. c -> F]
         /\ \A i \in F : \E n \in 1 .. c : InRank(F, R)[n] = i
         /\ \A n, m \in 1 .. c : n < m => InRank(F, R)[n] # InRank(F, R)[m]
                                          /\ <<InRank(F, R)[m], InRank(F, R)[n]>> \notin R
<1>. DEFINE place == [i \in F |-> RankOf(F, R, i)]
            at(n) == CHOOSE i \in F : RankOf(F, R, i) = n - 1
<1>1. c \in Nat
  BY FS_CardinalityType
<1>2. /\ \A i \in F : RankOf(F, R, i) \in 0 .. (c - 1)
      /\ \A i, j \in F : <<i, j>> \in R => RankOf(F, R, i) < RankOf(F, R, j)
  BY PlacesRise, Zenon
<1>3. \A i, j \in F : RankOf(F, R, i) = RankOf(F, R, j) => i = j
  <2>1. \A i, j \in F : RankOf(F, R, i) = RankOf(F, R, j) => <<i, j>> \notin R
    BY <1>1, <1>2
  <2>. QED
    BY <2>1, Zenon DEF Ordering
<1>4. place \in Injection(F, 0 .. (c - 1))
  <2>1. place \in [F -> 0 .. (c - 1)]
    BY <1>2, Zenon
  <2>2. \A i, j \in F : place[i] = place[j] => i = j
    BY <1>3
  <2>. HIDE DEF place
  <2>. QED
    BY <2>1, <2>2, Zenon DEF Injection, IsInjective
<1>5. IsFiniteSet(0 .. (c - 1)) /\ Cardinality(0 .. (c - 1)) = c
  <2>1. 0 \in Int /\ c - 1 \in Int
    BY <1>1
  <2>2. IsFiniteSet(0 .. (c - 1)) /\ Cardinality(0 .. (c - 1)) = IF 0 > c - 1 THEN 0 ELSE c - 1 - 0 + 1
    BY <2>1, FS_Interval, Zenon
  <2>. QED
    BY <1>1, <2>2
<1>6. \A n \in 1 .. c : \E i \in F : RankOf(F, R, i) = n - 1
  <2>. TAKE n \in 1 .. c
  <2>1. n - 1 \in 0 .. (c - 1)
    BY <1>1
  <2>2. \A i \in F : place[i] = RankOf(F, R, i)
    BY Zenon
  <2>. HIDE DEF place
  <2>3. place \in Surjection(F, 0 .. (c - 1))
    BY <1>4, <1>5, FS_Injection, Zenon
  <2>4. \E i \in F : place[i] = n - 1
    BY <2>1, <2>3, Zenon DEF Surjection
  <2>. QED
    BY <2>2, <2>4, Zenon
<1>7. \A n \in 1 .. c : at(n) \in F /\ RankOf(F, R, at(n)) = n - 1
  BY <1>6, Zenon
<1>8. InRank(F, R) = [n \in 1 .. c |-> at(n)]
  BY Zenon DEF InRank
<1>. HIDE DEF at, place
<1>9. \A n \in 1 .. c : InRank(F, R)[n] = at(n)
  BY <1>8, Zenon
<1>10. InRank(F, R) \in [1 .. c -> F]
  BY <1>7, <1>8, Zenon
<1>11. ASSUME NEW i \in F PROVE \E n \in 1 .. c : InRank(F, R)[n] = i
  <2>. DEFINE n == RankOf(F, R, i) + 1
  <2>1. n \in 1 .. c /\ n - 1 = RankOf(F, R, i)
    BY <1>1, <1>2
  <2>. HIDE DEF n
  <2>2. at(n) \in F /\ RankOf(F, R, at(n)) = RankOf(F, R, i)
    BY <1>7, <2>1
  <2>3. at(n) = i
    BY <1>3, <2>2, Zenon
  <2>. QED
    BY <1>9, <2>1, <2>3, Zenon
<1>12. ASSUME NEW n \in 1 .. c, NEW m \in 1 .. c, n < m
       PROVE  InRank(F, R)[n] # InRank(F, R)[m] /\ <<InRank(F, R)[m], InRank(F, R)[n]>> \notin R
  <2>1. /\ at(n) \in F /\ RankOf(F, R, at(n)) = n - 1
        /\ at(m) \in F /\ RankOf(F, R, at(m)) = m - 1
    BY <1>7, Zenon
  <2>2. ~(RankOf(F, R, at(m)) < RankOf(F, R, at(n))) /\ RankOf(F, R, at(m)) # RankOf(F, R, at(n))
    BY <1>12, <2>1
  <2>3. at(n) # at(m) /\ <<at(m), at(n)>> \notin R
    BY <1>2, <2>1, <2>2, Zenon
  <2>. QED
    BY <1>9, <2>3, Zenon
<1>. QED
  BY <1>1, <1>10, <1>11, <1>12, Zenon

-----------------------------------------------------------------------------
(***************************************************************************)
(* Palette.  What the list holds is worked out letter by letter, so what a *)
(* score means is an induction over the text typed, and the list is right  *)
(* because better-than is a total order: the n-th place has one command.   *)
(***************************************************************************)
Cards == [label : Seq(Letters), hint : Seq(Letters), family : Seq(Letters)]

LEMMA Upto ==
  ASSUME NEW n \in Nat, NEW S, 0 \in S, \A k \in 1 .. n : k - 1 \in S => k \in S
  PROVE  \A k \in 0 .. n : k \in S
<1>. DEFINE T == {k \in 0 .. n : k \notin S}
<1>1. SUFFICES ASSUME T # {} PROVE FALSE
  OBVIOUS
<1>2. PICK k \in T : \A t \in T : k <= t
  <2>1. T \subseteq Nat
    OBVIOUS
  <2>. HIDE DEF T
  <2>. QED
    BY <1>1, <2>1, Least
<1>3. k \in 1 .. n /\ k - 1 \in 0 .. n /\ ~(k <= k - 1)
  <2>1. k \in 0 .. n /\ k # 0
    BY Zenon
  <2>. QED
    BY <2>1
<1>4. k - 1 \in S
  BY <1>2, <1>3, Zenon
<1>. QED
  BY <1>3, <1>4, Zenon

\* The letters found one after the other, up to the m-th.
Finding(q, text, m, at) ==
  at = [k \in 0 .. m |-> IF k = 0 THEN 0 ELSE NextPlace(q[k], text, at[k - 1])]

LEMMA FindingExtends ==
  ASSUME NEW q, NEW text, NEW k \in Nat, k # 0, NEW at, Finding(q, text, k - 1, at)
  PROVE  \E more : Finding(q, text, k, more)
<1>. DEFINE F(j) == IF j = k THEN NextPlace(q[k], text, at[k - 1]) ELSE at[j]
            more == [j \in 0 .. k |-> F(j)]
            E(j) == IF j = 0 THEN 0 ELSE NextPlace(q[j], text, more[j - 1])
<1>1. \A j \in 0 .. k : F(j) = E(j)
  <2>. TAKE j \in 0 .. k
  <2>1. /\ j = k => j # 0
        /\ j # k => j \in 0 .. (k - 1)
        /\ j # 0 => j - 1 \in 0 .. k /\ j - 1 # k
    OBVIOUS
  <2>2. j # k => at[j] = IF j = 0 THEN 0 ELSE NextPlace(q[j], text, at[j - 1])
    BY <2>1, Zenon DEF Finding
  <2>3. j # 0 => more[j - 1] = at[j - 1]
    BY <2>1, Zenon
  <2>. HIDE DEF more
  <2>. QED
    BY <2>1, <2>2, <2>3, Zenon
<1>2. more = [j \in 0 .. k |-> E(j)]
  <2>. HIDE DEF F, E
  <2>. QED
    BY <1>1, Zenon
<1>. QED
  BY <1>2, Zenon DEF Finding

LEMMA FindingExists ==
  ASSUME NEW q, NEW text, NEW m \in Nat
  PROVE  \E at : Finding(q, text, m, at)
<1>. DEFINE S == {k \in Nat : \E at : Finding(q, text, k, at)}
<1>1. 0 \in S
  <2>. DEFINE at == [j \in 0 .. 0 |-> 0]
  <2>1. \A j \in 0 .. 0 : j = 0
    OBVIOUS
  <2>2. at = [j \in 0 .. 0 |-> IF j = 0 THEN 0 ELSE NextPlace(q[j], text, at[j - 1])]
    BY <2>1, Zenon
  <2>. QED
    BY <2>2, Zenon DEF Finding
<1>2. \A k \in 1 .. m : k - 1 \in S => k \in S
  <2>. SUFFICES ASSUME NEW k \in 1 .. m, k - 1 \in S PROVE k \in S
    BY Zenon
  <2>1. k \in Nat /\ k # 0
    OBVIOUS
  <2>. QED
    BY <2>1, FindingExtends, Zenon
<1>3. m \in 0 .. m
  OBVIOUS
<1>. HIDE DEF S
<1>4. m \in S
  BY <1>1, <1>2, <1>3, Upto
<1>. QED
  BY <1>4, Zenon DEF S

LEMMA PlacesAre ==
  ASSUME NEW q, NEW text, Len(q) \in Nat
  PROVE  /\ Places(q, text)[0] = 0
         /\ \A k \in 1 .. Len(q) : Places(q, text)[k] = NextPlace(q[k], text, Places(q, text)[k - 1])
<1>. DEFINE m == Len(q)
            at == CHOOSE f : Finding(q, text, m, f)
<1>1. Finding(q, text, m, at)
  BY FindingExists, Zenon
<1>2. Places(q, text) = at
  BY Zenon DEF Places, Finding
<1>. HIDE DEF at
<1>3. 0 \in 0 .. m /\ \A k \in 1 .. m : k \in 0 .. m /\ k # 0
  OBVIOUS
<1>. QED
  BY <1>1, <1>2, <1>3, Zenon DEF Finding

\* The next letter is at its first place from there on, if it has one.
FirstAfter(c, text, place, p) ==
  \/ p = NoMatch /\ \A i \in (place + 1) .. Len(text) : text[i] # c
  \/ /\ p \in (place + 1) .. Len(text) /\ text[p] = c
     /\ \A i \in (place + 1) .. Len(text) : text[i] = c => p <= i

LEMMA NextPlaceIs ==
  ASSUME NEW c, NEW text, Len(text) \in Nat, NEW place \in Nat
  PROVE  FirstAfter(c, text, place, NextPlace(c, text, place))
<1>. DEFINE next == FirstFrom(c, text, place + 1)
<1>1. place # NoMatch
  BY DEF NoMatch
<1>2. \A i : i \in next <=> i \in (place + 1) .. Len(text) /\ text[i] = c
  BY Zenon DEF FirstFrom
<1>3. NextPlace(c, text, place) = IF next = {} THEN NoMatch ELSE CHOOSE i \in next : \A j \in next : i <= j
  <2>. DEFINE given == IF place = NoMatch THEN {} ELSE FirstFrom(c, text, place + 1)
  <2>1. given = next
    BY <1>1, Zenon
  <2>2. NextPlace(c, text, place) = IF given = {} THEN NoMatch ELSE CHOOSE i \in given : \A j \in given : i <= j
    BY Zenon DEF NextPlace
  <2>. HIDE DEF given, next
  <2>. QED
    BY <2>1, <2>2
<1>4. next \subseteq Nat
  BY <1>2
<1>. HIDE DEF next
<1>5. CASE next = {}
  BY <1>2, <1>3, <1>5, Zenon DEF FirstAfter
<1>6. CASE next # {}
  <2>1. \E i \in next : \A j \in next : i <= j
    BY <1>4, <1>6, Least
  <2>2. NextPlace(c, text, place) \in next /\ \A j \in next : NextPlace(c, text, place) <= j
    BY <1>3, <1>6, <2>1, Zenon
  <2>. QED
    BY <1>2, <2>2, Zenon DEF FirstAfter
<1>. QED
  BY <1>5, <1>6

\* Where k letters were found they stand in order, and where one was not no later one is.
LettersFound(q, text, at, k) ==
  at[k] # NoMatch => /\ at[k] \in k .. Len(text)
                     /\ \A j \in 1 .. k : at[j] \in 1 .. at[k] /\ text[at[j]] = q[j]
                     /\ \A i, j \in 1 .. k : i < j => at[i] < at[j]

LEMMA FoundInOrder ==
  ASSUME NEW q, NEW text, Len(q) \in Nat, Len(text) \in Nat, NEW at, at = Places(q, text)
  PROVE  \A k \in 0 .. Len(q) : LettersFound(q, text, at, k)
<1>. DEFINE S == {k \in 0 .. Len(q) : LettersFound(q, text, at, k)}
<1>0. at[0] = 0 /\ \A k \in 1 .. Len(q) : at[k] = NextPlace(q[k], text, at[k - 1])
  BY PlacesAre
<1>1. 0 \in S
  <2>1. 0 \in 0 .. Len(text) /\ 1 .. 0 = {} /\ 0 \in 0 .. Len(q)
    OBVIOUS
  <2>. QED
    BY <1>0, <2>1, Zenon DEF LettersFound
<1>2. ASSUME NEW k \in 1 .. Len(q), LettersFound(q, text, at, k - 1) PROVE LettersFound(q, text, at, k)
  <2>. SUFFICES ASSUME at[k] # NoMatch
                PROVE  /\ at[k] \in k .. Len(text)
                       /\ \A j \in 1 .. k : at[j] \in 1 .. at[k] /\ text[at[j]] = q[j]
                       /\ \A i, j \in 1 .. k : i < j => at[i] < at[j]
    BY Zenon DEF LettersFound
  <2>1. at[k - 1] # NoMatch
    <3>1. at[k - 1] = NoMatch => NextPlace(q[k], text, at[k - 1]) = NoMatch
      BY DEF NextPlace
    <3>. QED
      BY <1>0, <3>1
  <2>2. /\ at[k - 1] \in (k - 1) .. Len(text)
        /\ \A j \in 1 .. (k - 1) : at[j] \in 1 .. at[k - 1] /\ text[at[j]] = q[j]
        /\ \A i, j \in 1 .. (k - 1) : i < j => at[i] < at[j]
    BY <1>2, <2>1, Zenon DEF LettersFound
  <2>3. at[k - 1] \in Nat /\ at[k] = NextPlace(q[k], text, at[k - 1])
    BY <1>0, <2>2
  <2>4. at[k] \in (at[k - 1] + 1) .. Len(text) /\ text[at[k]] = q[k]
    <3>1. FirstAfter(q[k], text, at[k - 1], at[k])
      BY <2>3, NextPlaceIs
    <3>. QED
      BY <3>1 DEF FirstAfter
  <2>5. at[k] \in Nat /\ at[k - 1] < at[k] /\ at[k] \in k .. Len(text) /\ at[k] >= 1
    BY <2>2, <2>3, <2>4
  <2>6. \A j \in 1 .. k : j = k \/ j \in 1 .. (k - 1)
    OBVIOUS
  <2>7. \A j \in 1 .. (k - 1) : at[j] \in Nat /\ 1 <= at[j] /\ at[j] < at[k]
    BY <2>2, <2>3, <2>5
  <2>8. \A j \in 1 .. k : at[j] \in 1 .. at[k] /\ text[at[j]] = q[j]
    <3>. TAKE j \in 1 .. k
    <3>1. CASE j = k
      BY <2>4, <2>5, <3>1
    <3>2. CASE j \in 1 .. (k - 1)
      BY <2>2, <2>5, <2>7, <3>2
    <3>. QED
      BY <2>6, <3>1, <3>2
  <2>9. \A i, j \in 1 .. k : i < j => at[i] < at[j]
    <3>. TAKE i, j \in 1 .. k
    <3>. HAVE i < j
    <3>1. i \in 1 .. (k - 1)
      OBVIOUS
    <3>. QED
      BY <2>2, <2>6, <2>7, <3>1
  <2>. QED
    BY <2>5, <2>8, <2>9
<1>3. \A k \in 1 .. Len(q) : k - 1 \in S => k \in S
  <2>1. \A k \in 1 .. Len(q) : k \in 0 .. Len(q)
    OBVIOUS
  <2>. QED
    BY <1>2, <2>1, Zenon
<1>. HIDE DEF S
<1>4. \A k \in 0 .. Len(q) : k \in S
  BY <1>1, <1>3, Upto
<1>. QED
  BY <1>4, Zenon DEF S

\* A text spelt by other letters is spelt by the first ones at the latest there.
SpeltAt(q, text, f) ==
  /\ \A i \in 1 .. Len(q) : f[i] \in 1 .. Len(text) /\ text[f[i]] = q[i]
  /\ \A i, j \in 1 .. Len(q) : i < j => f[i] < f[j]

LEMMA FirstAreEarly ==
  ASSUME NEW q, NEW text, Len(q) \in Nat, Len(text) \in Nat, NEW f, SpeltAt(q, text, f)
  PROVE  Places(q, text)[Len(q)] # NoMatch
<1>. DEFINE at == Places(q, text)
<1>. DEFINE S == {k \in 0 .. Len(q) : at[k] # NoMatch /\ at[k] \in Nat /\ (k # 0 => at[k] <= f[k])}
<1>0. at[0] = 0 /\ \A k \in 1 .. Len(q) : at[k] = NextPlace(q[k], text, at[k - 1])
  BY PlacesAre
<1>. HIDE DEF at
<1>1. 0 \in S
  BY <1>0 DEF NoMatch
<1>2. ASSUME NEW k \in 1 .. Len(q), k - 1 \in S PROVE k \in S
  <2>1. k \in 0 .. Len(q) /\ k - 1 \in 0 .. Len(q) /\ (k - 1 # 0 => k - 1 \in 1 .. Len(q) /\ k - 1 < k)
    OBVIOUS
  <2>2. at[k - 1] \in Nat /\ (k - 1 # 0 => at[k - 1] <= f[k - 1])
    BY <1>2, Zenon
  <2>3. k - 1 = 0 => at[k - 1] = 0
    BY <1>0
  <2>. HIDE DEF S
  <2>4. f[k] \in (at[k - 1] + 1) .. Len(text) /\ text[f[k]] = q[k]
    <3>1. f[k] \in 1 .. Len(text) /\ text[f[k]] = q[k]
      BY DEF SpeltAt
    <3>2. k - 1 # 0 => f[k - 1] < f[k] /\ f[k - 1] \in 1 .. Len(text)
      BY <2>1, Zenon DEF SpeltAt
    <3>3. at[k - 1] < f[k]
      BY <2>2, <2>3, <3>1, <3>2
    <3>. QED
      BY <2>2, <3>1, <3>3
  <2>5. at[k] = NextPlace(q[k], text, at[k - 1])
    BY <1>0, Zenon
  <2>6. at[k] \in (at[k - 1] + 1) .. Len(text) /\ at[k] <= f[k]
    <3>1. FirstAfter(q[k], text, at[k - 1], at[k])
      BY <2>2, <2>5, NextPlaceIs
    <3>. QED
      BY <2>4, <3>1, Zenon DEF FirstAfter
  <2>7. at[k] \in Nat /\ at[k] # NoMatch
    BY <2>2, <2>6 DEF NoMatch
  <2>. QED
    BY <2>1, <2>6, <2>7, Zenon DEF S
<1>3. Len(q) \in 0 .. Len(q)
  OBVIOUS
<1>. HIDE DEF S
<1>4. Len(q) \in S
  BY <1>1, <1>2, <1>3, Upto
<1>. QED
  BY <1>4, Zenon DEF S, at

\* A text has a score exactly when it is spelt out, and then a number.
LEMMA ScoreTells ==
  ASSUME NEW q \in Seq(Letters), NEW text \in Seq(Letters)
  PROVE  /\ Score(q, text) = NoMatch <=> ~Spells(q, text)
         /\ Score(q, text) # NoMatch => Score(q, text) \in Nat
<1>. DEFINE at == Places(q, text)
            n == Len(q)
            skips == {k \in 1 .. n : at[k] > at[k - 1] + 1}
<1>1. n \in Nat /\ Len(text) \in Nat /\ DOMAIN q = 1 .. n /\ DOMAIN text = 1 .. Len(text)
  BY LenProperties
<1>2. Score(q, text) = IF at[n] = NoMatch THEN NoMatch ELSE at[n] - n + 3 * Cardinality(skips)
  BY Zenon DEF Score
<1>3. Cardinality(skips) \in Nat
  <2>1. IsFiniteSet(1 .. n)
    BY <1>1, FS_Interval
  <2>2. skips \in SUBSET (1 .. n)
    OBVIOUS
  <2>. HIDE DEF skips, n
  <2>. QED
    BY <2>1, <2>2, FS_Subset, FS_CardinalityType
<1>. HIDE DEF skips
<1>4. LettersFound(q, text, at, n)
  <2>1. n \in 0 .. n
    BY <1>1
  <2>. QED
    BY <1>1, <2>1, FoundInOrder
<1>5. ASSUME at[n] # NoMatch PROVE Spells(q, text) /\ Score(q, text) \in Nat /\ Score(q, text) # NoMatch
  <2>1. /\ at[n] \in n .. Len(text)
        /\ \A j \in 1 .. n : at[j] \in 1 .. at[n] /\ text[at[j]] = q[j]
        /\ \A i, j \in 1 .. n : i < j => at[i] < at[j]
    BY <1>4, <1>5, Zenon DEF LettersFound
  <2>. HIDE DEF at
  <2>2. Score(q, text) \in Nat
    BY <1>1, <1>2, <1>3, <1>5, <2>1
  <2>. DEFINE f == [j \in DOMAIN q |-> at[j]]
  <2>3. \A j \in 1 .. n : at[j] \in 1 .. Len(text)
    BY <1>1, <2>1
  <2>4. f \in [DOMAIN q -> DOMAIN text]
    BY <1>1, <2>3, Zenon
  <2>5. \A i, j \in DOMAIN q : text[f[i]] = q[i] /\ (i < j => f[i] < f[j])
    BY <1>1, <2>1, Zenon
  <2>6. Spells(q, text)
    <3>. HIDE DEF f
    <3>. QED
      BY <2>4, <2>5, Zenon DEF Spells
  <2>7. Score(q, text) # NoMatch
    BY <2>2 DEF NoMatch
  <2>. QED
    BY <2>2, <2>6, <2>7, Zenon
<1>6. ASSUME Spells(q, text) PROVE at[n] # NoMatch
  <2>1. PICK f \in [DOMAIN q -> DOMAIN text] :
          \A i, j \in DOMAIN q : text[f[i]] = q[i] /\ (i < j => f[i] < f[j])
    BY <1>6, Zenon DEF Spells
  <2>2. SpeltAt(q, text, f)
    BY <1>1, <2>1, Zenon DEF SpeltAt
  <2>3. n \in Nat /\ Len(text) \in Nat
    BY <1>1
  <2>. QED
    BY <2>2, <2>3, FirstAreEarly, Zenon
<1>7. at[n] = NoMatch => Score(q, text) = NoMatch
  BY <1>2, Zenon
<1>. QED
  BY <1>5, <1>6, <1>7, Zenon

\* A command is found exactly when it is meant, and its best score is a number.
LEMMA FoundIsMeant ==
  ASSUME NEW q \in Seq(Letters), NEW c \in Cards
  PROVE  /\ Scores(q, c) # {} <=> Means(q, c)
         /\ Scores(q, c) # {} => Best(q, c) \in Nat
<1>1. c.label \in Seq(Letters) /\ c.hint \in Seq(Letters) /\ c.family \in Seq(Letters)
  BY DEF Cards
<1>2. \A s : s \in Scores(q, c) <=> /\ s = Score(q, c.label) \/ s = Score(q, c.hint) \/ s = Score(q, c.family)
                                    /\ s # NoMatch
  BY Zenon DEF Scores
<1>3. \A s \in Scores(q, c) : s \in Nat
  <2>1. \A text \in Seq(Letters) : Score(q, text) # NoMatch => Score(q, text) \in Nat
    BY ScoreTells, Zenon
  <2>. TAKE s \in Scores(q, c)
  <2>2. s # NoMatch /\ \E text \in {c.label, c.hint, c.family} : s = Score(q, text)
    BY <1>2, Zenon
  <2>3. PICK text \in Seq(Letters) : s = Score(q, text)
    BY <1>1, <2>2
  <2>. QED
    BY <2>1, <2>2, <2>3
<1>4. Scores(q, c) # {} <=> Means(q, c)
  <2>1. /\ Score(q, c.label) # NoMatch <=> Spells(q, c.label)
        /\ Score(q, c.hint) # NoMatch <=> Spells(q, c.hint)
        /\ Score(q, c.family) # NoMatch <=> Spells(q, c.family)
    BY <1>1, ScoreTells, Zenon
  <2>. QED
    BY <1>2, <2>1, Zenon DEF Means
<1>5. ASSUME Scores(q, c) # {} PROVE Best(q, c) \in Nat
  <2>. DEFINE s == Scores(q, c)
  <2>1. s \subseteq Nat /\ s # {}
    BY <1>3, <1>5
  <2>. HIDE DEF s
  <2>2. \E i \in s : \A j \in s : i <= j
    BY <2>1, Least
  <2>3. (CHOOSE i \in s : \A j \in s : i <= j) \in s
    BY <2>2, Zenon
  <2>4. Best(q, c) \in s
    BY <2>3, Zenon DEF s, Best
  <2>. QED
    BY <2>1, <2>4
<1>. QED
  BY <1>4, <1>5

LEMMA FoundAre ==
  ASSUME NEW q \in Seq(Letters)
  PROVE  /\ \A i \in DOMAIN Commands : i \in Found(q) <=> Means(q, Commands[i])
         /\ Found(q) \subseteq 1 .. Len(Commands) /\ IsFiniteSet(Found(q))
         /\ Cardinality(Found(q)) \in 0 .. Len(Commands)
         /\ \A i \in Found(q) : Best(q, Commands[i]) \in Nat
<1>1. Commands \in Seq(Cards)
  BY PaletteAssumption, Zenon DEF Cards
<1>2. Len(Commands) \in Nat /\ DOMAIN Commands = 1 .. Len(Commands) /\ \A i \in DOMAIN Commands : Commands[i] \in Cards
  BY <1>1, LenProperties, ElementOfSeq
<1>3. \A i : i \in Found(q) <=> i \in DOMAIN Commands /\ Scores(q, Commands[i]) # {}
  BY Zenon DEF Found
<1>4. \A i \in DOMAIN Commands : i \in Found(q) <=> Means(q, Commands[i])
  BY <1>2, <1>3, FoundIsMeant, Zenon
<1>5. \A i \in Found(q) : Best(q, Commands[i]) \in Nat
  BY <1>2, <1>3, FoundIsMeant, Zenon
<1>6. Found(q) \subseteq 1 .. Len(Commands)
  BY <1>2, <1>3, Zenon
<1>7. IsFiniteSet(1 .. Len(Commands)) /\ Cardinality(1 .. Len(Commands)) = Len(Commands)
  <2>1. 1 \in Int /\ Len(Commands) \in Int
    BY <1>2
  <2>2. IsFiniteSet(1 .. Len(Commands))
        /\ Cardinality(1 .. Len(Commands)) = IF 1 > Len(Commands) THEN 0 ELSE Len(Commands) - 1 + 1
    BY <2>1, FS_Interval, Zenon
  <2>. QED
    BY <1>2, <2>2
<1>8. IsFiniteSet(Found(q)) /\ Cardinality(Found(q)) <= Len(Commands) /\ Cardinality(Found(q)) \in Nat
  BY <1>6, <1>7, FS_Subset, FS_CardinalityType
<1>. QED
  BY <1>2, <1>4, <1>5, <1>6, <1>8

\* Of two commands one is better, and what is better than a better one is better.
Standing(q) == {p \in Found(q) \X Found(q) : Better(q, p[1], p[2])}

LEMMA BetterIsTotal ==
  ASSUME NEW q \in Seq(Letters)
  PROVE  Ordering(Found(q), Standing(q))
<1>. DEFINE b(i) == Best(q, Commands[i])
            F == Found(q)
            R == Standing(q)
<1>1. \A i \in F : i \in Nat /\ b(i) \in Nat
  BY FoundAre
<1>2. \A i, j \in F : <<i, j>> \in R <=> b(i) < b(j) \/ (b(i) = b(j) /\ i < j)
  BY DEF Standing, Better
<1>. HIDE DEF b, F, R
<1>3. \A i \in F : <<i, i>> \notin R
  BY <1>1, <1>2
<1>4. \A i, j \in F : i # j => <<i, j>> \in R \/ <<j, i>> \in R
  BY <1>1, <1>2
<1>5. \A i, j, k \in F : <<i, j>> \in R /\ <<j, k>> \in R => <<i, k>> \in R
  BY <1>1, <1>2
<1>. QED
  BY <1>3, <1>4, <1>5, Zenon DEF Ordering, F, R

\* The list is of the commands meant by the text, and of each of them.
LEMMA FilterIs ==
  ASSUME NEW q \in Seq(Letters)
  PROVE  /\ Filter(q) \in Seq(1 .. Len(Commands)) /\ Len(Filter(q)) <= Len(Commands)
         /\ \A n \in 1 .. Len(Filter(q)) : Means(q, Commands[Filter(q)[n]])
         /\ \A i \in DOMAIN Commands : Contains(Filter(q), i) <=> Means(q, Commands[i])
<1>. DEFINE F == Found(q)
            R == Standing(q)
            c == Cardinality(F)
            list == Filter(q)
<1>1. /\ c \in Nat /\ c <= Len(Commands) /\ Len(Commands) \in Nat /\ DOMAIN Commands = 1 .. Len(Commands)
      /\ F \subseteq 1 .. Len(Commands) /\ IsFiniteSet(F)
      /\ \A i \in DOMAIN Commands : i \in F <=> Means(q, Commands[i])
  <2>1. Len(Commands) \in Nat /\ DOMAIN Commands = 1 .. Len(Commands)
    BY PaletteAssumption, LenProperties
  <2>. QED
    BY <2>1, FoundAre
<1>2. list = InRank(F, R)
  <2>. DEFINE A(i) == {j \in F : Better(q, j, i)}
              B(i) == Preceding(F, R, i)
              at(n) == CHOOSE i \in F : Cardinality(A(i)) = n - 1
              there(n) == CHOOSE i \in F : Cardinality(B(i)) = n - 1
  <2>1. ASSUME NEW i \in F PROVE A(i) = B(i)
    <3>1. \A j : j \in A(i) <=> j \in B(i)
      BY DEF Preceding, Standing
    <3>. HIDE DEF A, B
    <3>. QED
      BY <3>1, Zenon
  <2>2. list = [n \in 1 .. c |-> at(n)] /\ InRank(F, R) = [n \in 1 .. c |-> there(n)]
    BY Zenon DEF Filter, InRank, RankOf
  <2>3. ASSUME NEW n PROVE at(n) = there(n)
    <3>. HIDE DEF A, B
    <3>1. \A i : (i \in F /\ Cardinality(A(i)) = n - 1) <=> (i \in F /\ Cardinality(B(i)) = n - 1)
      BY <2>1, Zenon
    <3>. QED
      BY <3>1, Zenon
  <2>. HIDE DEF at, there, list
  <2>. QED
    BY <2>2, <2>3, Zenon
<1>3. /\ list \in [1 .. c -> F]
      /\ \A i \in F : \E n \in 1 .. c : list[n] = i
  <2>1. Ordering(F, R)
    BY BetterIsTotal
  <2>. HIDE DEF F, R, list
  <2>. QED
    BY <1>1, <1>2, <2>1, InRankIs
<1>. HIDE DEF F, c, list
<1>4. list \in Seq(1 .. Len(Commands)) /\ Len(list) = c
  <2>1. list \in [1 .. c -> 1 .. Len(Commands)]
    BY <1>1, <1>3, Zenon
  <2>2. list \in Seq(1 .. Len(Commands)) /\ DOMAIN list = 1 .. c
    BY <1>1, <2>1, SeqDef
  <2>. QED
    BY <1>1, <2>2, LenProperties
<1>5. \A n \in 1 .. c : list[n] \in F /\ Means(q, Commands[list[n]])
  BY <1>1, <1>3, Zenon
<1>6. \A i \in DOMAIN Commands : Contains(list, i) <=> Means(q, Commands[i])
  <2>1. \A i : Contains(list, i) <=> \E n \in 1 .. c : list[n] = i
    BY <1>4, Zenon DEF Contains
  <2>. QED
    BY <1>1, <1>3, <1>5, <2>1, Zenon
<1>. QED
  BY <1>1, <1>4, <1>5, <1>6 DEF list

-----------------------------------------------------------------------------
(* PaletteHolds is not inductive: what runs is what the list holds, and     *)
(* the list is the text's as long as no key is down.                        *)
PaletteInv ==
  /\ open \in BOOLEAN /\ held \in BOOLEAN /\ entryText \in Seq(Letters)
  /\ filtered \in Seq(1 .. Len(Commands)) /\ Len(filtered) <= Len(Commands)
  /\ selected \in 0 .. Len(Commands) /\ (filtered # <<>> => selected < Len(filtered))
  /\ open /\ ~held => filtered = Filter(entryText)
  /\ ran # NoRun /\ ~ran.late => Means(ran.text, Commands[ran.command])

LEMMA PaletteImplies == PaletteInv => PaletteHolds
<1>. SUFFICES ASSUME PaletteInv PROVE PaletteHolds
  OBVIOUS
<1>1. filtered \in Seq(1 .. Len(Commands)) /\ entryText \in Seq(Letters)
  BY Zenon DEF PaletteInv
<1>2. Len(Commands) \in Nat /\ DOMAIN Commands = 1 .. Len(Commands)
  BY PaletteAssumption, LenProperties
<1>3. \A i \in DOMAIN filtered : filtered[i] \in DOMAIN Commands
  <2>1. DOMAIN filtered = 1 .. Len(filtered) /\ \A i \in 1 .. Len(filtered) : filtered[i] \in 1 .. Len(Commands)
    BY <1>1, LenProperties, ElementOfSeq
  <2>. QED
    BY <1>2, <2>1, Zenon
<1>4. KTypeOK
  BY <1>3, Zenon DEF PaletteInv, KTypeOK
<1>5. open /\ ~held => \A i \in DOMAIN Commands : Contains(filtered, i) <=> Means(entryText, Commands[i])
  BY <1>1, FilterIs DEF PaletteInv
<1>6. PaletteRunsWhatWasTyped
  BY <1>5, Zenon DEF PaletteInv, PaletteRunsWhatWasTyped
<1>. QED
  BY <1>4, <1>6, Zenon DEF PaletteHolds

LEMMA PaletteInit == KInit => PaletteInv
<1>. SUFFICES ASSUME KInit PROVE PaletteInv
  OBVIOUS
<1>1. Len(Commands) \in Nat
  BY PaletteAssumption, LenProperties
<1>2. filtered \in Seq(1 .. Len(Commands)) /\ entryText \in Seq(Letters) /\ Len(filtered) = 0
  BY EmptySeq DEF KInit
<1>3. Len(filtered) <= Len(Commands) /\ selected \in 0 .. Len(Commands)
  BY <1>1, <1>2 DEF KInit
<1>. QED
  BY <1>2, <1>3, Zenon DEF KInit, PaletteInv

\* The list of a text, with its first row highlighted.
LEMMA Refreshed ==
  ASSUME entryText' \in Seq(Letters), Refresh(entryText')
  PROVE  /\ filtered' \in Seq(1 .. Len(Commands)) /\ Len(filtered') <= Len(Commands)
         /\ selected' \in 0 .. Len(Commands) /\ (filtered' # <<>> => selected' < Len(filtered'))
         /\ filtered' = Filter(entryText')
<1>1. filtered' = Filter(entryText') /\ selected' = 0
  BY Zenon DEF Refresh
<1>2. Len(Commands) \in Nat
  BY PaletteAssumption, LenProperties
<1>3. filtered' \in Seq(1 .. Len(Commands)) /\ Len(filtered') <= Len(Commands)
  BY <1>1, FilterIs
<1>4. Len(filtered') \in Nat /\ (filtered' # <<>> => Len(filtered') # 0)
  BY <1>3, LenProperties, EmptySeq
<1>. QED
  BY <1>1, <1>2, <1>3, <1>4

LEMMA Turned ==
  ASSUME NEW n \in Nat, NEW i \in 0 .. (n - 1), NEW delta \in {-1, 1}
  PROVE  (i + delta + n) % n \in 0 .. (n - 1)
<1>1. n \in Int /\ n > 0 /\ i + delta + n \in Int
  OBVIOUS
<1>. QED
  BY <1>1

LEMMA PaletteRuns ==
  ASSUME PaletteInv, NEW row \in Nat, row < Len(filtered), RunsRow(row), selected' = selected \/ selected' = row
  PROVE  PaletteInv'
<1>. USE DEF RunsRow
<1>1. filtered \in Seq(1 .. Len(Commands)) /\ entryText \in Seq(Letters) /\ Len(filtered) <= Len(Commands)
  BY Zenon DEF PaletteInv
<1>2. Len(filtered) \in Nat /\ Len(Commands) \in Nat
  BY <1>1, PaletteAssumption, LenProperties
<1>3. row + 1 \in 1 .. Len(filtered)
  BY <1>2
<1>4. open /\ ~open' /\ ran'.text = entryText /\ ran'.command = filtered[row + 1] /\ ran'.late = held
  OBVIOUS
<1>5. ~held => Means(entryText, Commands[filtered[row + 1]])
  BY <1>1, <1>3, <1>4, FilterIs, Zenon DEF PaletteInv
<1>6. selected' \in 0 .. Len(Commands) /\ (filtered' # <<>> => selected' < Len(filtered'))
  BY <1>1, <1>2 DEF PaletteInv
<1>7. entryText' = entryText /\ filtered' = filtered /\ held' = held /\ open' = FALSE
  OBVIOUS
<1>8. held \in BOOLEAN
  BY Zenon DEF PaletteInv
<1>. HIDE DEF RunsRow
<1>. QED
  BY <1>1, <1>4, <1>5, <1>6, <1>7, <1>8, Zenon DEF PaletteInv

LEMMA PaletteStep == PaletteInv /\ [KNext]_kvars => PaletteInv'
<1>. SUFFICES ASSUME PaletteInv, [KNext]_kvars PROVE PaletteInv'
  OBVIOUS
<1>1. /\ filtered \in Seq(1 .. Len(Commands)) /\ entryText \in Seq(Letters)
      /\ Len(filtered) <= Len(Commands) /\ selected \in 0 .. Len(Commands)
      /\ (filtered # <<>> => selected < Len(filtered))
  BY Zenon DEF PaletteInv
<1>2. /\ Len(filtered) \in Nat /\ Len(Commands) \in Nat
      /\ filtered = <<>> <=> Len(filtered) = 0
  BY <1>1, PaletteAssumption, LenProperties, EmptySeq
<1>3. CASE Show
  <2>1. entryText' \in Seq(Letters)
    BY <1>1, <1>3, EmptySeq DEF Show
  <2>2. Refresh(entryText') /\ open' = TRUE /\ held' = held /\ ran' = ran
    BY <1>3, Zenon DEF Show
  <2>. QED
    BY <2>1, <2>2, Refreshed, Zenon DEF PaletteInv
<1>4. CASE Hide
  BY <1>4, Zenon DEF Hide, PaletteInv
<1>5. ASSUME NEW text \in Seq(Letters), Press(text) PROVE PaletteInv'
  BY <1>5, Zenon DEF Press, PaletteInv
<1>6. ASSUME NEW c \in Letters, Type(c) PROVE PaletteInv'
  <2>1. Append(entryText, c) \in Seq(Letters)
    BY <1>1
  <2>. QED
    BY <1>5, <1>6, <2>1, Zenon DEF Type
<1>7. CASE Erase
  <2>1. Front(entryText) \in Seq(Letters)
    <3>1. Len(entryText) \in Nat /\ Len(entryText) # 0
      BY <1>1, <1>7, LenProperties, EmptySeq DEF Erase
    <3>. QED
      BY <1>1, <3>1 DEF Front
  <2>. QED
    BY <1>5, <1>7, <2>1, Zenon DEF Erase
<1>8. CASE Release
  <2>1. held' = FALSE /\ open' = open /\ entryText' = entryText /\ ran' = ran
    BY <1>8, Zenon DEF Release
  <2>2. CASE open
    <3>1. Refresh(entryText')
      BY <1>8, <2>1, <2>2, Zenon DEF Release, Refresh
    <3>. QED
      BY <1>1, <2>1, <2>2, <3>1, Refreshed, Zenon DEF PaletteInv
  <2>3. CASE ~open
    <3>1. filtered' = filtered /\ selected' = selected
      BY <1>8, <2>3, Zenon DEF Release
    <3>. QED
      BY <2>1, <2>3, <3>1, Zenon DEF PaletteInv
  <2>. QED
    BY <2>2, <2>3
<1>9. CASE Return
  <2>. DEFINE row == IF selected < Len(filtered) THEN selected ELSE Len(filtered) - 1
  <2>1. RunsRow(row) /\ selected' = selected /\ filtered # <<>>
    BY <1>9, Zenon DEF Return, RunsRow
  <2>2. row \in Nat /\ row < Len(filtered)
    BY <1>1, <1>2, <2>1
  <2>. HIDE DEF row
  <2>. QED
    BY <2>1, <2>2, PaletteRuns
<1>10. ASSUME NEW delta \in {-1, 1}, Move(delta) PROVE PaletteInv'
  <2>1. /\ open' = open /\ entryText' = entryText /\ filtered' = filtered /\ ran' = ran /\ held' = TRUE
        /\ selected' = IF filtered = <<>> THEN selected ELSE (selected + delta + Len(filtered)) % Len(filtered)
    BY <1>10, Zenon DEF Move
  <2>2. selected' \in 0 .. Len(Commands) /\ (filtered # <<>> => selected' < Len(filtered))
    <3>1. CASE filtered = <<>>
      BY <1>1, <2>1, <3>1
    <3>2. CASE filtered # <<>>
      <4>. DEFINE n == Len(filtered)
      <4>1. selected \in 0 .. (n - 1) /\ n \in Nat
        BY <1>1, <1>2, <3>2
      <4>. HIDE DEF n
      <4>2. (selected + delta + n) % n \in 0 .. (n - 1)
        BY <4>1, Turned
      <4>3. selected' = (selected + delta + n) % n
        BY <2>1, <3>2, Zenon DEF n
      <4>4. selected' \in 0 .. (n - 1)
        BY <4>2, <4>3, Zenon
      <4>. QED
        BY <1>1, <1>2, <4>4 DEF n
    <3>. QED
      BY <3>1, <3>2
  <2>. QED
    BY <2>1, <2>2, Zenon DEF PaletteInv
<1>11. ASSUME NEW row \in 0 .. (Len(Commands) - 1), Hover(row) PROVE PaletteInv'
  <2>1. /\ open' = open /\ entryText' = entryText /\ filtered' = filtered /\ held' = held /\ ran' = ran
        /\ selected' = row /\ row < Len(filtered)
    BY <1>11, Zenon DEF Hover
  <2>2. selected' \in 0 .. Len(Commands)
    BY <1>2, <2>1
  <2>. QED
    BY <2>1, <2>2, Zenon DEF PaletteInv
<1>12. ASSUME NEW row \in 0 .. (Len(Commands) - 1), Click(row) PROVE PaletteInv'
  <2>1. row \in Nat
    BY <1>2
  <2>2. row < Len(filtered) /\ RunsRow(row) /\ selected' = row
    BY <1>12, Zenon DEF Click
  <2>. QED
    BY <2>1, <2>2, PaletteRuns
<1>13. CASE UNCHANGED kvars
  BY <1>13, Zenon DEF kvars, PaletteInv
<1>. QED
  BY <1>3, <1>4, <1>6, <1>7, <1>8, <1>9, <1>10, <1>11, <1>12, <1>13, Zenon DEF KNext

(* The palette (ui/command_palette.py): with no key down the list is of    *)
(* the commands that the text spells, and of all of them, the highlight is *)
(* on one of them, and what runs is meant by the text, for any commands    *)
(* and letters.                                                            *)
THEOREM PaletteAlwaysHolds == KSpec => []PaletteHolds
<1>. QED
  BY PaletteInit, PaletteStep, PaletteImplies, PTL DEF KSpec

-----------------------------------------------------------------------------
(***************************************************************************)
(* ResultGrid.  A sort puts the rows, each as often as before, in the      *)
(* order its arrow tells.                                                  *)
(***************************************************************************)
Known(rows, c) == \A k \in DOMAIN rows : rows[k][c] \in Int

LEMMA BeforeIsTotal ==
  ASSUME NEW rows, NEW c, Known(rows, c), DOMAIN rows \subseteq Nat, NEW up \in BOOLEAN
  PROVE  Ordering(DOMAIN rows, InOrderOf(rows, c, up))
<1>. DEFINE F == DOMAIN rows
            v(i) == rows[i][c]
            R == InOrderOf(rows, c, up)
<1>1. \A i \in F : i \in Nat /\ v(i) \in Int
  BY DEF Known
<1>2. Null \in Int
  BY GridAssumption
<1>3. \A i, j \in F : Goes(rows, c, up, i, j)
                      <=> IF up THEN v(i) # Null /\ (v(j) = Null \/ v(i) < v(j))
                                ELSE v(j) # Null /\ (v(i) = Null \/ v(j) < v(i))
  BY Zenon DEF Goes, Below
<1>4. \A i, j \in F : <<i, j>> \in R <=> Goes(rows, c, up, i, j) \/ (~Goes(rows, c, up, j, i) /\ i < j)
  BY DEF InOrderOf
<1>. HIDE DEF v, R, F
<1>5. \A i \in F : <<i, i>> \notin R
  BY <1>1, <1>2, <1>3, <1>4
<1>6. \A i, j \in F : i # j => <<i, j>> \in R \/ <<j, i>> \in R
  BY <1>1, <1>2, <1>3, <1>4
<1>7. \A i, j, k \in F : <<i, j>> \in R /\ <<j, k>> \in R => <<i, k>> \in R
  <2>. SUFFICES ASSUME NEW i \in F, NEW j \in F, NEW k \in F, <<i, j>> \in R, <<j, k>> \in R
                PROVE  <<i, k>> \in R
    BY Zenon
  <2>1. i \in Nat /\ j \in Nat /\ k \in Nat /\ v(i) \in Int /\ v(j) \in Int /\ v(k) \in Int
    BY <1>1
  <2>. DEFINE less(x, y) == x # Null /\ (y = Null \/ x < y)
              goes(x, y) == IF up THEN less(x, y) ELSE less(y, x)
  <2>2. \A x, y \in F : <<x, y>> \in R <=> goes(v(x), v(y)) \/ (~goes(v(y), v(x)) /\ x < y)
    BY <1>3, <1>4, Zenon
  <2>3. goes(v(i), v(j)) \/ (~goes(v(j), v(i)) /\ i < j)
    BY <2>2, Zenon
  <2>4. goes(v(j), v(k)) \/ (~goes(v(k), v(j)) /\ j < k)
    BY <2>2, Zenon
  <2>5. goes(v(i), v(k)) \/ (~goes(v(k), v(i)) /\ i < k)
    BY <1>2, <2>1, <2>3, <2>4
  <2>. QED
    BY <2>2, <2>5, Zenon
<1>. QED
  BY <1>5, <1>6, <1>7, Zenon DEF Ordering, F, R

LEMMA SortKeeps ==
  ASSUME NEW S, NEW rows \in Seq(S), NEW c, Known(rows, c), NEW up \in BOOLEAN,
         NEW sorted, sorted = SortRows(rows, c, up)
  PROVE  /\ sorted \in Seq(S) /\ Len(sorted) = Len(rows)
         /\ Sorted(sorted, [column |-> c, up |-> up])
         /\ \A row : Times(sorted, row) = Times(rows, row)
<1>. DEFINE n == Len(rows)
            F == DOMAIN rows
            R == InOrderOf(rows, c, up)
            order == InRank(F, R)
<1>1. n \in Nat /\ F = 1 .. n /\ \A i \in F : rows[i] \in S
  BY LenProperties, ElementOfSeq
<1>2. IsFiniteSet(F) /\ Cardinality(F) = n
  <2>1. 1 \in Int /\ n \in Int
    BY <1>1
  <2>2. IsFiniteSet(1 .. n) /\ Cardinality(1 .. n) = IF 1 > n THEN 0 ELSE n - 1 + 1
    BY <2>1, FS_Interval, Zenon
  <2>. QED
    BY <1>1, <2>2
<1>3. Ordering(F, R)
  <2>1. F \subseteq Nat
    BY <1>1
  <2>. QED
    BY <2>1, BeforeIsTotal
<1>4. /\ order \in [1 .. n -> F]
      /\ \A i \in F : \E k \in 1 .. n : order[k] = i
      /\ \A k, m \in 1 .. n : k < m => order[k] # order[m] /\ <<order[m], order[k]>> \notin R
  <2>1. n = Cardinality(F)
    BY <1>2
  <2>. HIDE DEF F, R, n
  <2>. QED
    BY <1>2, <1>3, <2>1, InRankIs
<1>5. sorted = [k \in F |-> rows[order[k]]]
  <2>. DEFINE A(k) == rows[CHOOSE i \in F : Cardinality({j \in F : <<j, i>> \in R}) = k - 1]
              B(k) == rows[order[k]]
  <2>1. \A k \in 1 .. n : order[k] = CHOOSE i \in F : RankOf(F, R, i) = k - 1
    BY <1>2, Zenon DEF InRank
  <2>2. \A k \in F : A(k) = B(k)
    BY <1>1, <2>1, Zenon DEF RankOf, Preceding
  <2>3. sorted = [k \in F |-> A(k)]
    BY Zenon DEF SortRows
  <2>. HIDE DEF A, B
  <2>4. sorted = [k \in F |-> B(k)]
    BY <2>2, <2>3, Zenon
  <2>. QED
    BY <2>4, Zenon DEF B
<1>. HIDE DEF order, R
<1>6. \A k \in 1 .. n : order[k] \in F /\ sorted[k] = rows[order[k]]
  BY <1>1, <1>4, <1>5, Zenon
<1>7. sorted \in Seq(S) /\ Len(sorted) = n /\ DOMAIN sorted = 1 .. n
  <2>1. sorted \in [1 .. n -> S]
    <3>1. \A k \in F : rows[order[k]] \in S
      BY <1>1, <1>4, Zenon
    <3>. QED
      BY <1>1, <1>5, <3>1, Zenon
  <2>. HIDE DEF n
  <2>. QED
    BY <1>1, <2>1, SeqDef, LenProperties
<1>8. Sorted(sorted, [column |-> c, up |-> up])
  <2>. DEFINE arrow == [column |-> c, up |-> up]
  <2>0. arrow.column = c /\ arrow.up = up
    OBVIOUS
  <2>. HIDE DEF arrow
  <2>1. ASSUME NEW i \in 1 .. n, NEW j \in 1 .. n, i < j
        PROVE  ~(IF up THEN Below(sorted[j][c], sorted[i][c]) ELSE Below(sorted[i][c], sorted[j][c]))
    <3>1. order[i] \in F /\ order[j] \in F /\ <<order[j], order[i]>> \notin R
      BY <1>4, <2>1, Zenon
    <3>2. ~Goes(rows, c, up, order[j], order[i])
      BY <3>1 DEF R, InOrderOf
    <3>. QED
      BY <1>6, <3>2, Zenon DEF Goes
  <2>. QED
    BY <1>7, <2>0, <2>1, Zenon DEF Sorted, arrow
<1>9. ASSUME NEW row PROVE Times(sorted, row) = Times(rows, row)
  <2>. DEFINE A == {k \in DOMAIN sorted : sorted[k] = row}
              B == {k \in DOMAIN rows : rows[k] = row}
              f == [k \in A |-> order[k]]
  <2>1. \A k : k \in A <=> k \in 1 .. n /\ rows[order[k]] = row
    BY <1>6, <1>7, Zenon
  <2>2. \A k : k \in B <=> k \in F /\ rows[k] = row
    BY Zenon
  <2>3. IsFiniteSet(A)
    <3>1. A \in SUBSET F
      BY <1>1, <2>1, Zenon
    <3>. HIDE DEF A
    <3>. QED
      BY <1>2, <3>1, FS_Subset, Zenon
  <2>. HIDE DEF A, B, F, n
  <2>4. f \in [A -> B]
    BY <1>4, <2>1, <2>2, Zenon
  <2>5. \A k \in A : f[k] = order[k]
    BY Zenon
  <2>6. \A k, m \in A : order[k] = order[m] => k = m
    <3>1. \A k, m \in 1 .. n : k # m => k < m \/ m < k
      BY <1>1
    <3>. QED
      BY <1>4, <2>1, <3>1, Zenon
  <2>7. \A b \in B : \E k \in A : f[k] = b
    <3>. TAKE b \in B
    <3>1. b \in F /\ rows[b] = row
      BY <2>2, Zenon
    <3>2. PICK k \in 1 .. n : order[k] = b
      BY <1>4, <3>1, Zenon
    <3>3. rows[order[k]] = row
      BY <3>1, <3>2
    <3>. QED
      BY <2>1, <2>5, <3>2, <3>3, Zenon
  <2>. HIDE DEF f
  <2>8. f \in Bijection(A, B)
    <3>1. f \in Injection(A, B)
      BY <2>4, <2>5, <2>6, Zenon DEF Injection, IsInjective
    <3>2. f \in Surjection(A, B)
      BY <2>4, <2>7, Zenon DEF Surjection
    <3>. QED
      BY <3>1, <3>2, Zenon DEF Bijection
  <2>9. Cardinality(B) = Cardinality(A)
    BY <2>3, <2>8, FS_Bijection, Zenon DEF ExistsBijection
  <2>. QED
    BY <2>9, Zenon DEF Times, A, B
<1>. QED
  BY <1>7, <1>8, <1>9

\* Results as they are shown: cells of known columns, and none where there is no column.
Tabular(columns, rows) ==
  /\ rows \in Seq([Range(columns) -> Int]) /\ (columns = <<>> => rows = <<>>)
  /\ columns \in Seq(Range(columns)) /\ NoColumn \notin Range(columns)

LEMMA AnswersAreTabular ==
  ASSUME NEW r \in Answers
  PROVE  Tabular(r.columns, r.rows)
<1>1. Tabular(<<>>, <<>>)
  <2>1. \A S : <<>> \in Seq(S)
    BY EmptySeq
  <2>2. Range(<<>>) = {}
    BY EmptySeq DEF Range
  <2>. QED
    BY <2>1, <2>2, Zenon DEF Tabular
<1>2. r = Nothing \/ (r \in Results /\ r.rows # <<>>)
  BY Zenon DEF Answers, Normalized
<1>3. CASE r = Nothing
  BY <1>1, <1>3 DEF Nothing
<1>4. CASE r \in Results
  BY <1>4, GridAssumption, Zenon DEF Tabular
<1>. QED
  BY <1>2, <1>3, <1>4

LEMMA OwnRows == ASSUME NEW r PROVE SameRows(r.rows, r)
  BY Zenon DEF SameRows

\* A click on a header: the grid is of the same rows, in the order of that column.
LEMMA ClickSorts ==
  ASSUME NEW columns, NEW rows, Tabular(columns, rows), NEW i \in DOMAIN columns, NEW up \in BOOLEAN,
         NEW given, SameRows(rows, given), NEW after, after = SortRows(rows, columns[i], up)
  PROVE  /\ Tabular(columns, after) /\ SameRows(after, given) /\ Len(after) = Len(rows)
         /\ Sorted(after, [column |-> columns[i], up |-> up])
<1>. DEFINE S == [Range(columns) -> Int]
            c == columns[i]
<1>1. rows \in Seq(S) /\ columns \in Seq(Range(columns)) /\ NoColumn \notin Range(columns)
  BY Zenon DEF Tabular
<1>2. c \in Range(columns)
  BY Zenon DEF Range
<1>3. Known(rows, c)
  <2>1. \A k \in DOMAIN rows : rows[k] \in S
    BY <1>1, LenProperties, ElementOfSeq
  <2>. QED
    BY <1>2, <2>1, Zenon DEF Known
<1>4. /\ after \in Seq(S) /\ Len(after) = Len(rows) /\ Sorted(after, [column |-> c, up |-> up])
      /\ \A row : Times(after, row) = Times(rows, row)
  <2>. HIDE DEF S, c
  <2>1. after = SortRows(rows, c, up)
    BY DEF c
  <2>. QED
    BY <1>1, <1>3, <2>1, SortKeeps
<1>5. columns # <<>>
  BY <1>1, EmptySeq
<1>6. SameRows(after, given)
  BY <1>4, Zenon DEF SameRows
<1>. QED
  BY <1>1, <1>4, <1>5, <1>6, Zenon DEF Tabular

Arrow(g) == IF g.columns = <<>> THEN NoArrow ELSE [column |-> g.by, up |-> g.up]
DataShape(g) == g \in [columns : {g.columns}, rows : {g.rows}, given : {g.given}, by : {g.by}, up : BOOLEAN,
                       start : {g.start}, widths : {g.widths}, header : {g.header}, arrow : {g.arrow},
                       count : {g.count}, grip : {g.grip}]
DataInv(g) ==
  /\ DataShape(g) /\ Tabular(g.columns, g.rows) /\ SameRows(g.rows, g.given) /\ g.count = Len(g.rows)
  /\ g.header = g.columns /\ g.arrow = Arrow(g)
  /\ g.columns # <<>> /\ g.by # NoColumn => Sorted(g.rows, [column |-> g.by, up |-> g.up])

LEMMA RenderedIs ==
  ASSUME NEW g, DataShape(g), NEW d, d = Rendered(g)
  PROVE  /\ DataShape(d) /\ d.columns = g.columns /\ d.rows = g.rows /\ d.given = g.given
         /\ d.by = g.by /\ d.up = g.up /\ d.count = g.count /\ d.header = g.columns /\ d.arrow = Arrow(g)
<1>. DEFINE w == IF g.widths = <<>> THEN [i \in DOMAIN g.columns |-> Even] ELSE g.widths
            a == Arrow(g)
<1>1. d = [g EXCEPT !.header = g.columns, !.arrow = a, !.widths = w]
  BY Zenon DEF Rendered, Arrow
<1>. HIDE DEF w, a
<1>2. /\ d.columns = g.columns /\ d.rows = g.rows /\ d.given = g.given
      /\ d.by = g.by /\ d.up = g.up /\ d.count = g.count /\ d.header = g.columns /\ d.arrow = a
  BY <1>1 DEF DataShape
<1>3. DataShape(d)
  BY <1>1 DEF DataShape
<1>. QED
  BY <1>2, <1>3 DEF a

\* A grid is what it was but for what is drawn again or moved.
LEMMA DataKept ==
  ASSUME NEW g, DataInv(g), NEW d, DataShape(d), d.columns = g.columns, d.rows = g.rows, d.given = g.given,
         d.by = g.by, d.up = g.up, d.count = g.count, d.header = g.columns, d.arrow = Arrow(g)
  PROVE  DataInv(d)
  BY Zenon DEF DataInv, Arrow

LEMMA DataStep ==
  ASSUME DataInv(dataGrid), GridNext
  PROVE  DataInv(dataGrid')
<1>. DEFINE g == dataGrid
            d == dataGrid'
<1>1. DataShape(g) /\ Tabular(g.columns, g.rows) /\ SameRows(g.rows, g.given) /\ g.count = Len(g.rows)
      /\ g.header = g.columns /\ g.arrow = Arrow(g)
  BY Zenon DEF DataInv
<1>2. ASSUME NEW r \in Answers, r.rows # <<>>, SetDataset(r) PROVE DataInv(d)
  <2>1. Tabular(r.columns, r.rows) /\ SameRows(r.rows, r) /\ r.columns # <<>>
    BY <1>2, AnswersAreTabular, OwnRows, Zenon DEF Tabular
  <2>. DEFINE x == [g EXCEPT !.columns = r.columns, !.rows = r.rows, !.given = r,
                             !.by = NoColumn, !.up = TRUE, !.start = 0]
              y == Labelled(x)
  <2>2. d = Rendered(y)
    BY <1>2, Zenon DEF SetDataset
  <2>3. /\ DataShape(x) /\ x.columns = r.columns /\ x.rows = r.rows /\ x.given = r
        /\ x.by = NoColumn /\ x.up = TRUE
    BY <1>1 DEF DataShape
  <2>. HIDE DEF x
  <2>4. y = [x EXCEPT !.count = Len(r.rows)]
    BY <2>1, <2>3 DEF Labelled
  <2>. HIDE DEF y
  <2>5. /\ DataShape(y) /\ y.columns = r.columns /\ y.rows = r.rows /\ y.given = r
        /\ y.by = NoColumn /\ y.up = TRUE /\ y.count = Len(r.rows)
    BY <2>3, <2>4 DEF DataShape
  <2>. HIDE DEF d
  <2>6. /\ DataShape(d) /\ d.columns = y.columns /\ d.rows = y.rows /\ d.given = y.given
        /\ d.by = y.by /\ d.up = y.up /\ d.count = y.count /\ d.header = y.columns /\ d.arrow = Arrow(y)
    BY <2>2, <2>5, RenderedIs
  <2>7. Arrow(d) = Arrow(y)
    BY <2>6, Zenon DEF Arrow
  <2>. QED
    BY <2>1, <2>5, <2>6, <2>7 DEF DataInv
<1>3. ASSUME EmptyGrid PROVE DataInv(d)
  <2>1. Tabular(Nothing.columns, Nothing.rows) /\ SameRows(<<>>, Nothing)
    <3>1. Nothing \in Answers
      BY Zenon DEF Answers
    <3>2. Nothing.rows = <<>>
      BY DEF Nothing
    <3>. QED
      BY <3>1, <3>2, AnswersAreTabular, OwnRows
  <2>2. /\ DataShape(d) /\ d.columns = <<>> /\ d.rows = <<>> /\ d.given = Nothing
        /\ d.header = <<>> /\ d.arrow = NoArrow /\ d.count = 0
    BY <1>1, <1>3 DEF DataShape, EmptyGrid
  <2>3. Nothing.columns = <<>> /\ Nothing.rows = <<>> /\ Len(<<>>) = 0
    BY DEF Nothing
  <2>. QED
    BY <2>1, <2>2, <2>3 DEF DataInv, Arrow
<1>4. ASSUME NEW i \in DOMAIN g.header, d = Rendered(Toggled(g, g.columns[i])) PROVE DataInv(d)
  <2>. DEFINE c == g.columns[i]
              up == ~(g.by = c /\ g.up)
              after == SortRows(g.rows, c, up)
              x == [g EXCEPT !.by = c, !.up = up, !.rows = after]
  <2>1. d = Rendered(x)
    BY <1>4, Zenon DEF Toggled
  <2>2. /\ Tabular(g.columns, after) /\ SameRows(after, g.given) /\ Len(after) = Len(g.rows)
        /\ Sorted(after, [column |-> c, up |-> up]) /\ up \in BOOLEAN
    <3>1. up \in BOOLEAN /\ i \in DOMAIN g.columns
      BY <1>1, Zenon
    <3>. HIDE DEF up
    <3>. QED
      BY <1>1, <3>1, ClickSorts
  <2>. HIDE DEF after, up, c
  <2>3. /\ DataShape(x) /\ x.columns = g.columns /\ x.rows = after /\ x.given = g.given
        /\ x.by = c /\ x.up = up /\ x.count = g.count
    BY <1>1, <2>2 DEF DataShape
  <2>. HIDE DEF d, x
  <2>4. /\ DataShape(d) /\ d.columns = g.columns /\ d.rows = after /\ d.given = g.given
        /\ d.by = c /\ d.up = up /\ d.count = g.count /\ d.header = g.columns /\ d.arrow = Arrow(x)
    BY <2>1, <2>3, RenderedIs
  <2>5. Arrow(d) = Arrow(x)
    BY <2>3, <2>4, Zenon DEF Arrow
  <2>. QED
    BY <1>1, <2>2, <2>4, <2>5 DEF DataInv
<1>5. ASSUME NEW x, DataShape(x), x.columns = g.columns, x.rows = g.rows, x.given = g.given,
             x.by = g.by, x.up = g.up, x.count = g.count, d = Rendered(x)
      PROVE  DataInv(d)
  <2>. HIDE DEF d, g
  <2>1. /\ DataShape(d) /\ d.columns = x.columns /\ d.rows = x.rows /\ d.given = x.given
        /\ d.by = x.by /\ d.up = x.up /\ d.count = x.count /\ d.header = x.columns /\ d.arrow = Arrow(x)
    BY <1>5, RenderedIs
  <2>2. Arrow(x) = Arrow(g)
    BY <1>5, Zenon DEF Arrow
  <2>3. DataInv(g)
    BY Zenon DEF g
  <2>. QED
    BY <1>5, <2>1, <2>2, <2>3, DataKept
<1>6. ASSUME NEW s, d = [g EXCEPT !.start = s] \/ d = [g EXCEPT !.grip = s] PROVE DataInv(d)
  <2>1. /\ DataShape(d) /\ d.columns = g.columns /\ d.rows = g.rows /\ d.given = g.given
        /\ d.by = g.by /\ d.up = g.up /\ d.count = g.count /\ d.header = g.header /\ d.arrow = g.arrow
    BY <1>1, <1>6 DEF DataShape
  <2>. HIDE DEF d
  <2>. QED
    BY <1>1, <2>1, DataKept
<1>7. CASE ShowResult
  BY <1>2, <1>3, <1>7, Zenon DEF ShowResult
<1>8. CASE HeaderClick
  BY <1>4, <1>8, Zenon DEF HeaderClick
<1>9. CASE Resize
  BY <1>1, <1>5, <1>9, Zenon DEF Resize
<1>10. CASE OnVscroll \/ \E delta \in {-1, 1} : StepWheel(delta)
  BY <1>6, <1>10, Zenon DEF OnVscroll, StepWheel
<1>11. CASE GrabGrip \/ ReleaseGrip
  BY <1>6, <1>11, Zenon DEF GrabGrip, ReleaseGrip
<1>12. CASE DragGrip
  <2>1. PICK width \in {1, 3} : d = Rendered([g EXCEPT !.widths[g.grip] = width])
    BY <1>12, Zenon DEF DragGrip
  <2>. DEFINE x == [g EXCEPT !.widths[g.grip] = width]
  <2>2. /\ DataShape(x) /\ x.columns = g.columns /\ x.rows = g.rows /\ x.given = g.given
        /\ x.by = g.by /\ x.up = g.up /\ x.count = g.count
    BY <1>1 DEF DataShape
  <2>. QED
    BY <1>5, <2>1, <2>2, Zenon
<1>. QED
  BY <1>3, <1>7, <1>8, <1>9, <1>10, <1>11, <1>12, Zenon DEF GridNext

\* The window of rows on the canvas begins after the base.
Base(v) == IF v.first = 0 THEN 0 ELSE v.first - 1
Window(v) == IF v.columns = <<>> THEN <<>>
             ELSE SubSeq(v.rows, Base(v) + 1, Between(0, Len(v.rows), v.first + Page + 2))
VirtualShape(v) == v \in [columns : {v.columns}, rows : {v.rows}, given : {v.given}, by : {v.by}, up : BOOLEAN,
                          first : {v.first}, drawn : {v.drawn}, arrow : {v.arrow}, count : {v.count},
                          loaded : BOOLEAN, status : {v.status}, timers : {v.timers}]
VirtualInv(v) ==
  /\ VirtualShape(v) /\ Tabular(v.columns, v.rows) /\ SameRows(v.rows, v.given) /\ v.count = Len(v.rows)
  /\ v.first \in 0 .. Len(v.rows) /\ v.drawn = Window(v) /\ v.arrow = Arrow(v)
  /\ v.columns # <<>> /\ v.by # NoColumn /\ ~v.loaded => Sorted(v.rows, [column |-> v.by, up |-> v.up])

LEMMA DrawnIs ==
  ASSUME NEW v, VirtualShape(v), NEW d, d = Drawn(v)
  PROVE  /\ VirtualShape(d) /\ d.columns = v.columns /\ d.rows = v.rows /\ d.given = v.given
         /\ d.by = v.by /\ d.up = v.up /\ d.count = v.count /\ d.first = v.first /\ d.loaded = v.loaded
         /\ d.drawn = Window(d) /\ d.arrow = Arrow(d)
<1>. DEFINE w == Window(v)
            a == Arrow(v)
<1>1. d = [v EXCEPT !.drawn = w, !.arrow = a]
  BY Zenon DEF Drawn, Window, Base, Arrow
<1>. HIDE DEF w, a
<1>2. /\ d.columns = v.columns /\ d.rows = v.rows /\ d.given = v.given
      /\ d.by = v.by /\ d.up = v.up /\ d.count = v.count /\ d.first = v.first /\ d.loaded = v.loaded
      /\ d.drawn = w /\ d.arrow = a
  BY <1>1 DEF VirtualShape
<1>3. VirtualShape(d)
  BY <1>1 DEF VirtualShape
<1>4. w = Window(d) /\ a = Arrow(d)
  BY <1>2, Zenon DEF w, a, Window, Base, Arrow
<1>. QED
  BY <1>2, <1>3, <1>4

\* What is drawn is each of the rows at its place.
LEMMA WindowShows ==
  ASSUME NEW v, VirtualInv(v), NEW k \in DOMAIN v.drawn
  PROVE  /\ Base(v) \in Nat /\ k \in Nat /\ Base(v) + k \in DOMAIN v.rows
         /\ v.drawn[k] = v.rows[Base(v) + k] /\ v.columns # <<>>
<1>. DEFINE S == [Range(v.columns) -> Int]
            n == Len(v.rows)
            m == Base(v) + 1
            h == Between(0, n, v.first + Page + 2)
<1>1. v.rows \in Seq(S) /\ v.first \in 0 .. n /\ v.drawn = Window(v)
  BY Zenon DEF VirtualInv, Tabular
<1>2. n \in Nat /\ DOMAIN v.rows = 1 .. n
  BY <1>1, LenProperties
<1>3. v.columns # <<>> /\ v.drawn = SubSeq(v.rows, m, h)
  <2>1. DOMAIN <<>> = {}
    BY EmptySeq
  <2>2. v.drawn # <<>>
    BY <2>1
  <2>. QED
    BY <1>1, <2>2, Zenon DEF Window
<1>4. m \in 1 .. (n + 1) /\ h \in 0 .. n
  <2>1. v.first + Page + 2 \in Int
    BY <1>1, <1>2, GridAssumption
  <2>2. m \in 1 .. (n + 1)
    BY <1>1, <1>2 DEF Base
  <2>3. h \in 0 .. n
    <3>. DEFINE e == v.first + Page + 2
    <3>1. h = IF e > n THEN (IF n < 0 THEN 0 ELSE n) ELSE IF e < 0 THEN 0 ELSE e
      BY Zenon DEF Between
    <3>2. e \in Int
      BY <2>1
    <3>. HIDE DEF e
    <3>. QED
      BY <1>2, <3>1, <3>2
  <2>. QED
    BY <2>2, <2>3
<1>. HIDE DEF S, n, m, h
<1>5. /\ DOMAIN SubSeq(v.rows, m, h) = 1 .. (h - m + 1)
      /\ \A j \in 1 .. (h - m + 1) : SubSeq(v.rows, m, h)[j] = v.rows[m + j - 1]
  BY <1>1, <1>2, <1>4
<1>6. k \in 1 .. (h - m + 1) /\ v.drawn[k] = v.rows[m + k - 1]
  BY <1>3, <1>5
<1>7. Base(v) \in Nat
  <2>. USE DEF n
  <2>. QED
    BY <1>1, <1>2 DEF Base
<1>8. k \in Nat /\ m + k - 1 \in 1 .. n
  BY <1>2, <1>4, <1>6
<1>9. m + k - 1 = Base(v) + k
  BY <1>7, <1>8 DEF m
<1>. QED
  BY <1>2, <1>3, <1>6, <1>7, <1>8, <1>9

LEMMA WindowIsSorted ==
  ASSUME NEW v, VirtualInv(v), v.arrow.column # NoColumn, ~v.loaded
  PROVE  Sorted(v.drawn, v.arrow)
<1>1. v.arrow = Arrow(v) /\ (v.columns # <<>> /\ v.by # NoColumn => Sorted(v.rows, [column |-> v.by, up |-> v.up]))
  BY Zenon DEF VirtualInv
<1>2. v.columns # <<>> /\ v.arrow = [column |-> v.by, up |-> v.up]
  <2>1. NoArrow.column = NoColumn
    BY DEF NoArrow
  <2>. QED
    BY <1>1, <2>1, Zenon DEF Arrow
<1>3. v.by # NoColumn
  BY <1>2
<1>4. Sorted(v.rows, v.arrow)
  BY <1>1, <1>2, <1>3, Zenon
<1>. SUFFICES ASSUME NEW i \in DOMAIN v.drawn, NEW j \in DOMAIN v.drawn, i < j
              PROVE  ~(IF v.arrow.up THEN Below(v.drawn[j][v.arrow.column], v.drawn[i][v.arrow.column])
                                     ELSE Below(v.drawn[i][v.arrow.column], v.drawn[j][v.arrow.column]))
  BY Zenon DEF Sorted
<1>5. /\ Base(v) \in Nat /\ i \in Nat /\ j \in Nat /\ Base(v) + i \in DOMAIN v.rows /\ Base(v) + j \in DOMAIN v.rows
      /\ v.drawn[i] = v.rows[Base(v) + i] /\ v.drawn[j] = v.rows[Base(v) + j]
  BY WindowShows, Zenon
<1>6. Base(v) + i < Base(v) + j
  BY <1>5
<1>. QED
  BY <1>4, <1>5, <1>6, Zenon DEF Sorted

LEMMA VirtualStep ==
  ASSUME VirtualInv(virtual), copied.row = copied.seen, VirtualNext
  PROVE  VirtualInv(virtual') /\ copied'.row = copied'.seen
<1>. DEFINE v == virtual
            d == virtual'
<1>1. /\ VirtualShape(v) /\ Tabular(v.columns, v.rows) /\ SameRows(v.rows, v.given) /\ v.count = Len(v.rows)
      /\ v.first \in 0 .. Len(v.rows) /\ v.drawn = Window(v) /\ v.arrow = Arrow(v)
      /\ (v.columns # <<>> /\ v.by # NoColumn /\ ~v.loaded => Sorted(v.rows, [column |-> v.by, up |-> v.up]))
  BY Zenon DEF VirtualInv
<1>2. Len(v.rows) \in Nat
  BY <1>1, LenProperties DEF Tabular
\* Whatever is drawn again from rows that agree with their result.
<1>3. ASSUME NEW x, VirtualShape(x), Tabular(x.columns, x.rows), SameRows(x.rows, x.given), x.count = Len(x.rows),
             x.first \in 0 .. Len(x.rows), d = Drawn(x),
             x.columns # <<>> /\ x.by # NoColumn /\ ~x.loaded => Sorted(x.rows, [column |-> x.by, up |-> x.up])
      PROVE  VirtualInv(d)
  <2>. HIDE DEF d
  <2>1. /\ VirtualShape(d) /\ d.columns = x.columns /\ d.rows = x.rows /\ d.given = x.given
        /\ d.by = x.by /\ d.up = x.up /\ d.count = x.count /\ d.first = x.first /\ d.loaded = x.loaded
        /\ d.drawn = Window(d) /\ d.arrow = Arrow(d)
    BY <1>3, DrawnIs
  <2>. QED
    BY <1>3, <2>1 DEF VirtualInv
\* Messages and their timers.
<1>4. ASSUME NEW x, VirtualInv(x), NEW s, NEW t, NEW y, y = [x EXCEPT !.status = s, !.timers = t]
      PROVE  VirtualInv(y)
  <2>1. VirtualShape(x)
    BY <1>4, Zenon DEF VirtualInv
  <2>2. /\ VirtualShape(y) /\ y.columns = x.columns /\ y.rows = x.rows /\ y.given = x.given
        /\ y.by = x.by /\ y.up = x.up /\ y.count = x.count /\ y.first = x.first /\ y.loaded = x.loaded
        /\ y.drawn = x.drawn /\ y.arrow = x.arrow
    BY <1>4, <2>1 DEF VirtualShape
  <2>3. Window(y) = Window(x) /\ Arrow(y) = Arrow(x)
    BY <2>2, Zenon DEF Window, Base, Arrow
  <2>. QED
    BY <1>4, <2>2, <2>3 DEF VirtualInv
<1>5. ASSUME CopyRow PROVE VirtualInv(d) /\ copied'.row = copied'.seen
  <2>1. PICK k \in DOMAIN v.drawn : copied' = [row |-> v.rows[Base(v) + k], seen |-> v.drawn[k]]
    BY <1>5, Zenon DEF CopyRow, Base
  <2>2. d = [v EXCEPT !.status = "copied", !.timers = v.timers + 1]
    BY <1>5, Zenon DEF CopyRow, Raised
  <2>3. VirtualInv(d)
    <3>1. VirtualInv(v)
      OBVIOUS
    <3>. HIDE DEF v, d
    <3>. QED
      BY <1>4, <2>2, <3>1
  <2>4. v.drawn[k] = v.rows[Base(v) + k]
    BY WindowShows, Zenon
  <2>. QED
    BY <2>1, <2>3, <2>4
<1>6. ASSUME NEW r \in Answers, Load(r) PROVE VirtualInv(d)
  <2>1. Tabular(r.columns, r.rows) /\ SameRows(r.rows, r)
    BY AnswersAreTabular, OwnRows, Zenon
  <2>2. Len(r.rows) \in Nat
    BY <2>1, LenProperties DEF Tabular
  <2>. DEFINE x == [v EXCEPT !.columns = r.columns, !.rows = r.rows, !.given = r,
                             !.first = 0, !.count = Len(r.rows), !.loaded = TRUE]
  <2>3. d = Drawn(x)
    BY <1>6, Zenon DEF Load
  <2>4. /\ VirtualShape(x) /\ x.columns = r.columns /\ x.rows = r.rows /\ x.given = r
        /\ x.first = 0 /\ x.count = Len(r.rows) /\ x.loaded = TRUE
    BY <1>1 DEF VirtualShape
  <2>5. 0 \in 0 .. Len(r.rows)
    BY <2>2
  <2>. HIDE DEF x, d
  <2>. QED
    BY <1>3, <2>1, <2>3, <2>4, <2>5
<1>7. ASSUME ClearVirtual PROVE VirtualInv(d)
  <2>1. Tabular(Nothing.columns, Nothing.rows) /\ SameRows(Nothing.rows, Nothing)
        /\ Nothing.columns = <<>> /\ Nothing.rows = <<>>
    <3>1. Nothing \in Answers
      BY Zenon DEF Answers
    <3>2. Nothing.rows = <<>> /\ Nothing.columns = <<>>
      BY DEF Nothing
    <3>. QED
      BY <3>1, <3>2, AnswersAreTabular, OwnRows
  <2>2. /\ VirtualShape(d) /\ d.columns = <<>> /\ d.rows = <<>> /\ d.given = Nothing /\ d.first = 0
        /\ d.drawn = <<>> /\ d.arrow = NoArrow /\ d.count = 0
    BY <1>1, <1>7 DEF VirtualShape, ClearVirtual
  <2>. QED
    BY <2>1, <2>2 DEF VirtualInv, Window, Arrow
<1>8. ASSUME ToggleSort PROVE VirtualInv(d)
  <2>1. PICK i \in DOMAIN v.columns : d = Drawn(Raised([Toggled(v, v.columns[i]) EXCEPT !.loaded = FALSE], "sorting"))
    BY <1>8, Zenon DEF ToggleSort
  <2>. DEFINE c == v.columns[i]
              up == ~(v.by = c /\ v.up)
              after == SortRows(v.rows, c, up)
              x == [v EXCEPT !.by = c, !.up = up, !.rows = after]
              y == [x EXCEPT !.loaded = FALSE]
              z == [y EXCEPT !.status = "sorting", !.timers = @ + 1]
  <2>2. d = Drawn(z)
    BY <2>1, Zenon DEF Toggled, Raised
  <2>3. /\ Tabular(v.columns, after) /\ SameRows(after, v.given) /\ Len(after) = Len(v.rows)
        /\ Sorted(after, [column |-> c, up |-> up]) /\ up \in BOOLEAN
    <3>1. up \in BOOLEAN
      BY Zenon
    <3>. HIDE DEF up
    <3>. QED
      BY <1>1, <3>1, ClickSorts
  <2>. HIDE DEF after, up, c
  <2>4. /\ VirtualShape(x) /\ x.columns = v.columns /\ x.rows = after /\ x.given = v.given
        /\ x.by = c /\ x.up = up /\ x.count = v.count /\ x.first = v.first
    BY <1>1, <2>3 DEF VirtualShape
  <2>. HIDE DEF x
  <2>5. /\ VirtualShape(y) /\ y.columns = v.columns /\ y.rows = after /\ y.given = v.given
        /\ y.by = c /\ y.up = up /\ y.count = v.count /\ y.first = v.first /\ y.loaded = FALSE
    BY <2>4 DEF VirtualShape
  <2>. HIDE DEF y
  <2>6. /\ VirtualShape(z) /\ z.columns = v.columns /\ z.rows = after /\ z.given = v.given
        /\ z.by = c /\ z.up = up /\ z.count = v.count /\ z.first = v.first /\ z.loaded = FALSE
    BY <2>5 DEF VirtualShape
  <2>. HIDE DEF z, d
  <2>7. /\ Tabular(z.columns, z.rows) /\ SameRows(z.rows, z.given) /\ z.count = Len(z.rows) /\ z.first \in 0 .. Len(z.rows)
        /\ Sorted(z.rows, [column |-> z.by, up |-> z.up])
    BY <1>1, <2>3, <2>6
  <2>. QED
    BY <1>3, <2>2, <2>6, <2>7
<1>9. ASSUME Scroll PROVE VirtualInv(d)
  <2>1. PICK to \in 0 .. Len(v.rows) : d = Drawn([v EXCEPT !.first = to])
    BY <1>9, Zenon DEF Scroll
  <2>. DEFINE x == [v EXCEPT !.first = to]
  <2>2. /\ VirtualShape(x) /\ x.columns = v.columns /\ x.rows = v.rows /\ x.given = v.given
        /\ x.by = v.by /\ x.up = v.up /\ x.count = v.count /\ x.first = to /\ x.loaded = v.loaded
    BY <1>1 DEF VirtualShape
  <2>3. d = Drawn(x)
    BY <2>1
  <2>. HIDE DEF x, d
  <2>. QED
    BY <1>1, <1>3, <2>2, <2>3
<1>10. ASSUME Wipe PROVE VirtualInv(d)
  <2>1. d = [v EXCEPT !.timers = v.timers - 1, !.status = ""]
    BY <1>10, Zenon DEF Wipe
  <2>2. d = [v EXCEPT !.status = "", !.timers = v.timers - 1]
    BY <1>1, <2>1 DEF VirtualShape
  <2>3. VirtualInv(v)
    OBVIOUS
  <2>. HIDE DEF v, d
  <2>. QED
    BY <1>4, <2>2, <2>3
<1>11. copied' = copied \/ CopyRow
  BY Zenon DEF VirtualNext
<1>. QED
  BY <1>5, <1>6, <1>7, <1>8, <1>9, <1>10, <1>11, Zenon DEF VirtualNext

GridsInv == DataInv(dataGrid) /\ VirtualInv(virtual) /\ copied.row = copied.seen

LEMMA GridsImply == GridsInv => ArrowsTellTheOrder
<1>. SUFFICES ASSUME GridsInv PROVE ArrowsTellTheOrder
  OBVIOUS
<1>1. DataInv(dataGrid) /\ VirtualInv(virtual) /\ copied.row = copied.seen
  BY Zenon DEF GridsInv
<1>2. dataGrid.arrow.column # NoColumn => Sorted(dataGrid.rows, dataGrid.arrow)
  <2>. SUFFICES ASSUME dataGrid.arrow.column # NoColumn PROVE Sorted(dataGrid.rows, dataGrid.arrow)
    OBVIOUS
  <2>1. NoArrow.column = NoColumn
    BY DEF NoArrow
  <2>2. dataGrid.columns # <<>> /\ dataGrid.arrow = [column |-> dataGrid.by, up |-> dataGrid.up]
    BY <1>1, <2>1, Zenon DEF DataInv, Arrow
  <2>3. dataGrid.by # NoColumn
    BY <2>2
  <2>. QED
    BY <1>1, <2>2, <2>3, Zenon DEF DataInv
<1>3. virtual.arrow.column # NoColumn /\ ~virtual.loaded => Sorted(virtual.drawn, virtual.arrow)
  BY <1>1, WindowIsSorted, Zenon
<1>. QED
  BY <1>1, <1>2, <1>3, Zenon DEF ArrowsTellTheOrder, DataInv, VirtualInv

LEMMA GridsInit == RInit => GridsInv
<1>. SUFFICES ASSUME RInit PROVE GridsInv
  OBVIOUS
<1>1. Tabular(<<>>, <<>>) /\ SameRows(<<>>, Nothing)
  <2>1. Nothing \in Answers
    BY Zenon DEF Answers
  <2>2. Nothing.rows = <<>> /\ Nothing.columns = <<>>
    BY DEF Nothing
  <2>. QED
    BY <2>1, <2>2, AnswersAreTabular, OwnRows
<1>2. DataInv(dataGrid)
  <2>1. dataGrid = Emptied
    BY DEF RInit
  <2>2. /\ dataGrid.columns = <<>> /\ dataGrid.rows = <<>> /\ dataGrid.given = Nothing /\ dataGrid.count = 0
        /\ dataGrid.header = <<>> /\ dataGrid.arrow = NoArrow /\ DataShape(dataGrid)
    BY <2>1 DEF Emptied, DataShape
  <2>. QED
    BY <1>1, <2>2 DEF DataInv, Arrow
<1>3. VirtualInv(virtual)
  <2>1. virtual = Unfilled
    BY DEF RInit
  <2>2. /\ virtual.columns = <<>> /\ virtual.rows = <<>> /\ virtual.given = Nothing /\ virtual.count = 0
        /\ virtual.first = 0 /\ virtual.drawn = <<>> /\ virtual.arrow = NoArrow /\ VirtualShape(virtual)
    BY <2>1 DEF Unfilled, VirtualShape
  <2>. QED
    BY <1>1, <2>2 DEF VirtualInv, Window, Arrow
<1>4. copied.row = copied.seen
  BY DEF RInit
<1>. QED
  BY <1>2, <1>3, <1>4 DEF GridsInv

LEMMA GridsStep == GridsInv /\ [RNext]_rvars => GridsInv'
<1>. SUFFICES ASSUME GridsInv, [RNext]_rvars PROVE GridsInv'
  OBVIOUS
<1>1. DataInv(dataGrid) /\ VirtualInv(virtual) /\ copied.row = copied.seen
  BY Zenon DEF GridsInv
<1>2. CASE GridNext
  <2>1. virtual' = virtual /\ copied' = copied
    BY <1>2, Zenon DEF GridNext
  <2>2. DataInv(dataGrid')
    BY <1>1, <1>2, DataStep
  <2>. QED
    BY <1>1, <2>1, <2>2 DEF GridsInv, VirtualInv, VirtualShape, Window, Base, Arrow
<1>3. CASE VirtualNext
  <2>1. dataGrid' = dataGrid
    BY <1>3, Zenon DEF VirtualNext
  <2>2. VirtualInv(virtual') /\ copied'.row = copied'.seen
    BY <1>1, <1>3, VirtualStep
  <2>. QED
    BY <1>1, <2>1, <2>2 DEF GridsInv, DataInv, DataShape, Arrow
<1>4. CASE UNCHANGED rvars
  <2>1. dataGrid' = dataGrid /\ virtual' = virtual /\ copied' = copied
    BY <1>4 DEF rvars
  <2>. QED
    BY <1>1, <2>1 DEF GridsInv, DataInv, DataShape, VirtualInv, VirtualShape, Window, Base, Arrow
<1>. QED
  BY <1>2, <1>3, <1>4, Zenon DEF RNext

(* The grids (ui/data_grid.py, ui/virtual_grid.py): while a header shows   *)
(* an arrow the rows are in the order it tells, they are those of the      *)
(* result, each as often as there, the count is theirs and a copied row is *)
(* the one seen, for any results, columns and heights of the window.       *)
THEOREM ArrowsAlwaysTellTheOrder == RSpec => []ArrowsTellTheOrder
<1>. QED
  BY GridsInit, GridsStep, GridsImply, PTL DEF RSpec

=============================================================================
