------------------------------ MODULE Preferences ------------------------------
(***************************************************************************)
(* The preferences of the workbench: the LinterConfig the application      *)
(* holds and hands to the settings window, the one the dashboard lints     *)
(* with, the appearance on the screen and the session file.  The palette   *)
(* and the menus change the dashboard's alone.                             *)
(***************************************************************************)
EXTENDS FiniteSets

CONSTANTS Dialects, Presets,   \* dialects; palette themes beside "dark" and "light"
          Rules, Default,      \* DEFAULT_RULES; the dialect of a new configuration
          Closed               \* no settings window, no scan, no session file

ASSUME PreferencesAssumption == Default \in Dialects /\ Presets \cap {"dark", "light"} = {}

VARIABLES app, dash,           \* App._config and Dashboard._config: [dialect, theme, off]
          settings,            \* the open settings window's choices and whether the dialect is
                               \* one of them, or Closed
          appearance, badge,   \* set_appearance_mode; the dialect the header shows
          worker,              \* the last scan: [dialect, off, ran], or Closed
          session, restoring,  \* the session file; the restore is still to come
          chosen, stale,       \* history: the dialect last chosen; it was overwritten by a choice
                               \* made before it
          applied, previewed   \* the dashboard took a configuration over since the start; a theme
                               \* was tried since and not applied

gvars == <<app, dash, settings, appearance, badge, worker, session, restoring, chosen, stale, applied, previewed>>
Themes == {"dark", "light"} \cup Presets
Mode(t) == IF t \in {"dark", "light"} THEN t ELSE appearance   \* others leave the mode alone
Tokens == "dark"   \* ThemeManager.apply_theme sets this mode, whatever its variant
(* _load_theme sets the configured mode, then applies the tokens.          *)
Starts(config) == /\ app' = config /\ dash' = config /\ settings' = Closed /\ badge' = config.dialect
                  /\ worker' = Closed /\ restoring' = TRUE /\ appearance' = Tokens
                  /\ applied' = FALSE /\ previewed' = FALSE
(* from_env_or_default: the file SQLEAN_PRO_CONFIG names, or the defaults. *)
Configs == {[dialect |-> Default, theme |-> "dark", off |-> {}]} \cup [dialect : Dialects, theme : {"light"}, off : SUBSET Rules]

GInit == \E config \in Configs :
           /\ app = config /\ dash = config /\ settings = Closed /\ badge = config.dialect
           /\ worker = Closed /\ session = Closed /\ restoring = TRUE /\ appearance = Tokens
           /\ chosen = config.dialect /\ stale = FALSE /\ applied = FALSE /\ previewed = FALSE

TakesOver(config) == /\ dash' = config /\ badge' = config.dialect /\ applied' = TRUE
ApplyConfig(config) == /\ TakesOver(config) /\ appearance' = Mode(config.theme)
                       /\ previewed' = (previewed /\ config.theme \in Presets)
(* _set_dialect, by menu or palette                                        *)
SetDialect(d) == /\ settings = Closed /\ ApplyConfig([dash EXCEPT !.dialect = d])
                 /\ chosen' = d /\ stale' = FALSE
                 /\ UNCHANGED <<app, settings, worker, session, restoring>>
(* _apply_palette_theme, and _cycle_palette_theme, which picks the next:   *)
(* the configuration is taken over, then the tokens are applied.           *)
PaletteTheme(t) == /\ settings = Closed /\ TakesOver([dash EXCEPT !.theme = t])
                   /\ appearance' = Tokens /\ previewed' = FALSE
                   /\ UNCHANGED <<app, settings, worker, session, restoring, chosen, stale>>
(* _restore_session, 150 ms after the window came up: the dialect, not the *)
(* theme; and it does not ask what was chosen meanwhile.                   *)
RestoreSession == /\ restoring /\ restoring' = FALSE
                  /\ IF session = Closed THEN UNCHANGED <<dash, badge, appearance, chosen, stale, applied, previewed>>
                     ELSE /\ ApplyConfig([dash EXCEPT !.dialect = session.dialect])
                          /\ stale' = (chosen # session.dialect) /\ UNCHANGED chosen
                  /\ UNCHANGED <<app, settings, worker, session>>

OpenSettings == /\ settings = Closed
                /\ settings' = [dialect |-> app.dialect, theme |-> app.theme, off |-> app.off, touched |-> FALSE]
                /\ UNCHANGED <<app, dash, appearance, badge, worker, session, restoring, chosen, stale, applied, previewed>>
(* The window's dialect, theme (shown at once) and rule switches.          *)
Chooses(d, t, off) == /\ settings # Closed 
                      /\ settings' = [dialect |-> d, theme |-> t, off |-> off,
                                      touched |-> settings.touched \/ d # settings.dialect]
                      /\ appearance' = IF t # settings.theme THEN t ELSE appearance
                      /\ previewed' = (previewed \/ t # settings.theme)
                      /\ UNCHANGED <<app, dash, badge, worker, session, restoring, chosen, stale, applied>>
Cancel == /\ settings # Closed /\ settings' = Closed
          /\ UNCHANGED <<app, dash, appearance, badge, worker, session, restoring, chosen, stale, applied, previewed>>
(* SettingsModal._apply and App._apply_settings, which sets the mode,      *)
(* applies the tokens and hands the configuration to the dashboard.        *)
Picked == [dialect |-> settings.dialect, theme |-> settings.theme, off |-> settings.off]
Done == /\ settings # Closed /\ settings' = Closed /\ app' = Picked
        /\ chosen' = IF settings.touched THEN settings.dialect ELSE chosen
        /\ stale' = (settings.dialect # chosen') /\ UNCHANGED <<worker, session, restoring>>
(* Mutant: the router shell is not asked for its dashboard.                *)
ApplyUnrouted == Done /\ appearance' = Tokens /\ previewed' = FALSE /\ UNCHANGED <<dash, badge, applied>>
Apply == Done /\ ApplyConfig(Picked)

(* _start_scan hands every rule and its switch to ScanWorker, which keeps  *)
(* the entries that are on and takes a rule without an entry to be on.     *)
Kept(off) == [r \in Rules \ off |-> TRUE]
Runs(r, kept) == r \notin DOMAIN kept \/ kept[r]
StartScan == /\ worker' = [dialect |-> dash.dialect, off |-> dash.off,
                           ran |-> {r \in Rules : Runs(r, Kept(dash.off))}]
             /\ UNCHANGED <<app, dash, settings, appearance, badge, session, restoring, chosen, stale, applied, previewed>>

(* _on_quit saves the session first; a crash does not.                     *)
Restart(saves) == /\ session' = IF saves THEN [dialect |-> dash.dialect, theme |-> dash.theme] ELSE session
                  /\ \E config \in Configs : Starts(config)
                  /\ chosen' = IF session' = Closed THEN dash'.dialect ELSE session'.dialect
                  /\ stale' = FALSE

GNext == \/ \E d \in Dialects : SetDialect(d) \/ \E t \in Presets : PaletteTheme(t)
         \/ RestoreSession \/ OpenSettings \/ Cancel \/ Apply \/ StartScan
         \/ \E d \in Dialects, t \in {"dark", "light"}, off \in SUBSET Rules : settings # Closed /\ Chooses(d, t, off)
         \/ \E saves \in BOOLEAN : Restart(saves)
GSpec == GInit /\ [][GNext]_gvars

GTypeOK == /\ {app, dash} \subseteq [dialect : Dialects, theme : Themes, off : SUBSET Rules]
           /\ appearance \in {"dark", "light"} /\ badge \in Dialects /\ chosen \in Dialects
           /\ {restoring, stale, applied, previewed} \subseteq BOOLEAN

(* The dashboard lints with the dialect its header shows, and that is the  *)
(* one last chosen, until a restored session or a settings window opened   *)
(* on the application's older configuration overwrites it; the switched    *)
(* off rules are the same for both.  A light configuration is dark on the  *)
(* screen until the dashboard takes one over; from then on the screen has  *)
(* the appearance of the dashboard's theme (the presets are dark), unless  *)
(* another was only tried since.                                           *)
SettingsTakeEffect == /\ badge = dash.dialect /\ dash.off = app.off
                      /\ dash.dialect = chosen \/ stale \/ restoring
                      /\ previewed \/ appearance = IF applied /\ dash.theme \notin Presets THEN dash.theme ELSE Tokens
(* The preferences keep their types and take effect (the two above).       *)
PreferencesHold == GTypeOK /\ SettingsTakeEffect
(* config.py: "Rule enabled/disabled switch."  A scan runs no rule that is *)
(* switched off.                                                           *)
DisabledRulesStayQuiet == worker # Closed => worker.ran \cap worker.off = {}
=============================================================================
