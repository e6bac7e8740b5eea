-------------------------------- MODULE Motion --------------------------------
(***************************************************************************)
(* What moves by itself in the dashboard: tweens on Tk's after timers      *)
(* (ui/animations.py) that slide a panel and draw the health score         *)
(* (ui/rating_widget.py), and the stack of toasts (ui/toasts.py).  Every   *)
(* step runs on the Tk thread; timers fire in any order.  The pulse shown  *)
(* while a query runs is in LiveQuery.                                     *)
(*                                                                         *)
(* A tween counts its frames, not the clock.  Its easing curve is taken as *)
(* linear: only its two ends tell.                                         *)
(***************************************************************************)
EXTENDS Integers, SequencesExt, FiniteSets

CONSTANTS Frames,        \* frames of a transition
          OpenWidth, ClosedWidth,
          ScoresSet, KeptToasts,  \* scores shown; toasts kept (5 in the code)
          MaxEvents      \* bound: toggles, scores and toasts

ASSUME MotionAssumption == /\ Frames \in Nat \ {0} /\ KeptToasts \in Nat \ {0}
                           /\ OpenWidth \in Nat /\ ClosedWidth \in Nat /\ MaxEvents \in Nat
                           /\ ScoresSet \subseteq Nat

VARIABLES panel,         \* SlidePanel: [open, width, tween, told, jumped]
          score,         \* SQLHealthScore: [target, shown, engines]
          toasts,        \* the stack: [shown, due], toasts by their number
          events

mvars == <<panel, score, toasts, events>>
Still == [from |-> 0, to |-> 0, elapsed |-> -1]
Moving(t) == t.elapsed >= 0

(* _tick for one tween: the value of its next frame, and whether it ends.  *)
Frame(t) == [t EXCEPT !.elapsed = @ + 1]
Value(t) == t.from + ((t.to - t.from) * t.elapsed) \div Frames
Rest(t) == IF t.elapsed >= Frames THEN Still ELSE t
Begun(from, to) == Frame([from |-> from, to |-> to, elapsed |-> 0])

(***************************************************************************)
(* SlidePanel.  A tween on "width" supersedes the one before, and joins    *)
(* the running timer if there is one; the new tween is drawn at once only  *)
(* when the engine was at rest.  open(animate=False) sets the width and    *)
(* leaves the tween.                                                       *)
(***************************************************************************)
Target(p) == IF p.open THEN OpenWidth ELSE ClosedWidth
DrawnAt(p, t) == [p EXCEPT !.width = Value(t), !.tween = Rest(t), !.told = IF Moving(Rest(t)) THEN @ ELSE p.open]
(* Mutant: a panel in motion is not aimed anew.                            *)
AnimateOnce(p) == IF Moving(p.tween) THEN p ELSE DrawnAt(p, Begun(p.width, Target(p)))
Animate(p) == IF Moving(p.tween) THEN [p EXCEPT !.tween = [from |-> p.width, to |-> Target(p), elapsed |-> 0]]
              ELSE DrawnAt(p, Begun(p.width, Target(p)))
Slide(open) == panel' = Animate([panel EXCEPT !.open = open, !.jumped = FALSE])
Jump(open) == LET p == [panel EXCEPT !.open = open]
              IN panel' = [p EXCEPT !.width = Target(p), !.told = open, !.jumped = Moving(panel.tween)]
TogglePanel == Slide(~panel.open)
PanelFrame == Moving(panel.tween) /\ panel' = DrawnAt(panel, Frame(panel.tween))

(***************************************************************************)
(* SQLHealthScore: every score has an engine of its own, drawn from 0; the *)
(* timers of engines come in the order the engines were started.           *)
(***************************************************************************)
\* The engine that drew t as its next frame is at rest if that was the last one.
Redrawn(engines, i, t) == IF Moving(Rest(t)) THEN [engines EXCEPT ![i] = t] ELSE RemoveAt(engines, i)
SetScore(s) == LET t == Begun(0, s)
               IN score' = [target |-> s, shown |-> Value(t),
                            engines |-> IF Moving(Rest(t)) THEN Append(score.engines, t) ELSE score.engines]
ScoreFrame == \E i \in DOMAIN score.engines :
                LET t == Frame(score.engines[i])
                IN /\ \A j \in 1..(i - 1) : score.engines[j].elapsed > score.engines[i].elapsed
                   /\ score' = [score EXCEPT !.shown = Value(t), !.engines = Redrawn(@, i, t)]

(***************************************************************************)
(* ToastStack: the oldest beyond KeptToasts are destroyed, and every toast *)
(* by its timer.  place is where _next_position puts a toast, by how many  *)
(* there are; nothing moves later.                                         *)
(***************************************************************************)
Toast(n, place) == [number |-> n, place |-> place]
Spawn(n) == LET live == IF Len(toasts.shown) >= KeptToasts THEN Tail(toasts.shown) ELSE toasts.shown
            IN toasts' = [shown |-> Append(live, Toast(n, Len(live) + 1)), due |-> toasts.due \cup {n}]
Without(shown, n) == IF \E i \in DOMAIN shown : shown[i].number = n
                     THEN RemoveAt(shown, CHOOSE i \in DOMAIN shown : shown[i].number = n) ELSE shown
Dismiss == \E n \in toasts.due : toasts' = [shown |-> Without(toasts.shown, n), due |-> toasts.due \ {n}]
DismissAll == toasts.shown # <<>> /\ toasts' = [toasts EXCEPT !.shown = <<>>]

-----------------------------------------------------------------------------
MInit == /\ panel = [open |-> FALSE, width |-> ClosedWidth, tween |-> Still, told |-> FALSE, jumped |-> FALSE]
         /\ score = [target |-> 0, shown |-> 0, engines |-> <<>>]
         /\ toasts = [shown |-> <<>>, due |-> {}] /\ events = 0
UserActs == events < MaxEvents /\ events' = events + 1

SlideNext == /\ \/ PanelFrame /\ UNCHANGED events
                \/ UserActs /\ (TogglePanel \/ \E open \in BOOLEAN : Slide(open) \/ Jump(open))
             /\ UNCHANGED <<score, toasts>>
ScoreNext == /\ \/ ScoreFrame /\ UNCHANGED events
                \/ UserActs /\ \E s \in ScoresSet : SetScore(s)
             /\ UNCHANGED <<panel, toasts>>
ToastNext == /\ \/ UserActs /\ Spawn(events + 1)
                \/ (Dismiss \/ DismissAll) /\ UNCHANGED events
             /\ UNCHANGED <<panel, score>>
MNext == SlideNext \/ ScoreNext \/ ToastNext
MSpec == MInit /\ [][MNext]_mvars

(* At rest the panel is as wide as is_open says, and its listeners were    *)
(* told so, however often it was turned round on the way; a jump while it  *)
(* slid is undone by the tween it left: see the README.  The score at rest *)
(* is the last one set, whatever engines were still drawing older ones.    *)
RestIsWhereItSays ==
  /\ ~Moving(panel.tween) /\ ~panel.jumped => panel.width = Target(panel) /\ panel.told = panel.open
  /\ score.engines = <<>> => score.shown = score.target

(* No more toasts than the stack keeps, the newest last, and a place beyond*)
(* the stack is never taken.                                               *)
ToastsStayFew == /\ Len(toasts.shown) <= KeptToasts
                 /\ \A i, j \in DOMAIN toasts.shown : i < j => toasts.shown[i].number < toasts.shown[j].number
                 /\ \A i \in DOMAIN toasts.shown : toasts.shown[i].place \in 1..KeptToasts

(* Whatever interrupts a motion, what comes to rest is what was asked for  *)
(* last, and toasts do not pile up (the two above).                        *)
MotionsSettle == RestIsWhereItSays /\ ToastsStayFew
=============================================================================
