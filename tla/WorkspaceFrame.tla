---------------------------- MODULE WorkspaceFrame ----------------------------
(***************************************************************************)
(* The frame the dashboard's panes live in (ui/workspace.py): the rails,   *)
(* the sashes that drag their sizes, and the header of document tabs.      *)
(* Sizes are pixels in a small unit; the window is Room wide.              *)
(***************************************************************************)
EXTENDS Integers, SequencesExt

CONSTANTS Rails,        \* rail -> the width it expands to
          MinPane, Sash, Rooms,
          TabPaths, NoTab,
          MaxMoves      \* bound: events

ASSUME FrameAssumption == /\ MinPane \in Nat /\ Sash \in Nat /\ MaxMoves \in Nat
                          /\ Rooms \subseteq Nat /\ \A r \in DOMAIN Rails : Rails[r] \in Nat
                          /\ NoTab \notin TabPaths

VARIABLES rail,         \* rail -> [expanded, packed, width]
          room,         \* winfo_width of the parent
          sash,         \* rail -> [dragging, from, size, moved]; gap is history:
                        \* the width less the pointer when it was pressed
          pointer,
          header,       \* [tabs, active, dirty, starred]: starred labels show "*"
          moves

wsvars == <<rail, room, sash, pointer, header, moves>>
RailNames == DOMAIN Rails

(* WorkspaceLayout collapses every rail but the left one.                  *)
WsInit == /\ rail = [r \in RailNames |-> [expanded |-> r = "left", packed |-> r = "left",
                                      width |-> IF r = "left" THEN Rails[r] ELSE 0]]
          /\ room \in Rooms /\ pointer = 0 /\ moves = 0
          /\ sash = [r \in RailNames |-> [dragging |-> FALSE, from |-> 0, size |-> 0, moved |-> FALSE, gap |-> 0]]
          /\ header = [tabs |-> <<>>, active |-> NoTab, dirty |-> {}, starred |-> {}]

(* _toggle and toggle_left_rail: a rail expands to its default width.      *)
Collapse(r) == rail' = [rail EXCEPT ![r] = [expanded |-> FALSE, packed |-> FALSE, width |-> 0]]
Expand(r) == rail' = [rail EXCEPT ![r] = [expanded |-> TRUE, packed |-> TRUE, width |-> Rails[r]]]
Toggle(r) == /\ IF rail[r].expanded THEN Collapse(r) ELSE Expand(r)
             /\ sash' = [sash EXCEPT ![r].moved = FALSE] /\ UNCHANGED <<room, pointer, header>>

(* One pointer: no sash is pressed while another is dragged.               *)
(* Mutant: the press keeps the size of the press before.                   *)
PressSashOnce(r) == /\ \A s \in RailNames : ~sash[s].dragging
                /\ sash' = [sash EXCEPT ![r] = [dragging |-> TRUE, from |-> pointer, moved |-> FALSE,
                                                gap |-> rail[r].width - pointer,
                                                size |-> IF @.size = 0 THEN rail[r].width ELSE @.size]]
                /\ UNCHANGED <<rail, room, pointer, header>>
PressSash(r) == /\ \A s \in RailNames : ~sash[s].dragging
            /\ sash' = [sash EXCEPT ![r] = [dragging |-> TRUE, from |-> pointer, moved |-> FALSE,
                                            gap |-> rail[r].width - pointer, size |-> rail[r].width]]
            /\ UNCHANGED <<rail, room, pointer, header>>
(* _on_drag: room is kept for a pane, and MinPane wins over the room.      *)
Larger(a, b) == IF a > b THEN a ELSE b
Smaller(a, b) == IF a < b THEN a ELSE b
Size(r, at) == LET wished == Larger(MinPane, sash[r].size + at - sash[r].from)
               IN Larger(MinPane, Smaller(wished, room - MinPane - Sash))
Drag(r, at) == /\ sash[r].dragging /\ pointer' = at /\ rail' = [rail EXCEPT ![r].width = Size(r, at)]
               /\ sash' = [sash EXCEPT ![r].moved = TRUE] /\ UNCHANGED <<room, header>>
ReleaseSash(r) == /\ sash[r].dragging /\ sash' = [sash EXCEPT ![r].dragging = FALSE]
              /\ UNCHANGED <<rail, room, pointer, header>>
MovePointer(at) == /\ \A s \in RailNames : ~sash[s].dragging
                   /\ pointer' = at /\ UNCHANGED <<rail, room, sash, header>>

(* _TabHeader; _label_text is drawn by open and by set_dirty.              *)
Selects(h, t) == IF Contains(h.tabs, t) THEN [h EXCEPT !.active = t] ELSE h
Opens(h, t) == IF Contains(h.tabs, t) THEN Selects(h, t)
               ELSE Selects([h EXCEPT !.tabs = Append(@, t), !.starred = IF t \in h.dirty THEN @ \cup {t} ELSE @], t)
At(h, t) == CHOOSE i \in DOMAIN h.tabs : h.tabs[i] = t
ClosedTab(h, t) == [h EXCEPT !.tabs = RemoveAt(@, At(h, t)), !.dirty = @ \ {t}, !.starred = @ \ {t}]
Closes(h, t) == IF ~Contains(h.tabs, t) THEN h
                ELSE LET rest == ClosedTab(h, t)
                         next == Smaller(At(h, t), Len(rest.tabs))
                     IN IF h.active # t THEN rest
                        ELSE IF rest.tabs = <<>> THEN [rest EXCEPT !.active = NoTab]
                        ELSE Selects([rest EXCEPT !.active = NoTab], rest.tabs[next])
\* close_all closes the tabs of the strip one by one.
ClosesAll(h) == [h EXCEPT !.tabs = <<>>, !.active = IF Contains(h.tabs, @) THEN NoTab ELSE @,
                          !.dirty = @ \ ToSet(h.tabs), !.starred = @ \ ToSet(h.tabs)]
SetDirty(h, t, on) == [h EXCEPT !.dirty = IF on THEN @ \cup {t} ELSE @ \ {t},
                                !.starred = IF on /\ Contains(h.tabs, t) THEN @ \cup {t} ELSE @ \ {t}]
HeaderStep == /\ \/ \E t \in TabPaths : header' \in {Opens(header, t), Selects(header, t), Closes(header, t)}
                                               \cup {SetDirty(header, t, on) : on \in BOOLEAN}
                 \/ header' = ClosesAll(header)
              /\ UNCHANGED <<rail, room, sash, pointer>>

SashStep == \/ \E r \in RailNames : Toggle(r) \/ PressSash(r) \/ ReleaseSash(r)
            \/ \E r \in RailNames, at \in 0..Larger(room, 0) : Drag(r, at)
            \/ \E at \in {0, MinPane} : MovePointer(at)
WsNext == moves < MaxMoves /\ moves' = moves + 1 /\ (SashStep \/ HeaderStep)
WsSpec == WsInit /\ [][WsNext]_wsvars

(* While a sash is dragged its rail has changed by what the pointer moved, *)
(* within the room for both panes, whatever toggles, drags and presses     *)
(* came before; a rail shows its content exactly when it says it is open.  *)
(* The right rail lies on the other side of its sash: see the README.      *)
SashesFollowThePointer == \A r \in RailNames :
  /\ rail[r].packed <=> rail[r].expanded
  /\ sash[r].dragging /\ sash[r].moved =>
       /\ rail[r].width >= MinPane
       /\ room >= 2 * MinPane + Sash => rail[r].width + Sash + MinPane <= room
       /\ MinPane < rail[r].width /\ rail[r].width + Sash + MinPane < room
            => rail[r].width - pointer = sash[r].gap

(* A tab is active exactly while the strip holds one, it is in the strip   *)
(* once, and a label has its star exactly while the document is dirty.     *)
HeaderTellsTheTruth ==
  /\ header.active = NoTab <=> header.tabs = <<>>
  /\ header.active # NoTab => Contains(header.tabs, header.active)
  /\ IsInjective(header.tabs) /\ header.starred = header.dirty \cap ToSet(header.tabs)

(* The frame shows what it holds: rails, sashes and tabs (the two above).  *)
FrameIsTrue == SashesFollowThePointer /\ HeaderTellsTheTruth
=============================================================================
