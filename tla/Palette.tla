-------------------------------- MODULE Palette --------------------------------
(***************************************************************************)
(* The command palette (ui/command_palette.py): a text, the commands it    *)
(* matches in the order of their scores, and a selected row that the arrow *)
(* keys and the mouse move.  A key acts when it is pressed and once more,  *)
(* by <KeyRelease>, when it is let go.  Labels, hints and families are     *)
(* sequences of letters.                                                   *)
(***************************************************************************)
EXTENDS Naturals, Integers, Sequences, SequencesExt, FiniteSets

CONSTANTS Commands,            \* registered commands, in order: [label, hint, family]
          Letters, MaxLength   \* letters typed; bound: letters in the entry

ASSUME PaletteAssumption ==
  /\ MaxLength \in Nat
  /\ Commands \in Seq([label : Seq(Letters), hint : Seq(Letters), family : Seq(Letters)]) /\ Commands # <<>>

VARIABLES open, entryText,     \* the window exists; what its entry holds
          filtered, selected,  \* indices of the commands listed; the highlighted row, from 0
          held,                \* a key is down
          ran                  \* the command last run: [command, text, shown], or NoRun

kvars == <<open, entryText, filtered, selected, held, ran>>
NoMatch == -1
NoRun == [command |-> 0, text |-> <<>>, row |-> -1, late |-> FALSE]

(* _fuzzy_score: every letter in turn at its first place after the one     *)
(* before; letters skipped count one each and three for every skip.        *)
FirstFrom(c, text, from) == {i \in from..Len(text) : text[i] = c}
(* Mutant: the search for the next letter starts over.                     *)
NextPlaceAgain(c, text, place) ==
  LET next == IF place = NoMatch THEN {} ELSE FirstFrom(c, text, 1)
  IN IF next = {} THEN NoMatch ELSE CHOOSE i \in next : \A j \in next : i <= j
NextPlace(c, text, place) ==
  LET next == IF place = NoMatch THEN {} ELSE FirstFrom(c, text, place + 1)
  IN IF next = {} THEN NoMatch ELSE CHOOSE i \in next : \A j \in next : i <= j
Places(q, text) == LET at[k \in 0..Len(q)] == IF k = 0 THEN 0 ELSE NextPlace(q[k], text, at[k - 1])
                   IN at
Score(q, text) == LET at == Places(q, text)
                      skips == {k \in 1..Len(q) : at[k] > at[k - 1] + 1}
                  IN IF at[Len(q)] = NoMatch THEN NoMatch
                     ELSE at[Len(q)] - Len(q) + 3 * Cardinality(skips)
(* _filter: the best of label, hint and family; ties stay in order.        *)
Scores(q, c) == {Score(q, c.label), Score(q, c.hint), Score(q, c.family)} \ {NoMatch}
Best(q, c) == CHOOSE s \in Scores(q, c) : \A t \in Scores(q, c) : s <= t
Found(q) == {i \in DOMAIN Commands : Scores(q, Commands[i]) # {}}
Better(q, i, j) == \/ Best(q, Commands[i]) < Best(q, Commands[j])
                   \/ Best(q, Commands[i]) = Best(q, Commands[j]) /\ i < j
Filter(q) == [n \in 1..Cardinality(Found(q)) |->
                CHOOSE i \in Found(q) : Cardinality({j \in Found(q) : Better(q, j, i)}) = n - 1]

KInit == open = FALSE /\ entryText = <<>> /\ filtered = <<>> /\ selected = 0 /\ held = FALSE /\ ran = NoRun
Refresh(q) == filtered' = Filter(q) /\ selected' = 0
(* show(): a window that exists is lifted and refreshed.                   *)
Show == /\ open' = TRUE /\ entryText' = IF open THEN entryText ELSE <<>>
        /\ Refresh(entryText') /\ UNCHANGED <<held, ran>>
Hide == open /\ open' = FALSE /\ UNCHANGED <<entryText, filtered, selected, held, ran>>
Press(text) == /\ open /\ entryText' = text /\ held' = TRUE /\ UNCHANGED <<open, filtered, selected, ran>>
Type(c) == Len(entryText) < MaxLength /\ Press(Append(entryText, c))
Erase == entryText # <<>> /\ Press(Front(entryText))
(* _move, on the press of Up or Down                                       *)
Move(delta) == /\ open /\ held' = TRUE /\ UNCHANGED <<open, entryText, filtered, ran>>
               /\ selected' = IF filtered = <<>> THEN selected ELSE (selected + delta + Len(filtered)) % Len(filtered)
(* <KeyRelease>, of whichever key                                          *)
Release == /\ held /\ held' = FALSE /\ UNCHANGED <<open, entryText, ran>>
           /\ IF open THEN Refresh(entryText) ELSE UNCHANGED <<filtered, selected>>
Hover(row) == /\ open /\ row < Len(filtered) /\ selected' = row /\ UNCHANGED <<open, entryText, filtered, held, ran>>
(* _run_selected hides the palette and runs the highlighted command.       *)
RunsRow(row) == /\ open /\ filtered # <<>> /\ open' = FALSE
             /\ ran' = [command |-> filtered[row + 1], text |-> entryText, row |-> row, late |-> held]
             /\ UNCHANGED <<entryText, filtered, held>>
Return == RunsRow(IF selected < Len(filtered) THEN selected ELSE Len(filtered) - 1) /\ UNCHANGED selected
Click(row) == row < Len(filtered) /\ RunsRow(row) /\ selected' = row

KNext == \/ Show \/ Hide \/ Erase \/ Release \/ Return
         \/ \E c \in Letters : Type(c) \/ \E delta \in {-1, 1} : Move(delta)
         \/ \E row \in 0..(Len(Commands) - 1) : Hover(row) \/ Click(row)
KSpec == KInit /\ [][KNext]_kvars

KTypeOK == /\ open \in BOOLEAN /\ held \in BOOLEAN /\ entryText \in Seq(Letters)
           /\ \A i \in DOMAIN filtered : filtered[i] \in DOMAIN Commands
           /\ selected \in 0..Len(Commands)

(* What runs with no key down is listed for the text in the entry, and the *)
(* list holds a command exactly when the text is spelt out, in order, by   *)
(* its label, its hint or its family.  The highlight stays in the list.    *)
Spells(q, text) == \E f \in [DOMAIN q -> DOMAIN text] :
                     \A i, j \in DOMAIN q : text[f[i]] = q[i] /\ (i < j => f[i] < f[j])
Means(q, c) == Spells(q, c.label) \/ Spells(q, c.hint) \/ Spells(q, c.family)
PaletteRunsWhatWasTyped ==
  /\ ran # NoRun /\ ~ran.late => Means(ran.text, Commands[ran.command])
  /\ open /\ ~held => \A i \in DOMAIN Commands : Contains(filtered, i) <=> Means(entryText, Commands[i])
  /\ filtered # <<>> => selected < Len(filtered)

(* The palette keeps its types and its promise (the two above).            *)
PaletteHolds == KTypeOK /\ PaletteRunsWhatWasTyped
=============================================================================
