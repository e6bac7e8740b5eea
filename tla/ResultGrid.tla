------------------------------ MODULE ResultGrid ------------------------------
(***************************************************************************)
(* The grids a query result is shown in: DataGrid (ui/data_grid.py), which *)
(* the dashboard uses, and VirtualGrid (ui/virtual_grid.py), exported by   *)
(* the package.  A header click sorts, the scroll bar and the wheel move   *)
(* the first row, a grip drags a width.  A row is a function from columns  *)
(* to values; Null sorts after every value.                                *)
(*                                                                         *)
(* DataGrid's _visible_count is both a method and the field 0 that __init__*)
(* assigns over it: _render_viewport raises when it calls it, after the    *)
(* header and before any row.                                              *)
(***************************************************************************)
EXTENDS Integers, FiniteSets, SequencesExt

CONSTANTS Results,            \* what connectors answer: [columns, rows]
          NoColumn, Null,
          Page,               \* rows a VirtualGrid's window holds
          MaxClicks           \* bound: header clicks, grips, scrolls and loads

ASSUME GridAssumption ==
  /\ MaxClicks \in Nat /\ Page \in Nat /\ Null \in Int
  /\ \A r \in Results : /\ r.columns \in Seq(Range(r.columns)) /\ NoColumn \notin Range(r.columns)
                        /\ r.rows \in Seq([Range(r.columns) -> Int])
                        /\ r.rows # <<>> => r.columns # <<>>

VARIABLES dataGrid,               \* DataGrid
          virtual,            \* VirtualGrid
          copied,             \* the clipboard: [row, seen], the row seen where it was clicked
          clicks

rvars == <<dataGrid, virtual, copied, clicks>>
Nothing == [columns |-> <<>>, rows |-> <<>>]
NoArrow == [column |-> NoColumn, up |-> TRUE]
Even == 2                     \* a width nobody dragged

(* normalize_rows: the columns are those of the first row.                 *)
Normalized(result) == IF result.rows = <<>> THEN Nothing ELSE result
Answers == {Normalized(r) : r \in Results} \cup {Nothing}

(* sort_rows is stable in both directions.                                 *)
Below(v, w) == v # Null /\ (w = Null \/ v < w)
Goes(rows, c, up, i, j) == IF up THEN Below(rows[i][c], rows[j][c]) ELSE Below(rows[j][c], rows[i][c])
InOrderOf(rows, c, up) ==
  {p \in (DOMAIN rows) \X (DOMAIN rows) : \/ Goes(rows, c, up, p[1], p[2])
                                          \/ ~Goes(rows, c, up, p[2], p[1]) /\ p[1] < p[2]}
SortRows(rows, c, up) ==
  LET before == InOrderOf(rows, c, up)
  IN [k \in DOMAIN rows |->
        rows[CHOOSE i \in DOMAIN rows : Cardinality({j \in DOMAIN rows : <<j, i>> \in before}) = k - 1]]

(* A click on the sorted column turns it round, on another sorts by it.    *)
(* Mutant: the rows are sorted the way they were before the click.         *)
ToggledLate(g, c) == LET up == ~(g.by = c /\ g.up)
                     IN [g EXCEPT !.by = c, !.up = up, !.rows = SortRows(@, c, g.up)]
Toggled(g, c) == LET up == ~(g.by = c /\ g.up)
                 IN [g EXCEPT !.by = c, !.up = up, !.rows = SortRows(@, c, up)]

-----------------------------------------------------------------------------
(* DataGrid: arrow and header are what the canvas shows; start is kept for *)
(* the rows it would draw.                                                 *)
Emptied == [columns |-> <<>>, rows |-> <<>>, given |-> Nothing, by |-> NoColumn, up |-> TRUE, start |-> 0,
            widths |-> <<>>, header |-> <<>>, arrow |-> NoArrow, count |-> 0, grip |-> 0]

(* _render_viewport, as far as it gets; widths outlive their columns.      *)
Rendered(g) == [g EXCEPT !.header = g.columns,
                         !.arrow = IF g.columns = <<>> THEN NoArrow ELSE [column |-> g.by, up |-> g.up],
                         !.widths = IF @ = <<>> THEN [i \in DOMAIN g.columns |-> Even] ELSE @]
Labelled(g) == [g EXCEPT !.count = IF g.columns = <<>> THEN 0 ELSE Len(g.rows)]
SetDataset(r) == dataGrid' = Rendered(Labelled([dataGrid EXCEPT !.columns = r.columns, !.rows = r.rows, !.given = r,
                                                       !.by = NoColumn, !.up = TRUE, !.start = 0]))
EmptyGrid == dataGrid' = [dataGrid EXCEPT !.columns = <<>>, !.rows = <<>>, !.given = Nothing, !.start = 0,
                                  !.header = <<>>, !.arrow = NoArrow, !.count = 0]
(* QueryRunner.run answers the rows and no error, or no rows; a result     *)
(* without rows, like an error, clears the dataGrid.                       *)
ShowResult == \E r \in Answers : IF r.rows = <<>> THEN EmptyGrid ELSE SetDataset(r)
HeaderClick == \E i \in DOMAIN dataGrid.header : dataGrid' = Rendered(Toggled(dataGrid, dataGrid.columns[i]))
Resize == dataGrid.columns # <<>> /\ dataGrid' = Rendered(dataGrid)
Between(lo, hi, n) == IF n > hi THEN (IF hi < lo THEN lo ELSE hi) ELSE IF n < lo THEN lo ELSE n
StepWheel(delta) == /\ dataGrid.columns # <<>> /\ Len(dataGrid.rows) > 0
                    /\ dataGrid' = [dataGrid EXCEPT !.start = Between(0, Len(dataGrid.rows), @ + delta)]
OnVscroll == /\ dataGrid.columns # <<>> /\ Len(dataGrid.rows) > 0
             /\ \/ \E to \in 0..Len(dataGrid.rows) : dataGrid' = [dataGrid EXCEPT !.start = to]
                \/ \E units \in {-1, 1} : dataGrid' = [dataGrid EXCEPT !.start = Between(0, Len(dataGrid.rows) - 1, @ + units)]
GrabGrip == \E i \in DOMAIN dataGrid.header : dataGrid' = [dataGrid EXCEPT !.grip = i]
DragGrip == \E width \in {1, 3} : /\ dataGrid.grip \in DOMAIN dataGrid.widths
                                  /\ dataGrid' = Rendered([dataGrid EXCEPT !.widths[dataGrid.grip] = width])
ReleaseGrip == dataGrid.grip # 0 /\ dataGrid' = [dataGrid EXCEPT !.grip = 0]
GridNext == /\ \/ ShowResult \/ EmptyGrid \/ HeaderClick \/ Resize \/ OnVscroll
               \/ GrabGrip \/ DragGrip \/ ReleaseGrip
               \/ \E delta \in {-1, 1} : StepWheel(delta)
            /\ UNCHANGED <<virtual, copied>>

-----------------------------------------------------------------------------
(* VirtualGrid: drawn is the window of rows on the canvas.                 *)
Unfilled == [columns |-> <<>>, rows |-> <<>>, given |-> Nothing, by |-> NoColumn, up |-> TRUE, first |-> 0,
          drawn |-> <<>>, arrow |-> NoArrow, count |-> 0, loaded |-> FALSE, status |-> "", timers |-> 0]
Drawn(v) == [v EXCEPT !.drawn = IF v.columns = <<>> THEN <<>>
                                ELSE SubSeq(v.rows, (IF v.first = 0 THEN 0 ELSE v.first - 1) + 1,
                                            Between(0, Len(v.rows), v.first + Page + 2)),
                      !.arrow = IF v.columns = <<>> THEN NoArrow ELSE [column |-> v.by, up |-> v.up]]
(* load keeps the column and the direction of the sort before.             *)
Load(r) == virtual' = Drawn([virtual EXCEPT !.columns = r.columns, !.rows = r.rows, !.given = r,
                                            !.first = 0, !.count = Len(r.rows), !.loaded = TRUE])
ClearVirtual == virtual' = [virtual EXCEPT !.columns = <<>>, !.rows = <<>>, !.given = Nothing, !.first = 0,
                                           !.drawn = <<>>, !.arrow = NoArrow, !.count = 0, !.status = ""]
Raised(v, text) == [v EXCEPT !.status = text, !.timers = @ + 1]
ToggleSort == \E i \in DOMAIN virtual.columns :
                virtual' = Drawn(Raised([Toggled(virtual, virtual.columns[i]) EXCEPT !.loaded = FALSE], "sorting"))
(* The canvas moves, by the bar or the wheel, and the window is redrawn.   *)
Scroll == \E to \in 0..Len(virtual.rows) : virtual' = Drawn([virtual EXCEPT !.first = to])
(* Every message is wiped by the timer of any message before it.           *)
Wipe == virtual.timers > 0 /\ virtual' = [virtual EXCEPT !.timers = @ - 1, !.status = ""]
(* A double click: the handler holds the row's number, not the row.        *)
CopyRow == \E k \in DOMAIN virtual.drawn :
             LET row == (IF virtual.first = 0 THEN 0 ELSE virtual.first - 1) + k
             IN /\ row \in DOMAIN virtual.rows
                /\ copied' = [row |-> virtual.rows[row], seen |-> virtual.drawn[k]]
                /\ virtual' = Raised(virtual, "copied")
VirtualNext == /\ \/ CopyRow
                  \/ (\E r \in Answers : Load(r)) /\ UNCHANGED copied
                  \/ (ClearVirtual \/ ToggleSort \/ Scroll \/ Wipe) /\ UNCHANGED copied
               /\ UNCHANGED dataGrid

RInit == dataGrid = Emptied /\ virtual = Unfilled /\ copied = [row |-> NoColumn, seen |-> NoColumn] /\ clicks = 0
RNext == clicks < MaxClicks /\ clicks' = clicks + 1 /\ (GridNext \/ VirtualNext)
RSpec == RInit /\ [][RNext]_rvars

(* While a header shows an arrow, the rows are in the order it tells, with *)
(* NULLs last upward, and they are the rows of the result, none twice and  *)
(* none missing; the label counts them and the copied row is the one seen. *)
(* VirtualGrid keeps the arrow over a new result: see the README.          *)
Sorted(rows, arrow) == \A i, j \in DOMAIN rows : i < j =>
  ~(IF arrow.up THEN Below(rows[j][arrow.column], rows[i][arrow.column])
                ELSE Below(rows[i][arrow.column], rows[j][arrow.column]))
Times(rows, row) == Cardinality({k \in DOMAIN rows : rows[k] = row})
SameRows(rows, given) == Len(rows) = Len(given.rows)
                     /\ \A i \in DOMAIN given.rows : Times(rows, given.rows[i]) = Times(given.rows, given.rows[i])
ArrowsTellTheOrder ==
  /\ dataGrid.arrow.column # NoColumn => Sorted(dataGrid.rows, dataGrid.arrow)
  /\ virtual.arrow.column # NoColumn /\ ~virtual.loaded => Sorted(virtual.drawn, virtual.arrow)
  /\ SameRows(dataGrid.rows, dataGrid.given) /\ SameRows(virtual.rows, virtual.given)
  /\ dataGrid.count = Len(dataGrid.rows) /\ virtual.count = Len(virtual.rows) /\ copied.row = copied.seen
=============================================================================
