------------------------ MODULE Rewrites ------------------------
(***************************************************************************)
(* The SQL rewrites behind "lint --fix", fix_source and the optimised      *)
(* preview (optimizer.py, autofix.py).  sqlglot is external.  A statement  *)
(* is its WHERE clause and the sort of one CTE.  sqlglot prints a tree     *)
(* without the parentheses it does not hold, so what counts is the text: a *)
(* clause is kept as printed, and parsing it again changes nothing.        *)
(*                                                                         *)
(* A condition is its disjuncts in order, each a set of operands that AND  *)
(* joins; nots is the number of NOTs before an operand.  What stands in    *)
(* the parentheses of an operand is a condition of its own: a clause is a  *)
(* sequence of conditions, the first is the clause itself, and an operand  *)
(* names the later one that is its body.                                   *)
(*                                                                         *)
(* SQL's truth values are 2 (true), 1 (unknown) and 0 (false).             *)
(***************************************************************************)
EXTENDS Integers, Sequences, Functions

CONSTANTS
  Repairs,     \* statements to repair
  Tables,      \* contents of the inner table: sets of rows
  OuterRows,   \* rows of the outer table
  NULL,        \* the SQL null
  MaxRounds    \* bound: how often the fixes are applied

VARIABLES original,  \* the statement as the user wrote it
          tree,      \* the statement the passes work on
          applied,   \* rules of the transformations recorded in this round
          pass,      \* the next pass, or "render"
          round      \* rounds begun

rvars == <<original, tree, applied, pass, round>>

-----------------------------------------------------------------------------
(* Operands and conditions.                                                *)
Atom(col) == [nots |-> 0, op |-> "atom", col |-> col]
Year(n) == [nots |-> 0, op |-> "year", n |-> n]
From(n) == [nots |-> 0, op |-> "from", n |-> n]
Before(n) == [nots |-> 0, op |-> "before", n |-> n]
Paren(b) == [nots |-> 0, op |-> "paren", body |-> b]
(* x IN (SELECT c FROM t WHERE body).  simple: the guards on the SELECT    *)
(* hold (one column, no grouping, limit, join ...); qualifier: how x is    *)
(* written, "outer" or "inner" alias before it, or a bare name, "shared"   *)
(* when the inner table has a column of that name too.                     *)
In(b, simple, qualifier) ==
    [nots |-> 0, op |-> "in", body |-> b, simple |-> simple, qualifier |-> qualifier]
Exists(b) == [nots |-> 0, op |-> "exists", body |-> b]
Key(qualifier) == [nots |-> 0, op |-> "key", qualifier |-> qualifier]     \* c = x
Negated(o, n) == [o EXCEPT !.nots = @ + n]

Nothing == <<{}>>                               \* no WHERE clause
Operands(condition) == UNION Range(condition)
HasBody(o) == o.op \in {"paren", "in", "exists"}

(* What the parser makes of a text: what stands in the parentheses of an   *)
(* operand comes after the condition it stands in, and is its own.         *)
Operand == [nots : Nat, op : {"atom"}, col : STRING]
           \cup [nots : Nat, op : {"year", "from", "before"}, n : Int]
           \cup [nots : Nat, op : {"paren", "exists"}, body : Nat]
           \cup [nots : Nat, op : {"in"}, body : Nat, simple : BOOLEAN,
                  qualifier : {"outer", "inner", "shared"}]
Clause == {clause \in Seq(Seq(SUBSET Operand) \ {<<>>}) \ {<<>>} :
             \A b \in DOMAIN clause : \A o \in {p \in Operands(clause[b]) : HasBody(p)} :
               /\ o.body \in (b + 1)..Len(clause)
               /\ \A a \in DOMAIN clause : \A p \in Operands(clause[a]) :
                    HasBody(p) /\ p.body = o.body => a = b /\ p = o}

ASSUME RewritesAssumption ==
    /\ \A s \in Repairs : /\ s = [where |-> s.where, cte |-> s.cte]
                          /\ s.where \in Clause
                          /\ s.cte \in [order : BOOLEAN, limit : BOOLEAN, offset : BOOLEAN]
    /\ \A row \in OuterRows : row.d \in Int \cup {NULL}

-----------------------------------------------------------------------------
(* What a clause means on a row over an inner table.                       *)
Bool(b) == IF b THEN 2 ELSE 0
Equal(a, b) == IF NULL \in {a, b} THEN 1 ELSE IF a = b THEN 2 ELSE 0
Column(col, inner, row) == IF inner # NULL /\ col \in DOMAIN inner THEN inner[col] ELSE row[col]

(* The truth of an operand on a row of the inner table (NULL: outside of   *)
(* a subquery), when value tells that of the conditions.                   *)
Truth(o, inner, row, table, value) ==
    LET Kept == {r \in table : value[o.body][r] = 2}
        Day(held) == IF row.d = NULL THEN 1 ELSE Bool(held)
    IN CASE o.op = "atom" -> Column(o.col, inner, row)
         [] o.op = "year" -> Day(row.d = o.n)
         [] o.op = "from" -> Day(row.d >= o.n)
         [] o.op = "before" -> Day(row.d < o.n)
         [] o.op = "key" -> Equal(inner.c, IF o.qualifier = "shared" THEN inner.c ELSE row.x)
         [] o.op = "paren" -> value[o.body][inner]
         [] o.op = "exists" -> Bool(Kept # {})
         [] o.op = "in" -> IF \E r \in Kept : Equal(row.x, r.c) = 2 THEN 2
                           ELSE IF \E r \in Kept : Equal(row.x, r.c) = 1 THEN 1 ELSE 0
Literal(o, inner, row, table, value) ==
    LET truth == Truth(o, inner, row, table, value) IN IF o.nots % 2 = 0 THEN truth ELSE 2 - truth
Verdict(condition, inner, row, table, value) ==
    IF \E i \in DOMAIN condition : \A o \in condition[i] : Literal(o, inner, row, table, value) = 2 THEN 2
    ELSE IF \A i \in DOMAIN condition : \E o \in condition[i] : Literal(o, inner, row, table, value) = 0 THEN 0
    ELSE 1
Values(clause, row, table) ==
    LET value[b \in DOMAIN clause] == [inner \in table \cup {NULL} |-> Verdict(clause[b], inner, row, table, value)]
    IN value
Value(clause, row, table) == Values(clause, row, table)[1][NULL]

(* The same rows pass the WHERE clause, and a sort that decides which rows *)
(* the CTE has is kept.                                                    *)
SameRows(s, t, tables, rows) ==
    /\ \A table \in tables, row \in rows : Value(s.where, row, table) = 2 <=> Value(t.where, row, table) = 2
    /\ s.cte.limit \/ s.cte.offset => s.cte.order = t.cte.order

-----------------------------------------------------------------------------
(* The passes.                                                             *)
(* Mutant: the range ends where it begins.                                 *)
HalfOpenEmpty(o) == {Negated(From(o.n), o.nots), Before(o.n)}
(* _year_of / _date_eq / _range_predicate; a NOT before the equality comes *)
(* to stand before the first half only.                                    *)
HalfOpen(o) == {Negated(From(o.n), o.nots), Before(o.n + 1)}

(* _pass_datetime_ranges: every equality, subqueries included.             *)
IsYear(o) == o.op = "year"
RangesIn(clause) ==
    [b \in DOMAIN clause |-> [i \in DOMAIN clause[b] |->
        UNION {IF IsYear(o) THEN HalfOpen(o) ELSE {o} : o \in clause[b][i]}]]

(* The guards of _pass_not_in_to_not_exists; only an inner alias before    *)
(* the outer column is taken for a conflict.                               *)
Rewritable(o) == o.op = "in" /\ o.nots > 0 /\ o.simple /\ o.qualifier # "inner"

(* The NOTs were listed before the first replacement: the body of a        *)
(* replaced one is a copy, and a NOT IN within it is replaced in the tree  *)
(* that was thrown away.                                                   *)
Within(clause) ==
    LET within[b \in DOMAIN clause] ==
            \E a \in 1..(b - 1) : \E o \in Operands(clause[a]) :
                HasBody(o) /\ o.body = b /\ (Rewritable(o) \/ within[a])
    IN within
Replaced(clause, b) == {o \in Operands(clause[b]) : Rewritable(o) /\ ~Within(clause)[b]}

(* The correlation is joined to the condition by an AND: where there are   *)
(* disjuncts, to the last.                                                 *)
Correlation(clause, b) ==
    {Key(o.qualifier) : o \in {p \in UNION {Replaced(clause, a) : a \in 1..(b - 1)} : p.body = b}}
NotExistsIn(clause) ==
    [b \in DOMAIN clause |-> [i \in DOMAIN clause[b] |->
        {IF o \in Replaced(clause, b) THEN Negated(Exists(o.body), o.nots) ELSE o : o \in clause[b][i]}
        \cup (IF i = Len(clause[b]) THEN Correlation(clause, b) ELSE {})]]

(* An operand of the clause, at any depth, satisfies Hit.                  *)
Some(Hit(_), clause) == \E b \in DOMAIN clause : \E o \in Operands(clause[b]) : Hit(o)

Record(rule, hit) == applied' = applied \cup (IF hit THEN {rule} ELSE {})

DatetimeRanges ==
    /\ pass = "datetime" /\ pass' = "not in"
    /\ tree' = [tree EXCEPT !.where = RangesIn(@)]
    /\ Record("OPT-SARG-RANGE", Some(IsYear, tree.where))
    /\ UNCHANGED <<original, round>>

NotInToNotExists ==
    /\ pass = "not in" /\ pass' = "cte sort"
    /\ tree' = [tree EXCEPT !.where = NotExistsIn(@)]
    /\ Record("OPT-NOT-IN-EXISTS", Some(Rewritable, tree.where))
    /\ UNCHANGED <<original, round>>

(* _pass_strip_cte_order_by                                                *)
Sorted(s) == s.cte.order /\ ~s.cte.limit

StripCteOrderBy ==
    /\ pass = "cte sort" /\ pass' = "render"
    /\ tree' = [tree EXCEPT !.cte.order = @ /\ ~Sorted(tree)]
    /\ Record("OPT-CTE-SORT-DROP", Sorted(tree))
    /\ UNCHANGED <<original, round>>

(* lint --fix writes the text when anything was applied; the next run of   *)
(* the tool parses the file.                                               *)
Again ==
    /\ pass = "render" /\ applied # {} /\ round < MaxRounds
    /\ applied' = {} /\ pass' = "datetime" /\ round' = round + 1
    /\ UNCHANGED <<original, tree>>

RInit == /\ original \in Repairs
         /\ tree = original
         /\ applied = {} /\ pass = "datetime" /\ round = 1

RNext == DatetimeRanges \/ NotInToNotExists \/ StripCteOrderBy \/ Again

RSpec == RInit /\ [][RNext]_rvars

-----------------------------------------------------------------------------
(* What a statement must be free of for the rewrites to be safe.           *)
NegatedRange(o) == IsYear(o) /\ o.nots > 0
Captured(o) == Rewritable(o) /\ o.qualifier = "shared"
LooseBody(clause) == \E b \in DOMAIN clause : \E o \in Operands(clause[b]) :
                        Rewritable(o) /\ Len(clause[o.body]) > 1
Pitfall(clause) == Some(NegatedRange, clause) \/ Some(Captured, clause) \/ LooseBody(clause)
NestedNotIn(clause) == \E b \in DOMAIN clause : Within(clause)[b] /\ \E o \in Operands(clause[b]) : Rewritable(o)

(***************************************************************************)
(* Without nulls, and without a negated YEAR, a disjunctive subquery, a    *)
(* bare column name the subquery also has or an OFFSET, every pass keeps   *)
(* the rows of the statement, in every round (optimize_expression).        *)
(***************************************************************************)
GuardedRewritesKeepRows ==
    ~Pitfall(original.where) /\ ~original.cte.offset =>
        SameRows(original, tree, {t \in Tables : \A r \in t : r.c # NULL},
                                 {o \in OuterRows : o.x # NULL})

(***************************************************************************)
(* The tool is idempotent (tests/test_optimizer.py:76): once a round has   *)
(* been written to the file the next finds nothing to do, except that each *)
(* further round finds the NOT IN that the round before had copied from    *)
(* within another (optimize_expression, _pass_not_in_to_not_exists).       *)
(***************************************************************************)
SecondRunIsClean ==
    pass = "render" /\ applied # {} /\ ~NestedNotIn(original.where) => round = 1

(* The rewrites keep the rows and come to an end (the two above).          *)
RewritesAreSafe == GuardedRewritesKeepRows /\ SecondRunIsClean

(***************************************************************************)
(* "Every rewrite in this module preserves result semantics"               *)
(* (optimizer.py:5), for every statement and every data.                   *)
(***************************************************************************)
EveryRewriteKeepsRows == SameRows(original, tree, Tables, OuterRows)
=============================================================================
