------------------------------- MODULE LintRun -------------------------------
(***************************************************************************)
(* One script through the linter's front ends: engine.lint_source with its *)
(* rules and its cost model, the quality gates of "sqlean-lint lint" and   *)
(* of the GitHub action, and the separate Pro engine behind "sqlean-lint   *)
(* check" (rules/pro.py).                                                  *)
(*                                                                         *)
(* A statement is what the rules see of its syntax tree: its joins,        *)
(* SELECTs, comparisons, NOTs and LIKEs, each with the line of its first   *)
(* token within the statement, whether it parses (sqlglot is external),    *)
(* and, in order, the marks of its text at which the splitter changes its  *)
(* mind.  A script is a sequence of statements, as their author meant      *)
(* them, each with a semicolon and a line end after it.                    *)
(***************************************************************************)
EXTENDS Integers, Sequences, FiniteSetsExt

CONSTANTS Sample,      \* statements scripts are made of
          MaxScript    \* bound: statements in a script

(* A statement's nodes are finitely many and on its own lines.             *)
ASSUME SampleAssumption ==
  \A s \in Sample :
    /\ s.text \in Seq({"'", ";", "--", "/*", "*/", "newline"})
    /\ {s.lines, s.depth, s.errorLine} \subseteq Nat
    /\ \A nodes \in {s.joins, s.selects, s.comparisons, s.nots, s.likes} :
         IsFiniteSet(DOMAIN nodes) /\ \A k \in DOMAIN nodes : nodes[k].line \in 1 .. s.lines

VARIABLES script,   \* the statements of the file
          options,  \* --min-severity and --fail-on, as ranks
          result,   \* LintResult of lint_source
          exits     \* exit code of each front end that ran

lvars == <<script, options, result, exits>>

Low == 1       \* SEVERITY_ORDER
Medium == 2
High == 3
Critical == 4

-----------------------------------------------------------------------------
(* A rule reports each of the nodes it finds bad; the place of the node    *)
(* tells its finding from others on the same line.                         *)
Report(rule, severity, nodes, bad) ==
    {[rule |-> rule, severity |-> severity, line |-> nodes[k].line, node |-> k] : k \in bad}

Predicateless(j) == j.target = "table" /\ ~j.natural /\ ~j.on /\ ~j.using
CartesianJoin(s) ==
    Report("SQL-CART-001", Critical, s.joins,
           {k \in DOMAIN s.joins : LET j == s.joins[k]
                                   IN j.target = "table" /\ ~j.natural /\ (j.cross \/ Predicateless(j))})

Sargable(s) ==
    Report("SQL-SARG-001", High, s.comparisons,
           {k \in DOMAIN s.comparisons :
              s.comparisons[k].wrap \in {"year", "date", "text", "arithmetic"}})

NullInSubquery(s) ==
    Report("SQL-NOTIN-001", High, s.nots, {k \in DOMAIN s.nots : s.nots[k].of = "in subquery"})

UnboundedSort(s) ==
    Report("SQL-SORT-001", High, s.selects,
           {k \in DOMAIN s.selects : LET q == s.selects[k] IN q.order /\ ~q.limit /\ q.scope # "top"})

SelectStar(s) ==
    Report("SQL-STAR-001", Medium, s.selects,
           {k \in DOMAIN s.selects : LET q == s.selects[k] IN q.star /\ q.scope # "top"})

JoinTypeCast(s) ==
    Report("SQL-CAST-001", Medium, s.joins,
           {k \in DOMAIN s.joins : LET j == s.joins[k] IN j.on /\ j.cast})

LeadingWildcard(s) ==
    Report("SQL-LIKE-001", Medium, s.likes, {k \in DOMAIN s.likes : s.likes[k].leading})

(* _lint_ast_node: the default rules of the registry.                      *)
LintNode(s) == UNION {CartesianJoin(s), Sargable(s), NullInSubquery(s), UnboundedSort(s),
                      SelectStar(s), JoinTypeCast(s), LeadingWildcard(s)}

ParserFailure(s) ==
    {[rule |-> "PARSER-001", severity |-> High, line |-> s.errorLine, node |-> 0]}

(* The Pro rules; the date rule looks at the side itself, not within it.   *)
ProRules(s) ==
    UNION {Report("SQL-WILD-001", Medium, s.selects, {k \in DOMAIN s.selects : s.selects[k].star}),
           Report("SQL-CART-001", Critical, s.joins, {k \in DOMAIN s.joins : Predicateless(s.joins[k])}),
           Report("SQL-SARG-001", High, s.comparisons,
                  {k \in DOMAIN s.comparisons : s.comparisons[k].wrap \in {"year", "date"}})}

-----------------------------------------------------------------------------
(* estimate_cost                                                           *)
Count(findings, rule) == Cardinality({f \in findings : f.rule = rule})
Capped(n, first, more, cap) == IF n = 0 THEN 0 ELSE first + more * Min({n - 1, cap})
(* Mutant: the depth of the last tree, not of the deepest.                 *)
LastDepthBonus(trees) ==
    LET last == trees[Len(trees)]
    IN IF trees # <<>> /\ last.depth > 1 THEN Min({5 * (last.depth - 1), 10}) ELSE 0
DepthBonus(trees) ==
    LET depth == Max({0} \cup {trees[i].depth : i \in DOMAIN trees})
    IN IF depth > 1 THEN Min({5 * (depth - 1), 10}) ELSE 0
Risk(findings, trees) ==
    Min({100, Capped(Count(findings, "SQL-CART-001"), 50, 5, 2)
              + Capped(Count(findings, "SQL-SARG-001"), 25, 2, 5)
              + Capped(Count(findings, "SQL-SORT-001"), 20, 5, 2)
              + DepthBonus(trees)})
Band(score) == IF score >= 75 THEN Critical ELSE IF score >= 50 THEN High
               ELSE IF score >= 25 THEN Medium ELSE Low

-----------------------------------------------------------------------------
(* split_statement_offsets knows four modes: the text of a statement, and  *)
(* within a '...' string, a -- comment or a block comment, each named by   *)
(* the mark that opens it.                                                 *)
Ending == [mode \in {"'", "--", "/*"} |->
             CASE mode = "'" -> "'" [] mode = "--" -> "newline" [] mode = "/*" -> "*/"]
Reads(mode, mark) == IF mode = "code" THEN IF mark \in DOMAIN Ending THEN mark ELSE mode
                     ELSE IF mark = Ending[mode] THEN "code" ELSE mode
Modes(text, first) ==
    LET at[k \in 0 .. Len(text)] == IF k = 0 THEN first ELSE Reads(at[k - 1], text[k]) IN at

(* The mode at the end of a statement entered in a mode, and that in which *)
(* the next one is entered.                                                *)
Leaves(s, mode) == Modes(s.text, mode)[Len(s.text)]
Entering(sc) ==
    LET at[i \in 0 .. Len(sc)] ==
          IF i = 0 THEN "code" ELSE Reads(Leaves(sc[i], at[i - 1]), "newline")
    IN at

(* It cuts at every semicolon it does not take for a part of a string or a *)
(* comment: after statement i, or within statement s.                      *)
Cut(sc, i) == i \in {0, Len(sc)} \/ Leaves(sc[i], Entering(sc)[i - 1]) = "code"
CutWithin(s, mode) == \E k \in DOMAIN s.text : s.text[k] = ";" /\ Modes(s.text, mode)[k - 1] = "code"

(* The statements from a cut between two to the next.                      *)
Runs(sc) == {r \in (DOMAIN sc) \X (DOMAIN sc) :
               r[1] <= r[2] /\ Cut(sc, r[1] - 1) /\ Cut(sc, r[2]) /\ \A i \in r[1] .. r[2] - 1 : ~Cut(sc, i)}

(* lint_source.  One parse of the whole buffer gives every line within the *)
(* file; a buffer that does not parse is split and each piece is parsed by *)
(* itself: its lines count from its own start, and no tree is left for the *)
(* cost and the optimiser.  A piece with a statement that does not parse,  *)
(* or with a part of one (which has an open quote), does not parse; the    *)
(* failures of a run cut into several pieces are one here.                 *)
LastLine(sc) ==
    LET last[i \in 0 .. Len(sc)] == IF i = 0 THEN 0 ELSE last[i - 1] + sc[i].lines IN last
InFile(findings, i, above) ==
    {[rule |-> f.rule, severity |-> f.severity, line |-> f.line + above, node |-> <<i, f.node>>] :
       f \in findings}
Parses(sc) == \A i \in DOMAIN sc : sc[i].ok

(* Mutant: lines count from the statement also in a whole parse.           *)
WholeParseUnshifted(sc) == UNION {InFile(LintNode(sc[i]), i, 0) : i \in DOMAIN sc}
WholeParse(sc) == UNION {InFile(LintNode(sc[i]), i, LastLine(sc)[i - 1]) : i \in DOMAIN sc}
Faulty(sc, r) == {i \in r[1] .. r[2] : ~sc[i].ok \/ CutWithin(sc[i], Entering(sc)[i - 1])}
RunParse(sc, r) ==
    LET above(i) == LastLine(sc)[i - 1] - LastLine(sc)[r[1] - 1]
        first == Min(Faulty(sc, r))
    IN IF Faulty(sc, r) = {} THEN UNION {InFile(LintNode(sc[i]), i, above(i)) : i \in r[1] .. r[2]}
       ELSE InFile(ParserFailure(sc[first]), first, above(first))
SplitParse(sc) == UNION {RunParse(sc, r) : r \in Runs(sc)}
Findings(sc) == IF Parses(sc) THEN WholeParse(sc) ELSE SplitParse(sc)
LintSource(sc) ==
    LET found == Findings(sc)
        trees == IF Parses(sc) THEN sc ELSE <<>>
    IN [findings |-> found, risk |-> Risk(found, trees), band |-> Band(Risk(found, trees)),
        optimized |-> \E i \in DOMAIN trees : trees[i].rewritable]

Visible(findings) == {f \in findings : f.severity >= options.min}
Worst(findings) == Max({0} \cup {f.severity : f \in findings})
Gate(findings) == IF Worst(findings) >= options.failOn THEN 1 ELSE 0

Exit(tool, code) ==
    [t \in DOMAIN exits \cup {tool} |-> IF t = tool THEN code ELSE exits[t]]

(* sqlean-lint lint                                                        *)
Lint == /\ "lint" \notin DOMAIN exits
        /\ result' = LintSource(script)
        /\ exits' = Exit("lint", Gate(Visible(Findings(script))))
        /\ UNCHANGED <<script, options>>

(* The action's main(); optimize=False.                                    *)
Action == /\ "action" \notin DOMAIN exits
          /\ exits' = Exit("action", Gate(Visible(LintSource(script).findings)))
          /\ UNCHANGED <<script, options, result>>

(* sqlean-lint check: lint_sql parses one statement, the first; one that   *)
(* does not parse, anywhere in the buffer, leaves the file without         *)
(* findings.                                                               *)
ProFindings(sc) == IF sc # <<>> /\ Parses(sc) THEN ProRules(sc[1]) ELSE {}
Check == /\ "check" \notin DOMAIN exits
         /\ exits' = Exit("check", IF ProFindings(script) # {} THEN 1 ELSE 0)
         /\ UNCHANGED <<script, options, result>>

(* The user adds a statement to the file and runs the tools again.         *)
Edit(s) == /\ Len(script) < MaxScript /\ DOMAIN exits = {"lint", "action", "check"}
           /\ script' = Append(script, s)
           /\ exits' = <<>>
           /\ UNCHANGED <<options, result>>

LInit == /\ script = <<>>
        /\ options \in [min : {Low, High}, failOn : {Low, High, Critical}]
        /\ result = LintSource(<<>>)
        /\ exits = <<>>

LNext == Lint \/ Action \/ Check \/ \E s \in Sample : Edit(s)

LSpec == LInit /\ [][LNext]_lvars

-----------------------------------------------------------------------------
(***************************************************************************)
(* A statement is closed if the splitter ends it where it ends: it cuts    *)
(* nowhere within and is in no string or comment at the end.  '"it's"' and *)
(* '"a;b"' are not, nor is a statement with a quote left open.  What is    *)
(* told of a statement is known if the script parses, or if the statement  *)
(* and all before it are closed.                                           *)
(***************************************************************************)
Closed(s) == Leaves(s, "code") = "code" /\ ~CutWithin(s, "code")
Known(sc) == {i \in DOMAIN sc : Parses(sc) \/ \A j \in 1 .. i : Closed(sc[j])}

(***************************************************************************)
(* The gate fails if a known statement, linted by itself, has a visible    *)
(* finding at or above the threshold: a broken neighbour can hide only     *)
(* what comes after it, and only if it is not closed.  If all are known it *)
(* fails for no other reason, and the command line and the action agree    *)
(* (lint_source, split_statement_offsets, cli.lint, action.main).          *)
(***************************************************************************)
GateIsStatementwise ==
    LET Bad(i) == \E f \in Findings(<<script[i]>>) :
                    f.severity >= options.min /\ f.severity >= options.failOn
    IN \A tool \in DOMAIN exits \ {"check"} :
         /\ (\E i \in Known(script) : Bad(i)) => exits[tool] = 1
         /\ exits[tool] = 1 /\ Known(script) = DOMAIN script => \E i \in DOMAIN script : Bad(i)

(***************************************************************************)
(* Adding a statement never lowers the risk, as long as the script parses  *)
(* (estimate_cost, lint_source).                                           *)
(***************************************************************************)
RiskOnlyGrows == [][Lint /\ Parses(script) => result'.risk >= result.risk]_lvars

(***************************************************************************)
(* A finding points at a line of the statement that has it, when the       *)
(* script parses (node_position, lint_source).                             *)
(***************************************************************************)
FindingsPointAtTheirStatement ==
    Parses(script) =>
      \A i \in DOMAIN script : \A f \in LintNode(script[i]) :
         \E g \in Findings(script) :
            /\ g.rule = f.rule /\ g.node = <<i, f.node>>
            /\ g.line \in LastLine(script)[i - 1] + 1 .. LastLine(script)[i]

(* What the gate and the editor are told of a statement does not depend on *)
(* its neighbours, a neighbour before it that the splitter takes for open  *)
(* apart (the two above).                                                  *)
FindingsAreStatementwise == GateIsStatementwise /\ FindingsPointAtTheirStatement
=============================================================================
