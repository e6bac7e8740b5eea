------------------------------- MODULE MCLint -------------------------------
(***************************************************************************)
(* TLC instance of what a lint request goes through: a behaviour admits    *)
(* requests (RateLimiter), repairs one statement (Rewrites) or lints one   *)
(* growing script (LintRun).                                               *)
(*                                                                         *)
(* To admit: two pool threads, two keys with limits one and two, a window  *)
(* of two ticks that the clock outlives.                                   *)
(*                                                                         *)
(* To repair: operands are a column, YEAR(d) = n and IN over subqueries    *)
(* with a plain, a disjunctive, a dated or a nested body, negated or not,  *)
(* alone or beside another operand; one or two inner rows, with and        *)
(* without nulls, decide every comparison.  To lint: statements with each  *)
(* kind of node a rule looks at, nested or not, two that do not parse, one *)
(* of them with a quote left open, and two whose "..." names hold a quote  *)
(* and a semicolon.                                                        *)
(***************************************************************************)
EXTENDS Rewrites, LintRun, RateLimiter, FiniteSets

VARIABLE subject

CONSTANTS alice, bob
MCKeys == {alice, bob}
MCLimitOf == [k \in MCKeys |-> IF k = alice THEN 1 ELSE 2]

MCTables == {t \in SUBSET [c : {1, 2, NULL}, a : {0, 2}] : Cardinality(t) <= 2}
MCOuterRows == [x : {1, NULL}, d : {2025, 2026, 2027, NULL}, p : {0, 1, 2}, a : {0}]

Qualifiers == {"outer", "inner", "shared"}
(* Operands with what stands in their parentheses, as conditions 2, 3 ...  *)
Bare == {[o |-> o, bodies |-> <<>>] : o \in {Atom("p"), Year(2026)}}
Either == [o |-> Paren(2), bodies |-> <<<<{Year(2026)}, {Atom("p")}>>>>]
Disjunction == <<{Atom("a")}, {Atom("p")}>>
Plain == {Nothing, <<{Atom("a")}>>}
Bodies == {<<body>> : body \in Plain \cup {Disjunction, <<{Year(2026)}>>}}
          \cup {<<<<{Paren(3)}>>, Disjunction>>}
Simple == {[o |-> In(2, s, q), bodies |-> w] : w \in Bodies, s \in BOOLEAN, q \in Qualifiers}
Nested == {[o |-> In(2, TRUE, q), bodies |-> <<<<{Negated(In(3, TRUE, "outer"), 1)}>>, w>>]
             : w \in Plain, q \in Qualifiers}
Unsigned == Bare \cup {Either} \cup Simple \cup Nested
Signed == Unsigned \cup {[s EXCEPT !.o = Negated(@, 1)] : s \in Unsigned}
(* The same within a parenthesis more.                                     *)
Down(o) == IF HasBody(o) THEN [o EXCEPT !.body = @ + 1] ELSE o
Deeper(bodies) == [b \in DOMAIN bodies |-> [i \in DOMAIN bodies[b] |-> {Down(o) : o \in bodies[b][i]}]]
Wheres == {<<<<{s.o}>>>> \o s.bodies : s \in Signed}
          \cup {<<<<{s.o, Atom("p")}>>>> \o s.bodies : s \in Signed}
          \cup {<<<<{Atom("p")}, {s.o}>>>> \o s.bodies : s \in Signed}
          \cup {<<<<{Negated(Paren(2), 1)}>>, <<{Down(s.o), Year(2026)}>>>> \o Deeper(s.bodies) : s \in Signed}
Ctes == {[order |-> TRUE, limit |-> l, offset |-> o] : l, o \in BOOLEAN}
MCRepairs == {[where |-> w, cte |-> c] : w \in Wheres, c \in Ctes}

Clean == [ok |-> TRUE, text |-> <<>>, lines |-> 1, depth |-> 0, rewritable |-> FALSE, errorLine |-> 1,
          joins |-> <<>>, selects |-> <<>>, comparisons |-> <<>>, nots |-> <<>>, likes |-> <<>>]
Join == [target |-> "table", natural |-> FALSE, on |-> TRUE, using |-> FALSE,
         cross |-> FALSE, cast |-> FALSE, line |-> 1]
Block == [scope |-> "cte", star |-> FALSE, order |-> FALSE, limit |-> FALSE, line |-> 2]

MCSample ==
  {Clean,
   [Clean EXCEPT !.ok = FALSE, !.text = <<"--", "'", "newline">>, !.lines = 2, !.errorLine = 2],
   [Clean EXCEPT !.ok = FALSE, !.text = <<"'">>],
   [Clean EXCEPT !.lines = 2,
                 !.joins = <<[Join EXCEPT !.on = FALSE], [Join EXCEPT !.on = FALSE, !.cross = TRUE],
                             [Join EXCEPT !.on = FALSE, !.target = "lateral"],
                             [Join EXCEPT !.on = FALSE, !.natural = TRUE],
                             [Join EXCEPT !.on = FALSE, !.using = TRUE, !.line = 2]>>],
   [Clean EXCEPT !.text = <<"'", ";", "'", "newline", "/*", "'", ";", "*/">>,
                 !.lines = 3, !.joins = <<[Join EXCEPT !.cast = TRUE]>>, !.depth = 1,
                 !.likes = <<[leading |-> TRUE, line |-> 3], [leading |-> FALSE, line |-> 3]>>],
   [Clean EXCEPT !.text = <<"'">>, !.lines = 2, !.depth = 3, !.rewritable = TRUE,
                 !.comparisons = <<[wrap |-> "year", line |-> 2], [wrap |-> "none", line |-> 2],
                                   [wrap |-> "arithmetic", line |-> 1]>>],
   [Clean EXCEPT !.text = <<";">>, !.lines = 2, !.depth = 2, !.nots = <<[of |-> "in subquery", line |-> 2]>>,
                 !.selects = <<[Block EXCEPT !.order = TRUE], [Block EXCEPT !.star = TRUE],
                               [Block EXCEPT !.scope = "top", !.order = TRUE, !.star = TRUE]>>]}

RIdle == /\ original = [where |-> <<Nothing>>, cte |-> [order |-> FALSE, limit |-> FALSE, offset |-> TRUE]]
         /\ tree = original /\ applied = {} /\ pass = "render" /\ round = 1
LIdle == LInit /\ options = [min |-> Low, failOn |-> Low]

MCInit == /\ Init
          /\ \/ subject = "limiter" /\ RIdle /\ LIdle
             \/ subject = "repair" /\ RInit /\ LIdle
             \/ subject = "script" /\ LInit /\ RIdle
MCNext == \/ subject = "limiter" /\ Next /\ UNCHANGED <<rvars, lvars, subject>>
          \/ subject = "repair" /\ RNext /\ UNCHANGED <<vars, lvars, subject>>
          \/ subject = "script" /\ LNext /\ UNCHANGED <<vars, rvars, subject>>
MCSpec == MCInit /\ [][MCNext]_<<vars, rvars, lvars, subject>>
=============================================================================
