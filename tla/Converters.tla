----------------------------- MODULE Converters -----------------------------
(***************************************************************************)
(* The converters of connectors/polyglot.py as pure functions.             *)
(*  - sql_to_mongodb builds an aggregation pipeline from the clauses of a  *)
(*    SELECT, here one step per clause; the pipeline and the SELECT are    *)
(*    run on small tables and compared.                                    *)
(*  - csv_to_sql infers a type for each column and writes the rows in      *)
(*    batches of INSERTs, here one step per batch.                         *)
(* A row is a function from column names; a value is a number or NULL.     *)
(* The pandas types and MongoDB's stages are external.                     *)
(***************************************************************************)
EXTENDS Integers, Sequences, FiniteSets, FiniteSetsExt, Functions

CONSTANTS Selects,      \* statements to convert
          Fields,       \* columns of the table they are of
          Tables,       \* contents of it to run them on
          Files,        \* CSV files: sequences of columns [dated, cells]
          BatchSize,    \* rows of one INSERT (500)
          NULL, Text    \* Text: a string where a number was meant

VARIABLES query, pipeline, clause,      \* of sql_to_mongodb
          file, script                  \* of csv_to_sql: the rows inserted so far

cvars == <<query, pipeline, clause, file, script>>

-----------------------------------------------------------------------------
(* f, and g where f says nothing.                                         *)
Over(f, g) == [x \in (DOMAIN f) \cup (DOMAIN g) |-> IF x \in DOMAIN f THEN f[x] ELSE g[x]]
(* The elements of F in an order; those of a sequence at the places F.     *)
Ranked(F, before) ==
    [n \in 1..Cardinality(F) |->
        CHOOSE i \in F : Cardinality({j \in F : <<j, i>> \in before}) = n - 1]
Pick(s, F) == LET at == Ranked(F, {p \in F \X F : p[1] < p[2]}) IN [n \in DOMAIN at |-> s[at[n]]]

(* The items of a SELECT: [kind |-> "column", col, as], [kind |-> "count"] *)
(* and other aggregates with a column, and [kind |-> "star"]; `as` names   *)
(* the output, and is the column's name when there is no alias.            *)
Columns(items) == {e \in Range(items) : e.kind = "column"}
(* A star counts as an aggregate, and then as an unsupported one.          *)
Aggregates(items) == {e \in Range(items) : e.kind # "column"}
Aliased(e) == e.as # e.col
Aliases(es) == {e.as : e \in es}
Named(es, n) == CHOOSE e \in es : e.as = n

(* _value_to_json: a condition of the WHERE has a literal or a column on   *)
(* its right, [kind, of].  The parser reads -1 as the negation of 1, which *)
(* is no literal: it becomes the string "-1", and column b the string "$b".*)
JsonValue(o) == IF o.kind = "literal" /\ o.of \in {NULL} \cup Nat THEN o.of ELSE Text
Compared(q) == [i \in DOMAIN q.where |-> [q.where[i] EXCEPT !.value = JsonValue(@)]]
Match(q) == IF q.where = <<>> THEN <<>> ELSE <<[stage |-> "match", all |-> Compared(q)]>>
(* Grouping by one column without an aggregate groups by its name, a       *)
(* constant; the columns of the SELECT beyond the group are not kept.      *)
GroupProject(q) ==
    LET aggs == Aggregates(q.items)
        extra == {e \in Columns(q.items) : e.col \notin Range(q.group)}
        by == IF aggs = {} /\ Len(q.group) = 1 THEN <<>> ELSE q.group
        \* the projection takes the unaliased columns, and is left out when there is none
        plain == {e \in Range(q.items) : ~Aliased(e)}
    IN IF q.group # <<>>
       THEN <<[stage |-> "group", by |-> by, aggs |-> aggs]>>
            \o (IF extra \cup aggs = {} THEN <<>>
                ELSE <<[stage |-> "ungroup", by |-> by, aggs |-> aggs]>>)
       ELSE IF aggs # {} THEN <<[stage |-> "group", by |-> <<>>, aggs |-> aggs]>>
       ELSE IF plain = {} THEN <<>>
       ELSE <<[stage |-> "project", keep |-> {e.col : e \in plain}]>>
(* The stage is a dictionary: a column named twice keeps its first place   *)
(* and its last direction.                                                 *)
SortKeys(order) ==
    LET latest(k) == CHOOSE j \in DOMAIN order :
            order[j].col = order[k].col /\ \A l \in DOMAIN order : order[l].col = order[k].col => l <= j
    IN Pick([k \in DOMAIN order |-> order[latest(k)]],
            {k \in DOMAIN order : \A j \in 1..(k - 1) : order[j].col # order[k].col})
(* Mutant: the order is dropped.                                           *)
SortDropped(q) == <<>>
SortStage(q) == IF q.order = <<>> THEN <<>> ELSE <<[stage |-> "sort", keys |-> SortKeys(q.order)]>>
Limit(q) == IF q.limit = NULL THEN <<>> ELSE <<[stage |-> "limit", n |-> q.limit]>>

(* ValueError: OR in the WHERE, and a star among the items.                *)
Refused(q) == q.or \/ \E i \in DOMAIN q.items : q.items[i].kind = "star"

-----------------------------------------------------------------------------
(* What MongoDB and SQL make of rows (external).                           *)
Get(row, c) == IF c \in DOMAIN row THEN row[c] ELSE NULL
Less(x, y) == IF x = NULL \/ y = NULL THEN x = NULL /\ y # NULL ELSE x < y
(* The first key that tells two rows apart decides.                        *)
Before(r, s, keys) ==
    \E k \in DOMAIN keys :
        /\ \A j \in 1..(k - 1) : Get(r, keys[j].col) = Get(s, keys[j].col)
        /\ IF keys[k].desc THEN Less(Get(s, keys[k].col), Get(r, keys[k].col))
                           ELSE Less(Get(r, keys[k].col), Get(s, keys[k].col))
(* A stable sort, so that the two sides can be compared row by row.        *)
Places(rs, keys) ==
    Ranked(DOMAIN rs, {p \in (DOMAIN rs) \X (DOMAIN rs) :
                          \/ Before(rs[p[1]], rs[p[2]], keys)
                          \/ ~Before(rs[p[2]], rs[p[1]], keys) /\ p[1] < p[2]})
Sorted(rs, keys) == LET at == Places(rs, keys) IN [n \in DOMAIN at |-> rs[at[n]]]
FirstRows(n, rs) == SubSeq(rs, 1, IF n < Len(rs) THEN n ELSE Len(rs))

Cells(rs, c) == LET vs == [i \in DOMAIN rs |-> Get(rs[i], c)] IN Pick(vs, {i \in DOMAIN rs : vs[i] # NULL})
Total(vs) == LET upto[n \in 0..Len(vs)] == IF n = 0 THEN 0 ELSE upto[n - 1] + vs[n] IN upto[Len(vs)]
Aggregate(e, rs, mongo) ==
    CASE e.kind = "count" -> IF mongo \/ e.col = "*" THEN Len(rs) ELSE Len(Cells(rs, e.col))
      [] e.kind = "sum" -> IF Cells(rs, e.col) = <<>> /\ ~mongo THEN NULL ELSE Total(Cells(rs, e.col))
      [] e.kind = "max" -> IF Cells(rs, e.col) = <<>> THEN NULL ELSE Max(Range(Cells(rs, e.col)))
GroupKey(r, by) == [c \in Range(by) |-> Get(r, c)]
Groups(rs, by) ==
    LET firsts == Pick(rs, {i \in DOMAIN rs : \A j \in 1..(i - 1) : GroupKey(rs[j], by) # GroupKey(rs[i], by)})
    IN [n \in DOMAIN firsts |-> Pick(rs, {i \in DOMAIN rs : GroupKey(rs[i], by) = GroupKey(firsts[n], by)})]

ValueOf(o, row) == IF o.kind = "column" THEN Get(row, o.of) ELSE o.of
Holds(c, row, mongo) ==
    LET v == Get(row, c.col)
        w == IF mongo THEN c.value ELSE ValueOf(c.value, row)
    IN CASE c.op = "=" -> v = w /\ (mongo \/ v # NULL)
         [] c.op = "<>" -> v # w /\ (mongo \/ (v # NULL /\ w # NULL))
         [] c.op = ">" -> {v, w} \subseteq Int /\ v > w
Kept(rs, conds, mongo) ==
    Pick(rs, {n \in DOMAIN rs : \A i \in DOMAIN conds : Holds(conds[i], rs[n], mongo)})

Group(s, rs) ==
    LET gs == Groups(rs, s.by)
    IN [i \in DOMAIN gs |-> Over([c \in {"_id"} |-> GroupKey(gs[i][1], s.by)],
                                [n \in Aliases(s.aggs) |-> Aggregate(Named(s.aggs, n), gs[i], TRUE)])]
(* A field that names an aggregate takes the place of one of the group.    *)
Ungroup(s, rs) ==
    [i \in DOMAIN rs |-> Over(Restrict(rs[i], Aliases(s.aggs)), [c \in Range(s.by) |-> rs[i]["_id"][c]])]
Run(s, rs) ==
    CASE s.stage = "match" -> Kept(rs, s.all, TRUE)
      [] s.stage = "project" -> [i \in DOMAIN rs |-> Restrict(rs[i], s.keep \cap DOMAIN rs[i])]
      [] s.stage = "group" -> Group(s, rs)
      [] s.stage = "ungroup" -> Ungroup(s, rs)
      [] s.stage = "sort" -> Sorted(rs, s.keys)
      [] s.stage = "limit" -> FirstRows(s.n, rs)
RunAll(stages, rs) ==
    LET after[n \in 0..Len(stages)] == IF n = 0 THEN rs ELSE Run(stages[n], after[n - 1])
    IN after[Len(stages)]
(* The answer as a client reads it: the columns of the SELECT.             *)
Shown(q, rs) == [i \in DOMAIN rs |-> [n \in Aliases(Range(q.items)) |-> Get(rs[i], n)]]

(* Each row of the answer keeps its source, which ORDER BY may use.        *)
GroupedRows(q, rs) ==
    LET gs == IF q.group = <<>> /\ rs = <<>> THEN <<rs>> ELSE Groups(rs, q.group)
        Item(e, g) == IF e.kind = "column" THEN Get(g[1], e.col) ELSE Aggregate(e, g, FALSE)
    IN [i \in DOMAIN gs |->
          Over([n \in Aliases(Range(q.items)) |-> Item(Named(Range(q.items), n), gs[i])],
               GroupKey(gs[i][1], q.group))]
PlainRows(q, rs) ==
    [i \in DOMAIN rs |-> Over([n \in Aliases(Range(q.items)) |-> rs[i][Named(Range(q.items), n).col]], rs[i])]
SqlAnswer(q, table) ==
    LET rs == Kept(table, q.where, FALSE)
        wide == IF q.group # <<>> \/ Aggregates(q.items) # {} THEN GroupedRows(q, rs) ELSE PlainRows(q, rs)
        sorted == Sorted(wide, q.order)
    IN Shown(q, IF q.limit = NULL THEN sorted ELSE FirstRows(q.limit, sorted))

-----------------------------------------------------------------------------
(* csv_to_sql.  pandas (external) reads a column as integers, as floats,   *)
(* the nulls among integers included, as booleans or as objects.           *)
Kind(v) == v.kind
Kinds(column) == {Kind(column.cells[i]) : i \in DOMAIN column.cells}
Dtype(column) == IF Kinds(column) = {"int"} THEN "int64"
                 ELSE IF Kinds(column) \subseteq {"int", "float", "null"} THEN "float64"
                 ELSE IF Kinds(column) = {"bool"} THEN "bool" ELSE "object"
(* A column is a TIMESTAMP when its name contains date, dt, day ...,       *)
(* whatever it holds.                                                      *)
InferColumnType(column) ==
    IF column.dated THEN "TIMESTAMP"
    ELSE CASE Dtype(column) = "int64" -> "INTEGER"
           [] Dtype(column) = "float64" -> "DOUBLE"
           [] Dtype(column) = "bool" \/ (Dtype(column) = "object" /\ Kinds(column) \ {"null"} = {"bool"}) -> "BOOLEAN"
           [] OTHER -> "TEXT"
(* _sql_literal: what a reader of the literal finds; a text is quoted, and *)
(* so is everything in a TIMESTAMP or TEXT column.                         *)
SqlLiteral(v, type) == IF v.kind = "null" THEN [kind |-> "null", of |-> v.of]
                       ELSE CASE type \in {"INTEGER", "DOUBLE"} -> [kind |-> "number", of |-> v.of]
                            [] type = "BOOLEAN" -> [kind |-> "bool", of |-> v.of]
                            [] OTHER -> [kind |-> "quoted", of |-> v.of]
Height(f) == IF f = <<>> THEN 0 ELSE Len(f[1].cells)
Row(f, i) == [c \in DOMAIN f |-> SqlLiteral(f[c].cells[i], InferColumnType(f[c]))]
Batch(f, done) == SubSeq([i \in 1..Height(f) |-> Row(f, i)], done + 1,
                         IF done + BatchSize < Height(f) THEN done + BatchSize ELSE Height(f))

(* A statement names columns of its table, and a file's are of one length. *)
Values == {NULL} \cup Int
Operands == [kind : {"literal"}, of : Values] \cup [kind : {"column"}, of : Fields]
WellFormed(q) ==
    /\ q.items \in Seq([kind : {"column", "count", "sum", "max", "star"}, col : Fields \cup {"*"}, as : STRING])
    /\ \A e \in Range(q.items) : e.kind \in {"column", "sum", "max"} => e.col \in Fields
    /\ q.where \in Seq([col : Fields, op : {"=", "<>", ">"}, value : Operands])
    /\ q.group \in Seq(Fields)
    /\ q.order \in Seq([col : STRING, desc : BOOLEAN])
    /\ q.limit \in {NULL} \cup Nat
ASSUME ConvertersAssumption ==
    /\ BatchSize \in Nat \ {0} /\ NULL \notin Int /\ Text \notin Values
    /\ Tables \subseteq Seq([Fields -> Values])
    /\ \A q \in Selects : WellFormed(q)
    /\ \A f \in Files : Height(f) \in Nat /\ \A c \in DOMAIN f : DOMAIN f[c].cells = 1..Height(f)

-----------------------------------------------------------------------------
CInit == /\ query \in Selects /\ pipeline = <<>> /\ clause = "where"
         /\ file \in Files /\ script = <<>>
Then(c, stages, next) == /\ clause = c /\ clause' = next
                         /\ pipeline' = pipeline \o stages
                         /\ UNCHANGED <<query, file, script>>
RefuseQuery == /\ clause = "where" /\ Refused(query) /\ clause' = "refused"
           /\ UNCHANGED <<query, pipeline, file, script>>
Convert == \/ ~Refused(query) /\ Then("where", Match(query), "group")
           \/ Then("group", GroupProject(query), "order")
           \/ Then("order", SortStage(query), "limit")
           \/ Then("limit", Limit(query), "done")
InsertBatch == /\ Len(script) < Height(file)
               /\ Batch(file, Len(script)) # <<>>
               /\ script' = script \o Batch(file, Len(script))
               /\ UNCHANGED <<query, pipeline, clause, file>>
ConvertNext == RefuseQuery \/ Convert
CSpec == CInit /\ [][ConvertNext \/ InsertBatch]_cvars

-----------------------------------------------------------------------------
(* A query is converted soundly if its columns have names of their own,    *)
(* it sorts by what it shows and by nothing twice, does not rename a plain *)
(* column, groups only to aggregate, shows nothing but the group and the   *)
(* aggregates and compares with nothing but literals, none of them         *)
(* negative; DISTINCT, HAVING and OFFSET are dropped, and MongoDB refuses  *)
(* a limit of 0.                                                           *)
Sound(q) ==
    /\ q.dropped = {} /\ q.limit # 0
    /\ \A i \in DOMAIN q.where : JsonValue(q.where[i].value) # Text
    /\ \A e, f \in Range(q.items) : e.as = f.as => e = f
    /\ \A e \in Range(q.items) : e.as # "_id"
    /\ \A e \in Columns(q.items) : ~Aliased(e)
    /\ \A i \in DOMAIN q.order : q.order[i].col \in Aliases(Range(q.items))
    /\ \A i, j \in DOMAIN q.order : q.order[i].col = q.order[j].col => i = j
    /\ q.group # <<>> \/ (Aggregates(q.items) # {} /\ Columns(q.items) # {}) =>
         /\ Aggregates(q.items) # {}
         /\ \A e \in Columns(q.items) : e.col \in Range(q.group)
(* ... on a table without NULLs; an aggregate of all rows needs a row.     *)
WithoutNulls(q, table) ==
    /\ \A i \in DOMAIN table : \A c \in Fields : table[i][c] # NULL
    /\ \A i \in DOMAIN q.where : q.where[i].value.of # NULL
    /\ q.group = <<>> /\ Aggregates(q.items) # {} => Kept(table, q.where, FALSE) # <<>>

(* The pipeline of such a query answers what the query answers, row by row *)
(* (polyglot.py:188-355).                                                  *)
PipelineAnswersTheQuery ==
    clause = "done" /\ Sound(query) =>
        \A table \in Tables : WithoutNulls(query, table) =>
            Shown(query, RunAll(pipeline, table)) = SqlAnswer(query, table)

(* The script inserts every row once, in order, and every value under a    *)
(* type that can hold it, unless a column's name looks like a date         *)
(* (polyglot.py:84-183).                                                   *)
ScriptLoadsTheFile ==
    /\ \A i \in DOMAIN script : script[i] = Row(file, i)
    /\ Len(script) < Height(file) => Batch(file, Len(script)) # <<>>
    /\ \A i \in DOMAIN script, c \in DOMAIN file :
         LET v == file[c].cells[i]
         IN ~file[c].dated =>
              script[i][c] = [of |-> v.of, kind |-> CASE v.kind = "null" -> "null"
                                                    [] v.kind \in {"int", "float"} /\ Kinds(file[c]) \subseteq {"int", "float", "null"} -> "number"
                                                    [] v.kind = "bool" /\ Kinds(file[c]) \subseteq {"bool", "null"} -> "bool"
                                                    [] OTHER -> "quoted"]

(* Both converters keep the meaning of what they convert: the query and    *)
(* the file (the two above).                                               *)
ConvertersKeepTheMeaning == PipelineAnswersTheQuery /\ ScriptLoadsTheFile
=============================================================================
