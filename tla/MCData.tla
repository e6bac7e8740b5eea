------------------------------- MODULE MCData -------------------------------
(***************************************************************************)
(* TLC instance of what touches data: a behaviour is of the transactions   *)
(* of a DuckDB connection, of the two trails, of the cache (the gateways   *)
(* share nothing), of one SELECT on its way to a MongoDB pipeline, or of   *)
(* one CSV file on its way to an SQL script.  SELECTs have columns,        *)
(* aliases and aggregates; every table of up to two rows over {1, 2}, one  *)
(* of three rows and one with a null.                                      *)
(***************************************************************************)
EXTENDS DuckTransactions, Gateways, Converters, SequencesExt

VARIABLE subject

CONSTANTS gui, worker
MCThreads == {gui, worker}

Col(c) == [kind |-> "column", col |-> c, as |-> c]
Agg(k, c) == [kind |-> k, col |-> c, as |-> k]
As(c, name) == [Col(c) EXCEPT !.as = name]
ItemLists == {<<Col("a")>>, <<Col("a"), Col("b")>>, <<As("a", "x")>>, <<As("a", "x"), Col("b")>>,
              <<Agg("count", "*")>>, <<Agg("sum", "b"), Agg("max", "a")>>, <<Col("a"), Agg("count", "b")>>,
              <<[Agg("max", "b") EXCEPT !.as = "a"]>>, <<Col("b"), Col("a"), Agg("max", "b")>>, <<Agg("star", "*")>>}
Test(c, op, v) == [col |-> c, op |-> op, value |-> [kind |-> "literal", of |-> v]]
AgainstColumn(c, d) == [col |-> c, op |-> "=", value |-> [kind |-> "column", of |-> d]]
Wheres == {<<>>, <<Test("a", ">", 1)>>, <<Test("a", "=", 1), Test("b", "<>", 2)>>, <<Test("a", "<>", NULL)>>,
           <<Test("a", ">", -1)>>, <<AgainstColumn("a", "b")>>}
By(c, desc) == [col |-> c, desc |-> desc]
Orders == {<<>>, <<By("a", TRUE)>>, <<By("b", FALSE), By("a", FALSE)>>, <<By("count", TRUE)>>}
MCSelects == [items : ItemLists, where : Wheres, group : {<<>>, <<"a">>, <<"b", "a">>}, order : Orders,
              limit : {NULL, 1}, or : {FALSE}, dropped : {{}}]
             \cup [items : {<<Col("a")>>}, where : {<<>>}, group : {<<>>}, order : {<<>>}, limit : {NULL},
                   or : BOOLEAN, dropped : {{}, {"distinct"}}]
Pairs == [a : {1, 2}, b : {1, 2}]
MCTables == BoundedSeq(Pairs, 2) \cup {<<[a |-> 1, b |-> 1], [a |-> 2, b |-> 1], [a |-> 1, b |-> 2]>>,
                                       <<[a |-> NULL, b |-> 1]>>}
Cell(k) == [kind |-> k, of |-> k]
MCFiles == {<<>>} \cup {<<[dated |-> d, cells |-> cs]>> : d \in BOOLEAN,
              cs \in BoundedSeq({Cell(k) : k \in {"int", "float", "null", "bool", "text"}}, 3)}

NoSelect == [items |-> <<>>, where |-> <<>>, group |-> <<>>, order |-> <<>>, limit |-> NULL,
             or |-> FALSE, dropped |-> {}]
DoneConverting == script = <<>> /\ pipeline = <<>> /\ query = NoSelect /\ clause = "done" /\ file = <<>>
Loading == script = <<>> /\ pipeline = <<>> /\ query = NoSelect /\ clause = "done" /\ file \in Files

Alone(servers) == \A s \in servers : up'[s] = up[s] /\ client'[s] = client[s]

MCInit == /\ Init /\ GInit
          /\ \/ subject \in {"transactions", "trails", "cache"} /\ DoneConverting
             \/ subject = "query" /\ CInit /\ file = <<>>
             \/ subject = "file" /\ Loading
MCNext == \/ subject = "transactions" /\ Next /\ UNCHANGED <<gvars, cvars, subject>>
          \/ subject = "trails" /\ GNext /\ Alone({"redis"}) /\ UNCHANGED <<vars, caching, cvars, subject>>
          \/ subject = "cache" /\ GNext /\ Alone(Trails) /\ UNCHANGED <<vars, trails, cvars, subject>>
          \/ subject = "query" /\ ConvertNext /\ UNCHANGED <<vars, gvars, subject>>
          \/ subject = "file" /\ InsertBatch /\ UNCHANGED <<vars, gvars, subject>>
MCSpec == MCInit /\ [][MCNext]_<<vars, gvars, cvars, subject>>
=============================================================================
