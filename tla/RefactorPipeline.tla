--------------------------- MODULE RefactorPipeline ---------------------------
(***************************************************************************)
(* SQLRefactoringPipeline of ai/mlops.py: a text is looked up in a vector  *)
(* store by similarity, a miss is put to a language model, and an answer   *)
(* that changes the text is stored.  One pipeline, called by one thread;   *)
(* between the steps of a call other processes fill the same store, and    *)
(* servers, keys and SQLEAN_LINT_AI come and go.                           *)
(***************************************************************************)
EXTENDS Integers, FiniteSets

CONSTANTS Sqls, Dialects,
          Near,       \* pairs of different texts above the similarity threshold
          MaxCalls    \* bound: calls of refactor()

ASSUME PipelineAssumption == MaxCalls \in Nat /\ \A p \in Near : p[1] # p[2] /\ <<p[2], p[1]>> \in Near

VARIABLES aiOn, keyed,     \* SQLEAN_LINT_AI = 1; an API key is set
          modelUp, storeUp,
          connected,       \* VectorCache._client is set
          store,           \* point id -> what the answer is of
          call,            \* the call in progress, step by step
          cacheHits, cacheMisses,
          calls,           \* history: calls ended
          blanks,          \* history: lookups that found an empty answer
          billed, excused  \* history: text and dialect -> paid answers; reasons to pay again

refactorVars == <<aiOn, keyed, modelUp, storeUp, connected, store, call, cacheHits, cacheMisses,
                  calls, blanks, billed, excused>>
environment == <<aiOn, keyed, modelUp, storeUp>>
counters == <<cacheHits, cacheMisses, calls, blanks>>

Points == Sqls \X Dialects             \* the id is a hash of both
Outputs == {"rewritten", "same", ""}   \* of the model; sqlglot's formatting is "rewritten" or "same"
Idle == [at |-> "idle"]

IInit == /\ aiOn \in BOOLEAN /\ keyed = TRUE /\ modelUp = TRUE /\ storeUp = TRUE
         /\ connected = FALSE /\ store = <<>> /\ call = Idle
         /\ cacheHits = 0 /\ cacheMisses = 0 /\ calls = 0 /\ blanks = 0
         /\ billed = [p \in Points |-> 0] /\ excused = billed

(* enable(): a client is made when the library and the server answer.      *)
Enable == /\ call = Idle /\ aiOn /\ storeUp /\ connected' = TRUE
          /\ UNCHANGED <<environment, store, call, counters, billed, excused>>

(* query(top_k = 1): the nearest text, in whatever dialect.                *)
Matches(sql) ==
    LET exact == {p \in DOMAIN store : p[1] = sql}
        near == {p \in DOMAIN store : <<p[1], sql>> \in Near}
    IN IF ~connected \/ ~storeUp THEN {} ELSE IF exact # {} THEN exact ELSE near

Begin(sql, dialect) ==
    /\ call = Idle /\ calls < MaxCalls
    /\ call' = [at |-> "lookup", sql |-> sql, dialect |-> dialect]
    /\ UNCHANGED <<environment, connected, store, counters, billed, excused>>

Served(p) == [at |-> "served", sql |-> call.sql, dialect |-> call.dialect, from |-> p]
Hit == /\ call.at = "lookup"
       /\ \E p \in Matches(call.sql) : store[p] # "" /\ call' = Served(p)
       /\ cacheHits' = cacheHits + 1
       /\ UNCHANGED <<environment, connected, store, cacheMisses, calls, blanks, billed, excused>>
(* No match, or one whose answer is empty: that counts as both.            *)
Miss == /\ call.at = "lookup"
        /\ LET found == Matches(call.sql)
               blank == \E p \in found : store[p] = ""
               p == <<call.sql, call.dialect>>
           IN /\ found = {} \/ blank
              /\ cacheHits' = cacheHits + IF blank THEN 1 ELSE 0
              /\ blanks' = blanks + IF blank THEN 1 ELSE 0
              /\ excused' = [excused EXCEPT ![p] = @ + IF blank \/ ~connected \/ ~storeUp THEN 1 ELSE 0]
        /\ cacheMisses' = cacheMisses + 1
        /\ call' = [call EXCEPT !.at = "ask"]
        /\ UNCHANGED <<environment, connected, store, calls, billed>>

Answered(output, paid) ==
    call' = [at |-> "save", sql |-> call.sql, dialect |-> call.dialect, output |-> output, paid |-> paid]
Bill == billed' = [billed EXCEPT ![<<call.sql, call.dialect>>] = @ + 1]
(* refactor_sql: off, asked, or formatted locally when there is no key,    *)
(* the call fails or its answer cannot be read, which is paid all the same.*)
Disabled == /\ call.at = "ask" /\ ~aiOn /\ Answered("same", FALSE)
            /\ UNCHANGED <<environment, connected, store, counters, billed, excused>>
AskModel == /\ call.at = "ask" /\ aiOn /\ keyed /\ modelUp
            /\ \E output \in Outputs : Answered(output, TRUE)
            /\ Bill
            /\ UNCHANGED <<environment, connected, store, counters, excused>>
LocalRefactor == /\ call.at = "ask" /\ aiOn /\ (~keyed \/ ~modelUp)
                 /\ \E output \in {"rewritten", "same"} : Answered(output, FALSE)
                 /\ UNCHANGED <<environment, connected, store, counters, billed, excused>>
AnswerUnread == /\ call.at = "ask" /\ aiOn /\ keyed /\ modelUp
                /\ \E output \in {"rewritten", "same"} : Answered(output, TRUE)
                /\ Bill
                /\ UNCHANGED <<environment, connected, store, counters, excused>>

(* upsert, unless the text is unchanged or AI was switched off meanwhile;  *)
(* a failure is swallowed.                                                 *)
Keeps == call.output # "same" /\ aiOn /\ connected /\ storeUp
(* Mutant: only the answers nobody paid for are kept.                      *)
SaveLocal == /\ call.at = "save"
             /\ LET p == <<call.sql, call.dialect>> IN
                /\ store' = IF Keeps /\ ~call.paid
                            THEN [q \in DOMAIN store \cup {p} |-> IF q = p THEN call.output ELSE store[q]]
                            ELSE store
                /\ excused' = [excused EXCEPT ![p] = @ + IF call.paid /\ ~Keeps THEN 1 ELSE 0]
             /\ call' = [call EXCEPT !.at = "asked"]
             /\ UNCHANGED <<environment, connected, counters, billed>>
Save == /\ call.at = "save"
        /\ LET p == <<call.sql, call.dialect>> IN
           /\ store' = IF Keeps THEN [q \in DOMAIN store \cup {p} |-> IF q = p THEN call.output ELSE store[q]]
                       ELSE store
           /\ excused' = [excused EXCEPT ![p] = @ + IF call.paid /\ ~Keeps THEN 1 ELSE 0]
        /\ call' = [call EXCEPT !.at = "asked"]
        /\ UNCHANGED <<environment, connected, counters, billed>>
Return == /\ call.at \in {"served", "asked"}
          /\ call' = Idle /\ calls' = calls + 1
          /\ UNCHANGED <<environment, connected, store, cacheHits, cacheMisses, blanks, billed, excused>>

(* A second process on the same collection stores an answer.               *)
OtherSaves(p) == /\ storeUp /\ p \notin DOMAIN store
                 /\ store' = [q \in DOMAIN store \cup {p} |-> IF q = p THEN "rewritten" ELSE store[q]]
                 /\ UNCHANGED <<environment, connected, call, counters, billed, excused>>
Changes == /\ \E e \in [{"ai", "key", "model", "store"} -> BOOLEAN] :
                 /\ Cardinality({x \in DOMAIN e : ~e[x]}) <= 1
                 /\ aiOn' = e["ai"] /\ keyed' = e["key"] /\ modelUp' = e["model"] /\ storeUp' = e["store"]
           /\ UNCHANGED <<connected, store, call, counters, billed, excused>>

INext == \/ Enable \/ \E s \in Sqls, d \in Dialects : Begin(s, d)
         \/ Hit \/ Miss \/ Disabled \/ AskModel \/ LocalRefactor \/ AnswerUnread \/ Save \/ Return
         \/ \E p \in Points : OtherSaves(p)
         \/ Changes
ISpec == IInit /\ [][INext]_refactorVars

-----------------------------------------------------------------------------
(* The model is paid once for a text in a dialect, and again only when     *)
(* what came of a paid call was not kept - the model's text or, where its  *)
(* answer could not be read, the local one - or is empty, or could not be  *)
(* looked up; and every lookup ends in exactly one count but for the empty *)
(* answers, so the hit rate is that of the calls (mlops.py:282-566).       *)
PaidOncePerText ==
    /\ \A p \in Points : billed[p] <= 1 + excused[p]
    /\ LET open == IF call.at \in {"idle", "lookup"} THEN 0 ELSE 1
       IN cacheHits + cacheMisses = calls + open + blanks
    /\ call.at = "served" => call.from[1] = call.sql \/ <<call.from[1], call.sql>> \in Near
=============================================================================
