---------------------------- MODULE Services_proofs ----------------------------
(***************************************************************************)
(* Proofs about what works beside the linter: the refactoring pipeline,    *)
(* the observability hooks, the Web Studio, the feature flags with their   *)
(* analytics, and what leaves for the cloud and for support.  Each part    *)
(* has its own inductive invariant.                                        *)
(***************************************************************************)
EXTENDS RefactorPipeline, Observability, WebStudio, Experiments, Outbound,
        FiniteSetTheorems, TLAPS

-----------------------------------------------------------------------------
(***************************************************************************)
(* Proofs about RefactorPipeline: the model is paid once for a text in a   *)
(* dialect, up to the excuses, and the hit rate is that of the calls, for  *)
(* every set of texts, dialects and near misses.                           *)
(*                                                                         *)
(* PaidOncePerText is not inductive: it must be known that a text that was *)
(* paid for without an excuse is in the store or about to be put there,    *)
(* and that a call that asks for a text of the store has an excuse.        *)
(***************************************************************************)
USE PipelineAssumption

Calls ==
  {Idle} \cup [at : {"lookup", "ask"}, sql : Sqls, dialect : Dialects]
         \cup [at : {"served"}, sql : Sqls, dialect : Dialects, from : Points]
         \cup [at : {"save", "asked"}, sql : Sqls, dialect : Dialects,
               output : Outputs, paid : BOOLEAN]

PipelineTypes ==
  /\ call \in Calls
  /\ {cacheHits, cacheMisses, calls, blanks} \subseteq Nat
  /\ billed \in [Points -> Nat] /\ excused \in [Points -> Nat]
  /\ DOMAIN store \subseteq Points

OpenCalls == IF call.at \in {"idle", "lookup"} THEN 0 ELSE 1
CountInv == cacheHits + cacheMisses = calls + OpenCalls + blanks
ServedInv == call.at = "served" => call.from[1] = call.sql \/ <<call.from[1], call.sql>> \in Near

\* The model is about to be asked for p; its answer for p is still to be kept.
Asking(p) == call.at = "ask" /\ p = <<call.sql, call.dialect>>
Keeping(p) == call.at = "save" /\ call.paid /\ p = <<call.sql, call.dialect>>

\* The one payment that needs no excuse.
Allowed(p) == IF Keeping(p) \/ (p \in DOMAIN store /\ ~Asking(p)) THEN 1 ELSE 0
PaidInv == \A p \in Points : billed[p] <= excused[p] + Allowed(p)

PipelineInv == PipelineTypes /\ CountInv /\ ServedInv /\ PaidInv

-----------------------------------------------------------------------------
(***************************************************************************)
(* What the states of a call have in common.                               *)
(***************************************************************************)
LEMMA CallFacts ==
  ASSUME call \in Calls
  PROVE  /\ call.at \in {"idle", "lookup", "ask", "served", "save", "asked"}
         /\ call.at # "idle" => /\ call.sql \in Sqls /\ call.dialect \in Dialects
                                /\ <<call.sql, call.dialect>> \in Points
         /\ call.at \in {"lookup", "ask"} =>
              call \in [at : {"lookup", "ask"}, sql : Sqls, dialect : Dialects]
         /\ call.at \in {"save", "asked"} =>
              call \in [at : {"save", "asked"}, sql : Sqls, dialect : Dialects,
                        output : Outputs, paid : BOOLEAN]
<1> HIDE DEF Outputs
<1>1. CASE call = Idle
  BY <1>1 DEF Idle
<1>2. CASE call \in [at : {"lookup", "ask"}, sql : Sqls, dialect : Dialects]
  BY <1>2 DEF Points
<1>3. CASE call \in [at : {"served"}, sql : Sqls, dialect : Dialects, from : Points]
  BY <1>3 DEF Points
<1>4. CASE call \in [at : {"save", "asked"}, sql : Sqls, dialect : Dialects,
                     output : Outputs, paid : BOOLEAN]
  BY <1>4 DEF Points
<1> QED
  BY <1>1, <1>2, <1>3, <1>4 DEF Calls

LEMMA IdleFacts == Idle \in Calls /\ Idle.at = "idle"
BY DEF Calls, Idle

\* Nothing is owed when no account of p changes and what is allowed does not
\* shrink.
LEMMA PaidKept ==
  ASSUME PipelineTypes, PaidInv, UNCHANGED <<billed, excused>>,
         \A p \in Points : Allowed(p)' >= Allowed(p)
  PROVE  PaidInv'
<1>1. \A p \in Points : /\ billed[p] \in Nat /\ excused[p] \in Nat
                        /\ Allowed(p) \in {0, 1} /\ Allowed(p)' \in {0, 1}
  BY DEF PipelineTypes, Allowed
<1> QED
  BY <1>1 DEF PaidInv

-----------------------------------------------------------------------------
LEMMA PipelineInit == IInit => PipelineInv
<1> SUFFICES ASSUME IInit PROVE PipelineInv
  OBVIOUS
<1>1. call.at = "idle" /\ PipelineTypes
  BY IdleFacts DEF IInit, PipelineTypes
<1>2. CountInv /\ ServedInv
  BY <1>1 DEF IInit, CountInv, OpenCalls, ServedInv
<1>3. PaidInv
  BY <1>1 DEF IInit, PaidInv, Allowed, Asking, Keeping
<1> QED
  BY <1>1, <1>2, <1>3 DEF PipelineInv

(***************************************************************************)
(* Steps of the environment, and those that begin and end a call.          *)
(***************************************************************************)
LEMMA EnvironmentStep ==
  ASSUME PipelineInv, Enable \/ Changes \/ \E p \in Points : OtherSaves(p)
  PROVE  PipelineInv'
<1>1. UNCHANGED <<call, counters, billed, excused>>
  BY DEF Enable, Changes, OtherSaves
<1>2. DOMAIN store \subseteq DOMAIN store' /\ DOMAIN store' \subseteq DOMAIN store \cup Points
  BY DEF Enable, Changes, OtherSaves
<1>3. PipelineTypes' /\ CountInv' /\ ServedInv'
  BY <1>1, <1>2 DEF PipelineInv, counters, PipelineTypes, CountInv, OpenCalls, ServedInv
<1>4. \A p \in Points : Allowed(p)' >= Allowed(p)
  BY <1>1, <1>2 DEF Allowed, Asking, Keeping
<1> QED
  BY <1>1, <1>3, <1>4, PaidKept DEF PipelineInv

LEMMA BeginStep ==
  ASSUME PipelineInv, NEW s \in Sqls, NEW d \in Dialects, Begin(s, d)
  PROVE  PipelineInv'
<1>1. /\ call.at = "idle" /\ UNCHANGED <<store, counters, billed, excused>>
      /\ call' = [at |-> "lookup", sql |-> s, dialect |-> d]
  BY IdleFacts DEF Begin
<1>2. call'.at = "lookup" /\ call' \in Calls
  BY <1>1 DEF Calls
<1>3. PipelineTypes'
  BY <1>1, <1>2 DEF PipelineInv, counters, PipelineTypes
<1>4. CountInv' /\ ServedInv'
  BY <1>1, <1>2 DEF PipelineInv, counters, CountInv, OpenCalls, ServedInv
<1>5. \A p \in Points : Allowed(p)' >= Allowed(p)
  BY <1>1, <1>2 DEF Allowed, Asking, Keeping
<1> QED
  BY <1>1, <1>3, <1>4, <1>5, PaidKept DEF PipelineInv

LEMMA ReturnStep == ASSUME PipelineInv, Return PROVE PipelineInv'
<1>1. /\ call.at \in {"served", "asked"} /\ call' = Idle /\ calls' = calls + 1
      /\ UNCHANGED <<store, cacheHits, cacheMisses, blanks, billed, excused>>
  BY DEF Return
<1>2. call'.at = "idle" /\ PipelineTypes'
  BY <1>1, IdleFacts DEF PipelineInv, PipelineTypes
<1>3. CountInv' /\ ServedInv'
  BY <1>1, <1>2 DEF PipelineInv, PipelineTypes, CountInv, OpenCalls, ServedInv
<1>4. \A p \in Points : Allowed(p)' >= Allowed(p)
  BY <1>1, <1>2 DEF Allowed, Asking, Keeping
<1> QED
  BY <1>1, <1>2, <1>3, <1>4, PaidKept DEF PipelineInv

-----------------------------------------------------------------------------
(***************************************************************************)
(* The lookup.                                                             *)
(***************************************************************************)
LEMMA HitStep == ASSUME PipelineInv, Hit PROVE PipelineInv'
<1> DEFINE sql == call.sql
           dialect == call.dialect
<1>1. /\ call.at = "lookup" /\ cacheHits' = cacheHits + 1
      /\ UNCHANGED <<store, cacheMisses, calls, blanks, billed, excused>>
  BY DEF Hit
<1>2. sql \in Sqls /\ dialect \in Dialects
  BY <1>1, CallFacts DEF PipelineInv, PipelineTypes
<1>3. PICK from \in Matches(sql) : call' = Served(from)
  BY DEF Hit
<1>4. from \in Points /\ (from[1] = sql \/ <<from[1], sql>> \in Near)
  BY DEF Matches, PipelineInv, PipelineTypes
<1>5. call' = [at |-> "served", sql |-> sql, dialect |-> dialect, from |-> from]
  BY <1>3 DEF Served
<1> HIDE DEF sql, dialect
<1>6. /\ call'.at = "served" /\ call'.sql = sql /\ call'.from = from
      /\ call' \in Calls
  BY <1>2, <1>4, <1>5 DEF Calls
<1>7. PipelineTypes'
  BY <1>1, <1>6 DEF PipelineInv, PipelineTypes
<1>8. CountInv' /\ ServedInv'
  BY <1>1, <1>4, <1>6 DEF PipelineInv, PipelineTypes, CountInv, OpenCalls, ServedInv
<1>9. \A p \in Points : Allowed(p)' >= Allowed(p)
  BY <1>1, <1>6 DEF Allowed, Asking, Keeping
<1> QED
  BY <1>1, <1>7, <1>8, <1>9, PaidKept DEF PipelineInv

\* A text of the store that is not found there is an excuse.
LEMMA MissedFact ==
  ASSUME PipelineInv, Miss, <<call.sql, call.dialect>> \in DOMAIN store
  PROVE  (\E p \in Matches(call.sql) : store[p] = "") \/ ~connected \/ ~storeUp
<1>1. SUFFICES ASSUME connected, storeUp
               PROVE  \E p \in Matches(call.sql) : store[p] = ""
  OBVIOUS
<1>2. <<call.sql, call.dialect>> \in Matches(call.sql)
  BY <1>1 DEF Matches
<1> QED
  BY <1>2 DEF Miss

LEMMA MissStep == ASSUME PipelineInv, Miss PROVE PipelineInv'
<1> DEFINE t == <<call.sql, call.dialect>>
           blank == \E p \in Matches(call.sql) : store[p] = ""
           one == IF blank THEN 1 ELSE 0
           more == IF blank \/ ~connected \/ ~storeUp THEN 1 ELSE 0
<1>1. /\ call.at = "lookup" /\ cacheMisses' = cacheMisses + 1
      /\ call' = [call EXCEPT !.at = "ask"]
      /\ UNCHANGED <<store, calls, billed>>
  BY DEF Miss
<1>2. /\ cacheHits' = cacheHits + one /\ blanks' = blanks + one
      /\ excused' = [excused EXCEPT ![t] = excused[t] + more]
  BY DEF Miss
<1>3. t \in Points /\ one \in {0, 1} /\ more \in {0, 1}
  BY <1>1, CallFacts DEF PipelineInv, PipelineTypes
<1>4. t \in DOMAIN store => more = 1
  BY MissedFact
<1>5. /\ call'.at = "ask" /\ call'.sql = call.sql /\ call'.dialect = call.dialect
      /\ call' \in Calls
  <2>1. call \in [at : {"lookup", "ask"}, sql : Sqls, dialect : Dialects]
    BY <1>1, CallFacts DEF PipelineInv, PipelineTypes
  <2> QED
    BY <1>1, <2>1 DEF Calls
<1>6. \A p \in Points : /\ Asking(p)' <=> p = t
                        /\ ~Keeping(p)' /\ ~Keeping(p) /\ ~Asking(p)
  BY <1>1, <1>5 DEF Asking, Keeping
<1> HIDE DEF t, one, more
<1>7. PipelineTypes'
  BY <1>1, <1>2, <1>3, <1>5 DEF PipelineInv, PipelineTypes
<1>8. CountInv' /\ ServedInv'
  BY <1>1, <1>2, <1>3, <1>5 DEF PipelineInv, PipelineTypes, CountInv, OpenCalls, ServedInv
<1>9. ASSUME NEW p \in Points PROVE billed'[p] <= excused'[p] + Allowed(p)'
  <2>1. billed[p] <= excused[p] + Allowed(p) /\ billed[p] \in Nat /\ excused[p] \in Nat
    BY DEF PipelineInv, PaidInv, PipelineTypes
  <2>2. CASE p = t
    <3>1. excused'[p] = excused[p] + more /\ billed'[p] = billed[p]
      BY <1>1, <1>2, <1>3, <2>2 DEF PipelineInv, PipelineTypes
    <3>2. Allowed(p) = (IF p \in DOMAIN store THEN 1 ELSE 0) /\ Allowed(p)' = 0
      BY <1>6, <2>2 DEF Allowed
    <3> QED
      BY <1>3, <1>4, <2>1, <2>2, <3>1, <3>2
  <2>3. CASE p # t
    <3>1. excused'[p] = excused[p] /\ billed'[p] = billed[p]
      BY <1>1, <1>2, <1>3, <2>3 DEF PipelineInv, PipelineTypes
    <3>2. Allowed(p)' = Allowed(p)
      BY <1>1, <1>6, <2>3 DEF Allowed
    <3> QED
      BY <2>1, <3>1, <3>2
  <2> QED
    BY <2>2, <2>3
<1> QED
  BY <1>7, <1>8, <1>9 DEF PipelineInv, PaidInv

-----------------------------------------------------------------------------
(***************************************************************************)
(* The question, and the answer that is kept or excused.                   *)
(***************************************************************************)
LEMMA AnsweredFacts ==
  ASSUME PipelineInv, call.at = "ask", NEW o \in Outputs, NEW e \in BOOLEAN, Answered(o, e)
  PROVE  /\ call'.at = "save" /\ call'.sql = call.sql /\ call'.dialect = call.dialect
         /\ call'.paid = e /\ call' \in Calls
<1>1. call.sql \in Sqls /\ call.dialect \in Dialects
  BY CallFacts DEF PipelineInv, PipelineTypes
<1> HIDE DEF Outputs
<1> DEFINE sql == call.sql
           dialect == call.dialect
<1>2. call' = [at |-> "save", sql |-> sql, dialect |-> dialect, output |-> o, paid |-> e]
  BY DEF Answered
<1> HIDE DEF sql, dialect
<1>3. /\ call'.at = "save" /\ call'.sql = sql /\ call'.dialect = dialect
      /\ call'.paid = e
  BY <1>2
<1>4. call' \in Calls
  BY <1>1, <1>2 DEF Calls, sql, dialect
<1> QED
  BY <1>3, <1>4 DEF sql, dialect

LEMMA LocalStep == ASSUME PipelineInv, Disabled \/ LocalRefactor PROVE PipelineInv'
<1>1. PICK o \in Outputs : Answered(o, FALSE)
  BY DEF Disabled, LocalRefactor, Outputs
<1>2. call.at = "ask" /\ UNCHANGED <<store, counters, billed, excused>>
  BY DEF Disabled, LocalRefactor
<1>3. /\ call'.at = "save" /\ call' \in Calls
  BY <1>1, <1>2, AnsweredFacts
<1>4. PipelineTypes' /\ CountInv' /\ ServedInv'
  BY <1>2, <1>3 DEF PipelineInv, counters, PipelineTypes, CountInv, OpenCalls, ServedInv
<1>5. \A p \in Points : Allowed(p)' >= Allowed(p)
  BY <1>2, <1>3 DEF Allowed, Asking, Keeping
<1> QED
  BY <1>2, <1>4, <1>5, PaidKept DEF PipelineInv

LEMMA AskStep == ASSUME PipelineInv, AskModel \/ AnswerUnread PROVE PipelineInv'
<1> DEFINE t == <<call.sql, call.dialect>>
<1>1. /\ call.at = "ask" /\ UNCHANGED <<store, counters, excused>>
      /\ billed' = [billed EXCEPT ![t] = billed[t] + 1]
  BY DEF AskModel, AnswerUnread, Bill
<1>2. PICK o \in Outputs : Answered(o, TRUE)
  BY DEF AskModel, AnswerUnread, Outputs
<1>3. /\ call'.at = "save" /\ call'.sql = call.sql /\ call'.dialect = call.dialect
      /\ call'.paid = TRUE /\ call' \in Calls
  BY <1>1, <1>2, AnsweredFacts
<1>4. t \in Points
  BY <1>1, CallFacts DEF PipelineInv, PipelineTypes
<1>5. \A p \in Points : /\ Asking(p) <=> p = t
                        /\ Keeping(p)' <=> p = t
                        /\ ~Asking(p)' /\ ~Keeping(p)
  BY <1>1, <1>3 DEF Asking, Keeping
<1> HIDE DEF t
<1>6. PipelineTypes'
  BY <1>1, <1>3, <1>4 DEF PipelineInv, counters, PipelineTypes
<1>7. CountInv' /\ ServedInv'
  BY <1>1, <1>3 DEF PipelineInv, counters, CountInv, OpenCalls, ServedInv
<1>8. ASSUME NEW p \in Points PROVE billed'[p] <= excused'[p] + Allowed(p)'
  <2>1. billed[p] <= excused[p] + Allowed(p) /\ billed[p] \in Nat /\ excused[p] \in Nat
    BY DEF PipelineInv, PaidInv, PipelineTypes
  <2>2. CASE p = t
    <3>1. billed'[p] = billed[p] + 1 /\ excused'[p] = excused[p]
      BY <1>1, <1>4, <2>2 DEF PipelineInv, PipelineTypes
    <3>2. Allowed(p) = 0 /\ Allowed(p)' = 1
      BY <1>5, <2>2 DEF Allowed
    <3> QED
      BY <2>1, <3>1, <3>2
  <2>3. CASE p # t
    <3>1. billed'[p] = billed[p] /\ excused'[p] = excused[p]
      BY <1>1, <1>4, <2>3 DEF PipelineInv, PipelineTypes
    <3>2. Allowed(p)' = Allowed(p)
      BY <1>1, <1>5, <2>3 DEF Allowed
    <3> QED
      BY <2>1, <3>1, <3>2
  <2> QED
    BY <2>2, <2>3
<1> QED
  BY <1>6, <1>7, <1>8 DEF PipelineInv, PaidInv

LEMMA SaveStep == ASSUME PipelineInv, Save PROVE PipelineInv'
<1> DEFINE t == <<call.sql, call.dialect>>
           paid == call.paid
           more == IF paid /\ ~Keeps THEN 1 ELSE 0
<1>1. /\ call.at = "save" /\ call' = [call EXCEPT !.at = "asked"]
      /\ UNCHANGED <<counters, billed>>
      /\ excused' = [excused EXCEPT ![t] = excused[t] + more]
  BY DEF Save
<1>2. t \in Points /\ more \in {0, 1}
  BY <1>1, CallFacts DEF PipelineInv, PipelineTypes
<1>3. DOMAIN store' = IF Keeps THEN DOMAIN store \cup {t} ELSE DOMAIN store
  <2>1. CASE Keeps
    BY <2>1 DEF Save
  <2>2. CASE ~Keeps
    BY <2>2 DEF Save
  <2> QED
    BY <2>1, <2>2
<1>4. call'.at = "asked" /\ call' \in Calls
  <2>1. call \in [at : {"save", "asked"}, sql : Sqls, dialect : Dialects,
                  output : Outputs, paid : BOOLEAN]
    BY <1>1, CallFacts DEF PipelineInv, PipelineTypes
  <2> HIDE DEF Outputs
  <2> QED
    BY <1>1, <2>1 DEF Calls
<1>5. \A p \in Points : /\ Keeping(p) <=> paid /\ p = t
                        /\ ~Keeping(p)' /\ ~Asking(p) /\ ~Asking(p)'
  BY <1>1, <1>4 DEF Asking, Keeping
<1>6. paid /\ ~Keeps => more = 1
  OBVIOUS
<1> HIDE DEF t, paid, more
<1>7. PipelineTypes'
  BY <1>1, <1>2, <1>3, <1>4 DEF PipelineInv, counters, PipelineTypes
<1>8. CountInv' /\ ServedInv'
  BY <1>1, <1>4 DEF PipelineInv, counters, CountInv, OpenCalls, ServedInv
<1>9. ASSUME NEW p \in Points PROVE billed'[p] <= excused'[p] + Allowed(p)'
  <2>1. billed[p] <= excused[p] + Allowed(p) /\ billed[p] \in Nat /\ excused[p] \in Nat
    BY DEF PipelineInv, PaidInv, PipelineTypes
  <2>2. billed'[p] = billed[p] /\ excused'[p] = excused[p] + (IF p = t THEN more ELSE 0)
    BY <1>1, <1>2 DEF PipelineInv, PipelineTypes
  <2>3. Allowed(p) = (IF (paid /\ p = t) \/ p \in DOMAIN store THEN 1 ELSE 0)
    BY <1>5 DEF Allowed
  <2>4. Allowed(p)' = (IF p \in DOMAIN store' THEN 1 ELSE 0)
    BY <1>5 DEF Allowed
  <2>5. p \in DOMAIN store => p \in DOMAIN store'
    BY <1>3
  <2>6. CASE p = t /\ paid
    <3>1. more = 1 \/ p \in DOMAIN store'
      BY <1>3, <1>6, <2>6
    <3> QED
      BY <1>2, <2>1, <2>2, <2>3, <2>4, <2>6, <3>1
  <2>7. CASE ~(p = t /\ paid)
    BY <1>2, <2>1, <2>2, <2>3, <2>4, <2>5, <2>7
  <2> QED
    BY <2>6, <2>7
<1> QED
  BY <1>7, <1>8, <1>9 DEF PipelineInv, PaidInv

-----------------------------------------------------------------------------
LEMMA PipelineStep == PipelineInv /\ [INext]_refactorVars => PipelineInv'
<1> SUFFICES ASSUME PipelineInv, [INext]_refactorVars PROVE PipelineInv'
  OBVIOUS
<1>1. CASE UNCHANGED refactorVars
  <2>1. UNCHANGED <<call, store, counters, billed, excused>>
    BY <1>1 DEF refactorVars, counters
  <2>2. PipelineTypes' /\ CountInv' /\ ServedInv'
    BY <2>1 DEF PipelineInv, counters, PipelineTypes, CountInv, OpenCalls, ServedInv
  <2>3. \A p \in Points : Allowed(p)' >= Allowed(p)
    BY <2>1 DEF Allowed, Asking, Keeping
  <2> QED
    BY <2>1, <2>2, <2>3, PaidKept DEF PipelineInv
<1>2. CASE INext
  BY <1>2, EnvironmentStep, BeginStep, HitStep, MissStep, LocalStep, AskStep, SaveStep, ReturnStep
     DEF INext
<1> QED
  BY <1>1, <1>2

\* The strengthening holds in every reachable state (ai/mlops.py).
THEOREM PipelineStrengthened == ISpec => []PipelineInv
BY PipelineInit, PipelineStep, PTL DEF ISpec

\* A text is paid for once in a dialect, up to the excuses, and every lookup is
\* counted (mlops.py:497-566).
THEOREM ATextIsPaidOnce == ISpec => []PaidOncePerText
<1>1. ASSUME PipelineInv PROVE PaidOncePerText
  <2>1. ASSUME NEW p \in Points PROVE billed[p] <= 1 + excused[p]
    BY <1>1 DEF PipelineInv, PaidInv, PipelineTypes, Allowed
  <2> QED
    BY <1>1, <2>1 DEF PipelineInv, CountInv, OpenCalls, ServedInv, PaidOncePerText
<1> QED
  BY <1>1, PipelineStrengthened, PTL

-----------------------------------------------------------------------------
(***************************************************************************)
(* Proofs about Observability: the SDK is built once and a failed request  *)
(* alerts through every interceptor it met, for every number of threads,   *)
(* setups and requests.                                                    *)
(*                                                                         *)
(* The strengthening says what the calls of init_otel on a thread's stack  *)
(* can be: none, one that waits, one that builds, or one that builds and   *)
(* has, in logging that it failed, called init_otel again.                 *)
(***************************************************************************)
USE ObservabilityAssumption

Waiting == <<"waiting">>
Building == <<"building">>
Again == Append(Building, "waiting")
Stacks == {<<>>, Waiting, Building, Again}

HookRequests == [kind : {"ok", "500", "503", "raised"}, at : {"count", "alert"},
             left : Nat, due : Nat, alerts : Nat]

\* Only the holder of the lock builds, and it calls init_otel again only to log
\* that the SDK failed to a handler that is attached.
LockInv ==
  /\ frames \in [Workers -> Stacks]
  /\ \A w \in Workers :
       /\ frames[w] \in {Building, Again} => initializing = w /\ ~initialized
       /\ frames[w] = Again => sdk = "fails" /\ interceptors > 0

\* The meter is set with the flag, once.
MeterInv ==
  /\ initialized \in BOOLEAN /\ interceptors \in Nat
  /\ IF initialized THEN meter /\ built = 1 ELSE built = 0

\* A failed request has alerted as often as it has left interceptors.
TaskInv ==
  /\ task \in [Workers -> {Free, [kind |-> "setup"]} \cup HookRequests]
  /\ \A w \in Workers : task[w].kind \in {"500", "raised"}
                          => task[w].alerts + task[w].left = task[w].due

HooksInv == LockInv /\ MeterInv /\ TaskInv

-----------------------------------------------------------------------------
(***************************************************************************)
(* The stacks.                                                             *)
(***************************************************************************)
LEMMA StackFacts ==
  /\ Len(<<>>) = 0 /\ Len(Waiting) = 1 /\ Len(Building) = 1 /\ Len(Again) = 2
  /\ Waiting[1] = "waiting" /\ Building[1] = "building" /\ Again[2] = "waiting"
  /\ Append(<<>>, "waiting") = Waiting
  /\ Append(Building, "waiting") = Again
  /\ SubSeq(Waiting, 1, 0) = <<>> /\ SubSeq(Building, 1, 0) = <<>>
  /\ [Waiting EXCEPT ![1] = "building"] = Building
  /\ Waiting # <<>> /\ Building # <<>> /\ Again # <<>>
  /\ Waiting # Building /\ Waiting # Again /\ Building # Again
<1> USE DEF Waiting, Building, Again
<1>1. Len(<<>>) = 0 /\ Len(Waiting) = 1 /\ Len(Building) = 1 /\ Len(Again) = 2
  OBVIOUS
<1>2. Waiting[1] = "waiting" /\ Building[1] = "building" /\ Again[2] = "waiting"
  OBVIOUS
<1>3. Append(<<>>, "waiting") = Waiting
  OBVIOUS
<1>4. Append(Building, "waiting") = Again
  OBVIOUS
<1>5. SubSeq(Waiting, 1, 0) = <<>> /\ SubSeq(Building, 1, 0) = <<>>
  OBVIOUS
<1>6. [Waiting EXCEPT ![1] = "building"] = Building
  OBVIOUS
<1>7. Waiting # <<>> /\ Building # <<>> /\ Again # <<>>
  OBVIOUS
<1>8. Waiting # Building /\ Waiting # Again /\ Building # Again
  OBVIOUS
<1> QED
  BY <1>1, <1>2, <1>3, <1>4, <1>5, <1>6, <1>7, <1>8

\* A thread that waits or builds has only that call on its stack, or is stuck
\* behind itself.
LEMMA TopFacts ==
  ASSUME LockInv, NEW w \in Workers, ~Ready(w)
  PROVE  /\ Top(w) = "waiting" => frames[w] \in {Waiting, Again}
         /\ Top(w) = "building" => frames[w] = Building
BY StackFacts DEF LockInv, Ready, Top, Stacks

-----------------------------------------------------------------------------
LEMMA HooksInit == OInit => HooksInv
<1> SUFFICES ASSUME OInit PROVE HooksInv
  OBVIOUS
<1>1. LockInv
  BY StackFacts DEF OInit, LockInv, Stacks
<1>2. MeterInv
  BY DEF OInit, MeterInv
<1>3. TaskInv
  BY DEF OInit, TaskInv, Free
<1> QED
  BY <1>1, <1>2, <1>3 DEF HooksInv

(***************************************************************************)
(* The steps of init_otel.                                                 *)
(***************************************************************************)
LEMMA TakeLockStep == ASSUME HooksInv, NEW w \in Workers, TakeLock(w) PROVE HooksInv'
<1>1. MeterInv' /\ TaskInv'
  BY DEF TakeLock, HooksInv, MeterInv, TaskInv
<1>2. frames[w] = Waiting
  BY TopFacts DEF TakeLock, HooksInv, LockInv
<1>3. \A v \in Workers : frames[v] \notin {Building, Again}
  BY DEF TakeLock, HooksInv, LockInv
<1>4. CASE initialized
  <2>1. frames' = [frames EXCEPT ![w] = <<>>] /\ initializing' = initializing
    BY <1>2, <1>4, StackFacts DEF TakeLock, Pop
  <2> QED
    BY <1>1, <1>3, <2>1, StackFacts DEF TakeLock, HooksInv, LockInv, Stacks
<1>5. CASE ~initialized
  <2>1. frames' = [frames EXCEPT ![w] = Building] /\ initializing' = w
    BY <1>2, <1>5, StackFacts DEF TakeLock
  <2> QED
    BY <1>1, <1>3, <1>5, <2>1, StackFacts DEF TakeLock, HooksInv, LockInv, Stacks
<1> QED
  BY <1>4, <1>5

LEMMA BuildStep == ASSUME HooksInv, NEW w \in Workers, Build(w) PROVE HooksInv'
<1>1. frames[w] = Building /\ ~initialized
  BY TopFacts DEF Build, HooksInv, LockInv
<1>2. frames' = [frames EXCEPT ![w] = <<>>]
  <2>1. Len(frames[w]) - 1 = 0
    BY <1>1, StackFacts
  <2>2. SubSeq(frames[w], 1, Len(frames[w]) - 1) = <<>>
    BY <1>1, <2>1, StackFacts
  <2> QED
    BY <2>2 DEF Build, Pop
<1>3. \A v \in Workers \ {w} : frames[v] \notin {Building, Again}
  BY <1>1 DEF HooksInv, LockInv
<1>4. LockInv'
  <2>1. frames' \in [Workers -> Stacks] /\ frames'[w] = <<>>
    BY <1>2 DEF HooksInv, LockInv, Stacks
  <2>2. \A v \in Workers \ {w} : frames'[v] = frames[v]
    BY <1>2 DEF HooksInv, LockInv
  <2>3. \A v \in Workers : frames'[v] \notin {Building, Again}
    BY <1>3, <2>1, <2>2, StackFacts
  <2> QED
    BY <2>1, <2>3 DEF LockInv
<1>5. MeterInv' /\ TaskInv'
  BY <1>1 DEF Build, HooksInv, MeterInv, TaskInv
<1> QED
  BY <1>4, <1>5 DEF HooksInv

LEMMA BuildFailsStep == ASSUME HooksInv, NEW w \in Workers, BuildFails(w) PROVE HooksInv'
<1>1. MeterInv' /\ TaskInv'
  BY DEF BuildFails, HooksInv, MeterInv, TaskInv
<1>2. frames[w] = Building /\ ~initialized /\ initializing = w
  BY TopFacts DEF BuildFails, HooksInv, LockInv
<1>3. \A v \in Workers \ {w} : frames[v] \notin {Building, Again}
  BY <1>2 DEF HooksInv, LockInv
<1>4. CASE interceptors > 0
  <2>1. frames' = [frames EXCEPT ![w] = Again] /\ initializing' = initializing
    BY <1>2, <1>4, StackFacts DEF BuildFails, Push
  <2> QED
    BY <1>1, <1>2, <1>3, <1>4, <2>1, StackFacts DEF BuildFails, HooksInv, LockInv, Stacks
<1>5. CASE ~(interceptors > 0)
  <2>1. frames' = [frames EXCEPT ![w] = <<>>]
    BY <1>2, <1>5, StackFacts DEF BuildFails, Pop
  <2> QED
    BY <1>1, <1>3, <2>1, StackFacts DEF BuildFails, HooksInv, LockInv, Stacks
<1> QED
  BY <1>4, <1>5

-----------------------------------------------------------------------------
(***************************************************************************)
(* The steps of the threads that come to it.                               *)
(***************************************************************************)
\* A thread with no call in progress may make one, whatever its task becomes.
LEMMA CallKeeps ==
  ASSUME HooksInv, NEW w \in Workers, Ready(w), UNCHANGED sdkVars, TaskInv',
         interceptors' \in Nat, interceptors' >= interceptors,
         UNCHANGED frames \/ Push(w)
  PROVE  HooksInv'
<1>1. frames' = frames \/ frames' = [frames EXCEPT ![w] = Waiting]
  BY StackFacts DEF Ready, Push
<1>2. LockInv'
  BY <1>1, StackFacts DEF HooksInv, LockInv, MeterInv, sdkVars, Stacks
<1> QED
  BY <1>2 DEF HooksInv, MeterInv, sdkVars

\* What a thread goes on to keeps the account of alerts.
LEMMA GoesKeeps ==
  ASSUME TaskInv, NEW w \in Workers, NEW t \in {Free, [kind |-> "setup"]} \cup HookRequests,
         t.kind \in {"500", "raised"} => t.alerts + t.left = t.due,
         Goes(w, t)
  PROVE  TaskInv'
<1>1. task' \in [Workers -> {Free, [kind |-> "setup"]} \cup HookRequests]
  BY DEF TaskInv, Goes
<1>2. \A v \in Workers : task'[v] = IF v = w THEN t ELSE task[v]
  BY DEF TaskInv, Goes
<1> QED
  BY <1>1, <1>2 DEF TaskInv

\* A request is one of the records that count.
LEMMA InRequestFacts ==
  ASSUME TaskInv, NEW w \in Workers, InRequest(w)
  PROVE  task[w] \in HookRequests
BY DEF TaskInv, InRequest, Free

LEMMA FreeKeeps ==
  ASSUME TaskInv, NEW w \in Workers, Goes(w, Free)
  PROVE  TaskInv'
BY GoesKeeps DEF Free

LEMMA ThreadStep ==
  ASSUME HooksInv, NEW w \in Workers,
         \/ Setup(w) \/ Attach(w) \/ Measure(w) \/ Respond(w)
         \/ \E o \in {"ok", "500", "503", "raised"} : Request(w, o)
  PROVE  HooksInv'
<1>1. CASE Setup(w)
  <2>1. TaskInv'
    BY <1>1, GoesKeeps DEF Setup, HooksInv
  <2> QED
    BY <1>1, <2>1, CallKeeps DEF Setup, Meter, HooksInv, MeterInv
<1>2. CASE Attach(w)
  <2>1. TaskInv'
    BY <1>2, FreeKeeps DEF Attach, HooksInv
  <2> QED
    BY <1>2, <2>1, CallKeeps DEF Attach, HooksInv, MeterInv
<1>3. CASE Measure(w)
  <2>1. TaskInv'
    BY <1>3 DEF Measure, HooksInv, TaskInv
  <2> QED
    BY <1>3, <2>1, CallKeeps DEF Measure, HooksInv, MeterInv
<1>4. CASE Respond(w)
  <2>1. TaskInv'
    BY <1>4, FreeKeeps DEF Respond, HooksInv
  <2> QED
    BY <1>4, <2>1, CallKeeps DEF Respond, InRequest, HooksInv, MeterInv
<1>5. ASSUME NEW o \in {"ok", "500", "503", "raised"}, Request(w, o) PROVE HooksInv'
  <2> DEFINE t == [kind |-> o, at |-> "count", left |-> interceptors,
                   due |-> interceptors, alerts |-> 0]
  <2>1. t \in HookRequests /\ t.alerts + t.left = t.due
    BY DEF HooksInv, MeterInv, HookRequests
  <2>2. Goes(w, t)
    BY <1>5 DEF Request
  <2>3. TaskInv'
    <3> HIDE DEF t
    <3> QED
      BY <2>1, <2>2, GoesKeeps DEF HooksInv
  <2> QED
    BY <1>5, <2>3, CallKeeps DEF Request, HooksInv, MeterInv
<1> QED
  BY <1>1, <1>2, <1>3, <1>4, <1>5

LEMMA CountErrorStep == ASSUME HooksInv, NEW w \in Workers, CountError(w) PROVE HooksInv'
<1> DEFINE t == [task[w] EXCEPT !.at = "alert"]
<1>1. task[w] \in HookRequests
  BY InRequestFacts DEF CountError, HooksInv
<1>2. /\ t \in HookRequests /\ t.kind = task[w].kind /\ t.alerts = task[w].alerts
      /\ t.left = task[w].left /\ t.due = task[w].due
  BY <1>1 DEF HookRequests
<1>3. t.kind \in {"500", "raised"} => t.alerts + t.left = t.due
  BY <1>2 DEF HooksInv, TaskInv
<1>4. Goes(w, t)
  BY DEF CountError
<1>5. TaskInv'
  <2> HIDE DEF t
  <2> QED
    BY <1>2, <1>3, <1>4, GoesKeeps DEF HooksInv
<1> QED
  BY <1>5, CallKeeps DEF CountError, InRequest, Meter, HooksInv, MeterInv

LEMMA AlertStep == ASSUME HooksInv, NEW w \in Workers, Alert(w) PROVE HooksInv'
<1> DEFINE more == IF task[w].kind \in {"500", "raised"} THEN task[w].alerts + 1
                   ELSE task[w].alerts
           t == [task[w] EXCEPT !.at = "count", !.left = task[w].left - 1, !.alerts = more]
<1>1. task[w] \in HookRequests /\ task[w].left > 0
  BY InRequestFacts DEF Alert, HooksInv
<1>2. more \in Nat /\ task[w].left - 1 \in Nat
  BY <1>1 DEF HookRequests
<1>3. /\ t \in HookRequests /\ t.kind = task[w].kind /\ t.alerts = more
      /\ t.left = task[w].left - 1 /\ t.due = task[w].due
  <2> HIDE DEF more
  <2> QED
    BY <1>1, <1>2 DEF HookRequests
<1>4. t.kind \in {"500", "raised"} => t.alerts + t.left = t.due
  <2>1. task[w].kind \in {"500", "raised"} => task[w].alerts + task[w].left = task[w].due
    BY DEF HooksInv, TaskInv
  <2>2. task[w].alerts \in Nat /\ task[w].left \in Nat /\ task[w].due \in Nat
    BY <1>1 DEF HookRequests
  <2>3. task[w].kind \in {"500", "raised"} => more = task[w].alerts + 1
    OBVIOUS
  <2> HIDE DEF t, more
  <2> QED
    BY <1>3, <2>1, <2>2, <2>3
<1>5. Goes(w, t)
  BY DEF Alert
<1>6. TaskInv'
  <2> HIDE DEF t
  <2> QED
    BY <1>3, <1>4, <1>5, GoesKeeps DEF HooksInv
<1> QED
  BY <1>6, CallKeeps DEF Alert, InRequest, HooksInv, MeterInv

-----------------------------------------------------------------------------
LEMMA HooksStep == HooksInv /\ [ONext]_ovars => HooksInv'
<1> SUFFICES ASSUME HooksInv, [ONext]_ovars PROVE HooksInv'
  OBVIOUS
<1>1. CASE UNCHANGED ovars
  BY <1>1 DEF ovars, HooksInv, LockInv, MeterInv, TaskInv
<1>2. CASE ONext
  BY <1>2, TakeLockStep, BuildStep, BuildFailsStep, ThreadStep, CountErrorStep, AlertStep
     DEF ONext, Serve
<1> QED
  BY <1>1, <1>2

\* The strengthening holds in every reachable state (observability.py).
THEOREM ObservabilityStrengthened == OSpec => []HooksInv
BY HooksInit, HooksStep, PTL DEF OSpec

\* The SDK is built once, a thread waits for the lock it holds only behind its
\* own warning, and a failed request leaves with all its alerts
\* (observability.py:70-131, 300-343, 469-492).
THEOREM TheSdkIsBuiltOnce == OSpec => []BuiltOnce
<1>1. ASSUME HooksInv PROVE BuiltOnce
  <2>1. built <= 1 /\ (initialized => meter)
    BY <1>1 DEF HooksInv, MeterInv
  <2>2. ASSUME NEW w \in Workers, Len(frames[w]) > 1
        PROVE  initializing = w /\ sdk = "fails" /\ interceptors > 0
    BY <1>1, <2>2, StackFacts DEF HooksInv, LockInv, Stacks
  <2>3. ASSUME NEW w \in Workers, task[w].kind \in {"500", "raised"}, task[w].left = 0
        PROVE  task[w].alerts = task[w].due
    BY <1>1, <2>3, InRequestFacts DEF HooksInv, TaskInv, HookRequests, Free
  <2> QED
    BY <2>1, <2>2, <2>3 DEF BuiltOnce
<1> QED
  BY <1>1, ObservabilityStrengthened, PTL

-----------------------------------------------------------------------------
(***************************************************************************)
(* Proofs about WebStudio: the page keeps its types and its panes tell one *)
(* story, for every set of texts, every rewriting and any number of        *)
(* requests in flight.                                                     *)
(*                                                                         *)
(* PageHolds is not inductive: that the findings shown are of a lint in    *)
(* the history table needs that an answered lint, still on its way to the  *)
(* page, is in the table.                                                  *)
(***************************************************************************)
USE WebAssumption

PageRequests == [id : Nat, kind : {"lint", "optimize", "fix", "transpile"}, sql : Scripts,
             answer : {"none", "adding", "ok", "error"}]

\* The server adds the texts of lints alone, and has added what it answered.
RequestsInv ==
  /\ requests \subseteq PageRequests
  /\ \A r \in requests : /\ r.answer = "adding" => Linter(r)
                         /\ r.answer = "ok" /\ Linter(r) => r.sql \in rows

PageInv == WTypeOK /\ RequestsInv /\ PanesTellOneStory

-----------------------------------------------------------------------------
(***************************************************************************)
(* The initial states, and the steps of the user.                          *)
(***************************************************************************)
LEMMA PageInit == WInit => PageInv
<1> SUFFICES ASSUME WInit PROVE PageInv
  OBVIOUS
<1>1. WTypeOK
  <2>1. panes \in [Panes -> Scripts \cup {Blank}]
    BY DEF WInit, Empty
  <2>2. editor \in Scripts
    BY DEF WInit
  <2>3. requests = {} /\ rows = {} /\ sentCount = 0
    BY DEF WInit
  <2>4. lintButton \in BOOLEAN /\ locked \in BOOLEAN /\ mixed \in BOOLEAN
    BY DEF WInit
  <2> QED
    BY <2>1, <2>2, <2>3, <2>4 DEF WTypeOK
<1>2. RequestsInv
  BY DEF WInit, RequestsInv
<1>3. PanesTellOneStory
  BY DEF WInit, PanesTellOneStory, Empty, Panes, Rewritten
<1> QED
  BY <1>1, <1>2, <1>3 DEF PageInv

\* A request is sent with the editor's text; nothing is drawn.
LEMMA SendKeeps ==
  ASSUME PageInv, NEW k \in {"lint", "optimize", "fix", "transpile"}, Send(k), editor # Blank
  PROVE  /\ RequestsInv' \/ rows' # rows
         /\ sentCount' \in 0..MaxSends
         /\ \A r \in requests' : r.sql \in Scripts
<1> DEFINE new == [id |-> sentCount, kind |-> k, sql |-> editor, answer |-> "none"]
<1>1. new \in PageRequests
  BY DEF PageInv, WTypeOK, PageRequests
<1>2. requests' = requests \cup {new}
  BY DEF Send
<1>3. sentCount' \in 0..MaxSends
  BY DEF Send, PageInv, WTypeOK
<1>4. requests' \subseteq PageRequests
  BY <1>1, <1>2 DEF PageInv, RequestsInv
<1>5. rows' = rows => RequestsInv'
  BY <1>2, <1>4 DEF PageInv, RequestsInv, Linter
<1> QED
  BY <1>3, <1>4, <1>5 DEF PageRequests

LEMMA UserStep ==
  ASSUME PageInv, RunLint \/ OptimizeQuery \/ ApplyFix \/ TranspileQuery
  PROVE  PageInv'
<1>1. /\ panes' = panes /\ editor' = editor /\ mixed' = mixed
      /\ rows' = rows /\ locked' = locked
  BY DEF RunLint, OptimizeQuery, ApplyFix, TranspileQuery, drawn
<1>2. lintButton' \in BOOLEAN
  BY DEF RunLint, OptimizeQuery, ApplyFix, TranspileQuery, PageInv, WTypeOK
<1>3. \/ requests' = requests /\ sentCount' = sentCount
      \/ editor # Blank /\ \E k \in {"lint", "optimize", "fix", "transpile"} : Send(k)
  BY DEF RunLint, OptimizeQuery, ApplyFix, TranspileQuery, Tells
<1>4. PanesTellOneStory'
  BY <1>1 DEF PageInv, PanesTellOneStory, Rewritten
<1>5. CASE requests' = requests /\ sentCount' = sentCount
  BY <1>1, <1>2, <1>4, <1>5 DEF PageInv, WTypeOK, RequestsInv, Linter
<1>6. CASE editor # Blank /\ \E k \in {"lint", "optimize", "fix", "transpile"} : Send(k)
  <2>1. /\ RequestsInv' /\ sentCount' \in 0..MaxSends
        /\ \A r \in requests' : r.sql \in Scripts
    BY <1>1, <1>6, SendKeeps
  <2> QED
    BY <1>1, <1>2, <1>4, <2>1 DEF PageInv, WTypeOK
<1> QED
  BY <1>3, <1>5, <1>6

LEMMA ClearStep == ASSUME PageInv, ClearAll PROVE PageInv'
<1>1. PanesTellOneStory'
  BY DEF ClearAll, PanesTellOneStory, Empty, Panes, Rewritten
<1>2. WTypeOK'
  BY DEF ClearAll, PageInv, WTypeOK, Empty
<1> QED
  BY <1>1, <1>2 DEF ClearAll, PageInv, RequestsInv, Linter

LEMMA TypeStep == ASSUME PageInv, TypeSql PROVE PageInv'
<1>1. PanesTellOneStory'
  BY DEF TypeSql, PageInv, PanesTellOneStory, Rewritten
<1> QED
  BY <1>1 DEF TypeSql, PageInv, WTypeOK, RequestsInv, Linter

-----------------------------------------------------------------------------
(***************************************************************************)
(* The steps of the server: a text is in the table before its lint is      *)
(* answered, and no text ever leaves the table.                            *)
(***************************************************************************)
LEMMA ServerStep == ASSUME PageInv, NEW r \in requests, Server(r) PROVE PageInv'
<1>1. /\ UNCHANGED page /\ sentCount' = sentCount /\ locked' \in BOOLEAN
  BY DEF Server, AddBegins, AddEnds, Handle, PageInv, WTypeOK
<1>2. rows \subseteq rows' /\ rows' \subseteq Scripts
  BY DEF Server, AddBegins, AddEnds, Handle, PageInv, WTypeOK
<1>3. PICK a \in {"adding", "ok", "error"} :
        /\ Reply(r, a)
        /\ a = "adding" => Linter(r)
        /\ a = "ok" /\ Linter(r) => r.sql \in rows'
  BY DEF Server, AddBegins, AddEnds, Handle
<1> DEFINE answered == [r EXCEPT !.answer = a]
<1>4. r \in PageRequests /\ answered \in PageRequests
  BY DEF PageInv, RequestsInv, PageRequests
<1>5. /\ answered.kind = r.kind /\ answered.sql = r.sql /\ answered.answer = a
  BY <1>4 DEF PageRequests
<1>6. requests' \subseteq requests \cup {answered}
  BY <1>3 DEF Reply
<1>7. RequestsInv'
  <2>1. requests' \subseteq PageRequests
    BY <1>4, <1>6 DEF PageInv, RequestsInv
  <2>2. ASSUME NEW q \in requests', q.answer = "adding" PROVE Linter(q)
    BY <1>3, <1>5, <1>6, <2>2 DEF PageInv, RequestsInv, Linter
  <2>3. ASSUME NEW q \in requests', q.answer = "ok", Linter(q) PROVE q.sql \in rows'
    BY <1>2, <1>3, <1>5, <1>6, <2>3 DEF PageInv, RequestsInv, Linter
  <2> QED
    BY <2>1, <2>2, <2>3 DEF RequestsInv, Linter
<1>8. PanesTellOneStory'
  BY <1>1, <1>2 DEF page, PageInv, PanesTellOneStory, Rewritten
<1>9. WTypeOK'
  BY <1>1, <1>2, <1>7 DEF page, PageInv, WTypeOK, RequestsInv, PageRequests
<1> QED
  BY <1>7, <1>8, <1>9 DEF PageInv

-----------------------------------------------------------------------------
(***************************************************************************)
(* The steps of the page: each draws one answer and forgets its request.   *)
(***************************************************************************)
LEMMA TakeKeeps ==
  ASSUME PageInv, NEW r \in requests, Takes(r)
  PROVE  /\ RequestsInv' /\ r.sql \in Scripts /\ rows' = rows
         /\ locked' \in BOOLEAN /\ rows' \subseteq Scripts /\ sentCount' \in 0..MaxSends
         /\ \A q \in requests' : q.sql \in Scripts
BY DEF Takes, PageInv, RequestsInv, PageRequests, WTypeOK, Linter

\* An answered lint is drawn in all panes but the transpiled one.
LEMMA LintDrawn ==
  ASSUME PageInv, NEW r \in requests, Linter(r), r.answer = "ok", DrawLint(r), rows' = rows
  PROVE  /\ panes' \in [Panes -> Scripts \cup {Blank}] /\ mixed' \in BOOLEAN
         /\ PanesTellOneStory'
<1>1. r.sql \in Scripts /\ r.sql \in rows /\ r.sql # Blank
  BY DEF PageInv, RequestsInv, PageRequests
<1>2. Rewritten(r.sql) \in Scripts \cup {Blank}
  BY <1>1 DEF Rewritten
<1>3. panes' = [p \in Panes |-> CASE p = "optimized" -> Rewritten(r.sql)
                                  [] p = "transpiled" -> panes[p] [] OTHER -> r.sql]
  BY DEF DrawLint, LintPanes
<1>4. ASSUME NEW p \in Panes
      PROVE  panes'[p] = IF p = "optimized" THEN Rewritten(r.sql)
                         ELSE IF p = "transpiled" THEN panes[p] ELSE r.sql
  BY <1>3
<1>5. panes' \in [Panes -> Scripts \cup {Blank}]
  <2>1. ASSUME NEW p \in Panes PROVE panes'[p] \in Scripts \cup {Blank}
    BY <1>1, <1>2, <1>4 DEF PageInv, WTypeOK
  <2> HIDE DEF Panes
  <2> QED
    BY <1>3, <2>1
<1>6. /\ panes'["results"] = r.sql /\ panes'["risk"] = r.sql
      /\ panes'["original"] = r.sql /\ panes'["lastResult"] = r.sql
      /\ panes'["optimized"] = Rewritten(r.sql)
  BY <1>4 DEF Panes
<1> QED
  BY <1>1, <1>5, <1>6 DEF DrawLint, PanesTellOneStory, Rewritten

LEMMA DrawStep == ASSUME PageInv, NEW r \in requests, Draws(r) PROVE PageInv'
<1> USE DEF PageInv
<1>1. CASE Fails(r)
  <2>1. Takes(r) /\ UNCHANGED drawn /\ lintButton' \in BOOLEAN
    BY <1>1 DEF Fails, LintAgain, WTypeOK
  <2>2. PanesTellOneStory'
    BY <2>1, TakeKeeps DEF drawn, PanesTellOneStory, Rewritten
  <2> QED
    BY <2>1, <2>2, TakeKeeps DEF drawn, WTypeOK
<1>2. CASE Lints(r)
  <2>1. /\ Takes(r) /\ Linter(r) /\ r.answer = "ok" /\ DrawLint(r)
        /\ lintButton' \in BOOLEAN /\ editor' = editor
    BY <1>2 DEF Lints, LintAgain, WTypeOK, DrawLint
  <2>2. /\ panes' \in [Panes -> Scripts \cup {Blank}] /\ mixed' \in BOOLEAN
        /\ PanesTellOneStory'
    BY <2>1, TakeKeeps, LintDrawn
  <2> QED
    BY <2>1, <2>2, TakeKeeps DEF WTypeOK
<1>3. CASE Fixes(r)
  <2>1. Takes(r) /\ lintButton' = lintButton
    BY <1>3 DEF Fixes
  <2>2. r.sql \in Scripts
    BY <2>1, TakeKeeps
  <2>3. \/ UNCHANGED drawn
        \/ Rewrite[r.sql] # Blank /\ DrawFix(r)
    BY <1>3 DEF Fixes
  <2>4. PanesTellOneStory'
    <3>1. CASE UNCHANGED drawn
      BY <2>1, <3>1, TakeKeeps DEF drawn, PanesTellOneStory, Rewritten
    <3>2. CASE Rewrite[r.sql] # Blank /\ DrawFix(r)
      <4>1. \A p \in Panes \ {"optimized"} : panes'[p] = panes[p]
        BY <3>2 DEF DrawFix, WTypeOK
      <4>2. mixed' = TRUE
        BY <3>2 DEF DrawFix
      <4> QED
        BY <2>1, <4>1, <4>2, TakeKeeps DEF PanesTellOneStory, Panes
    <3> QED
      BY <2>3, <3>1, <3>2
  <2>5. /\ panes' \in [Panes -> Scripts \cup {Blank}] /\ mixed' \in BOOLEAN
        /\ editor' \in Scripts \cup {Blank}
    BY <2>2, <2>3 DEF drawn, DrawFix, WTypeOK
  <2> QED
    BY <2>1, <2>4, <2>5, TakeKeeps DEF WTypeOK
<1>4. CASE Transpiles(r)
  <2>1. /\ Takes(r) /\ panes' = [panes EXCEPT !["transpiled"] = r.sql]
        /\ UNCHANGED <<editor, lintButton, mixed>>
    BY <1>4 DEF Transpiles
  <2>2. \A p \in Panes \ {"transpiled"} : panes'[p] = panes[p]
    BY <2>1 DEF WTypeOK
  <2>3. PanesTellOneStory'
    BY <2>1, <2>2, TakeKeeps DEF PanesTellOneStory, Panes, Rewritten
  <2>4. panes' \in [Panes -> Scripts \cup {Blank}]
    BY <2>1, TakeKeeps DEF WTypeOK
  <2> QED
    BY <2>1, <2>3, <2>4, TakeKeeps DEF WTypeOK
<1> QED
  BY <1>1, <1>2, <1>3, <1>4 DEF Draws

-----------------------------------------------------------------------------
(***************************************************************************)
(* Every step, and the behaviours.                                         *)
(***************************************************************************)
LEMMA PageStep == PageInv /\ [WNext]_wvars => PageInv'
<1> SUFFICES ASSUME PageInv, [WNext]_wvars PROVE PageInv'
  OBVIOUS
<1>1. CASE UNCHANGED wvars
  BY <1>1 DEF wvars, page, PageInv, WTypeOK, RequestsInv, Linter, PanesTellOneStory, Rewritten
<1>2. CASE WNext
  BY <1>2, UserStep, ClearStep, TypeStep, ServerStep, DrawStep DEF WNext
<1> QED
  BY <1>1, <1>2

\* The strengthening holds in every reachable state of the page and its
\* server (webstudio.py, server.py).
THEOREM PageStrengthened == WSpec => []PageInv
BY PageInit, PageStep, PTL DEF WSpec

\* However the answers overtake one another, the panes of the studio are of
\* one lint, which is in the history table (webstudio.py, server.py).
THEOREM ThePageHolds == WSpec => []PageHolds
<1>1. PageInv => PageHolds
  BY DEF PageInv, PageHolds
<1> QED
  BY <1>1, PageStrengthened, PTL

-----------------------------------------------------------------------------
(***************************************************************************)
(* Experiments: a user's cohort is what the bucket or the cloud gives, for *)
(* every set of users, list of variants and hash.                          *)
(*                                                                         *)
(* CohortsHold is not inductive: the one variant a user has been told must *)
(* be the one the flag in force gives, a process must have its client just *)
(* when it reached the service, and the id of the GA4 client must be the    *)
(* one SQLEAN_LINT_ANON_ID gives.                                          *)
(***************************************************************************)
USE ExperimentAssumption

\* What the flag in force gives u.
Own(u) == IF provider = "local" THEN Resolve(u) ELSE Remote[u]

CohortInv ==
  /\ DOMAIN told = Callers
  /\ \A u \in Users : told[u] \subseteq {Own(u)}
  /\ anonId # Unset => told[Unset] \subseteq {Own(anonId)}
  /\ reached \in BOOLEAN /\ client = reached
StrayInv == strays \subseteq {default, "control"}
IdsInv ==
  /\ anonId \in Callers /\ clientId \in AnonymousIds /\ DOMAIN ids = Sinks
  /\ ids["ga4"] \subseteq {clientId}
  /\ anonId # Unset => ids["posthog"] \subseteq {anonId}

FlagsInv == CohortInv /\ StrayInv /\ IdsInv

LEMMA FlagsInit == XInit => FlagsInv
BY DEF XInit, FlagsInv, CohortInv, StrayInv, IdsInv, Untold, Callers, Sinks

\* Nobody's variant in force depends on anything but the flag.
LEMMA OwnKept == ASSUME UNCHANGED <<provider, variants>> PROVE \A u : Own(u)' = Own(u)
BY DEF Own, Resolve

LEMMA EvaluateStep ==
  ASSUME FlagsInv, NEW caller \in Callers, Evaluate(caller)
  PROVE  FlagsInv'
<1>1. PICK joined \in Connects, u \in (IF caller = Unset THEN AnonymousIds ELSE {caller}) :
        /\ client' = (client \/ joined) /\ reached' = (reached \/ joined)
        /\ told' = [told EXCEPT ![caller] = @ \cup IF InForce THEN {Answer(u, client')} ELSE {}]
        /\ strays' = strays \cup IF InForce THEN {} ELSE {Answer(u, client')}
  BY DEF Evaluate
<1>2. UNCHANGED <<provider, variants, default, people>>
  BY DEF Evaluate, flag
<1>3. \A v : Own(v)' = Own(v)
  BY <1>2, OwnKept
<1>4. joined \in BOOLEAN
  BY DEF Connects
<1>5. reached' \in BOOLEAN /\ client' = reached'
  BY <1>1, <1>4 DEF FlagsInv, CohortInv
<1>6. InForce => Answer(u, client') = Own(u)
  BY <1>5 DEF InForce, Answer, Own
<1>7. ~InForce => Answer(u, client') \in {default, "control"}
  BY <1>5 DEF InForce, Answer
<1>. DEFINE more == IF InForce THEN {Answer(u, client')} ELSE {}
<1>8. more \subseteq {Own(u)}
  BY <1>6
<1>9. told' = [told EXCEPT ![caller] = @ \cup more]
  BY <1>1
<1>. HIDE DEF more
<1>10. \A v \in Callers : told'[v] = IF v = caller THEN told[v] \cup more ELSE told[v]
  BY <1>9 DEF FlagsInv, CohortInv
<1>11. (caller # Unset => u = caller) /\ (caller = Unset /\ anonId # Unset => u = anonId)
  BY DEF AnonymousIds
<1>12. CohortInv'
  <2>1. ASSUME NEW v \in Users PROVE told'[v] \subseteq {Own(v)'}
    <3>1. v \in Callers /\ v # Unset /\ told[v] \subseteq {Own(v)} /\ Own(v)' = Own(v)
      BY <1>3 DEF Callers, FlagsInv, CohortInv
    <3>. HIDE DEF Own
    <3>. QED
      BY <1>8, <1>10, <1>11, <3>1
  <2>2. ASSUME anonId # Unset PROVE told'[Unset] \subseteq {Own(anonId)'}
    <3>1. Unset \in Callers /\ told[Unset] \subseteq {Own(anonId)}
      BY <2>2 DEF Callers, FlagsInv, CohortInv
    <3>2. Own(anonId)' = Own(anonId)
      BY <1>2 DEF people, Own, Resolve
    <3>. HIDE DEF Own
    <3>. QED
      BY <1>8, <1>10, <1>11, <2>2, <3>1, <3>2
  <2>3. DOMAIN told' = Callers /\ anonId' = anonId
    BY <1>2, <1>9 DEF people, FlagsInv, CohortInv
  <2>. HIDE DEF Own
  <2>. QED
    BY <1>5, <2>1, <2>2, <2>3 DEF CohortInv
<1>13. StrayInv'
  BY <1>1, <1>2, <1>7 DEF FlagsInv, StrayInv
<1>14. IdsInv'
  BY <1>2 DEF people, FlagsInv, IdsInv, AnonymousIds
<1>. QED
  BY <1>12, <1>13, <1>14 DEF FlagsInv

LEMMA NewProcessStep == ASSUME FlagsInv, NewProcess PROVE FlagsInv'
<1>1. UNCHANGED <<provider, variants, default, strays>> /\ reached' = FALSE /\ client' = FALSE
  BY DEF NewProcess
<1>2. \A v : Own(v)' = Own(v)
  BY <1>1, OwnKept
<1>3. anonId' \in Callers /\ clientId' \in AnonymousIds'
  BY DEF NewProcess
<1>4. CASE anonId' = anonId /\ anonId # Unset
  <2>1. UNCHANGED <<told, ids>>
    BY <1>4 DEF NewProcess
  <2>2. clientId' = anonId /\ clientId = anonId
    BY <1>3, <1>4 DEF FlagsInv, IdsInv, AnonymousIds
  <2>3. CohortInv'
    BY <1>1, <1>2, <1>4, <2>1 DEF FlagsInv, CohortInv
  <2>. QED
    BY <1>1, <1>3, <1>4, <2>1, <2>2, <2>3 DEF FlagsInv, StrayInv, IdsInv
<1>5. CASE ~(anonId' = anonId /\ anonId # Unset)
  <2>1. told' = [told EXCEPT ![Unset] = {}] /\ ids' = [s \in Sinks |-> {}]
    BY <1>5 DEF NewProcess
  <2>2. Unset \in Callers /\ \A v \in Users : v \in Callers /\ v # Unset
    BY DEF Callers
  <2>3. CohortInv'
    BY <1>1, <1>2, <2>1, <2>2 DEF FlagsInv, CohortInv
  <2>. QED
    BY <1>1, <1>3, <2>1, <2>3 DEF FlagsInv, StrayInv, IdsInv, Sinks
<1>. QED
  BY <1>4, <1>5

LEMMA FlagsStep == FlagsInv /\ [FlagNext \/ TrackNext \/ NewProcess]_xvars => FlagsInv'
<1>. SUFFICES ASSUME FlagsInv, [FlagNext \/ TrackNext \/ NewProcess]_xvars PROVE FlagsInv'
  OBVIOUS
<1>1. ASSUME (\E on \in BOOLEAN : SetEnabled(on)) \/ CloudChanges \/ OptIn \/ UNCHANGED xvars
      PROVE  FlagsInv'
  <2>1. UNCHANGED <<provider, variants, default, client, reached, told, strays, anonId, clientId, ids>>
    BY <1>1 DEF SetEnabled, CloudChanges, OptIn, xvars, flag, people
  <2>2. \A v : Own(v)' = Own(v)
    BY <2>1, OwnKept
  <2>. HIDE DEF Own
  <2>. QED
    BY <2>1, <2>2 DEF FlagsInv, CohortInv, StrayInv, IdsInv, AnonymousIds
<1>2. ASSUME NEW vs \in Experiments, NEW d \in Defaults, NEW on \in BOOLEAN, Register(vs, d, on)
      PROVE  FlagsInv'
  BY <1>2 DEF Register, Untold, Callers, people, FlagsInv, CohortInv, StrayInv, IdsInv, AnonymousIds
<1>3. ASSUME NEW s \in Sinks, Track(s) PROVE FlagsInv'
  <2>1. UNCHANGED <<provider, variants, default, client, reached, told, strays, anonId, clientId>>
    BY <1>3 DEF Track, flag
  <2>2. \A v : Own(v)' = Own(v)
    BY <2>1, OwnKept
  <2>3. IdsInv'
    BY <1>3, <2>1 DEF Track, FlagsInv, IdsInv, AnonymousIds, Sinks
  <2>. HIDE DEF Own
  <2>. QED
    BY <2>1, <2>2, <2>3 DEF FlagsInv, CohortInv, StrayInv
<1>. QED
  BY <1>1, <1>2, <1>3, EvaluateStep, NewProcessStep DEF FlagNext, TrackNext

LEMMA AtMostOne == ASSUME NEW S, NEW x, S \subseteq {x} PROVE Cardinality(S) <= 1
<1>1. S = {} \/ S = {x}
  OBVIOUS
<1>2. Cardinality({}) = 0 /\ Cardinality({x}) = 1
  BY FS_EmptySet, FS_Singleton
<1>3. Cardinality(S) = 0 \/ Cardinality(S) = 1
  BY <1>1, <1>2, Zenon
<1>. QED
  BY <1>3

\* A user keeps the cohort through toggles, outages, failed connects and restarts,
\* is one user to the flag and the sinks, and is put into no experiment by a flag
\* that is not in force (evaluate, register_flag, connect, _anonymous_id).
THEOREM CohortsAlwaysHold == XSpec => []CohortsHold
<1>1. FlagsInv => CohortsHold
  <2>. SUFFICES ASSUME FlagsInv PROVE CohortsHold
    OBVIOUS
  <2>1. \A u \in Users : Cardinality(told[u]) <= 1
    BY AtMostOne DEF FlagsInv, CohortInv
  <2>2. Cardinality(ids["ga4"]) <= 1
    BY AtMostOne DEF FlagsInv, IdsInv
  <2>3. ASSUME anonId # Unset
        PROVE  /\ Cardinality(told[Unset] \cup told[anonId]) <= 1
               /\ ids["ga4"] \cup ids["posthog"] \subseteq {anonId}
    <3>1. anonId \in Users /\ clientId = anonId
      BY <2>3 DEF FlagsInv, IdsInv, Callers, AnonymousIds
    <3>2. told[Unset] \cup told[anonId] \subseteq {Own(anonId)}
      BY <2>3, <3>1 DEF FlagsInv, CohortInv
    <3>3. Cardinality(told[Unset] \cup told[anonId]) <= 1
      BY <3>2, AtMostOne
    <3>. QED
      BY <2>3, <3>1, <3>3 DEF FlagsInv, IdsInv
  <2>. QED
    BY <2>1, <2>2, <2>3 DEF CohortsHold, FlagsInv, StrayInv
<1>. QED
  BY <1>1, FlagsInit, FlagsStep, PTL DEF XSpec

-----------------------------------------------------------------------------
(***************************************************************************)
(* Outbound: nothing leaves that was not asked for, for every set of       *)
(* channels and any number of reports.                                     *)
(*                                                                         *)
(* OnlyWhatWasAsked is not inductive: a restart reads the profile, so what *)
(* is on disk must be a choice of the user too; and a report that was not  *)
(* opted in to tries no channel.                                           *)
(***************************************************************************)
USE OutboundAssumption

ProfileInv == profile \in {"off", "off, endpoint"} => ~wish \/ forgotten
ReportInv ==
  /\ report \in [left : SUBSET Channels, to : SUBSET (Channels \cup {"nothing"}),
                 got : SUBSET (Channels \X {"sent", "failed", "unknown"})]
  /\ credentials \subseteq Clients
  /\ \A r \in report.got : r[2] = "sent" => r[1] \in Clients
  /\ ~optedIn => report.left = {}

OutboundInv == OnlyWhatWasAsked /\ ProfileInv /\ ReportInv

LEMMA LoadedFacts ==
  ASSUME NEW p
  PROVE  /\ p \in {"missing", "torn"} => Loaded(p).zero = TRUE /\ Loaded(p).endpoint = FALSE
         /\ p \notin {"missing", "torn"} =>
              /\ Loaded(p).zero = (p \in {"on", "on, endpoint"})
              /\ Loaded(p).endpoint = (p \in {"on, endpoint", "off, endpoint"})
         /\ Loaded(p).zero \in BOOLEAN /\ Loaded(p).endpoint \in BOOLEAN
<1>1. p \in {"missing", "torn"} => Loaded(p).zero = TRUE /\ Loaded(p).endpoint = FALSE
  BY DEF Loaded
<1>2. ASSUME p \notin {"missing", "torn"}
      PROVE  /\ Loaded(p).zero = (p \in {"on", "on, endpoint"})
             /\ Loaded(p).endpoint = (p \in {"on, endpoint", "off, endpoint"})
  BY <1>2, Zenon DEF Loaded
<1>3. Loaded(p).zero \in BOOLEAN /\ Loaded(p).endpoint \in BOOLEAN
  <2>1. CASE p \in {"missing", "torn"}
    BY <1>1, <2>1
  <2>2. CASE p \notin {"missing", "torn"}
    <3>1. /\ (p \in {"on", "on, endpoint"}) \in BOOLEAN
          /\ (p \in {"on, endpoint", "off, endpoint"}) \in BOOLEAN
      OBVIOUS
    <3>2. /\ Loaded(p).zero = (p \in {"on", "on, endpoint"})
          /\ Loaded(p).endpoint = (p \in {"on, endpoint", "off, endpoint"})
      BY <1>2, <2>2
    <3>. QED
      BY <3>1, <3>2, Zenon
  <2>. QED
    BY <2>1, <2>2
<1>. QED
  BY <1>1, <1>2, <1>3

LEMMA OutboundInit == NInit => OutboundInv
<1>. SUFFICES ASSUME NInit PROVE OutboundInv
  OBVIOUS
<1>0. /\ report = NotSending /\ credentials \subseteq Clients /\ made = 0
      /\ tickets = [c \in Clients |-> 0] /\ lost = [c \in Clients |-> 0]
  BY DEF NInit
<1>1. NTypeOK /\ ReportInv
  <2>1. /\ zero = Loaded(profile).zero /\ endpoint = Loaded(profile).endpoint
        /\ switch = zero /\ badge = zero /\ entry = endpoint /\ wish = zero /\ forgotten = FALSE
        /\ optedIn \in BOOLEAN
    BY DEF NInit
  <2>2. {zero, endpoint, switch, badge, entry, wish, forgotten, optedIn} \subseteq BOOLEAN
    BY <2>1, LoadedFacts
  <2>3. /\ tickets \in [Clients -> Nat] /\ lost \in [Clients -> Nat] /\ made \in 0 .. MaxReports
    BY <1>0
  <2>4. profile \in {"missing", "torn", "on", "off", "on, endpoint", "off, endpoint"}
    BY DEF NInit
  <2>5. ReportInv
    BY <1>0 DEF ReportInv, NotSending
  <2>. QED
    BY <2>2, <2>3, <2>4, <2>5, Zenon DEF NTypeOK
<1>2. CloudIsAChoice /\ ProfileInv
  BY DEF NInit, CloudIsAChoice, ProfileInv, SyncStatus, Loaded
<1>3. ReportsAreComplete
  <2>1. report = NotSending /\ tickets = [c \in Clients |-> 0] /\ lost = [c \in Clients |-> 0]
    BY <1>0
  <2>. QED
    BY <2>1 DEF ReportsAreComplete
<1>. QED
  BY <1>1, <1>2, <1>3 DEF OutboundInv, OnlyWhatWasAsked

CloudTypes ==
  /\ {zero, endpoint, switch, badge, entry, wish, forgotten} \subseteq BOOLEAN
  /\ profile \in {"missing", "torn", "on", "off", "on, endpoint", "off, endpoint"}

\* What a profile gives back when it is read.
LEMMA StoredLoads ==
  ASSUME NEW z \in BOOLEAN, NEW e \in BOOLEAN
  PROVE  /\ Stored(z, e) \in {"on", "off", "on, endpoint", "off, endpoint"}
         /\ Stored(z, e) \in {"off", "off, endpoint"} <=> ~z
BY DEF Stored

LEMMA CloudStep ==
  ASSUME CloudTypes, CloudIsAChoice, ProfileInv, CloudNext
  PROVE  CloudTypes' /\ CloudIsAChoice' /\ ProfileInv'
<1>1. ASSUME NEW outcome \in {"saved", "torn", "refused"}, Saves(outcome),
             zero' \in BOOLEAN, endpoint' \in BOOLEAN
      PROVE  /\ profile' \in {"missing", "torn", "on", "off", "on, endpoint", "off, endpoint"}
             /\ outcome = "torn" => profile' = "torn"
             /\ outcome = "refused" => profile' = profile
             /\ outcome = "saved" => (profile' \in {"off", "off, endpoint"} <=> ~zero')
  BY <1>1, StoredLoads DEF Saves, CloudTypes
<1>2. CASE Toggle
  <2>1. PICK outcome \in {"saved", "torn", "refused"} :
          /\ switch' = ~switch /\ zero' = switch' /\ wish' = switch'
          /\ UNCHANGED <<endpoint, entry>> /\ Saves(outcome)
          /\ badge' = IF outcome = "saved" THEN zero' ELSE badge
          /\ forgotten' = (outcome = "refused")
    BY <1>2 DEF Toggle
  <2>2. {switch', zero', wish', endpoint', entry', badge', forgotten'} \subseteq BOOLEAN
    BY <2>1 DEF CloudTypes
  <2>3. CloudTypes' /\ ProfileInv'
    BY <1>1, <2>1, <2>2 DEF CloudTypes, ProfileInv
  <2>4. CloudIsAChoice'
    BY <2>1, <2>2 DEF CloudIsAChoice, SyncStatus
  <2>. QED
    BY <2>3, <2>4
<1>3. CASE SyncNow
  <2>1. PICK outcome \in {"saved", "torn", "refused"} :
          /\ endpoint' = entry /\ UNCHANGED <<zero, switch, badge, entry, wish>> /\ Saves(outcome)
          /\ forgotten' = (forgotten /\ (outcome = "refused" \/ zero # wish))
    BY <1>3 DEF SyncNow
  <2>2. {switch', zero', wish', endpoint', entry', badge', forgotten'} \subseteq BOOLEAN
    BY <2>1 DEF CloudTypes
  <2>3. CloudTypes' /\ ProfileInv'
    BY <1>1, <2>1, <2>2 DEF CloudTypes, ProfileInv, CloudIsAChoice
  <2>4. CloudIsAChoice'
    BY <2>1, <2>2 DEF CloudIsAChoice, SyncStatus, CloudTypes
  <2>. QED
    BY <2>3, <2>4
<1>4. CASE TypeEndpoint
  BY <1>4 DEF TypeEndpoint, CloudTypes, CloudIsAChoice, ProfileInv, SyncStatus
<1>5. CASE Restart
  <2>1. /\ zero' = Loaded(profile).zero /\ endpoint' = Loaded(profile).endpoint
        /\ switch' = zero' /\ badge' = zero' /\ entry' = endpoint'
        /\ UNCHANGED <<profile, wish, forgotten>>
    BY <1>5 DEF Restart, PageShows
  <2>2. zero' \in BOOLEAN /\ endpoint' \in BOOLEAN /\ (~zero' => profile \in {"off", "off, endpoint"})
    BY <2>1, LoadedFacts DEF CloudTypes
  <2>3. {switch', zero', wish', endpoint', entry', badge', forgotten'} \subseteq BOOLEAN
    BY <2>1, <2>2 DEF CloudTypes
  <2>4. CloudTypes' /\ ProfileInv'
    BY <2>1, <2>3 DEF CloudTypes, ProfileInv
  <2>5. CloudIsAChoice'
    BY <2>1, <2>2 DEF CloudIsAChoice, SyncStatus, ProfileInv
  <2>. QED
    BY <2>4, <2>5
<1>. QED
  BY <1>2, <1>3, <1>4, <1>5 DEF CloudNext

SupportTypes ==
  /\ optedIn \in BOOLEAN
  /\ tickets \in [Clients -> Nat] /\ lost \in [Clients -> Nat] /\ made \in 0 .. MaxReports

LEMMA SupportStep ==
  ASSUME SupportTypes, ReportsAreComplete, ReportInv, SupportNext
  PROVE  SupportTypes' /\ ReportsAreComplete' /\ ReportInv'
<1>1. ASSUME NEW chosen \in SUBSET Channels, ReportCrash(chosen)
      PROVE  SupportTypes' /\ ReportsAreComplete' /\ ReportInv'
  <2>1. /\ report' = [left |-> IF optedIn THEN chosen ELSE {}, to |-> chosen, got |-> {}]
        /\ UNCHANGED <<optedIn, credentials, tickets, lost>> /\ made' \in 0 .. MaxReports
    BY <1>1 DEF ReportCrash, SupportTypes
  <2>2. report'.left = (IF optedIn THEN chosen ELSE {}) /\ report'.to = chosen /\ report'.got = {}
    BY <2>1
  <2>3. ReportsAreComplete'
    BY <2>1, <2>2 DEF ReportsAreComplete
  <2>. QED
    BY <2>1, <2>3 DEF SupportTypes, ReportInv
<1>2. ASSUME NEW c \in Channels, TryChannel(c)
      PROVE  SupportTypes' /\ ReportsAreComplete' /\ ReportInv'
  <2>1. PICK r \in {"sent", "failed", "unknown"} :
          /\ report' = [report EXCEPT !.left = @ \ {c}, !.got = @ \cup {<<c, r>>}]
          /\ \/ r # "sent" /\ UNCHANGED <<tickets, lost>>
             \/ /\ r # "sent" /\ c \in Clients
                /\ tickets' = [tickets EXCEPT ![c] = @ + 1] /\ lost' = [lost EXCEPT ![c] = @ + 1]
             \/ /\ r = "sent" /\ c \in Clients
                /\ tickets' = [tickets EXCEPT ![c] = @ + 1] /\ UNCHANGED lost
    BY <1>2 DEF TryChannel, ChannelFails, ChannelSends, Result, ReportInv
  <2>2. c \in report.left /\ UNCHANGED <<optedIn, credentials, made>>
    BY <1>2 DEF TryChannel
  <2>3. optedIn /\ report # NotSending
    BY <2>2 DEF ReportInv, NotSending
  <2>4. /\ report'.left = report.left \ {c} /\ report'.to = report.to
        /\ report'.got = report.got \cup {<<c, r>>}
    BY <2>1 DEF ReportInv
  <2>5. /\ tickets' \in [Clients -> Nat] /\ lost' \in [Clients -> Nat]
        /\ \A d \in Clients : lost'[d] <= tickets'[d]
    <3>1. /\ lost \in [Clients -> Nat] /\ tickets \in [Clients -> Nat]
          /\ \A d \in Clients : lost[d] <= tickets[d]
      BY DEF SupportTypes, ReportsAreComplete
    <3>2. CASE UNCHANGED <<tickets, lost>>
      BY <3>1, <3>2
    <3>3. CASE c \in Clients /\ tickets' = [tickets EXCEPT ![c] = @ + 1] /\ lost' = [lost EXCEPT ![c] = @ + 1]
      BY <3>1, <3>3
    <3>4. CASE c \in Clients /\ tickets' = [tickets EXCEPT ![c] = @ + 1] /\ UNCHANGED lost
      BY <3>1, <3>4
    <3>. QED
      BY <2>1, <3>2, <3>3, <3>4
  <2>6. SupportTypes'
    BY <2>2, <2>5 DEF SupportTypes
  <2>7. report' \in [left : SUBSET Channels, to : SUBSET (Channels \cup {"nothing"}),
                     got : SUBSET (Channels \X {"sent", "failed", "unknown"})]
    <3>1. report' = [left |-> report.left \ {c}, to |-> report.to, got |-> report.got \cup {<<c, r>>}]
      BY <2>1 DEF ReportInv
    <3>2. /\ report.left \subseteq Channels /\ report.to \subseteq Channels \cup {"nothing"}
          /\ report.got \subseteq Channels \X {"sent", "failed", "unknown"}
      BY DEF ReportInv
    <3>3. report.got \cup {<<c, r>>} \subseteq Channels \X {"sent", "failed", "unknown"}
      BY <3>2
    <3>. QED
      BY <3>1, <3>2, <3>3
  <2>8. ReportInv'
    <3>1. \A p \in report'.got : p[2] = "sent" => p[1] \in Clients
      BY <2>1, <2>4 DEF ReportInv
    <3>. QED
      BY <2>2, <2>3, <2>7, <3>1 DEF ReportInv
  <2>9. \A d \in report'.to : d \in report'.left \/ \E p \in report'.got : p[1] = d
    <3>1. \A d \in report.to : d \in report.left \/ \E p \in report.got : p[1] = d
      BY <2>3 DEF ReportsAreComplete
    <3>2. <<c, r>>[1] = c
      OBVIOUS
    <3>. QED
      BY <2>4, <3>1, <3>2
  <2>10. ASSUME NEW p \in report'.got, p[2] = "sent" PROVE tickets'[p[1]] > lost'[p[1]]
    <3>1. CASE p \in report.got
      <4>1. tickets[p[1]] > lost[p[1]] /\ p[1] \in Clients
        BY <2>3, <2>10, <3>1 DEF ReportsAreComplete, ReportInv
      <4>2. lost \in [Clients -> Nat] /\ tickets \in [Clients -> Nat]
        BY DEF SupportTypes
      <4>3. CASE UNCHANGED <<tickets, lost>>
        BY <4>1, <4>3
      <4>4. CASE c \in Clients /\ tickets' = [tickets EXCEPT ![c] = @ + 1] /\ lost' = [lost EXCEPT ![c] = @ + 1]
        BY <4>1, <4>2, <4>4
      <4>5. CASE c \in Clients /\ tickets' = [tickets EXCEPT ![c] = @ + 1] /\ UNCHANGED lost
        BY <4>1, <4>2, <4>5
      <4>. QED
        BY <2>1, <4>3, <4>4, <4>5
    <3>2. CASE p = <<c, r>>
      <4>1. p[1] = c /\ r = "sent"
        BY <2>10, <3>2
      <4>2. lost \in [Clients -> Nat] /\ tickets \in [Clients -> Nat] /\ c \in Clients
            /\ lost[c] <= tickets[c]
        BY <2>1, <4>1 DEF SupportTypes, ReportsAreComplete
      <4>. QED
        BY <2>1, <4>1, <4>2
    <3>. QED
      BY <2>4, <3>1, <3>2
  <2>. QED
    BY <2>2, <2>3, <2>5, <2>6, <2>8, <2>9, <2>10 DEF ReportsAreComplete
<1>3. CASE Reported
  BY <1>3 DEF Reported, SupportTypes, ReportsAreComplete, ReportInv, NotSending
<1>. QED
  BY <1>1, <1>2, <1>3 DEF SupportNext

LEMMA OutboundStep == OutboundInv /\ [CloudNext \/ SupportNext]_nvars => OutboundInv'
<1>. SUFFICES ASSUME OutboundInv, [CloudNext \/ SupportNext]_nvars PROVE OutboundInv'
  OBVIOUS
<1>1. NTypeOK <=> CloudTypes /\ SupportTypes
  BY DEF NTypeOK, CloudTypes, SupportTypes
<1>2. NTypeOK' <=> CloudTypes' /\ SupportTypes'
  BY DEF NTypeOK, CloudTypes, SupportTypes
<1>3. ASSUME UNCHANGED cloud PROVE CloudTypes' /\ CloudIsAChoice' /\ ProfileInv'
  BY <1>1, <1>3 DEF cloud, OutboundInv, OnlyWhatWasAsked, CloudTypes, CloudIsAChoice, ProfileInv,
                    SyncStatus
<1>4. ASSUME UNCHANGED support PROVE SupportTypes' /\ ReportsAreComplete' /\ ReportInv'
  BY <1>1, <1>4 DEF support, OutboundInv, OnlyWhatWasAsked, SupportTypes, ReportsAreComplete,
                    ReportInv
<1>5. CASE CloudNext
  <2>1. UNCHANGED support
    BY <1>5 DEF CloudNext
  <2>. QED
    BY <1>1, <1>2, <1>4, <1>5, <2>1, CloudStep DEF OutboundInv, OnlyWhatWasAsked
<1>6. CASE SupportNext
  <2>1. UNCHANGED cloud
    BY <1>6 DEF SupportNext
  <2>. QED
    BY <1>1, <1>2, <1>3, <1>6, <2>1, SupportStep DEF OutboundInv, OnlyWhatWasAsked
<1>7. CASE UNCHANGED nvars
  <2>1. UNCHANGED cloud /\ UNCHANGED support
    BY <1>7 DEF nvars
  <2>. QED
    BY <1>2, <1>3, <1>4, <2>1 DEF OutboundInv, OnlyWhatWasAsked
<1>. QED
  BY <1>5, <1>6, <1>7

\* The cloud is on only by the user's choice, kept or refused by the disk, and a
\* report is answered for every channel it names (save_settings, load_settings,
\* report_crash).
THEOREM OnlyWhatWasAskedLeaves == NSpec => []OnlyWhatWasAsked
<1>1. OutboundInv => OnlyWhatWasAsked
  BY DEF OutboundInv
<1>. QED
  BY <1>1, OutboundInit, OutboundStep, PTL DEF NSpec
=============================================================================
