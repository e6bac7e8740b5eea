---------------------------- MODULE Lint_proofs ----------------------------
(***************************************************************************)
(* The rate limiter of the REST service, proved for any pool of threads,   *)
(* keys, limits and window: it implements SlidingWindow, whose rule bounds *)
(* every window of a key until that key is raced.  And what a lint request *)
(* is answered, proved for any statements: LintRun.  And what lint --fix   *)
(* makes of a statement, for any statements and data: Rewrites.            *)
(*                                                                         *)
(* The limiter's invariant follows one check of a key that is alone: the   *)
(* object it fetched is the one in the table, what the table has forgotten *)
(* is out of the window, and once pruned the list is the window itself.    *)
(* The linter's invariants tie each exit code and each result to the       *)
(* script it was computed from.  The rewriter's say how each condition of  *)
(* a clause fares in a pass, and what no pass finds again.                 *)
(***************************************************************************)
EXTENDS RateLimiter, LintRun, Rewrites, FiniteSetTheorems, WellFoundedInduction, SequenceTheorems, TLAPS

Creating(k) == {w \in Workers : pc[w] = "create" /\ key[w] = k}
Busy(w, k) == pc[w] # "idle" /\ key[w] = k
Holding == {"prune", "assign", "test", "append"}

\* An object exists before it is fetched, and no more are created than there
\* are threads.
ObjectsInv ==
  /\ \A w \in Workers : pc[w] \in {"fetch"} \cup Holding => info[key[w]] # 0
  /\ \A k \in Keys : info[k] + Cardinality(Creating(k)) <= Cardinality(Workers)

\* Nothing is remembered from the future, and only a check that has pruned and
\* not yet assigned holds a list.
TimeInv ==
  /\ \A w \in Workers : /\ at[w] <= now
                        /\ kept[w] \subseteq DOMAIN admitted[key[w]]
                        /\ pc[w] # "assign" => kept[w] = {}
  /\ \A k \in Keys : \A i \in DOMAIN admitted[k] : admitted[k][i] <= now

Forgotten(k) == DOMAIN admitted[k] \ times[k][info[k]]

\* What holds of a check of key k, alone on its key, by how far it is.
CheckInv(w, k) ==
  /\ pc[w] = "create" => info[k] = 0
  /\ pc[w] \in Holding =>
       /\ obj[w] = info[k]
       /\ \A i \in DOMAIN admitted[k] : admitted[k][i] <= at[w]
  /\ pc[w] \in {"prune", "assign"} =>
       \A i \in Forgotten(k) : admitted[k][i] <= at[w] - Window
  /\ pc[w] = "assign" => kept[w] = Promise!InWindow(k, at[w])
  /\ pc[w] \in {"test", "append"} => times[k][info[k]] = Promise!InWindow(k, at[w])
  /\ pc[w] = "append" => Cardinality(Promise!InWindow(k, at[w])) < LimitOf[k]

\* A key that was never raced.
KeyInv(k) ==
  /\ \A v, w \in Workers : Busy(v, k) /\ Busy(w, k) => v = w
  /\ info[k] = 0 => admitted[k] = <<>>
  /\ info[k] # 0 => \A i \in Forgotten(k) : admitted[k][i] <= now - Window
  /\ \A i, j \in DOMAIN admitted[k] : i <= j => admitted[k][i] <= admitted[k][j]
  /\ \A w \in Workers : key[w] = k => CheckInv(w, k)

UnracedInv == \A k \in Keys : ~raced[k] => KeyInv(k)

IInv == TypeOK /\ ObjectsInv /\ TimeInv /\ UnracedInv

-----------------------------------------------------------------------------
LEMMA InitIInv == Init => IInv
<1>. SUFFICES ASSUME Init PROVE IInv
  OBVIOUS
<1>1. (CHOOSE k \in Keys : TRUE) \in Keys
  BY LimiterAssumption
<1>2. Cardinality(Workers) \in Nat
  BY LimiterAssumption, FS_CardinalityType
<1>3. TypeOK
  BY <1>1, <1>2, LimiterAssumption DEF Init, TypeOK, Objects
<1>4. ASSUME NEW k \in Keys PROVE Creating(k) = {}
  BY DEF Init, Creating
<1>5. ObjectsInv
  <2>1. ASSUME NEW k \in Keys PROVE info[k] + Cardinality(Creating(k)) <= Cardinality(Workers)
    <3>1. Cardinality(Creating(k)) = 0 /\ info[k] = 0
      BY <1>4, FS_EmptySet DEF Init
    <3>. QED
      BY <1>2, <3>1
  <2>2. \A w \in Workers : pc[w] = "idle"
    BY DEF Init
  <2>. QED
    BY <2>1, <2>2 DEF ObjectsInv, Holding
<1>6. TimeInv
  BY <1>3 DEF Init, TimeInv, TypeOK
<1>7. UnracedInv
  BY DEF Init, UnracedInv, KeyInv, CheckInv, Busy, Holding
<1>. QED
  BY <1>3, <1>5, <1>6, <1>7 DEF IInv

\* How many checks are about to create an object.
LEMMA CreatingType ==
  ASSUME NEW k \in Keys
  PROVE  /\ IsFiniteSet(Creating(k)) /\ Cardinality(Creating(k)) \in Nat
         /\ Cardinality(Creating(k)) <= Cardinality(Workers)
         /\ Cardinality(Workers) \in Nat
BY LimiterAssumption, FS_Subset, FS_CardinalityType DEF Creating

LEMMA ObjectsStep ==
  ASSUME TypeOK, ObjectsInv, [Next]_vars
  PROVE  ObjectsInv'
<1>. USE DEF Holding, Goto
<1>1. ASSUME NEW k \in Keys, info'[k] = info[k], Creating(k)' \subseteq Creating(k)
      PROVE  (info[k] + Cardinality(Creating(k)) <= Cardinality(Workers))'
  <2>1. /\ Cardinality(Creating(k)') <= Cardinality(Creating(k))
        /\ Cardinality(Creating(k)') \in Nat
    BY <1>1, CreatingType, FS_Subset, FS_CardinalityType
  <2>2. /\ info[k] \in Nat
        /\ Cardinality(Creating(k)) \in Nat /\ Cardinality(Workers) \in Nat
        /\ info[k] + Cardinality(Creating(k)) <= Cardinality(Workers)
    BY CreatingType DEF ObjectsInv, TypeOK, Objects
  <2>. QED
    BY <1>1, <2>1, <2>2
<1>2. ASSUME NEW w \in Workers, NEW k \in Keys, Begin(w, k) PROVE ObjectsInv'
  <2>1. /\ pc' = [pc EXCEPT ![w] = IF info[k] = 0 THEN "create" ELSE "fetch"]
        /\ key' = [key EXCEPT ![w] = k] /\ info' = info
    BY <1>2 DEF Begin
  <2>2. ASSUME NEW l \in Keys
        PROVE  (info[l] + Cardinality(Creating(l)) <= Cardinality(Workers))'
    <3>1. CASE l = k /\ info[k] = 0
      <4>1. Creating(k)' \subseteq Workers
        BY DEF Creating
      <4>2. /\ Cardinality(Creating(k)') <= Cardinality(Workers)
            /\ Cardinality(Creating(k)') \in Nat
        BY <4>1, LimiterAssumption, FS_Subset, FS_CardinalityType
      <4>. QED
        BY <2>1, <3>1, <4>2
    <3>2. CASE ~(l = k /\ info[k] = 0)
      <4>1. Creating(l)' \subseteq Creating(l)
        BY <1>2, <2>1, <3>2 DEF Creating, TypeOK, Begin
      <4>. QED
        BY <1>1, <2>1, <4>1
    <3>. QED
      BY <3>1, <3>2
  <2>3. \A v \in Workers : pc'[v] \in {"fetch"} \cup Holding => info'[key'[v]] # 0
    BY <2>1 DEF ObjectsInv, TypeOK
  <2>. QED
    BY <2>2, <2>3 DEF ObjectsInv
<1>3. ASSUME NEW w \in Workers, Create(w) PROVE ObjectsInv'
  <2>. PICK k \in Keys : k = key[w]
    BY DEF TypeOK
  <2>1. /\ pc[w] = "create" /\ pc' = [pc EXCEPT ![w] = "fetch"] /\ key' = key
        /\ info' = [info EXCEPT ![k] = @ + 1]
    BY <1>3 DEF Create, locals, TypeOK
  <2>2. (info[k] + Cardinality(Creating(k)) <= Cardinality(Workers))'
    <3>1. Creating(k)' = Creating(k) \ {w} /\ w \in Creating(k)
      BY <2>1 DEF Creating, TypeOK
    <3>2. Cardinality(Creating(k)') = Cardinality(Creating(k)) - 1
      BY <2>1, <3>1, CreatingType, FS_RemoveElement
    <3>3. /\ info[k] \in Nat /\ info'[k] = info[k] + 1
          /\ Cardinality(Creating(k)) \in Nat /\ Cardinality(Workers) \in Nat
          /\ info[k] + Cardinality(Creating(k)) <= Cardinality(Workers)
      BY <2>1, CreatingType DEF ObjectsInv, TypeOK, Objects
    <3>. QED
      BY <3>2, <3>3
  <2>3. ASSUME NEW l \in Keys, l # k
        PROVE  (info[l] + Cardinality(Creating(l)) <= Cardinality(Workers))'
    <3>1. Creating(l)' \subseteq Creating(l) /\ info'[l] = info[l]
      BY <2>1, <2>3 DEF Creating, TypeOK
    <3>. QED
      BY <1>1, <3>1
  <2>4. \A v \in Workers : pc'[v] \in {"fetch"} \cup Holding => info'[key'[v]] # 0
    BY <2>1, CreatingType DEF ObjectsInv, TypeOK, Objects
  <2>5. \A l \in Keys : (info[l] + Cardinality(Creating(l)) <= Cardinality(Workers))'
    BY <2>2, <2>3
  <2>. QED
    BY <2>4, <2>5 DEF ObjectsInv
<1>4. ASSUME UNCHANGED <<info, key>>,
             \A w \in Workers : pc'[w] = "create" => pc[w] = "create",
             \A w \in Workers : pc'[w] \in {"fetch"} \cup Holding => pc[w] \in {"fetch"} \cup Holding
      PROVE  ObjectsInv'
  <2>1. \A k \in Keys : Creating(k)' \subseteq Creating(k)
    BY <1>4 DEF Creating
  <2>2. ASSUME NEW k \in Keys
        PROVE  (info[k] + Cardinality(Creating(k)) <= Cardinality(Workers))'
    BY <1>1, <1>4, <2>1
  <2>. QED
    BY <1>4, <2>2 DEF ObjectsInv
<1>5. ASSUME NEW w \in Workers,
             Fetch(w) \/ Prune(w) \/ Assign(w) \/ Test(w) \/ Refuse(w) \/ Admit(w)
      PROVE  ObjectsInv'
  BY <1>4, <1>5 DEF Fetch, Prune, Assign, Test, Refuse, Admit, Return, locals, TypeOK
<1>6. CASE Tick \/ UNCHANGED vars
  BY <1>4, <1>6 DEF Tick, vars, locals
<1>. QED
  BY <1>2, <1>3, <1>5, <1>6 DEF Next

LEMMA ElementType ==
  ASSUME NEW S, NEW s \in Seq(S), NEW i \in 1 .. Len(s)
  PROVE  s[i] \in S
OBVIOUS

LEMMA AdmittedType ==
  ASSUME TypeOK, NEW k \in Keys
  PROVE  /\ admitted[k] \in Seq(Nat) /\ DOMAIN admitted[k] = 1 .. Len(admitted[k])
         /\ Len(admitted[k]) \in Nat
         /\ \A i \in DOMAIN admitted[k] : admitted[k][i] \in Nat
<1>1. admitted[k] \in Seq(0 .. MaxTime)
  BY DEF TypeOK
<1>2. \A i \in 1 .. Len(admitted[k]) : admitted[k][i] \in 0 .. MaxTime
  BY <1>1, ElementType
<1>. QED
  BY <1>1, <1>2

LEMMA TypeStep ==
  ASSUME TypeOK, ObjectsInv, TimeInv, [Next]_vars
  PROVE  TypeOK'
<1>. USE DEF Goto
<1>0. now \in Nat /\ requests \in Nat /\ Cardinality(Workers) \in Nat
  BY LimiterAssumption, FS_CardinalityType DEF TypeOK
<1>1. ASSUME NEW w \in Workers, NEW k \in Keys, Begin(w, k) PROVE TypeOK'
  BY <1>0, <1>1, LimiterAssumption DEF Begin, TypeOK
<1>2. ASSUME NEW w \in Workers, Create(w) PROVE TypeOK'
  <2>. PICK k \in Keys : k = key[w]
    BY DEF TypeOK
  <2>1. w \in Creating(k)
    BY <1>2 DEF Create, Creating
  <2>2. Cardinality(Creating(k)) # 0
    BY <2>1, CreatingType, FS_EmptySet
  <2>3. info[k] \in Nat /\ info[k] + Cardinality(Creating(k)) <= Cardinality(Workers)
    BY <1>0 DEF ObjectsInv, TypeOK, Objects
  <2>4. info[k] + 1 \in Objects
    BY <1>0, <2>2, <2>3, CreatingType DEF Objects
  <2>. QED
    BY <1>2, <2>4 DEF Create, TypeOK, locals
<1>3. ASSUME NEW w \in Workers, Fetch(w) PROVE TypeOK'
  BY <1>3 DEF Fetch, TypeOK, ObjectsInv
<1>4. ASSUME NEW w \in Workers, Prune(w) PROVE TypeOK'
  <2>1. LiveAt(key[w], RequestTimes(w), at[w]) \subseteq Nat
    BY <1>4 DEF Prune, LiveAt, RequestTimes, TypeOK
  <2>. QED
    BY <1>4, <2>1 DEF Prune, TypeOK
<1>5. ASSUME NEW w \in Workers, Assign(w) PROVE TypeOK'
  <2>1. kept[w] \subseteq DOMAIN admitted[key[w]] /\ key[w] \in Keys /\ obj[w] \in Objects
    BY <1>5 DEF Assign, TimeInv, TypeOK
  <2>2. \A k \in Keys, o \in Objects : times'[k][o] \subseteq DOMAIN admitted[k]
    BY <1>5, <2>1 DEF Assign, TypeOK
  <2>. QED
    BY <1>5, <2>1, <2>2 DEF Assign, TypeOK
<1>6. ASSUME NEW w \in Workers, Test(w) \/ Refuse(w) PROVE TypeOK'
  <2>1. CASE Test(w)
    BY <2>1 DEF Test, TypeOK, locals
  <2>2. CASE Refuse(w)
    BY <2>2, LimiterAssumption DEF Refuse, Return, TypeOK
  <2>. QED
    BY <1>6, <2>1, <2>2
<1>7. ASSUME NEW w \in Workers, Admit(w) PROVE TypeOK'
  <2>. PICK k \in Keys : k = key[w]
    BY DEF TypeOK
  <2>1. /\ admitted[k] \in Seq(0 .. MaxTime) /\ at[w] \in 0 .. MaxTime /\ obj[w] \in Objects
        /\ times[k][obj[w]] \subseteq DOMAIN admitted[k]
    BY <1>7 DEF Admit, TypeOK
  <2>2. /\ Append(admitted[k], at[w]) \in Seq(0 .. MaxTime)
        /\ DOMAIN Append(admitted[k], at[w]) = DOMAIN admitted[k] \cup {Len(admitted[k]) + 1}
        /\ Len(admitted[k]) + 1 \in Nat
    BY <2>1
  <2>3. \A l \in Keys, o \in Objects : times'[l][o] \subseteq DOMAIN admitted'[l]
    BY <1>7, <2>1, <2>2 DEF Admit, TypeOK
  <2>. QED
    BY <1>7, <2>1, <2>2, <2>3, LimiterAssumption DEF Admit, Return, TypeOK
<1>8. CASE Tick
  BY <1>0, <1>8, LimiterAssumption DEF Tick, TypeOK, locals
<1>9. CASE UNCHANGED vars
  BY <1>9 DEF vars, TypeOK
<1>. QED
  BY <1>1, <1>2, <1>3, <1>4, <1>5, <1>6, <1>7, <1>8, <1>9 DEF Next

LEMMA TimeStep ==
  ASSUME TypeOK, TimeInv, [Next]_vars
  PROVE  TimeInv'
<1>. USE DEF Goto
<1>0. now \in Nat
  BY DEF TypeOK
<1>1. ASSUME NEW w \in Workers, NEW k \in Keys, Begin(w, k) PROVE TimeInv'
  BY <1>1 DEF Begin, TypeOK, TimeInv
<1>2. ASSUME NEW w \in Workers, Create(w) \/ Fetch(w) \/ Test(w) PROVE TimeInv'
  <2>1. CASE Create(w) \/ Test(w)
    BY <2>1 DEF Create, Test, TypeOK, TimeInv, locals
  <2>2. CASE Fetch(w)
    BY <1>0, <2>2 DEF Fetch, TypeOK, TimeInv
  <2>. QED
    BY <1>2, <2>1, <2>2
<1>3. ASSUME NEW w \in Workers, Prune(w) PROVE TimeInv'
  <2>1. LiveAt(key[w], RequestTimes(w), at[w]) \subseteq DOMAIN admitted[key[w]]
    BY <1>3 DEF Prune, LiveAt, RequestTimes, TypeOK
  <2>. QED
    BY <1>3, <2>1 DEF Prune, TypeOK, TimeInv
<1>4. ASSUME NEW w \in Workers, Assign(w) PROVE TimeInv'
  BY <1>4 DEF Assign, TypeOK, TimeInv
<1>5. ASSUME NEW w \in Workers, Refuse(w) PROVE TimeInv'
  BY <1>0, <1>5 DEF Refuse, Return, TypeOK, TimeInv
<1>6. ASSUME NEW w \in Workers, Admit(w) PROVE TimeInv'
  <2>. PICK k \in Keys : k = key[w]
    BY DEF TypeOK
  <2>1. admitted[k] \in Seq(0 .. MaxTime) /\ at[w] \in 0 .. MaxTime /\ at[w] <= now
    BY DEF TypeOK, TimeInv
  <2>2. /\ DOMAIN Append(admitted[k], at[w]) = DOMAIN admitted[k] \cup {Len(admitted[k]) + 1}
        /\ \A i \in DOMAIN admitted[k] : Append(admitted[k], at[w])[i] = admitted[k][i]
        /\ Append(admitted[k], at[w])[Len(admitted[k]) + 1] = at[w]
    BY <2>1
  <2>3. /\ admitted'[k] = Append(admitted[k], at[w])
        /\ \A l \in Keys : l # k => admitted'[l] = admitted[l]
        /\ now' = now /\ kept' = kept /\ key' = key
        /\ pc' = [pc EXCEPT ![w] = "idle"] /\ at' = [at EXCEPT ![w] = 0] /\ pc[w] = "append"
    BY <1>6 DEF Admit, Return, TypeOK
  <2>4. \A v \in Workers : DOMAIN admitted[key[v]] \subseteq DOMAIN admitted'[key[v]]
    BY <2>2, <2>3 DEF TypeOK
  <2>5. \A v \in Workers : (/\ at[v] <= now
                            /\ kept[v] \subseteq DOMAIN admitted[key[v]]
                            /\ pc[v] # "assign" => kept[v] = {})'
    BY <1>0, <2>3, <2>4 DEF TimeInv, TypeOK
  <2>6. ASSUME NEW l \in Keys, NEW i \in DOMAIN admitted'[l] PROVE admitted'[l][i] <= now'
    <3>1. CASE l = k
      BY <2>1, <2>2, <2>3, <2>6, <3>1 DEF TimeInv
    <3>2. CASE l # k
      BY <2>3, <2>6, <3>2 DEF TimeInv
    <3>. QED
      BY <3>1, <3>2
  <2>. QED
    BY <2>5, <2>6 DEF TimeInv
<1>7. CASE Tick
  <2>1. now' = now + 1 /\ UNCHANGED <<at, kept, key, admitted, pc>>
    BY <1>7 DEF Tick, locals
  <2>2. \A w \in Workers : at[w] \in Nat
    BY DEF TypeOK
  <2>3. \A k \in Keys : \A i \in DOMAIN admitted[k] : admitted[k][i] \in Nat
    BY AdmittedType
  <2>. QED
    BY <1>0, <2>1, <2>2, <2>3 DEF TimeInv
<1>8. CASE UNCHANGED vars
  BY <1>8 DEF vars, locals, TimeInv
<1>. QED
  BY <1>1, <1>2, <1>3, <1>4, <1>5, <1>6, <1>7, <1>8 DEF Next

-----------------------------------------------------------------------------
\* Whatever the step did, a key it left alone keeps its invariant.
LEMMA KeyFrame ==
  ASSUME TypeOK, NEW k \in Keys, KeyInv(k),
         info'[k] = info[k], times'[k] = times[k], admitted'[k] = admitted[k],
         now \in Nat, now' \in Nat, now <= now',
         \A w \in Workers : key'[w] = k /\ pc'[w] # "idle" =>
            /\ key[w] = k /\ pc'[w] = pc[w]
            /\ obj'[w] = obj[w] /\ at'[w] = at[w] /\ kept'[w] = kept[w]
  PROVE  KeyInv(k)'
<1>1. Forgotten(k)' = Forgotten(k)
  BY DEF Forgotten
<1>2. \A i \in DOMAIN admitted[k] : admitted[k][i] \in Nat
  BY AdmittedType
<1>3. \A w \in Workers : Busy(w, k)' => Busy(w, k)
  BY DEF Busy
<1>4. ASSUME NEW w \in Workers, key'[w] = k PROVE CheckInv(w, k)'
  <2>1. CASE pc'[w] = "idle"
    BY <2>1 DEF CheckInv, Holding
  <2>2. CASE pc'[w] # "idle"
    <3>1. /\ CheckInv(w, k) /\ pc'[w] = pc[w]
          /\ obj'[w] = obj[w] /\ at'[w] = at[w] /\ kept'[w] = kept[w]
      BY <1>4, <2>2 DEF KeyInv
    <3>2. Promise!InWindow(k, at[w])' = Promise!InWindow(k, at[w])
      BY <3>1 DEF Promise!InWindow
    <3>. QED
      BY <1>1, <3>1, <3>2 DEF CheckInv
  <2>. QED
    BY <2>1, <2>2
<1>5. info[k] # 0 => \A i \in Forgotten(k) : admitted[k][i] <= now' - Window
  BY <1>2, LimiterAssumption DEF KeyInv, Forgotten
<1>. QED
  BY <1>1, <1>3, <1>4, <1>5 DEF KeyInv

\* The steps of the one check in progress on a key that was never raced.
LEMMA OwnStep ==
  ASSUME IInv, TypeOK', [Next]_vars, NEW w \in Workers, NEW k \in Keys, k = key[w], ~raced[k],
         \/ Create(w) \/ Fetch(w) \/ Prune(w) \/ Assign(w)
         \/ Test(w) \/ Refuse(w) \/ Admit(w)
  PROVE  KeyInv(k)'
<1>. USE DEF Goto
<1>1. KeyInv(k) /\ CheckInv(w, k) /\ TypeOK
  BY DEF IInv, UnracedInv, KeyInv
<1>2. pc[w] # "idle"
  BY DEF Create, Fetch, Prune, Assign, Test, Refuse, Admit
<1>3. key' = key /\ now' = now /\ \A v \in Workers : v # w => pc'[v] = pc[v]
  BY <1>1 DEF Create, Fetch, Prune, Assign, Test, Refuse, Admit, Return, locals, TypeOK
<1>4. \A v \in Workers : v # w /\ key[v] = k => pc[v] = "idle"
  BY <1>1, <1>2 DEF KeyInv, Busy
<1>5. /\ \A v \in Workers : v # w /\ key'[v] = k => CheckInv(v, k)'
      /\ \A v, u \in Workers : Busy(v, k)' /\ Busy(u, k)' => v = u
  BY <1>3, <1>4 DEF CheckInv, Holding, Busy
<1>6. /\ now \in Nat /\ at[w] \in Nat /\ at[w] <= now /\ Window \in Nat
      /\ \A i \in DOMAIN admitted[k] : admitted[k][i] \in Nat
      /\ \A i \in DOMAIN admitted[k] : admitted[k][i] <= now
  <2>1. now \in Nat /\ at[w] \in Nat /\ Window \in Nat
    BY <1>1, LimiterAssumption DEF TypeOK
  <2>. QED
    BY <1>1, <2>1, AdmittedType DEF IInv, TimeInv
<1>7. pc[w] \in {"fetch"} \cup Holding => info[k] # 0
  BY DEF IInv, ObjectsInv
<1>8. ASSUME Create(w) PROVE KeyInv(k)'
  <2>1. /\ pc[w] = "create" /\ info[k] = 0 /\ admitted[k] = <<>>
        /\ pc'[w] = "fetch" /\ info'[k] = 1 /\ admitted' = admitted
    BY <1>1, <1>8 DEF Create, TypeOK, CheckInv, KeyInv
  <2>. QED
    BY <1>5, <2>1 DEF KeyInv, CheckInv, Holding, Forgotten
<1>9. ASSUME Fetch(w) PROVE KeyInv(k)'
  <2>1. /\ pc[w] = "fetch" /\ UNCHANGED <<info, times, admitted>>
        /\ pc'[w] = "prune" /\ obj'[w] = info[k] /\ at'[w] = now
    BY <1>1, <1>9 DEF Fetch, TypeOK
  <2>2. Forgotten(k)' = Forgotten(k)
    BY <2>1 DEF Forgotten
  <2>. QED
    BY <1>1, <1>3, <1>5, <1>6, <1>7, <2>1, <2>2 DEF KeyInv, CheckInv, Holding
<1>10. ASSUME Prune(w) PROVE KeyInv(k)'
  <2>1. /\ pc[w] = "prune" /\ UNCHANGED <<info, times, admitted, obj, at>>
        /\ pc'[w] = "assign" /\ obj[w] = info[k]
        /\ kept'[w] = {i \in times[k][info[k]] : admitted[k][i] > at[w] - Window}
    BY <1>1, <1>10 DEF Prune, TypeOK, CheckInv, Holding, LiveAt, RequestTimes
  <2>2. times[k][info[k]] \subseteq DOMAIN admitted[k]
    BY <1>1, <1>7, <2>1 DEF TypeOK, Holding
  <2>3. kept'[w] = Promise!InWindow(k, at[w])'
    BY <1>1, <1>6, <2>1, <2>2 DEF Promise!InWindow, CheckInv, Forgotten
  <2>4. Forgotten(k)' = Forgotten(k)
    BY <2>1 DEF Forgotten
  <2>. QED
    BY <1>1, <1>3, <1>5, <2>1, <2>3, <2>4 DEF KeyInv, CheckInv, Holding
<1>11. ASSUME Assign(w) PROVE KeyInv(k)'
  <2>1. /\ pc[w] = "assign" /\ UNCHANGED <<info, admitted, obj, at>>
        /\ pc'[w] = "test" /\ obj[w] = info[k]
        /\ times'[k][info[k]] = Promise!InWindow(k, at[w])
    BY <1>1, <1>7, <1>11 DEF Assign, TypeOK, CheckInv, Holding
  <2>2. Promise!InWindow(k, at[w])' = Promise!InWindow(k, at[w])
    BY <2>1 DEF Promise!InWindow
  <2>3. \A i \in Forgotten(k)' : admitted[k][i] <= now - Window
    BY <1>6, <2>1 DEF Forgotten, Promise!InWindow
  <2>. QED
    BY <1>1, <1>3, <1>5, <2>1, <2>2, <2>3 DEF KeyInv, CheckInv, Holding
<1>12. ASSUME Test(w) PROVE KeyInv(k)'
  <2>1. /\ pc[w] = "test" /\ UNCHANGED <<info, times, admitted, obj, at>> /\ pc'[w] = "append"
        /\ times[k][info[k]] = Promise!InWindow(k, at[w])
        /\ Cardinality(times[k][info[k]]) < LimitOf[k]
    <3>1. pc[w] = "test" /\ obj[w] = info[k] /\ times[k][info[k]] = Promise!InWindow(k, at[w])
      BY <1>1, <1>12 DEF Test, CheckInv, Holding
    <3>2. IsFiniteSet(times[k][info[k]])
      <4>1. IsFiniteSet(1 .. Len(admitted[k]))
        BY <1>1, AdmittedType, FS_Interval
      <4>. QED
        BY <1>1, <3>1, <4>1, AdmittedType, FS_Subset DEF Promise!InWindow
    <3>3. ~(Cardinality(times[k][info[k]]) >= LimitOf[k])
      BY <1>12, <3>1 DEF Test, Full, RequestTimes
    <3>4. Cardinality(times[k][info[k]]) \in Nat /\ LimitOf[k] \in Nat
      BY <3>2, FS_CardinalityType, LimiterAssumption
    <3>. QED
      BY <1>1, <1>12, <3>1, <3>3, <3>4 DEF Test, TypeOK, locals
  <2>2. /\ Promise!InWindow(k, at[w])' = Promise!InWindow(k, at[w])
        /\ Forgotten(k)' = Forgotten(k)
    BY <2>1 DEF Promise!InWindow, Forgotten
  <2>. QED
    BY <1>1, <1>3, <1>5, <2>1, <2>2 DEF KeyInv, CheckInv, Holding
<1>13. ASSUME Refuse(w) PROVE KeyInv(k)'
  <2>1. UNCHANGED <<info, times, admitted>> /\ pc'[w] = "idle"
    BY <1>1, <1>13 DEF Refuse, Return, TypeOK
  <2>2. Forgotten(k)' = Forgotten(k)
    BY <2>1 DEF Forgotten
  <2>. QED
    BY <1>1, <1>3, <1>5, <2>1, <2>2 DEF KeyInv, CheckInv, Holding
<1>14. ASSUME Admit(w) PROVE KeyInv(k)'
  <2>. DEFINE n == Len(admitted[k])
  <2>1. /\ pc[w] = "append" /\ obj[w] = info[k] /\ info' = info /\ pc'[w] = "idle"
        /\ times'[k][info[k]] = times[k][info[k]] \cup {n + 1}
        /\ admitted'[k] = Append(admitted[k], at[w])
    BY <1>1, <1>7, <1>14 DEF Admit, Return, TypeOK, CheckInv, Holding
  <2>2. /\ n \in Nat /\ DOMAIN admitted[k] = 1 .. n
        /\ DOMAIN admitted'[k] = (1 .. n) \cup {n + 1}
        /\ \A i \in 1 .. n : admitted'[k][i] = admitted[k][i]
        /\ admitted'[k][n + 1] = at[w] /\ admitted'[k] # <<>>
    BY <1>1, <1>6, <2>1, AdmittedType
  <2>3. \A i \in 1 .. n : admitted[k][i] <= at[w]
    BY <1>1, <2>1, <2>2 DEF CheckInv, Holding
  <2>4. \A i, j \in DOMAIN admitted'[k] : i <= j => admitted'[k][i] <= admitted'[k][j]
    BY <1>1, <1>6, <2>2, <2>3 DEF KeyInv
  <2>5. Forgotten(k)' \subseteq Forgotten(k)
    BY <2>1, <2>2 DEF Forgotten
  <2>6. \A i \in Forgotten(k)' : admitted'[k][i] <= now - Window
    <3>1. \A i \in Forgotten(k) : i \in 1 .. n /\ admitted[k][i] <= now - Window
      BY <1>1, <1>7, <2>1, <2>2 DEF KeyInv, Forgotten, Holding
    <3>. QED
      BY <2>2, <2>5, <3>1
  <2>7. info[k] # 0
    BY <1>7, <2>1 DEF Holding
  <2>8. CheckInv(w, k)'
    BY <2>1 DEF CheckInv, Holding
  <2>. QED
    BY <1>3, <1>5, <2>1, <2>4, <2>6, <2>7, <2>8 DEF KeyInv
<1>. QED
  BY <1>8, <1>9, <1>10, <1>11, <1>12, <1>13, <1>14

LEMMA UnracedStep ==
  ASSUME IInv, TypeOK', [Next]_vars
  PROVE  UnracedInv'
<1>. USE DEF Goto
<1>. SUFFICES ASSUME NEW k \in Keys, ~raced'[k] PROVE KeyInv(k)'
  BY DEF UnracedInv
<1>0. TypeOK /\ now \in Nat /\ now' \in Nat
  BY DEF IInv, TypeOK
<1>1. ASSUME NEW w \in Workers, NEW l \in Keys, Begin(w, l) PROVE KeyInv(k)'
  <2>1. /\ pc[w] = "idle" /\ pc' = [pc EXCEPT ![w] = IF info[l] = 0 THEN "create" ELSE "fetch"]
        /\ key' = [key EXCEPT ![w] = l]
        /\ raced' = [raced EXCEPT ![l] = @ \/ \E v \in Workers : pc[v] # "idle" /\ key[v] = l]
        /\ UNCHANGED <<now, info, times, obj, at, kept, admitted>>
    BY <1>1 DEF Begin
  <2>2. ~raced[k] /\ KeyInv(k)
    BY <1>0, <2>1 DEF IInv, UnracedInv, TypeOK
  <2>3. CASE l # k
    BY <1>0, <2>1, <2>2, <2>3, KeyFrame DEF TypeOK
  <2>4. CASE l = k
    <3>1. \A v \in Workers : key[v] = k => pc[v] = "idle"
      BY <1>0, <2>1, <2>4 DEF TypeOK
    <3>2. /\ \A v \in Workers : Busy(v, k)' => v = w
          /\ \A v \in Workers : key'[v] = k => CheckInv(v, k)'
      BY <1>0, <2>1, <2>4, <3>1 DEF Busy, CheckInv, Holding, TypeOK
    <3>3. Forgotten(k)' = Forgotten(k)
      BY <2>1 DEF Forgotten
    <3>. QED
      BY <2>1, <2>2, <3>2, <3>3 DEF KeyInv
  <2>. QED
    BY <2>3, <2>4
<1>2. ASSUME NEW w \in Workers,
             \/ Create(w) \/ Fetch(w) \/ Prune(w) \/ Assign(w)
             \/ Test(w) \/ Refuse(w) \/ Admit(w)
      PROVE  KeyInv(k)'
  <2>1. raced' = raced /\ key' = key /\ now' = now /\ KeyInv(k)
    BY <1>2 DEF Create, Fetch, Prune, Assign, Test, Refuse, Admit, locals, IInv, UnracedInv
  <2>2. CASE key[w] = k
    BY <1>2, <2>1, <2>2, OwnStep
  <2>3. CASE key[w] # k
    <3>1. info'[k] = info[k] /\ times'[k] = times[k] /\ admitted'[k] = admitted[k]
      BY <1>0, <1>2, <2>3
      DEF Create, Fetch, Prune, Assign, Test, Refuse, Admit, locals, TypeOK
    <3>2. \A v \in Workers : v # w =>
            /\ pc'[v] = pc[v] /\ obj'[v] = obj[v] /\ at'[v] = at[v] /\ kept'[v] = kept[v]
      BY <1>0, <1>2
      DEF Create, Fetch, Prune, Assign, Test, Refuse, Admit, Return, locals, TypeOK
    <3>. QED
      BY <1>0, <2>1, <2>3, <3>1, <3>2, KeyFrame
  <2>. QED
    BY <2>2, <2>3
<1>3. CASE Tick \/ UNCHANGED vars
  <2>1. /\ now <= now'
        /\ UNCHANGED <<raced, key, info, times, admitted, pc, obj, at, kept>>
    BY <1>0, <1>3 DEF Tick, vars, locals
  <2>. QED
    BY <1>0, <2>1, KeyFrame DEF IInv, UnracedInv
<1>. QED
  BY <1>1, <1>2, <1>3 DEF Next

LEMMA NextIInv == IInv /\ [Next]_vars => IInv'
BY TypeStep, ObjectsStep, TimeStep, UnracedStep DEF IInv

\* The limiter's invariant holds of every interleaving of check and is_allowed.
THEOREM Inductive == Spec => []IInv
BY InitIInv, NextIInv, PTL DEF Spec

-----------------------------------------------------------------------------
(***************************************************************************)
(* Every step is a step of the sliding window, or a stutter of it.         *)
(***************************************************************************)
\* The window counts with the same operator.
LEMMA SameCardinality ==
  ASSUME NEW S
  PROVE  Promise!Cardinality(S) = Cardinality(S)
BY DEF Promise!Cardinality, Cardinality

LEMMA PromiseInit == Init => Promise!Init
BY DEF Init, Promise!Init, RacedKeys

LEMMA PromiseStep ==
  ASSUME IInv, [Next]_vars
  PROVE  [Promise!Next]_<<admitted, RacedKeys>>
<1>. USE DEF Goto
<1>0. TypeOK
  BY DEF IInv
<1>1. ASSUME NEW w \in Workers, NEW k \in Keys, Begin(w, k)
      PROVE  [Promise!Next]_<<admitted, RacedKeys>>
  <2>1. admitted' = admitted /\ RacedKeys' \in {RacedKeys, RacedKeys \cup {k}}
    BY <1>0, <1>1 DEF Begin, RacedKeys, TypeOK
  <2>2. RacedKeys' = RacedKeys \cup {k} => Promise!Spoil(k)
    BY <2>1 DEF Promise!Spoil, RacedKeys
  <2>. QED
    BY <2>1, <2>2 DEF Promise!Next
<1>2. ASSUME NEW w \in Workers, Admit(w)
      PROVE  [Promise!Next]_<<admitted, RacedKeys>>
  <2>. PICK k \in Keys : k = key[w]
    BY <1>0 DEF TypeOK
  <2>1. /\ pc[w] = "append" /\ raced' = raced /\ at[w] \in 0 .. MaxTime
        /\ admitted' = [admitted EXCEPT ![k] = Append(@, at[w])]
    BY <1>0, <1>2 DEF Admit, TypeOK
  <2>2. ~raced[k] => CheckInv(w, k)
    BY DEF IInv, UnracedInv, KeyInv
  <2>3. k \notin RacedKeys =>
          /\ Cardinality(Promise!InWindow(k, at[w])) < LimitOf[k]
          /\ \A i \in DOMAIN admitted[k] : admitted[k][i] <= at[w]
    BY <2>1, <2>2 DEF CheckInv, Holding, RacedKeys
  <2>4. \E t \in 0 .. MaxTime :
          /\ k \notin RacedKeys =>
               /\ Cardinality(Promise!InWindow(k, t)) < LimitOf[k]
               /\ \A i \in DOMAIN admitted[k] : admitted[k][i] <= t
          /\ admitted' = [admitted EXCEPT ![k] = Append(@, t)]
    BY <2>1, <2>3
  <2>5. UNCHANGED RacedKeys
    BY <2>1 DEF RacedKeys
  <2>6. Promise!Admit(k)
    BY <2>4, <2>5, SameCardinality DEF Promise!Admit
  <2>. QED
    BY <2>6 DEF Promise!Next
<1>3. ASSUME NEW w \in Workers,
             Create(w) \/ Fetch(w) \/ Prune(w) \/ Assign(w) \/ Test(w) \/ Refuse(w)
      PROVE  UNCHANGED <<admitted, RacedKeys>>
  BY <1>3 DEF Create, Fetch, Prune, Assign, Test, Refuse, RacedKeys
<1>4. CASE Tick \/ UNCHANGED vars
  BY <1>4 DEF Tick, vars, RacedKeys
<1>. QED
  BY <1>1, <1>2, <1>3, <1>4 DEF Next

\* The limiter of the REST service implements the sliding window, key by key,
\* until two checks of a key are in progress at once (_RateLimiter.check).
THEOREM ImplementsTheWindow == Spec => ImplementsWindow
<1>1. IInv /\ [Next]_vars => [Promise!Next]_<<admitted, RacedKeys>>
  BY PromiseStep
<1>. QED
  BY <1>1, Inductive, PromiseInit, PTL DEF Spec, ImplementsWindow, Promise!Spec

-----------------------------------------------------------------------------
(***************************************************************************)
(* What the promise amounts to (SlidingWindow).                            *)
(***************************************************************************)
\* A request that finds room brings its window to the limit at most: the new
\* window is the one that was tested and the request itself.
LEMMA RoomForOne ==
  ASSUME NEW s \in Seq(Int), NEW t \in Int, NEW limit \in Nat, Window \in Nat \ {0},
         Cardinality({i \in DOMAIN s : s[i] > t - Window}) < limit
  PROVE  Cardinality({j \in 1 .. Len(s) + 1 : Append(s, t)[j] > t - Window}) <= limit
<1>. DEFINE old == {i \in 1 .. Len(s) : s[i] > t - Window}
            new == {j \in 1 .. Len(s) + 1 : Append(s, t)[j] > t - Window}
<1>1. /\ Len(s) \in Nat /\ DOMAIN s = 1 .. Len(s)
      /\ \A i \in 1 .. Len(s) : Append(s, t)[i] = s[i]
      /\ Append(s, t)[Len(s) + 1] = t
  OBVIOUS
<1>2. new = old \cup {Len(s) + 1}
  <2>1. 1 .. Len(s) + 1 = (1 .. Len(s)) \cup {Len(s) + 1}
    BY <1>1
  <2>2. t > t - Window
    OBVIOUS
  <2>. QED
    BY <1>1, <2>1, <2>2
<1>3. IsFiniteSet(old) /\ Len(s) + 1 \notin old
  <2>1. IsFiniteSet(1 .. Len(s))
    BY <1>1, FS_Interval
  <2>. QED
    BY <1>1, <2>1, FS_Subset
<1>4. /\ Cardinality(old) \in Nat
      /\ Cardinality(old \cup {Len(s) + 1}) = Cardinality(old) + 1
  BY <1>3, FS_AddElement, FS_CardinalityType
<1>5. Cardinality(old) < limit
  BY <1>1
<1>6. Cardinality(new) <= limit
  <2>. HIDE DEF old, new
  <2>. QED
    BY <1>2, <1>4, <1>5
<1>. QED
  BY <1>6

\* Until a key leaves the promise, none of its windows exceeds its limit.
THEOREM WindowsAreBounded == Promise!Spec => []Promise!WindowsWithinLimit
<1>. DEFINE Types == admitted \in [Keys -> Seq(Int)]
            Bounded == Promise!WindowsWithinLimit
            Inv == Types /\ Bounded
            Step == [Promise!Next]_<<admitted, RacedKeys>>
<1>0. LimitOf \in [Keys -> Nat] /\ Window \in Nat \ {0}
  BY LimiterAssumption
<1>1. Promise!Init => Inv
  BY DEF Promise!Init, Promise!WindowsWithinLimit
<1>2. Inv /\ Step => Inv'
  <2>. SUFFICES ASSUME Inv, Step PROVE Inv'
    OBVIOUS
  <2>1. ASSUME NEW k \in Keys, Promise!Admit(k) PROVE Inv'
    <3>1. PICK t \in 0 .. MaxTime :
            /\ k \notin RacedKeys => Cardinality(Promise!InWindow(k, t)) < LimitOf[k]
            /\ admitted' = [admitted EXCEPT ![k] = Append(@, t)]
      BY <2>1, SameCardinality DEF Promise!Admit
    <3>2. RacedKeys' = RacedKeys
      BY <2>1 DEF Promise!Admit
    <3>3. /\ admitted[k] \in Seq(Int) /\ t \in Int /\ LimitOf[k] \in Nat
          /\ admitted'[k] = Append(admitted[k], t)
          /\ \A l \in Keys : l # k => admitted'[l] = admitted[l]
      BY <1>0, <3>1
    <3>4. Types'
      BY <3>1, <3>3
    <3>5. ASSUME NEW l \in Keys \ RacedKeys, NEW i \in 1 .. Len(admitted'[l])
          PROVE  Cardinality(Promise!WindowEnding(l, i)') <= LimitOf[l]
      <4>1. CASE l # k
        <5>1. Promise!WindowEnding(l, i)' = Promise!WindowEnding(l, i)
          BY <3>3, <4>1 DEF Promise!WindowEnding
        <5>. QED
          BY <3>3, <3>5, <4>1, <5>1, SameCardinality DEF Promise!WindowsWithinLimit
      <4>2. CASE l = k /\ i \in 1 .. Len(admitted[k])
        <5>1. \A j \in 1 .. i : admitted'[k][j] = admitted[k][j]
          BY <3>3, <4>2
        <5>2. Promise!WindowEnding(k, i)' = Promise!WindowEnding(k, i)
          BY <4>2, <5>1 DEF Promise!WindowEnding
        <5>. QED
          BY <3>5, <4>2, <5>2, SameCardinality DEF Promise!WindowsWithinLimit
      <4>3. CASE l = k /\ i = Len(admitted[k]) + 1
        <5>1. Cardinality({m \in DOMAIN admitted[k] : admitted[k][m] > t - Window})
                < LimitOf[k]
          BY <3>1, <3>5, <4>3 DEF Promise!InWindow
        <5>2. Append(admitted[k], t)[i] = t
          BY <3>3, <4>3
        <5>3. Promise!WindowEnding(k, i)' =
                {j \in 1 .. Len(admitted[k]) + 1 : Append(admitted[k], t)[j] > t - Window}
          BY <3>3, <4>3, <5>2 DEF Promise!WindowEnding
        <5>. QED
          BY <1>0, <3>3, <4>3, <5>1, <5>3, RoomForOne
      <4>. QED
        BY <3>3, <3>5, <4>1, <4>2, <4>3
    <3>6. Bounded'
      BY <3>2, <3>5, SameCardinality DEF Promise!WindowsWithinLimit
    <3>. QED
      BY <3>4, <3>6
  <2>2. ASSUME NEW k \in Keys, Promise!Spoil(k) PROVE Inv'
    BY <2>2 DEF Promise!Spoil, Promise!WindowsWithinLimit, Promise!WindowEnding
  <2>3. CASE UNCHANGED <<admitted, RacedKeys>>
    BY <2>3 DEF Promise!WindowsWithinLimit, Promise!WindowEnding
  <2>. QED
    BY <2>1, <2>2, <2>3 DEF Promise!Next
<1>3. Inv => Bounded
  OBVIOUS
<1>. QED
  BY <1>1, <1>2, <1>3, PTL DEF Promise!Spec

-----------------------------------------------------------------------------
\* Once a key is alone, what it forgot is out of the window: what is live in
\* the table is the window that ends now, and fits in the limit.
LEMMA RemainingIsExact == IInv /\ Promise!WindowsWithinLimit => RemainingExact
<1>. SUFFICES ASSUME IInv, Promise!WindowsWithinLimit,
                     NEW k \in Keys, ~raced[k],
                     \A w \in Workers : pc[w] = "idle" \/ key[w] # k
              PROVE  Remaining(k) = LimitOf[k] - Cardinality(Promise!InWindow(k, now))
  BY DEF RemainingExact, Promise!InWindow
<1>. DEFINE window == Promise!InWindow(k, now)
            last == Len(admitted[k])
<1>1. TypeOK /\ KeyInv(k)
  BY DEF IInv, UnracedInv
<1>2. /\ now \in Nat /\ LimitOf[k] \in Nat /\ Window \in Nat \ {0}
      /\ last \in Nat /\ DOMAIN admitted[k] = 1 .. last
      /\ \A i \in 1 .. last : admitted[k][i] \in Nat /\ admitted[k][i] <= now
  BY <1>1, AdmittedType, LimiterAssumption DEF TypeOK, IInv, TimeInv
<1>3. IsFiniteSet(window) /\ window \subseteq 1 .. last
  <2>1. IsFiniteSet(1 .. last)
    BY <1>2, FS_Interval
  <2>2. window \subseteq 1 .. last
    BY <1>2 DEF Promise!InWindow
  <2>. QED
    BY <2>1, <2>2, FS_Subset
<1>4. Cardinality(window) \in Nat
  BY <1>3, FS_CardinalityType
<1>5. Cardinality(window) <= LimitOf[k]
  <2>1. CASE last = 0
    <3>1. window = {}
      BY <1>2, <1>3, <2>1
    <3>2. Cardinality(window) = 0
      BY <3>1, FS_EmptySet
    <3>. QED
      BY <1>2, <3>2
  <2>2. CASE last # 0
    <3>1. last \in 1 .. last
      BY <1>2, <2>2
    <3>2. window \subseteq Promise!WindowEnding(k, last)
      BY <1>2, <1>3, <3>1 DEF Promise!InWindow, Promise!WindowEnding
    <3>3. IsFiniteSet(Promise!WindowEnding(k, last))
      <4>1. IsFiniteSet(1 .. last)
        BY <1>2, FS_Interval
      <4>2. Promise!WindowEnding(k, last) \subseteq 1 .. last
        BY DEF Promise!WindowEnding
      <4>. QED
        BY <4>1, <4>2, FS_Subset
    <3>4. /\ Cardinality(window) <= Cardinality(Promise!WindowEnding(k, last))
          /\ Cardinality(Promise!WindowEnding(k, last)) \in Nat
      BY <3>2, <3>3, FS_Subset, FS_CardinalityType
    <3>5. Cardinality(Promise!WindowEnding(k, last)) <= LimitOf[k]
      BY <3>1, SameCardinality DEF Promise!WindowsWithinLimit, RacedKeys
    <3>. QED
      BY <1>2, <1>4, <3>4, <3>5
  <2>. QED
    BY <2>1, <2>2
<1>6. CASE info[k] = 0
  <2>1. window = {}
    BY <1>1, <1>2, <1>3, <1>6 DEF KeyInv
  <2>2. Cardinality(window) = 0
    BY <2>1, FS_EmptySet
  <2>. QED
    BY <1>2, <1>6, <2>2 DEF Remaining
<1>7. CASE info[k] # 0
  <2>1. times[k][info[k]] \subseteq 1 .. last
    BY <1>1, <1>2, <1>7 DEF TypeOK
  <2>2. LiveAt(k, times[k][info[k]], now) = window
    BY <1>1, <1>2, <1>7, <2>1 DEF LiveAt, Promise!InWindow, KeyInv, Forgotten
  <2>3. Remaining(k) = LimitOf[k] - Cardinality(window)
    <3>. HIDE DEF window
    <3>. QED
      BY <1>2, <1>4, <1>5, <1>7, <2>2 DEF Remaining
  <2>. QED
    BY <2>3
<1>. QED
  BY <1>6, <1>7

\* The limiter keeps each key that is never raced within its limit, and the
\* status route counts what is left exactly (check, remaining).
THEOREM WindowIsAlwaysKept == Spec => []WindowIsKept
<1>1. IInv /\ Promise!WindowsWithinLimit => WindowIsKept
  BY RemainingIsExact DEF IInv, WindowIsKept, WithinLimitUnlessRaced
<1>2. Spec => []Promise!WindowsWithinLimit
  BY ImplementsTheWindow, WindowsAreBounded, PTL DEF ImplementsWindow
<1>. QED
  BY <1>1, <1>2, Inductive, PTL

LEMMA RefusalStep ==
  ASSUME IInv, NEW w \in Workers, Refuse(w), ~raced[key[w]]
  PROVE  Cardinality({j \in DOMAIN admitted[key[w]] :
                        admitted[key[w]][j] > at[w] - Window}) >= LimitOf[key[w]]
<1>. PICK k \in Keys : k = key[w]
  BY DEF IInv, TypeOK
<1>1. CheckInv(w, k) /\ pc[w] = "test" /\ Full(w)
  BY DEF IInv, UnracedInv, KeyInv, Refuse
<1>2. RequestTimes(w) = Promise!InWindow(k, at[w])
  BY <1>1 DEF CheckInv, Holding, RequestTimes
<1>3. Promise!InWindow(k, at[w]) = {j \in DOMAIN admitted[k] : admitted[k][j] > at[w] - Window}
  BY DEF Promise!InWindow
<1>. QED
  BY <1>1, <1>2, <1>3 DEF Full

\* The limiter implements the sliding window in both directions: it also
\* refuses a request only when the window of its key is full.
THEOREM PromiseIsKept == Spec => LimiterKeepsItsPromise
<1>1. IInv /\ [Next]_vars =>
        [\A w \in Workers :
           (Refuse(w) /\ ~raced[key[w]]) =>
             Cardinality({j \in DOMAIN admitted[key[w]] :
                            admitted[key[w]][j] > at[w] - Window}) >= LimitOf[key[w]]]_vars
  BY RefusalStep
<1>2. Spec => RefusedOnlyWhenFull
  BY <1>1, Inductive, PTL DEF Spec, RefusedOnlyWhenFull
<1>. QED
  BY <1>2, ImplementsTheWindow DEF LimiterKeepsItsPromise

-----------------------------------------------------------------------------
\* A least counterexample: what an induction is made from.
LEMMA Least ==
  ASSUME NEW T, T \subseteq Nat, T # {}
  PROVE  \E i \in T : \A j \in T : i <= j
<1>. DEFINE less == {p \in Nat \X Nat : p[1] < p[2]}
<1>1. IsWellFoundedOn(less, Nat)
  BY NatLessThanWellFounded DEF OpToRel
<1>2. \A i, j \in Nat : <<j, i>> \in less <=> j < i
  OBVIOUS
<1>. HIDE DEF less
<1>3. PICK i \in T : \A j \in T : ~(<<j, i>> \in less)
  BY <1>1, WFMin
<1>4. \A j \in T : ~(j < i)
  BY <1>2, <1>3
<1>5. \A j \in T : j \in Nat /\ i \in Nat
  OBVIOUS
<1>. QED
  BY <1>4, <1>5

\* What holds at 0 and goes from each number to the next holds up to n.
LEMMA Upto ==
  ASSUME NEW n \in Nat, NEW S, 0 \in S, \A k \in 1 .. n : k - 1 \in S => k \in S
  PROVE  \A k \in 0 .. n : k \in S
<1>. DEFINE T == {k \in 0 .. n : k \notin S}
<1>1. SUFFICES ASSUME T # {} PROVE FALSE
  BY Zenon
<1>2. PICK k \in T : \A t \in T : k <= t
  <2>1. T \subseteq Nat
    OBVIOUS
  <2>. HIDE DEF T
  <2>. QED
    BY <1>1, <2>1, Least
<1>3. k \in 1 .. n /\ k - 1 \in 0 .. n
  <2>1. k # 0
    BY Zenon
  <2>. QED
    BY <2>1
<1>4. k - 1 \notin T
  BY <1>2, <1>3
<1>. QED
  BY <1>3, <1>4, Zenon

-----------------------------------------------------------------------------
(***************************************************************************)
(* The lines of a script.                                                  *)
(***************************************************************************)
Lines(sc, m, last) == last = [i \in 0 .. m |-> IF i = 0 THEN 0 ELSE last[i - 1] + sc[i].lines]

LEMMA LinesExtend ==
  ASSUME NEW sc, NEW k \in Nat, k # 0, NEW last, Lines(sc, k - 1, last)
  PROVE  \E more : Lines(sc, k, more)
<1>. DEFINE F(j) == IF j = k THEN last[k - 1] + sc[k].lines ELSE last[j]
            more == [j \in 0 .. k |-> F(j)]
            E(j) == IF j = 0 THEN 0 ELSE more[j - 1] + sc[j].lines
<1>1. \A j \in 0 .. k : F(j) = E(j)
  <2>. TAKE j \in 0 .. k
  <2>1. /\ j = k => j # 0
        /\ j # k => j \in 0 .. (k - 1)
        /\ j # 0 => j - 1 \in 0 .. k /\ j - 1 # k
    OBVIOUS
  <2>2. j # k => last[j] = IF j = 0 THEN 0 ELSE last[j - 1] + sc[j].lines
    BY <2>1, Zenon DEF Lines
  <2>3. j # 0 => more[j - 1] = last[j - 1]
    BY <2>1, Zenon
  <2>. HIDE DEF more
  <2>. QED
    BY <2>1, <2>2, <2>3, Zenon
<1>2. more = [j \in 0 .. k |-> E(j)]
  <2>. HIDE DEF F, E
  <2>. QED
    BY <1>1, Zenon
<1>. QED
  BY <1>2, Zenon DEF Lines

LEMMA LinesExist ==
  ASSUME NEW sc, NEW m \in Nat
  PROVE  \E last : Lines(sc, m, last)
<1>. DEFINE S == {k \in Nat : \E last : Lines(sc, k, last)}
<1>1. 0 \in S
  <2>. DEFINE last == [j \in 0 .. 0 |-> 0]
  <2>1. \A j \in 0 .. 0 : j = 0
    OBVIOUS
  <2>2. last = [j \in 0 .. 0 |-> IF j = 0 THEN 0 ELSE last[j - 1] + sc[j].lines]
    BY <2>1, Zenon
  <2>. QED
    BY <2>2, Zenon DEF Lines
<1>2. \A k \in 1 .. m : k - 1 \in S => k \in S
  <2>. SUFFICES ASSUME NEW k \in 1 .. m, k - 1 \in S PROVE k \in S
    BY Zenon
  <2>1. k \in Nat /\ k # 0
    OBVIOUS
  <2>. QED
    BY <2>1, LinesExtend, Zenon
<1>3. m \in 0 .. m
  OBVIOUS
<1>. HIDE DEF S
<1>4. m \in S
  BY <1>1, <1>2, <1>3, Upto
<1>. QED
  BY <1>4, Zenon DEF S

LEMMA LastLineIs ==
  ASSUME NEW sc \in Seq(Sample)
  PROVE  /\ LastLine(sc)[0] = 0
         /\ \A i \in 1 .. Len(sc) : LastLine(sc)[i] = LastLine(sc)[i - 1] + sc[i].lines
<1>. DEFINE m == Len(sc)
            last == CHOOSE f : Lines(sc, m, f)
<1>0. m \in Nat
  OBVIOUS
<1>1. Lines(sc, m, last)
  BY <1>0, LinesExist, Zenon
<1>2. LastLine(sc) = last
  BY Zenon DEF LastLine, Lines
<1>. HIDE DEF last
<1>3. 0 \in 0 .. m /\ \A k \in 1 .. m : k \in 0 .. m /\ k # 0
  BY <1>0
<1>. QED
  BY <1>1, <1>2, <1>3, Zenon DEF Lines

LEMMA StatementShape ==
  ASSUME NEW sc \in Seq(Sample), NEW i \in 1 .. Len(sc)
  PROVE  /\ sc[i] \in Sample
         /\ sc[i].lines \in Nat /\ sc[i].depth \in Nat
<1>1. sc[i] \in Sample
  OBVIOUS
<1>. QED
  BY <1>1, SampleAssumption, Zenon

LEMMA LastLineType ==
  ASSUME NEW sc \in Seq(Sample)
  PROVE  \A i \in 0 .. Len(sc) : LastLine(sc)[i] \in Nat
<1>. DEFINE S == {i \in Nat : LastLine(sc)[i] \in Nat}
            m == Len(sc)
<1>1. 0 \in S
  BY LastLineIs
<1>2. \A k \in 1 .. m : k - 1 \in S => k \in S
  <2>. SUFFICES ASSUME NEW k \in 1 .. m, k - 1 \in S PROVE k \in S
    BY Zenon
  <2>1. sc[k].lines \in Nat
    BY StatementShape
  <2>2. LastLine(sc)[k] = LastLine(sc)[k - 1] + sc[k].lines
    BY LastLineIs
  <2>. QED
    BY <2>1, <2>2
<1>3. m \in Nat
  OBVIOUS
<1>4. \A i \in 0 .. m : i \in S
  <2>. HIDE DEF S, m
  <2>. QED
    BY <1>1, <1>2, <1>3, Upto
<1>. QED
  BY <1>4, Zenon

\* A statement at the end moves no line above it.
LEMMA LastLineOfFront ==
  ASSUME NEW sc \in Seq(Sample), NEW more \in Seq(Sample), Len(sc) <= Len(more),
         \A i \in 1 .. Len(sc) : more[i] = sc[i]
  PROVE  \A i \in 0 .. Len(sc) : LastLine(more)[i] = LastLine(sc)[i]
<1>. DEFINE S == {i \in Nat : LastLine(more)[i] = LastLine(sc)[i]}
            m == Len(sc)
<1>1. 0 \in S
  <2>1. LastLine(more)[0] = 0 /\ LastLine(sc)[0] = 0 /\ 0 \in Nat
    BY LastLineIs
  <2>. QED
    BY <2>1, Zenon
<1>2. \A k \in 1 .. m : k - 1 \in S => k \in S
  <2>. SUFFICES ASSUME NEW k \in 1 .. m, k - 1 \in S PROVE k \in S
    BY Zenon
  <2>0. k \in 1 .. Len(more) /\ k \in Nat
    OBVIOUS
  <2>1. LastLine(sc)[k] = LastLine(sc)[k - 1] + sc[k].lines
    BY LastLineIs
  <2>2. LastLine(more)[k] = LastLine(more)[k - 1] + more[k].lines
    BY <2>0, LastLineIs
  <2>. QED
    BY <2>0, <2>1, <2>2, Zenon
<1>3. m \in Nat
  OBVIOUS
<1>4. \A i \in 0 .. m : i \in S
  <2>. HIDE DEF S, m
  <2>. QED
    BY <1>1, <1>2, <1>3, Upto
<1>. QED
  BY <1>4, Zenon
-----------------------------------------------------------------------------
(***************************************************************************)
(* What a statement is told by itself.                                     *)
(***************************************************************************)
Severity == 1 .. 4
OnItsLines(f, s) == f.severity \in Severity /\ f.line \in 1 .. s.lines

LEMMA ImageIsFinite ==
  ASSUME NEW A, IsFiniteSet(A), NEW g, g = [a \in A |-> g[a]]
  PROVE  IsFiniteSet({g[a] : a \in A})
<1>. DEFINE B == {g[a] : a \in A}
<1>1. g \in Surjection(A, B)
  BY Zenon DEF Surjection
<1>. QED
  BY <1>1, FS_Surjection, Zenon

LEMMA ReportIsFinite ==
  ASSUME NEW rule, NEW severity, NEW nodes, NEW bad \in SUBSET DOMAIN nodes, IsFiniteSet(DOMAIN nodes)
  PROVE  IsFiniteSet(Report(rule, severity, nodes, bad))
<1>. DEFINE g == [k \in bad |-> [rule |-> rule, severity |-> severity, line |-> nodes[k].line, node |-> k]]
<1>1. IsFiniteSet(bad)
  BY FS_Subset
<1>2. Report(rule, severity, nodes, bad) = {g[a] : a \in bad}
  BY Zenon DEF Report
<1>3. g = [a \in bad |-> g[a]]
  BY Zenon
<1>. HIDE DEF g
<1>. QED
  BY <1>1, <1>2, <1>3, ImageIsFinite

LEMMA ReportIs ==
  ASSUME NEW rule, NEW severity \in Severity, NEW nodes, NEW bad \in SUBSET DOMAIN nodes, NEW s,
         \A k \in DOMAIN nodes : nodes[k].line \in 1 .. s.lines
  PROVE  \A f \in Report(rule, severity, nodes, bad) : OnItsLines(f, s)
<1>. DEFINE there(k) == [rule |-> rule, severity |-> severity, line |-> nodes[k].line, node |-> k]
<1>1. \A k \in bad : there(k).severity = severity /\ there(k).line = nodes[k].line
  OBVIOUS
<1>2. \A f \in Report(rule, severity, nodes, bad) : \E k \in bad : f = there(k)
  BY Zenon DEF Report
<1>. HIDE DEF there
<1>. QED
  BY <1>1, <1>2, Zenon DEF OnItsLines

\* Findings of a rule: finitely many, on lines of the statement.
RuleHolds(set, s) == IsFiniteSet(set) /\ \A f \in set : OnItsLines(f, s)

LEMMA EveryRuleHolds ==
  ASSUME NEW s \in Sample
  PROVE  /\ RuleHolds(CartesianJoin(s), s) /\ RuleHolds(Sargable(s), s)
         /\ RuleHolds(NullInSubquery(s), s) /\ RuleHolds(UnboundedSort(s), s)
         /\ RuleHolds(SelectStar(s), s) /\ RuleHolds(JoinTypeCast(s), s)
         /\ RuleHolds(LeadingWildcard(s), s)
<1>1. \A nodes \in {s.joins, s.selects, s.comparisons, s.nots, s.likes} :
        IsFiniteSet(DOMAIN nodes) /\ \A k \in DOMAIN nodes : nodes[k].line \in 1 .. s.lines
  BY SampleAssumption, Zenon
<1>2. ASSUME NEW rule, NEW severity \in Severity,
             NEW nodes \in {s.joins, s.selects, s.comparisons, s.nots, s.likes},
             NEW bad \in SUBSET DOMAIN nodes
      PROVE  RuleHolds(Report(rule, severity, nodes, bad), s)
  BY <1>1, ReportIs, ReportIsFinite, Zenon DEF RuleHolds
<1>3. Critical \in Severity /\ High \in Severity /\ Medium \in Severity
  BY DEF Critical, High, Medium, Severity
<1>4. RuleHolds(CartesianJoin(s), s)
  BY <1>2, <1>3, Zenon DEF CartesianJoin
<1>5. RuleHolds(Sargable(s), s)
  BY <1>2, <1>3, Zenon DEF Sargable
<1>6. RuleHolds(NullInSubquery(s), s)
  BY <1>2, <1>3, Zenon DEF NullInSubquery
<1>7. RuleHolds(UnboundedSort(s), s)
  BY <1>2, <1>3, Zenon DEF UnboundedSort
<1>8. RuleHolds(SelectStar(s), s)
  BY <1>2, <1>3, Zenon DEF SelectStar
<1>9. RuleHolds(JoinTypeCast(s), s)
  BY <1>2, <1>3, Zenon DEF JoinTypeCast
<1>10. RuleHolds(LeadingWildcard(s), s)
  BY <1>2, <1>3, Zenon DEF LeadingWildcard
<1>. QED
  BY <1>4, <1>5, <1>6, <1>7, <1>8, <1>9, <1>10, Zenon

LEMMA LintNodeHolds ==
  ASSUME NEW s \in Sample
  PROVE  RuleHolds(LintNode(s), s)
<1>. DEFINE rules == {CartesianJoin(s), Sargable(s), NullInSubquery(s), UnboundedSort(s),
                      SelectStar(s), JoinTypeCast(s), LeadingWildcard(s)}
<1>1. \A r \in rules : RuleHolds(r, s)
  BY EveryRuleHolds, Zenon
<1>2. IsFiniteSet(rules)
  <2>. DEFINE g == [k \in 1 .. 7 |->
                      CASE k = 1 -> CartesianJoin(s) [] k = 2 -> Sargable(s)
                        [] k = 3 -> NullInSubquery(s) [] k = 4 -> UnboundedSort(s)
                        [] k = 5 -> SelectStar(s) [] k = 6 -> JoinTypeCast(s)
                        [] k = 7 -> LeadingWildcard(s)]
  <2>1. IsFiniteSet(1 .. 7)
    <3>1. 1 \in Int /\ 7 \in Int
      OBVIOUS
    <3>. QED
      BY <3>1, FS_Interval, Zenon
  <2>2. rules = {g[a] : a \in 1 .. 7}
    OBVIOUS
  <2>3. g = [a \in 1 .. 7 |-> g[a]]
    OBVIOUS
  <2>. HIDE DEF g, rules
  <2>. QED
    BY <2>1, <2>2, <2>3, ImageIsFinite
<1>3. IsFiniteSet(UNION rules)
  BY <1>1, <1>2, FS_UNION, Zenon DEF RuleHolds
<1>4. LintNode(s) = UNION rules
  BY Zenon DEF LintNode
<1>. HIDE DEF rules
<1>. QED
  BY <1>1, <1>3, <1>4, Zenon DEF RuleHolds

\* A finding by itself, of a statement that parses or does not.
Own(s) == IF s.ok THEN LintNode(s) ELSE ParserFailure(s)

LEMMA OwnSeverity ==
  ASSUME NEW s \in Sample
  PROVE  \A f \in Own(s) : f.severity \in Severity
<1>1. \A f \in LintNode(s) : f.severity \in Severity
  BY LintNodeHolds, Zenon DEF RuleHolds, OnItsLines
<1>2. \A f \in ParserFailure(s) : f.severity \in Severity
  BY DEF ParserFailure, High, Severity
<1>. QED
  BY <1>1, <1>2, Zenon DEF Own

-----------------------------------------------------------------------------
(***************************************************************************)
(* Beside its neighbours a statement is told the same.                     *)
(***************************************************************************)
Enters(sc, m, mode) ==
  mode = [i \in 0 .. m |-> IF i = 0 THEN "code" ELSE Reads(Leaves(sc[i], mode[i - 1]), "newline")]

LEMMA EntersExtend ==
  ASSUME NEW sc, NEW k \in Nat, k # 0, NEW mode, Enters(sc, k - 1, mode)
  PROVE  \E more : Enters(sc, k, more)
<1>. DEFINE Next0(j, f) == Reads(Leaves(sc[j], f), "newline")
            F(j) == IF j = k THEN Next0(k, mode[k - 1]) ELSE mode[j]
            more == [j \in 0 .. k |-> F(j)]
            E(j) == IF j = 0 THEN "code" ELSE Next0(j, more[j - 1])
<1>1. \A j \in 0 .. k : F(j) = E(j)
  <2>. TAKE j \in 0 .. k
  <2>1. /\ j = k => j # 0
        /\ j # k => j \in 0 .. (k - 1)
        /\ j # 0 => j - 1 \in 0 .. k /\ j - 1 # k
    OBVIOUS
  <2>2. j # k => mode[j] = IF j = 0 THEN "code" ELSE Next0(j, mode[j - 1])
    BY <2>1, Zenon DEF Enters
  <2>3. j # 0 => more[j - 1] = mode[j - 1]
    BY <2>1, Zenon
  <2>. HIDE DEF more
  <2>. QED
    BY <2>1, <2>2, <2>3, Zenon
<1>2. more = [j \in 0 .. k |-> E(j)]
  <2>. HIDE DEF F, E
  <2>. QED
    BY <1>1, Zenon
<1>. QED
  BY <1>2, Zenon DEF Enters

LEMMA EntersExist ==
  ASSUME NEW sc, NEW m \in Nat
  PROVE  \E mode : Enters(sc, m, mode)
<1>. DEFINE S == {k \in Nat : \E mode : Enters(sc, k, mode)}
<1>1. 0 \in S
  <2>. DEFINE mode == [j \in 0 .. 0 |-> "code"]
  <2>1. \A j \in 0 .. 0 : j = 0
    OBVIOUS
  <2>2. mode = [j \in 0 .. 0 |-> IF j = 0 THEN "code" ELSE Reads(Leaves(sc[j], mode[j - 1]), "newline")]
    BY <2>1, Zenon
  <2>. QED
    BY <2>2, Zenon DEF Enters
<1>2. \A k \in 1 .. m : k - 1 \in S => k \in S
  <2>. SUFFICES ASSUME NEW k \in 1 .. m, k - 1 \in S PROVE k \in S
    BY Zenon
  <2>1. k \in Nat /\ k # 0
    OBVIOUS
  <2>. QED
    BY <2>1, EntersExtend, Zenon
<1>3. m \in 0 .. m
  OBVIOUS
<1>. HIDE DEF S
<1>4. m \in S
  BY <1>1, <1>2, <1>3, Upto
<1>. QED
  BY <1>4, Zenon DEF S

LEMMA EnteringIs ==
  ASSUME NEW sc \in Seq(Sample)
  PROVE  /\ Entering(sc)[0] = "code"
         /\ \A i \in 1 .. Len(sc) : Entering(sc)[i] = Reads(Leaves(sc[i], Entering(sc)[i - 1]), "newline")
<1>. DEFINE m == Len(sc)
            mode == CHOOSE f : Enters(sc, m, f)
<1>0. m \in Nat
  OBVIOUS
<1>1. Enters(sc, m, mode)
  BY <1>0, EntersExist, Zenon
<1>2. Entering(sc) = mode
  BY Zenon DEF Entering, Enters
<1>. HIDE DEF mode
<1>3. 0 \in 0 .. m /\ \A k \in 1 .. m : k \in 0 .. m /\ k # 0
  BY <1>0
<1>. QED
  BY <1>1, <1>2, <1>3, Zenon DEF Enters

\* After closed statements the splitter is where a statement begins.
LEMMA ClosedPrefix ==
  ASSUME NEW sc \in Seq(Sample), NEW n \in 0 .. Len(sc), \A j \in 1 .. n : Closed(sc[j])
  PROVE  \A j \in 0 .. n : Entering(sc)[j] = "code" /\ Cut(sc, j)
<1>. DEFINE S == {j \in Nat : Entering(sc)[j] = "code"}
<1>1. 0 \in S
  BY EnteringIs
<1>2. \A k \in 1 .. n : k - 1 \in S => k \in S
  <2>. SUFFICES ASSUME NEW k \in 1 .. n, k - 1 \in S PROVE k \in S
    BY Zenon
  <2>0. k \in 1 .. Len(sc) /\ k \in Nat
    OBVIOUS
  <2>1. Leaves(sc[k], Entering(sc)[k - 1]) = "code"
    BY Zenon DEF Closed
  <2>2. Reads("code", "newline") = "code"
    BY DEF Reads, Ending
  <2>. QED
    BY <2>0, <2>1, <2>2, EnteringIs, Zenon
<1>3. n \in Nat
  OBVIOUS
<1>4. \A j \in 0 .. n : j \in S
  <2>. HIDE DEF S
  <2>. QED
    BY <1>1, <1>2, <1>3, Upto
<1>5. ASSUME NEW j \in 0 .. n PROVE Cut(sc, j)
  <2>1. CASE j = 0
    BY <2>1 DEF Cut
  <2>2. CASE j # 0
    <3>1. j \in 1 .. n /\ j - 1 \in 0 .. n
      BY <2>2
    <3>. QED
      BY <1>4, <3>1, Zenon DEF Cut, Closed
  <2>. QED
    BY <2>1, <2>2
<1>. QED
  BY <1>4, <1>5, Zenon

LEMMA MinOfOne ==
  ASSUME NEW n \in Nat
  PROVE  Min({n}) = n
BY DEF Min

\* A statement with a piece of its own is told what it is told alone.
LEMMA OwnPiece ==
  ASSUME NEW sc \in Seq(Sample), NEW i \in 1 .. Len(sc),
         ~sc[i].ok \/ ~CutWithin(sc[i], Entering(sc)[i - 1])
  PROVE  RunParse(sc, <<i, i>>) = InFile(Own(sc[i]), i, 0)
<1>. DEFINE r == <<i, i>>
            above(j) == LastLine(sc)[j - 1] - LastLine(sc)[r[1] - 1]
            first == Min(Faulty(sc, r))
<1>1. r[1] = i /\ r[2] = i /\ \A j : j \in i .. i <=> j = i
  OBVIOUS
<1>2. above(i) = 0
  <2>1. i - 1 \in 0 .. Len(sc)
    OBVIOUS
  <2>2. LastLine(sc)[i - 1] \in Nat
    BY <2>1, LastLineType
  <2>. QED
    BY <1>1, <2>2
<1>3. Faulty(sc, r) = IF sc[i].ok THEN {} ELSE {i}
  BY <1>1 DEF Faulty
<1>4. RunParse(sc, r) = IF Faulty(sc, r) = {} THEN UNION {InFile(LintNode(sc[j]), j, above(j)) : j \in r[1] .. r[2]}
                        ELSE InFile(ParserFailure(sc[first]), first, above(first))
  BY Zenon DEF RunParse
<1>5. RunParse(sc, <<i, i>>) = RunParse(sc, r)
  OBVIOUS
<1>6. CASE sc[i].ok
  <2>1. Faulty(sc, r) = {} /\ Own(sc[i]) = LintNode(sc[i])
    BY <1>3, <1>6 DEF Own
  <2>2. {InFile(LintNode(sc[j]), j, above(j)) : j \in r[1] .. r[2]} = {InFile(LintNode(sc[i]), i, above(i))}
    <3>. HIDE DEF above
    <3>. QED
      BY <1>1, Zenon
  <2>3. \A S : UNION {S} = S
    OBVIOUS
  <2>. HIDE DEF above, first, r
  <2>. QED
    BY <1>2, <1>4, <1>5, <2>1, <2>2, <2>3, Zenon
<1>7. CASE ~sc[i].ok
  <2>1. Faulty(sc, r) = {i} /\ {i} # {}
    BY <1>3, <1>7
  <2>2. first = i
    <3>1. i \in Nat
      OBVIOUS
    <3>. QED
      BY <2>1, <3>1, MinOfOne, Zenon
  <2>3. Own(sc[i]) = ParserFailure(sc[i])
    BY <1>7 DEF Own
  <2>. HIDE DEF above, first, r
  <2>. QED
    BY <1>2, <1>4, <1>5, <2>1, <2>2, <2>3, Zenon
<1>. QED
  BY <1>6, <1>7

Above(sc, i) == IF Parses(sc) THEN LastLine(sc)[i - 1] ELSE 0

\* What is told of a known statement.
LEMMA KnownFindings ==
  ASSUME NEW sc \in Seq(Sample), NEW i \in Known(sc)
  PROVE  InFile(Own(sc[i]), i, Above(sc, i)) \subseteq Findings(sc)
<1>0. i \in DOMAIN sc /\ i \in 1 .. Len(sc)
  BY DEF Known
<1>1. CASE Parses(sc)
  <2>1. Own(sc[i]) = LintNode(sc[i]) /\ Above(sc, i) = LastLine(sc)[i - 1]
    BY <1>0, <1>1, Zenon DEF Parses, Own, Above
  <2>. QED
    BY <1>0, <1>1, <2>1, Zenon DEF Findings, WholeParse
<1>2. CASE ~Parses(sc)
  <2>1. i \in 0 .. Len(sc) /\ \A j \in 1 .. i : Closed(sc[j])
    BY <1>0, <1>2 DEF Known
  <2>2. \A j \in 0 .. i : Entering(sc)[j] = "code" /\ Cut(sc, j)
    BY <2>1, ClosedPrefix
  <2>3. i \in 1 .. i /\ i \in 0 .. i /\ i - 1 \in 0 .. i
    BY <1>0
  <2>4. ~CutWithin(sc[i], Entering(sc)[i - 1])
    BY <2>1, <2>2, <2>3, Zenon DEF Closed
  <2>5. RunParse(sc, <<i, i>>) = InFile(Own(sc[i]), i, 0)
    BY <1>0, <2>4, OwnPiece
  <2>6. <<i, i>> \in Runs(sc)
    <3>1. Cut(sc, i - 1) /\ Cut(sc, i)
      BY <2>2, <2>3, Zenon
    <3>2. \A j \in i .. i - 1 : FALSE
      BY <1>0
    <3>. QED
      BY <1>0, <3>1, <3>2 DEF Runs
  <2>7. Above(sc, i) = 0
    BY <1>2 DEF Above
  <2>. QED
    BY <1>2, <2>5, <2>6, <2>7, Zenon DEF Findings, SplitParse
<1>. QED
  BY <1>1, <1>2

\* If all are known, nothing else is told.
LEMMA FindingsAre ==
  ASSUME NEW sc \in Seq(Sample), Known(sc) = DOMAIN sc
  PROVE  Findings(sc) = UNION {InFile(Own(sc[i]), i, Above(sc, i)) : i \in DOMAIN sc}
<1>1. CASE Parses(sc)
  <2>1. \A i \in DOMAIN sc : Own(sc[i]) = LintNode(sc[i]) /\ Above(sc, i) = LastLine(sc)[i - 1]
    BY <1>1, Zenon DEF Parses, Own, Above
  <2>. QED
    BY <1>1, <2>1, Zenon DEF Findings, WholeParse
<1>2. CASE ~Parses(sc)
  <2>1. DOMAIN sc = 1 .. Len(sc) /\ Len(sc) \in Nat
    OBVIOUS
  <2>2. \A j \in 1 .. Len(sc) : Closed(sc[j])
    <3>1. \A i \in 1 .. Len(sc) : i \in 1 .. i
      BY <2>1
    <3>. QED
      BY <1>2, <2>1, <3>1, Zenon DEF Known
  <2>3. Len(sc) \in 0 .. Len(sc)
    BY <2>1
  <2>4. \A j \in 0 .. Len(sc) : Entering(sc)[j] = "code" /\ Cut(sc, j)
    BY <2>2, <2>3, ClosedPrefix
  <2>5. \A i \in 1 .. Len(sc) : i - 1 \in 0 .. Len(sc) /\ i \in 0 .. Len(sc)
    BY <2>1
  <2>6. \A i \in 1 .. Len(sc) : RunParse(sc, <<i, i>>) = InFile(Own(sc[i]), i, 0) /\ Above(sc, i) = 0
    <3>. SUFFICES ASSUME NEW i \in 1 .. Len(sc)
                  PROVE  RunParse(sc, <<i, i>>) = InFile(Own(sc[i]), i, 0) /\ Above(sc, i) = 0
      BY Zenon
    <3>1. ~CutWithin(sc[i], Entering(sc)[i - 1])
      BY <2>2, <2>4, <2>5, Zenon DEF Closed
    <3>. QED
      BY <1>2, <3>1, OwnPiece DEF Above
  <2>7. Runs(sc) = {<<i, i>> : i \in DOMAIN sc}
    <3>1. ASSUME NEW r \in Runs(sc) PROVE \E i \in DOMAIN sc : r = <<i, i>>
      <4>1. /\ r \in (DOMAIN sc) \X (DOMAIN sc) /\ r[1] <= r[2]
            /\ \A i \in r[1] .. r[2] - 1 : ~Cut(sc, i)
        BY <3>1, Zenon DEF Runs
      <4>2. r[1] \in 1 .. Len(sc) /\ r[2] \in 1 .. Len(sc) /\ r = <<r[1], r[2]>>
        BY <2>1, <4>1
      <4>3. r[1] \in 0 .. Len(sc) /\ Cut(sc, r[1])
        BY <2>4, <2>5, <4>2
      <4>4. r[1] = r[2]
        BY <2>1, <4>1, <4>2, <4>3
      <4>. QED
        BY <2>1, <4>2, <4>4, Zenon
    <3>2. ASSUME NEW i \in DOMAIN sc PROVE <<i, i>> \in Runs(sc)
      <4>1. Cut(sc, i - 1) /\ Cut(sc, i)
        BY <2>1, <2>4, <2>5, Zenon
      <4>2. (\A j \in i .. i - 1 : FALSE) /\ i <= i
        BY <2>1
      <4>. QED
        BY <4>1, <4>2 DEF Runs
    <3>. QED
      BY <3>1, <3>2, Zenon
  <2>8. {RunParse(sc, r) : r \in Runs(sc)} = {InFile(Own(sc[i]), i, Above(sc, i)) : i \in DOMAIN sc}
    <3>1. \A r \in Runs(sc) : \E i \in DOMAIN sc : RunParse(sc, r) = InFile(Own(sc[i]), i, Above(sc, i))
      BY <2>1, <2>6, <2>7, Zenon
    <3>2. \A i \in DOMAIN sc : <<i, i>> \in Runs(sc) /\ RunParse(sc, <<i, i>>) = InFile(Own(sc[i]), i, Above(sc, i))
      BY <2>1, <2>6, <2>7, Zenon
    <3>. QED
      BY <3>1, <3>2, Zenon
  <2>. QED
    BY <1>2, <2>8, Zenon DEF Findings, SplitParse
<1>. QED
  BY <1>1, <1>2, Zenon

\* A finding that fails the gate.
Fails(f) == f.severity >= options.min /\ f.severity >= options.failOn

LEMMA InFileFails ==
  ASSUME NEW found, NEW i, NEW above
  PROVE  (\E g \in InFile(found, i, above) : Fails(g)) <=> \E f \in found : Fails(f)
<1>. DEFINE there(f) == [rule |-> f.rule, severity |-> f.severity, line |-> f.line + above, node |-> <<i, f.node>>]
<1>1. \A f : there(f).severity = f.severity
  OBVIOUS
<1>2. \A f : Fails(there(f)) <=> Fails(f)
  BY <1>1, Zenon DEF Fails
<1>3. \A g : g \in InFile(found, i, above) <=> \E f \in found : g = there(f)
  BY Zenon DEF InFile
<1>. HIDE DEF there
<1>. QED
  BY <1>2, <1>3, Zenon

LEMMA FailsStatementwise ==
  ASSUME NEW sc \in Seq(Sample), Known(sc) = DOMAIN sc
  PROVE  (\E g \in Findings(sc) : Fails(g)) <=> \E i \in DOMAIN sc : \E f \in Own(sc[i]) : Fails(f)
<1>1. \A g : g \in Findings(sc) <=> \E i \in DOMAIN sc : g \in InFile(Own(sc[i]), i, Above(sc, i))
  <2>1. Findings(sc) = UNION {InFile(Own(sc[i]), i, Above(sc, i)) : i \in DOMAIN sc}
    BY FindingsAre
  <2>. QED
    BY <2>1, Zenon
<1>2. \A i : (\E g \in InFile(Own(sc[i]), i, Above(sc, i)) : Fails(g)) <=> \E f \in Own(sc[i]) : Fails(f)
  BY InFileFails, Zenon
<1>. QED
  BY <1>1, <1>2, Zenon

LEMMA FailsAlone ==
  ASSUME NEW s \in Sample
  PROVE  (\E g \in Findings(<<s>>) : Fails(g)) <=> \E f \in Own(s) : Fails(f)
<1>. DEFINE sc == <<s>>
<1>1. sc \in Seq(Sample) /\ DOMAIN sc = {1} /\ sc[1] = s /\ Len(sc) = 1
  OBVIOUS
<1>. HIDE DEF sc
<1>2. CASE s.ok
  <2>1. Parses(sc)
    BY <1>1, <1>2, Zenon DEF Parses
  <2>2. Known(sc) = DOMAIN sc
    BY <2>1, Zenon DEF Known
  <2>. QED
    BY <1>1, <2>2, FailsStatementwise, Zenon DEF sc
<1>3. CASE ~s.ok
  <2>1. ~Parses(sc)
    BY <1>1, <1>3, Zenon DEF Parses
  <2>2. RunParse(sc, <<1, 1>>) = InFile(Own(sc[1]), 1, 0)
    <3>1. 1 \in 1 .. Len(sc)
      BY <1>1
    <3>. QED
      BY <1>1, <1>3, <3>1, OwnPiece
  <2>3. Runs(sc) = {<<1, 1>>}
    <3>1. Cut(sc, 1 - 1) /\ Cut(sc, 1)
      BY <1>1 DEF Cut
    <3>. QED
      BY <1>1, <3>1 DEF Runs
  <2>4. Findings(sc) = InFile(Own(s), 1, 0)
    BY <1>1, <2>1, <2>2, <2>3 DEF Findings, SplitParse
  <2>. QED
    BY <2>4, InFileFails, Zenon DEF sc
<1>. QED
  BY <1>2, <1>3

LEMMA WorstIs ==
  ASSUME NEW found, \A f \in found : f.severity \in Severity, NEW bar \in Nat, bar # 0
  PROVE  Worst(found) >= bar <=> \E f \in found : f.severity >= bar
<1>. DEFINE S == {0} \cup {f.severity : f \in found}
<1>1. S \subseteq 0 .. 4 /\ 0 \in S
  BY DEF Severity
<1>2. \E x \in S : \A y \in S : x >= y
  <2>. HIDE DEF S
  <2>1. CASE 4 \in S
    BY <1>1, <2>1
  <2>2. CASE 4 \notin S /\ 3 \in S
    BY <1>1, <2>2
  <2>3. CASE 4 \notin S /\ 3 \notin S /\ 2 \in S
    BY <1>1, <2>3
  <2>4. CASE 4 \notin S /\ 3 \notin S /\ 2 \notin S /\ 1 \in S
    BY <1>1, <2>4
  <2>5. CASE 4 \notin S /\ 3 \notin S /\ 2 \notin S /\ 1 \notin S
    BY <1>1, <2>5
  <2>. QED
    BY <2>1, <2>2, <2>3, <2>4, <2>5, Zenon
<1>3. Worst(found) = Max(S)
  BY Zenon DEF Worst
<1>4. Max(S) \in S /\ \A y \in S : Max(S) >= y
  <2>. HIDE DEF S
  <2>. QED
    BY <1>2, Zenon DEF Max
<1>. DEFINE m == Max(S)
<1>5. m \in 0 .. 4
  <2>. HIDE DEF m, S
  <2>. QED
    BY <1>1, <1>4 DEF m
<1>6. \A f \in found : f.severity \in 0 .. 4 /\ m >= f.severity
  <2>. TAKE f \in found
  <2>1. f.severity \in S
    BY Zenon
  <2>. HIDE DEF S
  <2>. QED
    BY <1>1, <1>4, <2>1
<1>7. m = 0 \/ \E f \in found : m = f.severity
  BY <1>4, Zenon
<1>. HIDE DEF m
<1>8. ASSUME NEW f \in found, f.severity >= bar PROVE m >= bar
  BY <1>5, <1>6, <1>8
<1>9. ASSUME m >= bar PROVE \E f \in found : f.severity >= bar
  <2>1. m # 0
    BY <1>9
  <2>2. PICK f \in found : m = f.severity
    BY <1>7, <2>1, Zenon
  <2>. QED
    BY <1>9, <2>2, Zenon
<1>. QED
  BY <1>3, <1>8, <1>9, Zenon DEF m

Thresholds == [min : {Low, High}, failOn : {Low, High, Critical}]

Graded(found) == \A f \in found : f.severity \in Severity

LEMMA GradedInFile ==
  ASSUME NEW found, Graded(found), NEW i, NEW above
  PROVE  Graded(InFile(found, i, above))
<1>. DEFINE there(f) == [rule |-> f.rule, severity |-> f.severity, line |-> f.line + above, node |-> <<i, f.node>>]
<1>1. \A f : there(f).severity = f.severity
  OBVIOUS
<1>2. \A g \in InFile(found, i, above) : \E f \in found : g = there(f)
  BY Zenon DEF InFile
<1>. HIDE DEF there
<1>. QED
  BY <1>1, <1>2, Zenon DEF Graded

LEMMA FindingsAreGraded ==
  ASSUME NEW sc \in Seq(Sample)
  PROVE  Graded(Findings(sc))
<1>0. DOMAIN sc = 1 .. Len(sc) /\ \A i \in DOMAIN sc : sc[i] \in Sample
  OBVIOUS
<1>1. \A i \in DOMAIN sc : Graded(LintNode(sc[i]))
  BY <1>0, LintNodeHolds, Zenon DEF RuleHolds, OnItsLines, Graded
<1>2. \A i : Graded(ParserFailure(sc[i]))
  BY DEF ParserFailure, High, Severity, Graded
<1>3. ASSUME NEW g \in WholeParse(sc) PROVE g.severity \in Severity
  <2>1. PICK i \in DOMAIN sc : g \in InFile(LintNode(sc[i]), i, LastLine(sc)[i - 1])
    BY <1>3, Zenon DEF WholeParse
  <2>2. Graded(InFile(LintNode(sc[i]), i, LastLine(sc)[i - 1]))
    BY <1>1, GradedInFile, Zenon
  <2>. QED
    BY <2>1, <2>2, Zenon DEF Graded
<1>4. ASSUME NEW g \in SplitParse(sc) PROVE g.severity \in Severity
  <2>1. PICK r \in Runs(sc) : g \in RunParse(sc, r)
    BY <1>4, Zenon DEF SplitParse
  <2>2. \A i \in r[1] .. r[2] : i \in DOMAIN sc
    BY <1>0, <2>1 DEF Runs
  <2>. DEFINE above(i) == LastLine(sc)[i - 1] - LastLine(sc)[r[1] - 1]
              first == Min(Faulty(sc, r))
  <2>3. \/ g \in UNION {InFile(LintNode(sc[i]), i, above(i)) : i \in r[1] .. r[2]}
        \/ g \in InFile(ParserFailure(sc[first]), first, above(first))
    BY <2>1, Zenon DEF RunParse
  <2>. HIDE DEF above, first
  <2>4. CASE g \in InFile(ParserFailure(sc[first]), first, above(first))
    <3>1. Graded(InFile(ParserFailure(sc[first]), first, above(first)))
      BY <1>2, GradedInFile, Zenon
    <3>. QED
      BY <2>4, <3>1, Zenon DEF Graded
  <2>5. ASSUME NEW i \in r[1] .. r[2], g \in InFile(LintNode(sc[i]), i, above(i)) PROVE g.severity \in Severity
    <3>1. Graded(InFile(LintNode(sc[i]), i, above(i)))
      BY <1>1, <2>2, GradedInFile, Zenon
    <3>. QED
      BY <2>5, <3>1, Zenon DEF Graded
  <2>. QED
    BY <2>3, <2>4, <2>5, Zenon
<1>. QED
  BY <1>3, <1>4, Zenon DEF Findings, Graded

\* The gate fails exactly on a finding that fails it.
LEMMA GateIs ==
  ASSUME NEW sc \in Seq(Sample), options \in Thresholds
  PROVE  Gate(Visible(Findings(sc))) = 1 <=> \E g \in Findings(sc) : Fails(g)
<1>. DEFINE seen == Visible(Findings(sc))
<1>1. options.failOn \in Nat /\ options.failOn # 0
  BY DEF Thresholds, Low, High, Critical
<1>2. \A g \in seen : g.severity \in Severity
  BY FindingsAreGraded, Zenon DEF Visible, Graded
<1>3. Worst(seen) >= options.failOn <=> \E g \in seen : g.severity >= options.failOn
  <2>. HIDE DEF seen
  <2>. QED
    BY <1>1, <1>2, WorstIs, Zenon
<1>4. (\E g \in seen : g.severity >= options.failOn) <=> \E g \in Findings(sc) : Fails(g)
  BY Zenon DEF Visible, Fails
<1>5. Gate(seen) = 1 <=> Worst(seen) >= options.failOn
  <2>. HIDE DEF seen
  <2>. QED
    BY DEF Gate
<1>. HIDE DEF seen
<1>. QED
  BY <1>3, <1>4, <1>5, Zenon DEF seen

-----------------------------------------------------------------------------
(***************************************************************************)
(* The gates.                                                              *)
(***************************************************************************)
GatesInv ==
  /\ script \in Seq(Sample)
  /\ options \in Thresholds
  /\ \A tool \in DOMAIN exits \ {"check"} : exits[tool] = Gate(Visible(Findings(script)))

\* Each exit code was computed from the script that stands there (cli.lint, action.main).
THEOREM GatesInvariant == LSpec => []GatesInv
<1>1. LInit => GatesInv
  <2>. SUFFICES ASSUME LInit PROVE GatesInv
    BY Zenon
  <2>1. script = <<>> /\ script \in Seq(Sample)
    BY DEF LInit
  <2>2. options \in Thresholds
    BY Zenon DEF LInit, Thresholds
  <2>3. DOMAIN exits = {}
    BY DEF LInit
  <2>. QED
    BY <2>1, <2>2, <2>3, Zenon DEF GatesInv
<1>2. GatesInv /\ [LNext]_lvars => GatesInv'
  <2>. SUFFICES ASSUME GatesInv, [LNext]_lvars PROVE GatesInv'
    BY Zenon
  <2>1. ASSUME UNCHANGED <<script, options>>, NEW tool, NEW code, exits' = Exit(tool, code),
               tool = "check" \/ code = Gate(Visible(Findings(script)))
        PROVE  GatesInv'
    <3>0. /\ DOMAIN exits' = DOMAIN exits \cup {tool}
          /\ \A t \in DOMAIN exits \cup {tool} : exits'[t] = IF t = tool THEN code ELSE exits[t]
      <4>1. exits' = [t \in DOMAIN exits \cup {tool} |-> IF t = tool THEN code ELSE exits[t]]
        BY <2>1, Zenon DEF Exit
      <4>. QED
        BY <4>1
    <3>1. ASSUME NEW t \in DOMAIN exits' \ {"check"} PROVE exits'[t] = Gate(Visible(Findings(script)))
      <4>1. t \in DOMAIN exits \cup {tool} /\ t # "check"
        BY <3>0, Zenon
      <4>2. exits'[t] = IF t = tool THEN code ELSE exits[t]
        BY <3>0, <4>1, Zenon
      <4>3. CASE t = tool
        BY <2>1, <4>1, <4>2, <4>3, Zenon
      <4>4. CASE t # tool
        BY <4>1, <4>2, <4>4, Zenon DEF GatesInv
      <4>. QED
        BY <4>3, <4>4, Zenon
    <3>2. Gate(Visible(Findings(script)))' = Gate(Visible(Findings(script)))
      BY <2>1, Zenon DEF Gate, Visible
    <3>. QED
      BY <2>1, <3>1, <3>2, Zenon DEF GatesInv
  <2>2. CASE Lint
    BY <2>1, <2>2, Zenon DEF Lint
  <2>3. CASE Action
    <3>1. LintSource(script).findings = Findings(script)
      BY DEF LintSource
    <3>. QED
      BY <2>1, <2>3, <3>1, Zenon DEF Action
  <2>4. CASE Check
    BY <2>1, <2>4, Zenon DEF Check
  <2>5. ASSUME NEW s \in Sample, Edit(s) PROVE GatesInv'
    <3>1. script' \in Seq(Sample)
      BY <2>5 DEF Edit, GatesInv
    <3>2. DOMAIN exits' = {}
      BY <2>5 DEF Edit
    <3>3. options' = options
      BY <2>5 DEF Edit
    <3>. QED
      BY <3>1, <3>2, <3>3, Zenon DEF GatesInv
  <2>6. CASE UNCHANGED lvars
    <3>1. UNCHANGED <<script, options, exits>>
      BY <2>6 DEF lvars
    <3>2. Gate(Visible(Findings(script)))' = Gate(Visible(Findings(script)))
      BY <3>1, Zenon DEF Gate, Visible
    <3>. QED
      BY <3>1, <3>2, Zenon DEF GatesInv
  <2>. QED
    BY <2>2, <2>3, <2>4, <2>5, <2>6, Zenon DEF LNext
<1>. QED
  BY <1>1, <1>2, PTL DEF LSpec

LEMMA GatesAreStatementwise ==
  ASSUME GatesInv
  PROVE  GateIsStatementwise
<1>. DEFINE fails == \E g \in Findings(script) : Fails(g)
            Bad(i) == \E g \in Findings(<<script[i]>>) : Fails(g)
<1>0. script \in Seq(Sample) /\ \A i \in DOMAIN script : script[i] \in Sample
  BY DEF GatesInv
<1>1. Gate(Visible(Findings(script))) = 1 <=> fails
  BY GateIs, Zenon DEF GatesInv
<1>2. \A i \in DOMAIN script : Bad(i) <=> \E f \in Own(script[i]) : Fails(f)
  BY <1>0, FailsAlone, Zenon
<1>3. ASSUME NEW i \in Known(script), Bad(i) PROVE fails
  <2>1. i \in DOMAIN script
    BY DEF Known
  <2>2. \E f \in Own(script[i]) : Fails(f)
    BY <1>2, <1>3, <2>1, Zenon
  <2>3. \E g \in InFile(Own(script[i]), i, Above(script, i)) : Fails(g)
    BY <2>2, InFileFails, Zenon
  <2>. QED
    BY <1>0, <2>3, KnownFindings, Zenon
<1>4. fails /\ Known(script) = DOMAIN script => \E i \in DOMAIN script : Bad(i)
  BY <1>0, <1>2, FailsStatementwise, Zenon
<1>5. \A tool \in DOMAIN exits \ {"check"} : exits[tool] = 1 <=> fails
  BY <1>1, Zenon DEF GatesInv
<1>. HIDE DEF fails
<1>. QED
  BY <1>3, <1>4, <1>5, Zenon DEF GateIsStatementwise, Fails

LEMMA LinesArePointedAt ==
  ASSUME script \in Seq(Sample)
  PROVE  FindingsPointAtTheirStatement
<1>. SUFFICES ASSUME Parses(script), NEW i \in DOMAIN script, NEW f \in LintNode(script[i])
              PROVE  \E g \in Findings(script) :
                        /\ g.rule = f.rule /\ g.node = <<i, f.node>>
                        /\ g.line \in LastLine(script)[i - 1] + 1 .. LastLine(script)[i]
  BY Zenon DEF FindingsPointAtTheirStatement
<1>. DEFINE above == LastLine(script)[i - 1]
            g == [rule |-> f.rule, severity |-> f.severity, line |-> f.line + above, node |-> <<i, f.node>>]
<1>0. i \in 1 .. Len(script) /\ i - 1 \in 0 .. Len(script)
  OBVIOUS
<1>1. g \in Findings(script)
  <2>1. g \in InFile(LintNode(script[i]), i, above)
    BY Zenon DEF InFile
  <2>. HIDE DEF g
  <2>. QED
    BY <2>1, Zenon DEF Findings, WholeParse
<1>2. g.rule = f.rule /\ g.node = <<i, f.node>> /\ g.line = f.line + above
  OBVIOUS
<1>3. f.line \in 1 .. script[i].lines /\ script[i].lines \in Nat
  <2>1. script[i] \in Sample
    OBVIOUS
  <2>. QED
    BY <1>0, <2>1, LintNodeHolds, StatementShape, Zenon DEF RuleHolds, OnItsLines
<1>4. above \in Nat
  BY <1>0, LastLineType
<1>5. LastLine(script)[i] = above + script[i].lines
  BY <1>0, LastLineIs
<1>6. f.line + above \in above + 1 .. LastLine(script)[i]
  <2>. HIDE DEF above
  <2>. QED
    BY <1>3, <1>4, <1>5
<1>. HIDE DEF g
<1>. QED
  BY <1>1, <1>2, <1>6, Zenon

\* Of a script that grows statement by statement, the gate and the editor are
\* told of each statement what they would be told of it alone, the statements
\* after one that the splitter takes for open apart (lint_source,
\* split_statement_offsets, cli.lint, action.main).
THEOREM LintIsStatementwise == LSpec => []FindingsAreStatementwise
<1>1. GatesInv => FindingsAreStatementwise
  BY GatesAreStatementwise, LinesArePointedAt, Zenon DEF FindingsAreStatementwise, GatesInv
<1>. QED
  BY <1>1, GatesInvariant, PTL

-----------------------------------------------------------------------------
(***************************************************************************)
(* The risk of a script that grows.                                        *)
(***************************************************************************)
LEMMA MinOfTwo ==
  ASSUME NEW a \in Nat, NEW b \in Nat
  PROVE  Min({a, b}) = IF a <= b THEN a ELSE b
<1>. DEFINE S == {a, b}
            m == IF a <= b THEN a ELSE b
<1>1. m \in S /\ \A y \in S : m <= y
  OBVIOUS
<1>2. \A x \in S : (\A y \in S : x <= y) => x = m
  OBVIOUS
<1>. HIDE DEF S, m
<1>3. Min(S) = m
  BY <1>1, <1>2, Zenon DEF Min
<1>. QED
  BY <1>3, Zenon DEF S, m

LEMMA CappedGrows ==
  ASSUME NEW n \in Nat, NEW k \in Nat, n <= k, NEW first \in Nat, NEW more \in Nat, more \in {2, 5},
         NEW cap \in Nat, first >= more
  PROVE  /\ Capped(n, first, more, cap) \in Nat /\ Capped(k, first, more, cap) \in Nat
         /\ Capped(n, first, more, cap) <= Capped(k, first, more, cap)
<1>1. ASSUME NEW i \in Nat
      PROVE  Capped(i, first, more, cap)
               = IF i = 0 THEN 0 ELSE first + more * (IF i - 1 <= cap THEN i - 1 ELSE cap)
  <2>1. CASE i = 0
    BY <2>1, Zenon DEF Capped
  <2>2. CASE i # 0
    <3>1. i - 1 \in Nat
      BY <2>2
    <3>2. Min({i - 1, cap}) = IF i - 1 <= cap THEN i - 1 ELSE cap
      BY <3>1, MinOfTwo
    <3>. QED
      BY <2>2, <3>2, Zenon DEF Capped
  <2>. QED
    BY <2>1, <2>2, Zenon
<1>2. Capped(n, first, more, cap) = IF n = 0 THEN 0 ELSE first + more * (IF n - 1 <= cap THEN n - 1 ELSE cap)
  BY <1>1, Zenon
<1>3. Capped(k, first, more, cap) = IF k = 0 THEN 0 ELSE first + more * (IF k - 1 <= cap THEN k - 1 ELSE cap)
  BY <1>1, Zenon
<1>4. CASE more = 2
  BY <1>2, <1>3, <1>4
<1>5. CASE more = 5
  BY <1>2, <1>3, <1>5
<1>. QED
  BY <1>4, <1>5

LEMMA FindingsAreFinite ==
  ASSUME NEW sc \in Seq(Sample)
  PROVE  IsFiniteSet(WholeParse(sc))
<1>. DEFINE g == [i \in 1 .. Len(sc) |-> InFile(LintNode(sc[i]), i, LastLine(sc)[i - 1])]
<1>1. ASSUME NEW s \in Sample, NEW i, NEW above
      PROVE  IsFiniteSet(InFile(LintNode(s), i, above))
  <2>. DEFINE there == [f \in LintNode(s) |-> [rule |-> f.rule, severity |-> f.severity,
                                               line |-> f.line + above, node |-> <<i, f.node>>]]
  <2>1. IsFiniteSet(LintNode(s))
    BY LintNodeHolds, Zenon DEF RuleHolds
  <2>2. InFile(LintNode(s), i, above) = {there[f] : f \in LintNode(s)}
    BY Zenon DEF InFile
  <2>3. there = [f \in LintNode(s) |-> there[f]]
    BY Zenon
  <2>. HIDE DEF there
  <2>. QED
    BY <2>1, <2>2, <2>3, ImageIsFinite
<1>2. DOMAIN sc = 1 .. Len(sc) /\ Len(sc) \in Nat /\ \A i \in 1 .. Len(sc) : sc[i] \in Sample
  OBVIOUS
<1>3. \A i \in 1 .. Len(sc) : IsFiniteSet(g[i])
  BY <1>1, <1>2, Zenon
<1>4. IsFiniteSet({g[i] : i \in 1 .. Len(sc)})
  <2>1. IsFiniteSet(1 .. Len(sc))
    <3>1. 1 \in Int /\ Len(sc) \in Int
      BY <1>2
    <3>. QED
      BY <3>1, FS_Interval, Zenon
  <2>2. g = [i \in 1 .. Len(sc) |-> g[i]]
    BY Zenon
  <2>. HIDE DEF g
  <2>. QED
    BY <2>1, <2>2, ImageIsFinite
<1>5. IsFiniteSet(UNION {g[i] : i \in 1 .. Len(sc)})
  <2>. HIDE DEF g
  <2>. QED
    BY <1>3, <1>4, FS_UNION, Zenon
<1>6. WholeParse(sc) = UNION {g[i] : i \in 1 .. Len(sc)}
  BY <1>2, Zenon DEF WholeParse
<1>. QED
  BY <1>5, <1>6, Zenon

\* more begins with the statements of sc.
Grown(sc, more) == Len(sc) <= Len(more) /\ \A i \in 1 .. Len(sc) : more[i] = sc[i]

LEMMA FindingsGrow ==
  ASSUME NEW sc \in Seq(Sample), NEW more \in Seq(Sample), Grown(sc, more)
  PROVE  WholeParse(sc) \subseteq WholeParse(more)
<1>1. DOMAIN sc = 1 .. Len(sc) /\ DOMAIN more = 1 .. Len(more)
  OBVIOUS
<1>2. \A i \in 1 .. Len(sc) : i \in 1 .. Len(more) /\ i - 1 \in 0 .. Len(sc)
  BY DEF Grown
<1>3. \A i \in 1 .. Len(sc) : LastLine(more)[i - 1] = LastLine(sc)[i - 1] /\ more[i] = sc[i]
  BY <1>2, LastLineOfFront, Zenon DEF Grown
<1>. QED
  BY <1>1, <1>2, <1>3, Zenon DEF WholeParse

LEMMA CountGrows ==
  ASSUME NEW sc \in Seq(Sample), NEW more \in Seq(Sample), Grown(sc, more), NEW rule
  PROVE  /\ Count(WholeParse(sc), rule) \in Nat /\ Count(WholeParse(more), rule) \in Nat
         /\ Count(WholeParse(sc), rule) <= Count(WholeParse(more), rule)
<1>. DEFINE A == {f \in WholeParse(sc) : f.rule = rule}
            B == {f \in WholeParse(more) : f.rule = rule}
<1>1. A \in SUBSET B
  BY FindingsGrow, Zenon
<1>2. IsFiniteSet(B)
  <2>1. IsFiniteSet(WholeParse(more)) /\ B \in SUBSET WholeParse(more)
    BY FindingsAreFinite, Zenon
  <2>. HIDE DEF B
  <2>. QED
    BY <2>1, FS_Subset
<1>3. Cardinality(A) <= Cardinality(B) /\ IsFiniteSet(A)
  <2>. HIDE DEF A, B
  <2>. QED
    BY <1>1, <1>2, FS_Subset
<1>4. Cardinality(A) \in Nat /\ Cardinality(B) \in Nat
  <2>. HIDE DEF A, B
  <2>. QED
    BY <1>2, <1>3, FS_CardinalityType
<1>. QED
  BY <1>3, <1>4, Zenon DEF Count

\* The deepest of the trees.
Depths(trees) == {0} \cup {trees[i].depth : i \in DOMAIN trees}

LEMMA DepthsBounded ==
  ASSUME NEW sc \in Seq(Sample)
  PROVE  \E m \in Nat : \A i \in 1 .. Len(sc) : sc[i].depth <= m
<1>. DEFINE S == {k \in Nat : \E m \in Nat : \A i \in 1 .. k : sc[i].depth <= m}
            n == Len(sc)
<1>1. 0 \in S
  OBVIOUS
<1>2. \A k \in 1 .. n : k - 1 \in S => k \in S
  <2>. SUFFICES ASSUME NEW k \in 1 .. n, k - 1 \in S PROVE k \in S
    BY Zenon
  <2>1. PICK m \in Nat : \A i \in 1 .. k - 1 : sc[i].depth <= m
    BY Zenon
  <2>2. sc[k].depth \in Nat
    BY StatementShape
  <2>3. \A i \in 1 .. k : sc[i].depth \in Nat
    <3>1. \A i \in 1 .. k : i \in 1 .. n
      OBVIOUS
    <3>. QED
      BY <3>1, StatementShape, Zenon
  <2>. DEFINE b == IF sc[k].depth <= m THEN m ELSE sc[k].depth
  <2>4. b \in Nat /\ m <= b /\ sc[k].depth <= b
    BY <2>2
  <2>5. \A i \in 1 .. k : sc[i].depth <= b
    <3>. TAKE i \in 1 .. k
    <3>1. CASE i = k
      BY <2>4, <3>1
    <3>2. CASE i # k
      <4>1. i \in 1 .. k - 1
        BY <3>2
      <4>2. sc[i].depth <= m /\ sc[i].depth \in Nat
        BY <2>1, <2>3, <4>1
      <4>. QED
        BY <2>4, <4>2
    <3>. QED
      BY <3>1, <3>2
  <2>6. k \in Nat
    OBVIOUS
  <2>. HIDE DEF b
  <2>. QED
    BY <2>4, <2>5, <2>6, Zenon
<1>3. n \in Nat
  OBVIOUS
<1>4. n \in S
  <2>1. n \in 0 .. n
    BY <1>3
  <2>. HIDE DEF S, n
  <2>. QED
    BY <1>1, <1>2, <1>3, <2>1, Upto
<1>. QED
  BY <1>4, Zenon

LEMMA DeepestIs ==
  ASSUME NEW sc \in Seq(Sample)
  PROVE  /\ Max(Depths(sc)) \in Nat /\ Max(Depths(sc)) \in Depths(sc)
         /\ \A d \in Depths(sc) : d \in Nat /\ d <= Max(Depths(sc))
<1>. DEFINE S == Depths(sc)
<1>0. DOMAIN sc = 1 .. Len(sc)
  OBVIOUS
<1>1. S \subseteq Nat /\ 0 \in S
  <2>1. \A i \in DOMAIN sc : sc[i].depth \in Nat
    BY <1>0, StatementShape, Zenon
  <2>. QED
    BY <2>1 DEF Depths
<1>2. PICK b \in Nat : \A i \in 1 .. Len(sc) : sc[i].depth <= b
  BY DepthsBounded
<1>3. \A d \in S : d <= b
  BY <1>0, <1>2 DEF Depths
<1>. HIDE DEF S
<1>. DEFINE T == {b - d : d \in S}
<1>4. T \subseteq Nat /\ T # {}
  <2>1. \A d \in S : b - d \in Nat
    BY <1>1, <1>3
  <2>. QED
    BY <1>1, <2>1, Zenon
<1>5. PICK m \in T : \A t \in T : m <= t
  <2>. HIDE DEF T
  <2>. QED
    BY <1>4, Least
<1>6. PICK x \in S : m = b - x
  BY Zenon
<1>7. \A y \in S : x >= y
  <2>. TAKE y \in S
  <2>1. b - y \in T
    BY Zenon
  <2>2. m <= b - y
    BY <1>5, <2>1
  <2>. QED
    BY <1>1, <1>6, <2>2
<1>8. Max(S) \in S /\ \A y \in S : Max(S) >= y
  BY <1>7, Zenon DEF Max
<1>9. Max(S) \in Nat /\ \A d \in S : d \in Nat /\ d <= Max(S)
  BY <1>1, <1>8
<1>. QED
  BY <1>8, <1>9, Zenon DEF S

LEMMA DepthBonusGrows ==
  ASSUME NEW sc \in Seq(Sample), NEW more \in Seq(Sample), Grown(sc, more)
  PROVE  /\ DepthBonus(sc) \in Nat /\ DepthBonus(more) \in Nat
         /\ DepthBonus(sc) <= DepthBonus(more)
<1>. DEFINE d == Max(Depths(sc))
            e == Max(Depths(more))
<1>1. Depths(sc) \subseteq Depths(more)
  <2>1. DOMAIN sc = 1 .. Len(sc) /\ DOMAIN more = 1 .. Len(more)
    OBVIOUS
  <2>2. \A i \in 1 .. Len(sc) : i \in 1 .. Len(more)
    BY DEF Grown
  <2>. QED
    BY <2>1, <2>2, Zenon DEF Depths, Grown
<1>2. d \in Nat /\ e \in Nat /\ d \in Depths(more) /\ d <= e
  <2>1. d \in Nat /\ d \in Depths(sc) /\ e \in Nat
    BY DeepestIs, Zenon
  <2>. QED
    BY <1>1, <2>1, DeepestIs, Zenon
<1>. HIDE DEF d, e
<1>3. ASSUME NEW n \in Nat, n > 1 PROVE Min({5 * (n - 1), 10}) = IF n >= 3 THEN 10 ELSE 5
  <2>1. 5 * (n - 1) \in Nat /\ 10 \in Nat
    BY <1>3
  <2>2. Min({5 * (n - 1), 10}) = IF 5 * (n - 1) <= 10 THEN 5 * (n - 1) ELSE 10
    BY <2>1, MinOfTwo
  <2>. QED
    BY <1>3, <2>2
<1>4. DepthBonus(sc) = IF d > 1 THEN IF d >= 3 THEN 10 ELSE 5 ELSE 0
  <2>1. DepthBonus(sc) = IF d > 1 THEN Min({5 * (d - 1), 10}) ELSE 0
    BY Zenon DEF DepthBonus, Depths, d
  <2>. QED
    BY <1>2, <1>3, <2>1, Zenon
<1>5. DepthBonus(more) = IF e > 1 THEN IF e >= 3 THEN 10 ELSE 5 ELSE 0
  <2>1. DepthBonus(more) = IF e > 1 THEN Min({5 * (e - 1), 10}) ELSE 0
    BY Zenon DEF DepthBonus, Depths, e
  <2>. QED
    BY <1>2, <1>3, <2>1, Zenon
<1>. QED
  BY <1>2, <1>4, <1>5

LEMMA RiskGrows ==
  ASSUME NEW sc \in Seq(Sample), NEW more \in Seq(Sample), Grown(sc, more)
  PROVE  Risk(WholeParse(more), more) >= Risk(WholeParse(sc), sc)
<1>. DEFINE A(found) == Capped(Count(found, "SQL-CART-001"), 50, 5, 2)
            B(found) == Capped(Count(found, "SQL-SARG-001"), 25, 2, 5)
            C(found) == Capped(Count(found, "SQL-SORT-001"), 20, 5, 2)
            old == WholeParse(sc)
            new == WholeParse(more)
<1>1. A(old) \in Nat /\ A(new) \in Nat /\ A(old) <= A(new)
  <2>. DEFINE n == Count(old, "SQL-CART-001")
              k == Count(new, "SQL-CART-001")
  <2>1. n \in Nat /\ k \in Nat /\ n <= k
    BY CountGrows, Zenon
  <2>. HIDE DEF n, k, old, new
  <2>2. /\ Capped(n, 50, 5, 2) \in Nat /\ Capped(k, 50, 5, 2) \in Nat
        /\ Capped(n, 50, 5, 2) <= Capped(k, 50, 5, 2)
    BY <2>1, CappedGrows
  <2>. QED
    BY <2>2, Zenon DEF n, k
<1>2. B(old) \in Nat /\ B(new) \in Nat /\ B(old) <= B(new)
  <2>. DEFINE n == Count(old, "SQL-SARG-001")
              k == Count(new, "SQL-SARG-001")
  <2>1. n \in Nat /\ k \in Nat /\ n <= k
    BY CountGrows, Zenon
  <2>. HIDE DEF n, k, old, new
  <2>2. /\ Capped(n, 25, 2, 5) \in Nat /\ Capped(k, 25, 2, 5) \in Nat
        /\ Capped(n, 25, 2, 5) <= Capped(k, 25, 2, 5)
    BY <2>1, CappedGrows
  <2>. QED
    BY <2>2, Zenon DEF n, k
<1>3. C(old) \in Nat /\ C(new) \in Nat /\ C(old) <= C(new)
  <2>. DEFINE n == Count(old, "SQL-SORT-001")
              k == Count(new, "SQL-SORT-001")
  <2>1. n \in Nat /\ k \in Nat /\ n <= k
    BY CountGrows, Zenon
  <2>. HIDE DEF n, k, old, new
  <2>2. /\ Capped(n, 20, 5, 2) \in Nat /\ Capped(k, 20, 5, 2) \in Nat
        /\ Capped(n, 20, 5, 2) <= Capped(k, 20, 5, 2)
    BY <2>1, CappedGrows
  <2>. QED
    BY <2>2, Zenon DEF n, k
<1>4. Risk(old, sc) = Min({100, A(old) + B(old) + C(old) + DepthBonus(sc)})
  BY Zenon DEF Risk
<1>5. Risk(new, more) = Min({100, A(new) + B(new) + C(new) + DepthBonus(more)})
  BY Zenon DEF Risk
<1>6. DepthBonus(sc) \in Nat /\ DepthBonus(more) \in Nat /\ DepthBonus(sc) <= DepthBonus(more)
  BY DepthBonusGrows
<1>. HIDE DEF A, B, C, old, new
<1>. DEFINE p == A(old) + B(old) + C(old) + DepthBonus(sc)
            q == A(new) + B(new) + C(new) + DepthBonus(more)
<1>7. p \in Nat /\ q \in Nat /\ p <= q /\ 100 \in Nat
  BY <1>1, <1>2, <1>3, <1>6
<1>8. Min({100, p}) = (IF 100 <= p THEN 100 ELSE p) /\ Min({100, q}) = IF 100 <= q THEN 100 ELSE q
  <2>. HIDE DEF p, q
  <2>. QED
    BY <1>7, MinOfTwo
<1>9. Min({100, q}) >= Min({100, p})
  <2>. HIDE DEF p, q
  <2>. QED
    BY <1>7, <1>8
<1>. QED
  BY <1>4, <1>5, <1>9, Zenon DEF old, new

\* What the last lint told, or the script before the statement added since.
Unedited(sc) == IF sc = <<>> THEN sc ELSE SubSeq(sc, 1, Len(sc) - 1)
ResultInv ==
  /\ script \in Seq(Sample)
  /\ result = LintSource(IF "lint" \in DOMAIN exits THEN script ELSE Unedited(script))

LEMMA UneditedAppended ==
  ASSUME NEW sc \in Seq(Sample), NEW s \in Sample
  PROVE  Unedited(Append(sc, s)) = sc
<1>1. Append(sc, s) # <<>> /\ Len(Append(sc, s)) - 1 = Len(sc)
  <2>1. Append(sc, s) # <<>> /\ Len(Append(sc, s)) = Len(sc) + 1 /\ Len(sc) \in Nat
    BY AppendProperties, LenProperties
  <2>2. Len(Append(sc, s)) - 1 = Len(sc)
    BY <2>1
  <2>. QED
    BY <2>1, <2>2, Zenon
<1>2. SubSeq(Append(sc, s), 1, Len(sc)) = sc
  OBVIOUS
<1>. QED
  BY <1>1, <1>2, Zenon DEF Unedited

\* The last result is of the script, or of it without its last statement (lint_source).
THEOREM ResultInvariant == LSpec => []ResultInv
<1>1. LInit => ResultInv
  <2>. SUFFICES ASSUME LInit PROVE ResultInv
    BY Zenon
  <2>1. script = <<>> /\ script \in Seq(Sample) /\ "lint" \notin DOMAIN exits
    BY DEF LInit
  <2>2. Unedited(script) = <<>>
    BY <2>1, Zenon DEF Unedited
  <2>. QED
    BY <2>1, <2>2, Zenon DEF ResultInv, LInit
<1>2. ResultInv /\ [LNext]_lvars => ResultInv'
  <2>. SUFFICES ASSUME ResultInv, [LNext]_lvars PROVE ResultInv'
    BY Zenon
  <2>1. ASSUME UNCHANGED script, NEW tool, NEW code, exits' = Exit(tool, code)
        PROVE  "lint" \in DOMAIN exits' <=> "lint" \in DOMAIN exits \/ tool = "lint"
    BY <2>1 DEF Exit
  <2>2. CASE Lint
    <3>1. "lint" \in DOMAIN exits'
      BY <2>1, <2>2, Zenon DEF Lint
    <3>. QED
      BY <2>2, <3>1, Zenon DEF Lint, ResultInv
  <2>3. CASE Action
    <3>1. "lint" \in DOMAIN exits' <=> "lint" \in DOMAIN exits
      <4>1. "action" # "lint"
        OBVIOUS
      <4>. QED
        BY <2>1, <2>3, <4>1, Zenon DEF Action
    <3>. QED
      BY <2>3, <3>1, Zenon DEF Action, ResultInv
  <2>4. CASE Check
    <3>1. "lint" \in DOMAIN exits' <=> "lint" \in DOMAIN exits
      <4>1. "check" # "lint"
        OBVIOUS
      <4>. QED
        BY <2>1, <2>4, <4>1, Zenon DEF Check
    <3>. QED
      BY <2>4, <3>1, Zenon DEF Check, ResultInv
  <2>5. ASSUME NEW s \in Sample, Edit(s) PROVE ResultInv'
    <3>1. "lint" \in DOMAIN exits
      BY <2>5 DEF Edit
    <3>2. "lint" \notin DOMAIN exits'
      BY <2>5 DEF Edit
    <3>3. script' = Append(script, s) /\ script' \in Seq(Sample) /\ result' = result
      BY <2>5 DEF Edit, ResultInv
    <3>4. Unedited(script') = script
      BY <3>3, UneditedAppended, Zenon DEF ResultInv
    <3>. QED
      BY <3>1, <3>2, <3>3, <3>4, Zenon DEF ResultInv
  <2>6. CASE UNCHANGED lvars
    <3>1. UNCHANGED <<script, result, exits>>
      BY <2>6 DEF lvars
    <3>. QED
      BY <3>1, Zenon DEF ResultInv
  <2>. QED
    BY <2>2, <2>3, <2>4, <2>5, <2>6, Zenon DEF LNext
<1>. QED
  BY <1>1, <1>2, PTL DEF LSpec

LEMMA RiskIs ==
  ASSUME NEW sc, Parses(sc)
  PROVE  LintSource(sc).risk = Risk(WholeParse(sc), sc)
<1>1. LintSource(sc).risk = Risk(Findings(sc), IF Parses(sc) THEN sc ELSE <<>>)
  BY DEF LintSource
<1>. QED
  BY <1>1, Zenon DEF Findings

\* Adding a statement never lowers the risk a script that parses is given: no
\* rule of the cost model takes anything back (estimate_cost, lint_source).
THEOREM RiskNeverShrinks == LSpec => RiskOnlyGrows
<1>1. ASSUME ResultInv, Lint, Parses(script) PROVE result'.risk >= result.risk
  <2>. DEFINE sc == Unedited(script)
  <2>1. sc \in Seq(Sample) /\ Grown(sc, script)
    <3>1. CASE script = <<>>
      <4>1. sc = script /\ script \in Seq(Sample)
        BY <1>1, <3>1, Zenon DEF Unedited, ResultInv
      <4>2. Len(script) <= Len(script)
        BY <1>1 DEF ResultInv
      <4>. QED
        BY <4>1, <4>2, Zenon DEF Grown
    <3>2. CASE script # <<>>
      <4>1. sc = SubSeq(script, 1, Len(script) - 1)
        BY <3>2, Zenon DEF Unedited
      <4>2. script \in Seq(Sample) /\ Len(script) \in Nat \ {0}
        BY <1>1, <3>2 DEF ResultInv
      <4>3. sc \in Seq(Sample) /\ Len(sc) = Len(script) - 1
        <5>. DEFINE n == Len(script) - 1
        <5>1. n \in 0 .. Len(script) /\ 1 \in 1 .. Len(script) + 1
          BY <4>2
        <5>2. \A i \in 1 .. n : script[i] \in Sample
          BY <4>2
        <5>. HIDE DEF sc, n
        <5>3. sc = SubSeq(script, 1, n)
          BY <4>1, Zenon DEF n
        <5>4. sc \in Seq(Sample) /\ Len(sc) = n
          BY <4>2, <5>1, <5>3, SubSeqProperties
        <5>. QED
          BY <5>4 DEF n
      <4>4. \A i \in 1 .. Len(sc) : script[i] = sc[i]
        <5>. HIDE DEF sc
        <5>. QED
          BY <4>1, <4>2, <4>3
      <4>5. Len(sc) <= Len(script)
        BY <4>2, <4>3
      <4>. QED
        BY <4>3, <4>4, <4>5, Zenon DEF Grown
    <3>. QED
      BY <3>1, <3>2, Zenon
  <2>2. Parses(sc)
    <3>1. DOMAIN sc = 1 .. Len(sc) /\ DOMAIN script = 1 .. Len(script)
      BY <1>1, <2>1 DEF ResultInv
    <3>2. \A i \in 1 .. Len(sc) : i \in 1 .. Len(script) /\ script[i] = sc[i]
      BY <1>1, <2>1 DEF Grown, ResultInv
    <3>. QED
      BY <1>1, <3>1, <3>2, Zenon DEF Parses
  <2>3. result.risk = Risk(WholeParse(sc), sc)
    <3>1. result = LintSource(sc)
      BY <1>1, Zenon DEF Lint, ResultInv
    <3>. QED
      BY <2>2, <3>1, RiskIs, Zenon
  <2>4. result'.risk = Risk(WholeParse(script), script)
    BY <1>1, RiskIs, Zenon DEF Lint
  <2>. HIDE DEF sc
  <2>5. Risk(WholeParse(script), script) >= Risk(WholeParse(sc), sc)
    BY <1>1, <2>1, RiskGrows, Zenon DEF ResultInv
  <2>. QED
    BY <2>3, <2>4, <2>5, Zenon
<1>2. ResultInv => (Lint /\ Parses(script) => result'.risk >= result.risk)
  BY <1>1, Zenon
<1>. QED
  BY <1>2, ResultInvariant, PTL DEF RiskOnlyGrows

-----------------------------------------------------------------------------
(***************************************************************************)
(* The rewrites of lint --fix: what a condition is worth is shown from the *)
(* last to the first, since an operand's body comes after it.              *)
(***************************************************************************)

\* What the proofs use of a clause.
Single(w, b, o) ==
  \A a \in DOMAIN w : \A p \in Operands(w[a]) : HasBody(p) /\ p.body = o.body => a = b /\ p = o
OperandOK(w, b, o) ==
  /\ o.nots \in Nat
  /\ IsYear(o) => o.n \in Int
  /\ HasBody(o) => o.body \in (b + 1) .. Len(w) /\ Single(w, b, o)
WellFormed(w) ==
  /\ Len(w) \in Nat \ {0} /\ DOMAIN w = 1 .. Len(w)
  /\ \A b \in DOMAIN w : Len(w[b]) \in Nat \ {0} /\ DOMAIN w[b] = 1 .. Len(w[b])
  /\ \A b \in DOMAIN w : \A o \in Operands(w[b]) : OperandOK(w, b, o)

LEMMA OperandsAre ==
  ASSUME NEW c
  PROVE  \A o : o \in Operands(c) <=> \E i \in DOMAIN c : o \in c[i]
  BY DEF Operands, Range

LEMMA LengthIs ==
  ASSUME NEW n \in Nat, NEW f, DOMAIN f = 1 .. n
  PROVE  Len(f) = n
  OBVIOUS

\* Every clause that the parser makes is such a clause.
LEMMA ClausesAreWellFormed ==
  ASSUME NEW w \in Clause
  PROVE  WellFormed(w)
<1>1. w \in Seq(Seq(SUBSET Operand) \ {<<>>}) \ {<<>>}
  BY DEF Clause
<1>2. Len(w) \in Nat \ {0} /\ DOMAIN w = 1 .. Len(w)
  BY <1>1
<1>3. ASSUME NEW b \in DOMAIN w
      PROVE  /\ Len(w[b]) \in Nat \ {0} /\ DOMAIN w[b] = 1 .. Len(w[b])
             /\ w[b] \in Seq(SUBSET Operand)
  BY <1>1, <1>2
<1>4. ASSUME NEW b \in DOMAIN w, NEW o \in Operands(w[b])
      PROVE  OperandOK(w, b, o)
  <2>1. o \in Operand
    <3>1. PICK i \in DOMAIN w[b] : o \in w[b][i]
      BY OperandsAre, Zenon
    <3>. QED
      BY <1>3, <3>1
  <2>2. o.nots \in Nat /\ (IsYear(o) => o.n \in Int)
    BY <2>1 DEF Operand, IsYear
  <2>3. HasBody(o) => o.body \in (b + 1) .. Len(w) /\ Single(w, b, o)
    BY Zenon DEF Clause, Single
  <2>. QED
    BY <2>2, <2>3, Zenon DEF OperandOK
<1>. QED
  BY <1>2, <1>3, <1>4, Zenon DEF WellFormed

LEMMA BodiesArePlaces ==
  ASSUME NEW w, WellFormed(w)
  PROVE  \A b \in DOMAIN w : \A o \in Operands(w[b]) :
           HasBody(o) => o.body \in DOMAIN w /\ o.body \in (b + 1) .. Len(w)
<1>1. Len(w) \in Nat /\ DOMAIN w = 1 .. Len(w)
  BY DEF WellFormed
<1>2. \A n \in Nat : \A b \in 1 .. n : \A a \in (b + 1) .. n : a \in 1 .. n
  OBVIOUS
<1>. QED
  BY <1>1, <1>2, Zenon DEF WellFormed, OperandOK

\* What an operand is worth depends on what its body is worth.
LEMMA LiteralDepends ==
  ASSUME NEW o, NEW inner, NEW row, NEW table, NEW v, NEW u,
         HasBody(o) => v[o.body] = u[o.body]
  PROVE  Literal(o, inner, row, table, v) = Literal(o, inner, row, table, u)
<1>1. Truth(o, inner, row, table, v) = Truth(o, inner, row, table, u)
  <2>1. CASE HasBody(o)
    <3>1. v[o.body] = u[o.body]
      BY <2>1
    <3>. QED
      BY <3>1 DEF Truth
  <2>2. CASE ~HasBody(o)
    <3>1. o.op # "paren" /\ o.op # "in" /\ o.op # "exists"
      BY <2>2 DEF HasBody
    <3>. QED
      BY <3>1 DEF Truth
  <2>. QED
    BY <2>1, <2>2, Zenon
<1>. QED
  BY <1>1, Zenon DEF Literal

\* Two conditions whose disjuncts are true together and false together.
Alike(c, v, d, u, inner, row, table) ==
  /\ DOMAIN c = DOMAIN d
  /\ \A i \in DOMAIN c :
       /\ (\A o \in c[i] : Literal(o, inner, row, table, v) = 2)
            <=> (\A o \in d[i] : Literal(o, inner, row, table, u) = 2)
       /\ (\E o \in c[i] : Literal(o, inner, row, table, v) = 0)
            <=> (\E o \in d[i] : Literal(o, inner, row, table, u) = 0)

LEMMA AlikeIsEqual ==
  ASSUME NEW c, NEW v, NEW d, NEW u, NEW inner, NEW row, NEW table,
         Alike(c, v, d, u, inner, row, table)
  PROVE  Verdict(c, inner, row, table, v) = Verdict(d, inner, row, table, u)
<1>1. (\E i \in DOMAIN c : \A o \in c[i] : Literal(o, inner, row, table, v) = 2)
      <=> \E i \in DOMAIN d : \A o \in d[i] : Literal(o, inner, row, table, u) = 2
  BY Zenon DEF Alike
<1>2. (\A i \in DOMAIN c : \E o \in c[i] : Literal(o, inner, row, table, v) = 0)
      <=> \A i \in DOMAIN d : \E o \in d[i] : Literal(o, inner, row, table, u) = 0
  BY Zenon DEF Alike
<1>. QED
  BY <1>1, <1>2, Zenon DEF Verdict

SameBodies(c, v, u) == \A o \in Operands(c) : HasBody(o) => v[o.body] = u[o.body]

LEMMA VerdictDepends ==
  ASSUME NEW c, NEW inner, NEW row, NEW table, NEW v, NEW u, SameBodies(c, v, u)
  PROVE  Verdict(c, inner, row, table, v) = Verdict(c, inner, row, table, u)
<1>1. ASSUME NEW i \in DOMAIN c, NEW o \in c[i]
      PROVE  Literal(o, inner, row, table, v) = Literal(o, inner, row, table, u)
  <2>1. o \in Operands(c)
    BY OperandsAre, Zenon
  <2>. QED
    BY <2>1, LiteralDepends, Zenon DEF SameBodies
<1>2. Alike(c, v, c, u, inner, row, table)
  BY <1>1, Zenon DEF Alike
<1>. QED
  BY <1>2, AlikeIsEqual

\* The last of some places: what is shown of a condition rests on those after it.
LEMMA Latest ==
  ASSUME NEW n \in Nat, NEW T, T \subseteq 1 .. n, T # {}
  PROVE  \E i \in T : \A j \in T : j <= i
<1>. DEFINE back == {n - j : j \in T}
<1>1. back \subseteq Nat /\ back # {}
  <2>1. \A j \in T : n - j \in Nat
    OBVIOUS
  <2>. QED
    BY <2>1, Zenon
<1>2. PICK k \in back : \A j \in back : k <= j
  <2>. HIDE DEF back
  <2>. QED
    BY <1>1, Least
<1>3. PICK i \in T : k = n - i
  OBVIOUS
<1>4. \A j \in T : n - j \in back
  OBVIOUS
<1>5. ASSUME NEW j \in T PROVE j <= i
  <2>1. n - i <= n - j
    BY <1>2, <1>3, <1>4
  <2>. QED
    BY <2>1
<1>. QED
  BY <1>5

LEMMA LaterPlace ==
  ASSUME NEW n \in Nat, NEW b \in 1 .. n, NEW a \in (b + 1) .. n
  PROVE  a \in 1 .. n /\ ~(a <= b)
  OBVIOUS

\* The values of the conditions from place k on.
OwnValues(w, row, table, b, v) == [inner \in table \cup {NULL} |-> Verdict(w[b], inner, row, table, v)]
ValuesFrom(w, row, table, k, v) == \A b \in k .. Len(w) : v[b] = OwnValues(w, row, table, b, v)

LEMMA ValuesFromExist ==
  ASSUME NEW w, NEW row, NEW table, WellFormed(w), NEW k \in 1 .. Len(w)
  PROVE  \E v : ValuesFrom(w, row, table, k, v)
<1>1. Len(w) \in Nat /\ DOMAIN w = 1 .. Len(w)
  BY DEF WellFormed
<1>. DEFINE T == {b \in 1 .. Len(w) : ~\E v : ValuesFrom(w, row, table, b, v)}
<1>2. SUFFICES ASSUME T # {} PROVE FALSE
  BY Zenon
<1>3. PICK b \in T : \A a \in T : a <= b
  <2>1. T \subseteq 1 .. Len(w)
    OBVIOUS
  <2>. HIDE DEF T
  <2>. QED
    BY <1>1, <1>2, <2>1, Latest
<1>4. b \in 1 .. Len(w) /\ ~\E v : ValuesFrom(w, row, table, b, v)
  OBVIOUS
<1>5. PICK u : ValuesFrom(w, row, table, b + 1, u)
  <2>1. CASE b = Len(w)
    <3>1. (b + 1) .. Len(w) = {}
      BY <1>1, <2>1
    <3>. QED
      BY <3>1, Zenon DEF ValuesFrom
  <2>2. CASE b # Len(w)
    <3>1. b + 1 \in 1 .. Len(w) /\ ~(b + 1 <= b)
      <4>1. b \in 1 .. Len(w)
        BY <1>4, Zenon
      <4>2. \A n \in Nat : \A a \in 1 .. n : a # n => a + 1 \in 1 .. n /\ ~(a + 1 <= a)
        OBVIOUS
      <4>. QED
        BY <1>1, <2>2, <4>1, <4>2, Zenon
    <3>2. b + 1 \notin T
      BY <1>3, <3>1, Zenon
    <3>. QED
      BY <3>1, <3>2, Zenon
  <2>. QED
    BY <2>1, <2>2, Zenon
<1>. DEFINE v == [a \in 1 .. Len(w) |-> IF a = b THEN OwnValues(w, row, table, b, u) ELSE u[a]]
<1>6. \A a \in 1 .. Len(w) : a # b => v[a] = u[a]
  BY Zenon
<1>7. v[b] = OwnValues(w, row, table, b, u)
  BY <1>4, Zenon
<1>. HIDE DEF v
<1>8. ASSUME NEW a \in b .. Len(w)
      PROVE  OwnValues(w, row, table, a, v) = OwnValues(w, row, table, a, u)
  <2>1. a \in 1 .. Len(w)
    BY <1>1, <1>4
  <2>2. ASSUME NEW o \in Operands(w[a]), HasBody(o)
        PROVE  v[o.body] = u[o.body]
    <3>1. o.body \in (a + 1) .. Len(w)
      BY <1>1, <2>1, <2>2, Zenon DEF WellFormed, OperandOK
    <3>2. o.body \in 1 .. Len(w) /\ o.body # b
      BY <1>1, <1>4, <2>1, <3>1
    <3>. QED
      BY <1>6, <3>2, Zenon
  <2>3. SameBodies(w[a], v, u)
    BY <2>2, Zenon DEF SameBodies
  <2>4. \A inner : Verdict(w[a], inner, row, table, v) = Verdict(w[a], inner, row, table, u)
    BY <2>3, VerdictDepends
  <2>. QED
    BY <2>4, Zenon DEF OwnValues
<1>9. ASSUME NEW a \in b .. Len(w)
      PROVE  v[a] = OwnValues(w, row, table, a, v)
  <2>1. CASE a = b
    BY <1>7, <1>8, <2>1, Zenon
  <2>2. CASE a # b
    <3>1. a \in (b + 1) .. Len(w) /\ a \in 1 .. Len(w)
      BY <1>1, <1>4, <2>2
    <3>. QED
      BY <1>5, <1>6, <1>8, <2>2, <3>1, Zenon DEF ValuesFrom
  <2>. QED
    BY <2>1, <2>2, Zenon
<1>. QED
  BY <1>4, <1>9, Zenon DEF ValuesFrom

\* One step of the recursion in Value.
LEMMA ValuesAre ==
  ASSUME NEW w, NEW row, NEW table, WellFormed(w)
  PROVE  \A b \in DOMAIN w : Values(w, row, table)[b] = OwnValues(w, row, table, b, Values(w, row, table))
<1>1. Len(w) \in Nat \ {0} /\ DOMAIN w = 1 .. Len(w)
  BY DEF WellFormed
<1>2. PICK u : ValuesFrom(w, row, table, 1, u)
  <2>1. 1 \in 1 .. Len(w)
    BY <1>1
  <2>. QED
    BY <2>1, ValuesFromExist, Zenon
<1>. DEFINE v == [b \in DOMAIN w |-> u[b]]
<1>3. ASSUME NEW b \in DOMAIN w
      PROVE  v[b] = OwnValues(w, row, table, b, v)
  <2>1. ASSUME NEW o \in Operands(w[b]), HasBody(o)
        PROVE  v[o.body] = u[o.body]
    <3>1. o.body \in (b + 1) .. Len(w)
      BY <1>1, <2>1, Zenon DEF WellFormed, OperandOK
    <3>2. o.body \in DOMAIN w
      BY <1>1, <3>1
    <3>. QED
      BY <3>2, Zenon
  <2>2. \A inner : Verdict(w[b], inner, row, table, v) = Verdict(w[b], inner, row, table, u)
    <3>1. SameBodies(w[b], v, u)
      BY <2>1, Zenon DEF SameBodies
    <3>. HIDE DEF v
    <3>. QED
      BY <3>1, VerdictDepends
  <2>3. v[b] = u[b]
    BY Zenon
  <2>4. u[b] = OwnValues(w, row, table, b, u)
    <3>1. b \in 1 .. Len(w)
      BY <1>1
    <3>. QED
      BY <1>2, <3>1, Zenon DEF ValuesFrom
  <2>. HIDE DEF v
  <2>5. OwnValues(w, row, table, b, v) = OwnValues(w, row, table, b, u)
    BY <2>2, Zenon DEF OwnValues
  <2>. QED
    BY <2>3, <2>4, <2>5, Zenon
<1>4. v = [b \in DOMAIN w |-> OwnValues(w, row, table, b, v)]
  BY <1>3, Zenon
<1>. HIDE DEF v
<1>5. PICK value : value = Values(w, row, table)
  BY Zenon
<1>6. value = [b \in DOMAIN w |-> [inner \in table \cup {NULL} |-> Verdict(w[b], inner, row, table, value)]]
  BY <1>4, <1>5, Zenon DEF Values, OwnValues
<1>7. \A b \in DOMAIN w : value[b] = OwnValues(w, row, table, b, value)
  BY <1>6, Zenon DEF OwnValues
<1>. QED
  BY <1>5, <1>7, Zenon

-----------------------------------------------------------------------------
\* The range stands for the equality where no NOT is before it.
LEMMA HalfOpenIs ==
  ASSUME NEW o
  PROVE  /\ \A p \in HalfOpen(o) : /\ p.op \in {"from", "before"}
                                  /\ ~HasBody(p) /\ ~IsYear(p) /\ ~Rewritable(p)
         /\ o.nots \in Nat => \A p \in HalfOpen(o) : p.nots \in Nat
<1>1. ASSUME NEW p \in HalfOpen(o)
      PROVE  p.op \in {"from", "before"} /\ (o.nots \in Nat => p.nots \in Nat)
  BY DEF HalfOpen, Negated, From, Before
<1>2. ASSUME NEW p \in HalfOpen(o)
      PROVE  ~HasBody(p) /\ ~IsYear(p) /\ ~Rewritable(p)
  BY <1>1 DEF HasBody, IsYear, Rewritable
<1>. QED
  BY <1>1, <1>2, Zenon

RangeMeans(o, v, u, inner, row, table) ==
  /\ Literal(o, inner, row, table, v) = 2
       <=> \A p \in HalfOpen(o) : Literal(p, inner, row, table, u) = 2
  /\ Literal(o, inner, row, table, v) = 0
       <=> \E p \in HalfOpen(o) : Literal(p, inner, row, table, u) = 0

LEMMA RangeLiteral ==
  ASSUME NEW o, NEW v, NEW u, NEW inner, NEW row, NEW table,
         IsYear(o), o.nots = 0, o.n \in Int, row.d \in Int \cup {NULL}
  PROVE  RangeMeans(o, v, u, inner, row, table)
<1>1. HalfOpen(o) = {From(o.n), Before(o.n + 1)}
  BY DEF HalfOpen, Negated, From
<1>2. Literal(o, inner, row, table, v) = IF row.d = NULL THEN 1 ELSE IF row.d = o.n THEN 2 ELSE 0
  BY DEF Literal, Truth, IsYear, Bool
<1>3. Literal(From(o.n), inner, row, table, u) = IF row.d = NULL THEN 1 ELSE IF row.d >= o.n THEN 2 ELSE 0
  BY DEF Literal, Truth, From, Bool
<1>4. Literal(Before(o.n + 1), inner, row, table, u)
        = IF row.d = NULL THEN 1 ELSE IF row.d < o.n + 1 THEN 2 ELSE 0
  BY DEF Literal, Truth, Before, Bool
<1>. DEFINE lo == Literal(o, inner, row, table, v)
            lf == Literal(From(o.n), inner, row, table, u)
            lb == Literal(Before(o.n + 1), inner, row, table, u)
<1>5. (lo = 2 <=> lf = 2 /\ lb = 2) /\ (lo = 0 <=> lf = 0 \/ lb = 0)
  <2>1. CASE row.d = NULL
    BY <1>2, <1>3, <1>4, <2>1
  <2>2. CASE row.d # NULL
    <3>1. row.d \in Int
      BY <2>2
    <3>2. row.d = o.n <=> row.d >= o.n /\ row.d < o.n + 1
      BY <3>1
    <3>3. row.d >= o.n \/ row.d < o.n + 1
      BY <3>1
    <3>. QED
      BY <1>2, <1>3, <1>4, <2>2, <3>2, <3>3
  <2>. QED
    BY <2>1, <2>2, Zenon
<1>. QED
  BY <1>1, <1>5 DEF RangeMeans

\* What the pass leaves and what it puts.
LEMMA RangesInIs ==
  ASSUME NEW w, WellFormed(w)
  PROVE  LET t == RangesIn(w) IN
         /\ Len(t) = Len(w) /\ DOMAIN t = DOMAIN w
         /\ \A b \in DOMAIN w :
              /\ Len(t[b]) = Len(w[b]) /\ DOMAIN t[b] = DOMAIN w[b]
              /\ \A i \in DOMAIN w[b] : \A p :
                   p \in t[b][i] <=> \/ p \in w[b][i] /\ ~IsYear(p)
                                    \/ \E o \in w[b][i] : IsYear(o) /\ p \in HalfOpen(o)
<1>. DEFINE t == RangesIn(w)
            disjunct(b, i) == UNION {IF IsYear(o) THEN HalfOpen(o) ELSE {o} : o \in w[b][i]}
<1>1. Len(w) \in Nat /\ DOMAIN w = 1 .. Len(w)
  BY DEF WellFormed
<1>2. t = [b \in DOMAIN w |-> [i \in DOMAIN w[b] |-> disjunct(b, i)]]
  BY Zenon DEF RangesIn
<1>. HIDE DEF t, disjunct
<1>3. DOMAIN t = DOMAIN w
  BY <1>2, Zenon
<1>4. Len(t) = Len(w)
  BY <1>1, <1>3, LengthIs
<1>5. ASSUME NEW b \in DOMAIN w
      PROVE  Len(t[b]) = Len(w[b]) /\ DOMAIN t[b] = DOMAIN w[b]
  <2>1. Len(w[b]) \in Nat /\ DOMAIN w[b] = 1 .. Len(w[b])
    BY DEF WellFormed
  <2>2. t[b] = [i \in DOMAIN w[b] |-> disjunct(b, i)]
    BY <1>2, Zenon
  <2>3. DOMAIN t[b] = DOMAIN w[b]
    BY <2>2, Zenon
  <2>. QED
    BY <2>1, <2>3, LengthIs
<1>6. ASSUME NEW b \in DOMAIN w, NEW i \in DOMAIN w[b], NEW p
      PROVE  p \in t[b][i] <=> \/ p \in w[b][i] /\ ~IsYear(p)
                              \/ \E o \in w[b][i] : IsYear(o) /\ p \in HalfOpen(o)
  <2>1. t[b][i] = disjunct(b, i)
    BY <1>2, Zenon
  <2>2. p \in disjunct(b, i) <=> \E o \in w[b][i] : p \in IF IsYear(o) THEN HalfOpen(o) ELSE {o}
    BY Zenon DEF disjunct
  <2>3. \A o : p \in (IF IsYear(o) THEN HalfOpen(o) ELSE {o})
               <=> \/ ~IsYear(o) /\ p = o
                   \/ IsYear(o) /\ p \in HalfOpen(o)
    BY Zenon
  <2>. QED
    BY <2>1, <2>2, <2>3, Zenon
<1>. QED
  BY <1>3, <1>4, <1>5, <1>6, Zenon DEF t

\* Without a NOT before a YEAR the pass changes no condition's value.
LEMMA RangesKeepValues ==
  ASSUME NEW w, NEW row, NEW table, WellFormed(w), WellFormed(RangesIn(w)),
         ~Some(NegatedRange, w), row.d \in Int \cup {NULL}
  PROVE  \A b \in DOMAIN w : Values(RangesIn(w), row, table)[b] = Values(w, row, table)[b]
<1>1. PICK t : t = RangesIn(w)
  BY Zenon
<1>2. PICK v : v = Values(w, row, table)
  BY Zenon
<1>3. PICK u : u = Values(t, row, table)
  BY Zenon
<1>4. Len(w) \in Nat /\ DOMAIN w = 1 .. Len(w)
  BY DEF WellFormed
<1>5. /\ DOMAIN t = DOMAIN w
      /\ \A b \in DOMAIN w :
           /\ DOMAIN t[b] = DOMAIN w[b]
           /\ \A i \in DOMAIN w[b] : \A p :
                p \in t[b][i] <=> \/ p \in w[b][i] /\ ~IsYear(p)
                                 \/ \E o \in w[b][i] : IsYear(o) /\ p \in HalfOpen(o)
  BY <1>1, RangesInIs, Zenon
<1>6. \A b \in DOMAIN w : v[b] = OwnValues(w, row, table, b, v)
  BY <1>2, ValuesAre, Zenon
<1>7. \A b \in DOMAIN w : u[b] = OwnValues(t, row, table, b, u)
  BY <1>1, <1>3, <1>5, ValuesAre, Zenon
<1>. DEFINE T == {b \in DOMAIN w : u[b] # v[b]}
<1>8. SUFFICES ASSUME T # {} PROVE FALSE
  BY <1>1, <1>2, <1>3, Zenon
<1>9. PICK b \in T : \A a \in T : a <= b
  <2>1. T \subseteq 1 .. Len(w)
    BY <1>4, Zenon
  <2>. HIDE DEF T
  <2>. QED
    BY <1>4, <1>8, <2>1, Latest
<1>10. b \in DOMAIN w /\ u[b] # v[b]
  OBVIOUS
<1>11. \A a \in (b + 1) .. Len(w) : u[a] = v[a]
  BY <1>4, <1>9, <1>10, LaterPlace, Zenon
<1>12. \A o \in Operands(w[b]) : HasBody(o) => v[o.body] = u[o.body]
  BY <1>10, <1>11, Zenon DEF WellFormed, OperandOK
<1>13. ASSUME NEW inner \in table \cup {NULL}
       PROVE  Verdict(w[b], inner, row, table, v) = Verdict(t[b], inner, row, table, u)
  <2>1. ASSUME NEW i \in DOMAIN w[b], NEW o \in w[b][i]
        PROVE  /\ ~IsYear(o) => Literal(o, inner, row, table, v) = Literal(o, inner, row, table, u)
               /\ IsYear(o) => RangeMeans(o, v, u, inner, row, table)
    <3>1. o \in Operands(w[b])
      BY OperandsAre, Zenon
    <3>2. Literal(o, inner, row, table, v) = Literal(o, inner, row, table, u)
      <4>1. HasBody(o) => v[o.body] = u[o.body]
        BY <1>12, <3>1, Zenon
      <4>. QED
        BY <4>1, LiteralDepends
    <3>3. ASSUME IsYear(o) PROVE RangeMeans(o, v, u, inner, row, table)
      <4>1. o.nots \in Nat /\ o.n \in Int
        BY <1>10, <3>1, <3>3, Zenon DEF WellFormed, OperandOK
      <4>2. ~(o.nots > 0)
        BY <1>10, <3>1, <3>3, Zenon DEF Some, NegatedRange
      <4>3. o.nots = 0
        BY <4>1, <4>2
      <4>. QED
        BY <3>3, <4>1, <4>3, RangeLiteral, Zenon
    <3>. QED
      BY <3>2, <3>3, Zenon
  <2>2. ASSUME NEW i \in DOMAIN w[b]
        PROVE  /\ (\A o \in w[b][i] : Literal(o, inner, row, table, v) = 2)
                    <=> (\A p \in t[b][i] : Literal(p, inner, row, table, u) = 2)
               /\ (\E o \in w[b][i] : Literal(o, inner, row, table, v) = 0)
                    <=> (\E p \in t[b][i] : Literal(p, inner, row, table, u) = 0)
    <3>1. \A p : p \in t[b][i] <=> \/ p \in w[b][i] /\ ~IsYear(p)
                                   \/ \E o \in w[b][i] : IsYear(o) /\ p \in HalfOpen(o)
      BY <1>5, <1>10, Zenon
    <3>2. \A o \in w[b][i] : /\ ~IsYear(o) => Literal(o, inner, row, table, v) = Literal(o, inner, row, table, u)
                             /\ IsYear(o) => RangeMeans(o, v, u, inner, row, table)
      BY <2>1, Zenon
    <3>. QED
      BY <3>1, <3>2, Zenon DEF RangeMeans
  <2>3. DOMAIN t[b] = DOMAIN w[b]
    BY <1>5, <1>10, Zenon
  <2>4. Alike(w[b], v, t[b], u, inner, row, table)
    BY <2>2, <2>3, Zenon DEF Alike
  <2>. QED
    BY <2>4, AlikeIsEqual
<1>14. u[b] = v[b]
  <2>1. OwnValues(w, row, table, b, v) = OwnValues(t, row, table, b, u)
    BY <1>13, Zenon DEF OwnValues
  <2>. QED
    BY <1>6, <1>7, <1>10, <2>1, Zenon
<1>. QED
  BY <1>10, <1>14, Zenon

-----------------------------------------------------------------------------
\* The recursion in Within.
Inside(w, f, b) == \E a \in 1 .. (b - 1) : \E o \in Operands(w[a]) :
                     HasBody(o) /\ o.body = b /\ (Rewritable(o) \/ f[a])
InsideUpto(w, f, k) == \A b \in 1 .. k : f[b] = Inside(w, f, b)

LEMMA InsideDepends ==
  ASSUME NEW w, NEW f, NEW g, NEW b, \A a \in 1 .. (b - 1) : f[a] = g[a]
  PROVE  Inside(w, f, b) = Inside(w, g, b)
<1>1. Inside(w, f, b) <=> Inside(w, g, b)
  BY Zenon DEF Inside
<1>. QED
  BY <1>1 DEF Inside

LEMMA EarlierPlace ==
  ASSUME NEW k \in Nat, k # 0
  PROVE  /\ k - 1 \in Nat
         /\ \A a \in 1 .. (k - 1) : a # k /\ a \in 1 .. k
         /\ \A b \in 1 .. k : b # k => b \in 1 .. (k - 1)
         /\ \A b \in 1 .. k : \A a \in 1 .. (b - 1) : a \in 1 .. (k - 1)
         /\ k \in 1 .. k
  OBVIOUS

LEMMA InsideExists ==
  ASSUME NEW w, NEW n \in Nat
  PROVE  \E f : InsideUpto(w, f, n)
<1>. DEFINE S == {k \in 0 .. n : \E f : InsideUpto(w, f, k)}
<1>1. 0 \in S
  <2>1. 1 .. 0 = {} /\ 0 \in 0 .. n
    OBVIOUS
  <2>. QED
    BY <2>1, Zenon DEF InsideUpto
<1>2. ASSUME NEW k \in 1 .. n, k - 1 \in S PROVE k \in S
  <2>1. k \in Nat /\ k # 0 /\ k \in 0 .. n
    OBVIOUS
  <2>2. PICK f : InsideUpto(w, f, k - 1)
    BY <1>2, Zenon
  <2>. DEFINE g == [b \in 1 .. k |-> IF b = k THEN Inside(w, f, k) ELSE f[b]]
  <2>3. ASSUME NEW b \in 1 .. k PROVE g[b] = Inside(w, g, b)
    <3>1. \A a \in 1 .. (b - 1) : a \in 1 .. k /\ a # k
      BY <2>1, EarlierPlace, Zenon
    <3>2. \A a \in 1 .. (b - 1) : g[a] = f[a]
      BY <3>1, Zenon
    <3>3. g[b] = IF b = k THEN Inside(w, f, k) ELSE f[b]
      BY Zenon
    <3>. HIDE DEF g
    <3>4. Inside(w, g, b) = Inside(w, f, b)
      BY <3>2, InsideDepends, Zenon
    <3>5. b # k => b \in 1 .. (k - 1)
      BY <2>1, EarlierPlace, Zenon
    <3>. QED
      BY <2>2, <3>3, <3>4, <3>5, Zenon DEF InsideUpto
  <2>. HIDE DEF g
  <2>4. InsideUpto(w, g, k)
    BY <2>3, Zenon DEF InsideUpto
  <2>. QED
    BY <2>1, <2>4, Zenon
<1>. HIDE DEF S
<1>3. \A k \in 0 .. n : k \in S
  BY <1>1, <1>2, Upto
<1>. QED
  BY <1>3 DEF S

LEMMA WithinIs ==
  ASSUME NEW w, WellFormed(w)
  PROVE  \A b \in DOMAIN w : Within(w)[b] = Inside(w, Within(w), b)
<1>1. Len(w) \in Nat /\ DOMAIN w = 1 .. Len(w)
  BY DEF WellFormed
<1>2. PICK f : InsideUpto(w, f, Len(w))
  BY <1>1, InsideExists
<1>. DEFINE g == [b \in DOMAIN w |-> f[b]]
<1>3. ASSUME NEW b \in DOMAIN w PROVE g[b] = Inside(w, g, b)
  <2>1. \A a \in 1 .. (b - 1) : a \in DOMAIN w
    BY <1>1
  <2>2. \A a \in 1 .. (b - 1) : g[a] = f[a]
    BY <2>1, Zenon
  <2>3. g[b] = f[b]
    BY Zenon
  <2>. HIDE DEF g
  <2>4. Inside(w, g, b) = Inside(w, f, b)
    BY <2>2, InsideDepends, Zenon
  <2>. QED
    BY <1>1, <1>2, <2>3, <2>4, Zenon DEF InsideUpto
<1>4. g = [b \in DOMAIN w |-> Inside(w, g, b)]
  BY <1>3, Zenon
<1>. HIDE DEF g
<1>5. PICK within : within = Within(w)
  BY Zenon
<1>6. within = [b \in DOMAIN w |-> Inside(w, within, b)]
  BY <1>4, <1>5, Zenon DEF Within, Inside
<1>. QED
  BY <1>5, <1>6, Zenon

-----------------------------------------------------------------------------
\* A pass keeps the places and the parentheses.
SameShape(w, t) ==
  /\ Len(t) = Len(w) /\ DOMAIN t = DOMAIN w
  /\ \A b \in DOMAIN w : Len(t[b]) = Len(w[b]) /\ DOMAIN t[b] = DOMAIN w[b]
SameBodied(w, t) ==
  \A b \in DOMAIN w : \A o : HasBody(o) => (o \in Operands(t[b]) <=> o \in Operands(w[b]))

LEMMA RewritablesHaveBodies ==
  ASSUME NEW o, Rewritable(o)
  PROVE  HasBody(o) /\ o.op = "in" /\ ~IsYear(o)
  BY DEF Rewritable, HasBody, IsYear

\* An operand of t stands in w or is one of the halves of a range.
LEMMA RangeOperands ==
  ASSUME NEW w, WellFormed(w)
  PROVE  /\ SameShape(w, RangesIn(w))
         /\ \A b \in DOMAIN w : \A p : p \in Operands(RangesIn(w)[b]) <=>
              \/ p \in Operands(w[b]) /\ ~IsYear(p)
              \/ \E o \in Operands(w[b]) : IsYear(o) /\ p \in HalfOpen(o)
<1>1. PICK t : t = RangesIn(w)
  BY Zenon
<1>2. /\ Len(t) = Len(w) /\ DOMAIN t = DOMAIN w
      /\ \A b \in DOMAIN w :
              /\ Len(t[b]) = Len(w[b]) /\ DOMAIN t[b] = DOMAIN w[b]
              /\ \A i \in DOMAIN w[b] : \A p :
                   p \in t[b][i] <=> \/ p \in w[b][i] /\ ~IsYear(p)
                                    \/ \E o \in w[b][i] : IsYear(o) /\ p \in HalfOpen(o)
  BY <1>1, RangesInIs, Zenon
<1>3. SameShape(w, t)
  BY <1>2, Zenon DEF SameShape
<1>4. ASSUME NEW b \in DOMAIN w, NEW p
      PROVE  p \in Operands(t[b]) <=>
              \/ p \in Operands(w[b]) /\ ~IsYear(p)
              \/ \E o \in Operands(w[b]) : IsYear(o) /\ p \in HalfOpen(o)
  <2>1. p \in Operands(t[b]) <=> \E i \in DOMAIN w[b] : p \in t[b][i]
    BY <1>2, OperandsAre, Zenon
  <2>2. \A o : o \in Operands(w[b]) <=> \E i \in DOMAIN w[b] : o \in w[b][i]
    BY OperandsAre, Zenon
  <2>. QED
    BY <1>2, <2>1, <2>2, Zenon
<1>. QED
  BY <1>1, <1>3, <1>4, Zenon

LEMMA RangesKeepShape ==
  ASSUME NEW w, WellFormed(w)
  PROVE  /\ WellFormed(RangesIn(w)) /\ SameShape(w, RangesIn(w)) /\ SameBodied(w, RangesIn(w))
         /\ ~Some(IsYear, RangesIn(w))
<1>1. PICK t : t = RangesIn(w)
  BY Zenon
<1>2. SameShape(w, t) /\ DOMAIN t = DOMAIN w
  BY <1>1, RangeOperands, Zenon DEF SameShape
<1>3. ASSUME NEW b \in DOMAIN w, NEW p
      PROVE  p \in Operands(t[b]) <=>
              \/ p \in Operands(w[b]) /\ ~IsYear(p)
              \/ \E o \in Operands(w[b]) : IsYear(o) /\ p \in HalfOpen(o)
  BY <1>1, RangeOperands, Zenon
<1>4. ~Some(IsYear, t)
  BY <1>2, <1>3, HalfOpenIs, Zenon DEF Some
<1>5. SameBodied(w, t)
  <2>1. ASSUME NEW o, HasBody(o) PROVE ~IsYear(o)
    BY <2>1 DEF HasBody, IsYear
  <2>. QED
    BY <1>3, <2>1, HalfOpenIs, Zenon DEF SameBodied
<1>6. ASSUME NEW b \in DOMAIN t, NEW p \in Operands(t[b])
      PROVE  OperandOK(t, b, p)
  <2>1. CASE p \in Operands(w[b]) /\ ~IsYear(p)
    <3>1. OperandOK(w, b, p)
      BY <1>2, <2>1, Zenon DEF WellFormed
    <3>2. HasBody(p) => Single(t, b, p)
      BY <1>2, <1>5, <3>1, Zenon DEF OperandOK, Single, SameBodied
    <3>3. Len(t) = Len(w)
      BY <1>2, Zenon DEF SameShape
    <3>. QED
      BY <3>1, <3>2, <3>3, Zenon DEF OperandOK
  <2>2. CASE \E o \in Operands(w[b]) : IsYear(o) /\ p \in HalfOpen(o)
    <3>1. PICK o \in Operands(w[b]) : IsYear(o) /\ p \in HalfOpen(o)
      BY <2>2, Zenon
    <3>2. o.nots \in Nat
      BY <1>2, <3>1, Zenon DEF WellFormed, OperandOK
    <3>. QED
      BY <3>1, <3>2, HalfOpenIs, Zenon DEF OperandOK
  <2>. QED
    BY <1>2, <1>3, <2>1, <2>2, Zenon
<1>7. WellFormed(t)
  <2>1. Len(t) \in Nat \ {0} /\ DOMAIN t = 1 .. Len(t)
    BY <1>2, Zenon DEF WellFormed, SameShape
  <2>2. \A b \in DOMAIN t : Len(t[b]) \in Nat \ {0} /\ DOMAIN t[b] = 1 .. Len(t[b])
    BY <1>2, Zenon DEF WellFormed, SameShape
  <2>. QED
    BY <1>6, <2>1, <2>2, Zenon DEF WellFormed
<1>. QED
  BY <1>1, <1>2, <1>4, <1>5, <1>7, Zenon

\* Where the bodies are the same, the same ones are within another.
LEMMA WithinSame ==
  ASSUME NEW w, NEW t, WellFormed(w), WellFormed(t), SameShape(w, t), SameBodied(w, t)
  PROVE  \A b \in DOMAIN w : Within(t)[b] = Within(w)[b]
<1>1. PICK f : f = Within(w)
  BY Zenon
<1>2. PICK g : g = Within(t)
  BY Zenon
<1>3. Len(w) \in Nat /\ DOMAIN w = 1 .. Len(w) /\ DOMAIN t = DOMAIN w
  BY Zenon DEF WellFormed, SameShape
<1>4. \A b \in DOMAIN w : f[b] = Inside(w, f, b) /\ g[b] = Inside(t, g, b)
  BY <1>1, <1>2, <1>3, WithinIs, Zenon
<1>. DEFINE T == {b \in DOMAIN w : g[b] # f[b]}
<1>5. SUFFICES ASSUME T # {} PROVE FALSE
  BY <1>1, <1>2, Zenon
<1>6. PICK b \in T : \A a \in T : b <= a
  <2>1. \A a \in DOMAIN w : a \in Nat
    BY <1>3
  <2>2. T \subseteq Nat
    BY <2>1, Zenon
  <2>. HIDE DEF T
  <2>. QED
    BY <1>5, <2>2, Least
<1>7. b \in DOMAIN w /\ g[b] # f[b]
  OBVIOUS
<1>8. \A a \in 1 .. (b - 1) : a \in DOMAIN w /\ ~(b <= a)
  <2>1. \A n \in Nat : \A c \in 1 .. n : \A a \in 1 .. (c - 1) : a \in 1 .. n /\ ~(c <= a)
    OBVIOUS
  <2>. QED
    BY <1>3, <1>7, <2>1, Zenon
<1>9. \A a \in 1 .. (b - 1) : f[a] = g[a]
  BY <1>6, <1>8, Zenon
<1>10. Inside(w, f, b) = Inside(w, g, b)
  BY <1>9, InsideDepends, Zenon
<1>11. Inside(w, g, b) = Inside(t, g, b)
  <2>1. Inside(w, g, b) <=> Inside(t, g, b)
    BY <1>8, Zenon DEF Inside, SameBodied
  <2>. QED
    BY <2>1 DEF Inside
<1>. QED
  BY <1>4, <1>7, <1>10, <1>11, Zenon

LEMMA RangesKeepPitfalls ==
  ASSUME NEW w, WellFormed(w)
  PROVE  /\ Pitfall(RangesIn(w)) => Pitfall(w)
         /\ NestedNotIn(RangesIn(w)) => NestedNotIn(w)
<1>1. PICK t : t = RangesIn(w)
  BY Zenon
<1>2. WellFormed(t) /\ SameShape(w, t) /\ SameBodied(w, t) /\ ~Some(IsYear, t)
  BY <1>1, RangesKeepShape, Zenon
<1>3. DOMAIN t = DOMAIN w
  BY <1>2, Zenon DEF SameShape
<1>4. ~Some(NegatedRange, t)
  BY <1>2, Zenon DEF Some, NegatedRange
<1>5. \A b \in DOMAIN w : \A o \in Operands(t[b]) : Rewritable(o) => o \in Operands(w[b])
  BY <1>2, RewritablesHaveBodies, Zenon DEF SameBodied
<1>6. Some(Captured, t) => Some(Captured, w)
  BY <1>3, <1>5, Zenon DEF Some, Captured
<1>7. ASSUME LooseBody(t) PROVE LooseBody(w)
  <2>1. PICK b \in DOMAIN w : \E o \in Operands(t[b]) : Rewritable(o) /\ Len(t[o.body]) > 1
    BY <1>3, <1>7, Zenon DEF LooseBody
  <2>2. PICK o \in Operands(t[b]) : Rewritable(o) /\ Len(t[o.body]) > 1
    BY <2>1, Zenon
  <2>3. o.body \in DOMAIN w
    BY <1>5, <2>2, BodiesArePlaces, RewritablesHaveBodies, Zenon
  <2>4. Len(t[o.body]) = Len(w[o.body])
    BY <1>2, <2>3, Zenon DEF SameShape
  <2>5. Len(w[o.body]) > 1
    BY <2>2, <2>4
  <2>. QED
    BY <1>5, <2>2, <2>5, Zenon DEF LooseBody
<1>8. NestedNotIn(t) => NestedNotIn(w)
  BY <1>2, <1>3, <1>5, WithinSame, Zenon DEF NestedNotIn
<1>. QED
  BY <1>1, <1>4, <1>6, <1>7, <1>8, Zenon DEF Pitfall

-----------------------------------------------------------------------------
\* What the pass makes of an operand.
Turned(o) == Negated(Exists(o.body), o.nots)
Image(w, b, o) == IF o \in Replaced(w, b) THEN Turned(o) ELSE o

LEMMA TurnedIs ==
  ASSUME NEW o
  PROVE  /\ Turned(o).op = "exists" /\ Turned(o).body = o.body /\ HasBody(Turned(o))
         /\ ~Rewritable(Turned(o)) /\ ~IsYear(Turned(o))
         /\ o.nots \in Nat => Turned(o).nots = o.nots
<1>1. /\ Turned(o).op = "exists" /\ Turned(o).body = o.body
      /\ o.nots \in Nat => Turned(o).nots = o.nots
  BY DEF Turned, Negated, Exists
<1>. QED
  BY <1>1 DEF HasBody, Rewritable, IsYear

LEMMA KeysAre ==
  ASSUME NEW w, NEW b, NEW p \in Correlation(w, b)
  PROVE  /\ p.op = "key" /\ ~HasBody(p) /\ ~Rewritable(p) /\ ~IsYear(p) /\ p.nots = 0
         /\ \E a \in 1 .. (b - 1) : \E o \in Replaced(w, a) : o.body = b /\ p = Key(o.qualifier)
<1>1. PICK a \in 1 .. (b - 1) : \E o \in Replaced(w, a) : o.body = b /\ p = Key(o.qualifier)
  BY Zenon DEF Correlation
<1>2. p.op = "key" /\ p.nots = 0
  BY <1>1 DEF Key
<1>3. ~HasBody(p) /\ ~Rewritable(p) /\ ~IsYear(p)
  BY <1>2 DEF HasBody, Rewritable, IsYear
<1>. QED
  BY <1>1, <1>2, <1>3, Zenon

LEMMA NotExistsInIs ==
  ASSUME NEW w, WellFormed(w)
  PROVE  /\ SameShape(w, NotExistsIn(w))
         /\ \A b \in DOMAIN w : \A i \in DOMAIN w[b] : \A p :
              p \in NotExistsIn(w)[b][i] <=>
                \/ \E o \in w[b][i] : p = Image(w, b, o)
                \/ i = Len(w[b]) /\ p \in Correlation(w, b)
<1>. DEFINE t == NotExistsIn(w)
            disjunct(b, i) == {IF o \in Replaced(w, b) THEN Negated(Exists(o.body), o.nots) ELSE o : o \in w[b][i]}
                              \cup (IF i = Len(w[b]) THEN Correlation(w, b) ELSE {})
<1>1. Len(w) \in Nat /\ DOMAIN w = 1 .. Len(w)
  BY DEF WellFormed
<1>2. t = [b \in DOMAIN w |-> [i \in DOMAIN w[b] |-> disjunct(b, i)]]
  BY Zenon DEF NotExistsIn
<1>3. ASSUME NEW b \in DOMAIN w, NEW i \in DOMAIN w[b], NEW p
      PROVE  p \in disjunct(b, i) <=>
                \/ \E o \in w[b][i] : p = Image(w, b, o)
                \/ i = Len(w[b]) /\ p \in Correlation(w, b)
  <2>1. p \in {IF o \in Replaced(w, b) THEN Negated(Exists(o.body), o.nots) ELSE o : o \in w[b][i]}
        <=> \E o \in w[b][i] : p = Image(w, b, o)
    BY Zenon DEF Image, Turned
  <2>2. p \in (IF i = Len(w[b]) THEN Correlation(w, b) ELSE {})
        <=> i = Len(w[b]) /\ p \in Correlation(w, b)
    BY Zenon
  <2>. QED
    BY <2>1, <2>2, Zenon
<1>. HIDE DEF t, disjunct
<1>4. DOMAIN t = DOMAIN w
  BY <1>2, Zenon
<1>5. Len(t) = Len(w)
  BY <1>1, <1>4, LengthIs
<1>6. ASSUME NEW b \in DOMAIN w
      PROVE  /\ Len(t[b]) = Len(w[b]) /\ DOMAIN t[b] = DOMAIN w[b]
             /\ \A i \in DOMAIN w[b] : t[b][i] = disjunct(b, i)
  <2>1. Len(w[b]) \in Nat /\ DOMAIN w[b] = 1 .. Len(w[b])
    BY DEF WellFormed
  <2>2. t[b] = [i \in DOMAIN w[b] |-> disjunct(b, i)]
    BY <1>2, Zenon
  <2>3. DOMAIN t[b] = DOMAIN w[b]
    BY <2>2, Zenon
  <2>4. Len(t[b]) = Len(w[b])
    BY <2>1, <2>3, LengthIs
  <2>. QED
    BY <2>2, <2>3, <2>4, Zenon
<1>7. SameShape(w, t)
  BY <1>4, <1>5, <1>6, Zenon DEF SameShape
<1>8. ASSUME NEW b \in DOMAIN w, NEW i \in DOMAIN w[b], NEW p
      PROVE  p \in t[b][i] <=>
                \/ \E o \in w[b][i] : p = Image(w, b, o)
                \/ i = Len(w[b]) /\ p \in Correlation(w, b)
  <2>1. t[b][i] = disjunct(b, i)
    BY <1>6, Zenon
  <2>. QED
    BY <1>3, <2>1, Zenon
<1>. QED
  BY <1>7, <1>8, Zenon DEF t

LEMMA NotExistsOperands ==
  ASSUME NEW w, WellFormed(w)
  PROVE  \A b \in DOMAIN w : \A p : p \in Operands(NotExistsIn(w)[b]) <=>
           \/ \E o \in Operands(w[b]) : p = Image(w, b, o)
           \/ p \in Correlation(w, b)
<1>1. PICK t : t = NotExistsIn(w)
  BY Zenon
<1>2. /\ SameShape(w, t)
      /\ \A b \in DOMAIN w : \A i \in DOMAIN w[b] : \A p :
              p \in t[b][i] <=>
                \/ \E o \in w[b][i] : p = Image(w, b, o)
                \/ i = Len(w[b]) /\ p \in Correlation(w, b)
  BY <1>1, NotExistsInIs, Zenon
<1>3. ASSUME NEW b \in DOMAIN w, NEW p
      PROVE  p \in Operands(t[b]) <=> \/ \E o \in Operands(w[b]) : p = Image(w, b, o)
                                      \/ p \in Correlation(w, b)
  <2>1. p \in Operands(t[b]) <=> \E i \in DOMAIN w[b] : p \in t[b][i]
    BY <1>2, OperandsAre, Zenon DEF SameShape
  <2>2. \A o : o \in Operands(w[b]) <=> \E i \in DOMAIN w[b] : o \in w[b][i]
    BY OperandsAre, Zenon
  <2>3. Len(w[b]) \in DOMAIN w[b]
    <3>1. Len(w[b]) \in Nat \ {0} /\ DOMAIN w[b] = 1 .. Len(w[b])
      BY Zenon DEF WellFormed
    <3>2. \A n \in Nat \ {0} : n \in 1 .. n
      OBVIOUS
    <3>. QED
      BY <3>1, <3>2, Zenon
  <2>. QED
    BY <1>2, <2>1, <2>2, <2>3, Zenon
<1>. QED
  BY <1>1, <1>3, Zenon

LEMMA NotExistsKeepsShape ==
  ASSUME NEW w, WellFormed(w)
  PROVE  /\ WellFormed(NotExistsIn(w)) /\ SameShape(w, NotExistsIn(w))
         /\ \A b \in DOMAIN w : \A p \in Operands(NotExistsIn(w)[b]) :
              IsYear(p) \/ Rewritable(p) => p \in Operands(w[b]) /\ p \notin Replaced(w, b)
<1>1. PICK t : t = NotExistsIn(w)
  BY Zenon
<1>2. SameShape(w, t) /\ DOMAIN t = DOMAIN w /\ Len(t) = Len(w)
  BY <1>1, NotExistsInIs, Zenon DEF SameShape
<1>3. \A b \in DOMAIN w : \A p : p \in Operands(t[b]) <=>
           \/ \E o \in Operands(w[b]) : p = Image(w, b, o)
           \/ p \in Correlation(w, b)
  BY <1>1, NotExistsOperands, Zenon
<1>4. ASSUME NEW b \in DOMAIN w, NEW p \in Operands(t[b]), HasBody(p)
      PROVE  \E o \in Operands(w[b]) : HasBody(o) /\ o.body = p.body /\ p = Image(w, b, o)
  <2>1. PICK o \in Operands(w[b]) : p = Image(w, b, o)
    BY <1>3, <1>4, KeysAre, Zenon
  <2>2. HasBody(o) /\ o.body = p.body
    <3>1. CASE o \in Replaced(w, b)
      <4>1. HasBody(o)
        BY <3>1, RewritablesHaveBodies, Zenon DEF Replaced
      <4>. QED
        BY <2>1, <3>1, <4>1, TurnedIs, Zenon DEF Image
    <3>2. CASE o \notin Replaced(w, b)
      BY <1>4, <2>1, <3>2, Zenon DEF Image
    <3>. QED
      BY <3>1, <3>2, Zenon
  <2>. QED
    BY <2>1, <2>2, Zenon
<1>5. ASSUME NEW b \in DOMAIN t, NEW p \in Operands(t[b])
      PROVE  OperandOK(t, b, p)
  <2>1. p.nots \in Nat /\ (IsYear(p) => p.n \in Int)
    <3>1. CASE p \in Correlation(w, b)
      <4>1. p.nots = 0 /\ ~IsYear(p)
        BY <3>1, KeysAre, Zenon
      <4>. QED
        BY <4>1
    <3>2. CASE \E o \in Operands(w[b]) : p = Image(w, b, o)
      <4>1. PICK o \in Operands(w[b]) : p = Image(w, b, o)
        BY <3>2, Zenon
      <4>2. OperandOK(w, b, o)
        BY <1>2, Zenon DEF WellFormed
      <4>. QED
        BY <4>1, <4>2, TurnedIs, Zenon DEF OperandOK, Image
    <3>. QED
      BY <1>2, <1>3, <3>1, <3>2, Zenon
  <2>2. ASSUME HasBody(p) PROVE p.body \in (b + 1) .. Len(t) /\ Single(t, b, p)
    <3>1. PICK o \in Operands(w[b]) : HasBody(o) /\ o.body = p.body /\ p = Image(w, b, o)
      BY <1>2, <1>4, <2>2, Zenon
    <3>2. o.body \in (b + 1) .. Len(w) /\ Single(w, b, o)
      BY <1>2, <3>1, Zenon DEF WellFormed, OperandOK
    <3>3. ASSUME NEW a \in DOMAIN t, NEW q \in Operands(t[a]), HasBody(q), q.body = p.body
          PROVE  a = b /\ q = p
      <4>1. PICK r \in Operands(w[a]) : HasBody(r) /\ r.body = q.body /\ q = Image(w, a, r)
        BY <1>2, <1>4, <3>3, Zenon
      <4>2. a = b /\ r = o
        BY <1>2, <3>1, <3>2, <3>3, <4>1, Zenon DEF Single
      <4>. QED
        BY <3>1, <4>1, <4>2, Zenon
    <3>4. Single(t, b, p)
      BY <3>3, Zenon DEF Single
    <3>. QED
      BY <1>2, <3>1, <3>2, <3>4, Zenon
  <2>. QED
    BY <2>1, <2>2, Zenon DEF OperandOK
<1>6. WellFormed(t)
  <2>1. Len(t) \in Nat \ {0} /\ DOMAIN t = 1 .. Len(t)
    BY <1>2, Zenon DEF WellFormed, SameShape
  <2>2. \A b \in DOMAIN t : Len(t[b]) \in Nat \ {0} /\ DOMAIN t[b] = 1 .. Len(t[b])
    BY <1>2, Zenon DEF WellFormed, SameShape
  <2>. QED
    BY <1>5, <2>1, <2>2, Zenon DEF WellFormed
<1>7. ASSUME NEW b \in DOMAIN w, NEW p \in Operands(t[b]), IsYear(p) \/ Rewritable(p)
      PROVE  p \in Operands(w[b]) /\ p \notin Replaced(w, b)
  <2>1. PICK o \in Operands(w[b]) : p = Image(w, b, o)
    BY <1>3, <1>7, KeysAre, Zenon
  <2>2. o \notin Replaced(w, b)
    BY <1>7, <2>1, TurnedIs, Zenon DEF Image
  <2>. QED
    BY <2>1, <2>2, Zenon DEF Image
<1>. QED
  BY <1>1, <1>2, <1>6, <1>7, Zenon

LEMMA NotExistsKeepsPitfalls ==
  ASSUME NEW w, WellFormed(w)
  PROVE  /\ Pitfall(NotExistsIn(w)) => Pitfall(w)
         /\ Some(IsYear, NotExistsIn(w)) => Some(IsYear, w)
         /\ Some(Rewritable, NotExistsIn(w)) => NestedNotIn(w)
<1>1. PICK t : t = NotExistsIn(w)
  BY Zenon
<1>2. SameShape(w, t) /\ DOMAIN t = DOMAIN w
  BY <1>1, NotExistsInIs, Zenon DEF SameShape
<1>3. \A b \in DOMAIN w : \A p \in Operands(t[b]) :
              IsYear(p) \/ Rewritable(p) => p \in Operands(w[b]) /\ p \notin Replaced(w, b)
  BY <1>1, NotExistsKeepsShape, Zenon
<1>4. /\ Some(NegatedRange, t) => Some(NegatedRange, w)
      /\ Some(Captured, t) => Some(Captured, w)
      /\ Some(IsYear, t) => Some(IsYear, w)
  BY <1>2, <1>3, Zenon DEF Some, NegatedRange, Captured
<1>5. ASSUME LooseBody(t) PROVE LooseBody(w)
  <2>1. PICK b \in DOMAIN w : \E o \in Operands(t[b]) : Rewritable(o) /\ Len(t[o.body]) > 1
    BY <1>2, <1>5, Zenon DEF LooseBody
  <2>2. PICK o \in Operands(t[b]) : Rewritable(o) /\ Len(t[o.body]) > 1
    BY <2>1, Zenon
  <2>3. o.body \in DOMAIN w
    BY <1>3, <2>2, BodiesArePlaces, RewritablesHaveBodies, Zenon
  <2>4. Len(t[o.body]) = Len(w[o.body])
    BY <1>2, <2>3, Zenon DEF SameShape
  <2>5. Len(w[o.body]) > 1
    BY <2>2, <2>4
  <2>. QED
    BY <1>3, <2>2, <2>5, Zenon DEF LooseBody
<1>6. Some(Rewritable, t) => NestedNotIn(w)
  BY <1>2, <1>3, Zenon DEF Some, NestedNotIn, Replaced
<1>. QED
  BY <1>1, <1>4, <1>5, <1>6, Zenon DEF Pitfall

\* Which conditions are correlated: the bodies of replaced operands, one key each.
CorrelatedBy(w, c, o) ==
  /\ Correlation(w, c) = {Key(o.qualifier)}
  /\ Replaced(w, c) = {}
  /\ Rewritable(o) /\ (LooseBody(w) \/ Len(w[c]) = 1)

LEMMA ReplacedBodies ==
  ASSUME NEW w, WellFormed(w), NEW b \in DOMAIN w, NEW o \in Operands(w[b]), HasBody(o)
  PROVE  /\ o \in Replaced(w, b) => CorrelatedBy(w, o.body, o)
         /\ o \notin Replaced(w, b) => Correlation(w, o.body) = {}
<1>1. Len(w) \in Nat /\ DOMAIN w = 1 .. Len(w)
  BY Zenon DEF WellFormed
<1>2. o.body \in DOMAIN w /\ o.body \in (b + 1) .. Len(w) /\ Single(w, b, o)
  BY BodiesArePlaces, Zenon DEF WellFormed, OperandOK
<1>3. b \in 1 .. (o.body - 1) /\ \A a \in 1 .. (o.body - 1) : a \in DOMAIN w
  <2>1. \A n \in Nat : \A a \in 1 .. n : \A c \in (a + 1) .. n : a \in 1 .. (c - 1)
    OBVIOUS
  <2>2. \A n \in Nat : \A c \in 1 .. n : \A a \in 1 .. (c - 1) : a \in 1 .. n
    OBVIOUS
  <2>3. b \in 1 .. Len(w) /\ o.body \in 1 .. Len(w)
    BY <1>1, <1>2, Zenon
  <2>. QED
    BY <1>1, <1>2, <2>1, <2>2, <2>3, Zenon
<1>4. \A p : p \in Correlation(w, o.body) <=>
        \E a \in 1 .. (o.body - 1) : \E q \in Replaced(w, a) : q.body = o.body /\ p = Key(q.qualifier)
  BY Zenon DEF Correlation
<1>5. ASSUME NEW a \in 1 .. (o.body - 1), NEW q \in Replaced(w, a), q.body = o.body
      PROVE  a = b /\ q = o
  BY <1>2, <1>3, <1>5, RewritablesHaveBodies, Zenon DEF Replaced, Single
<1>6. ASSUME o \in Replaced(w, b) PROVE CorrelatedBy(w, o.body, o)
  <2>1. Correlation(w, o.body) = {Key(o.qualifier)}
    BY <1>3, <1>4, <1>5, <1>6, Zenon
  <2>2. Rewritable(o)
    BY <1>6, Zenon DEF Replaced
  <2>3. Within(w)[o.body]
    <3>1. Inside(w, Within(w), o.body)
      BY <1>3, <2>2, Zenon DEF Inside
    <3>. QED
      BY <1>2, <3>1, WithinIs, Zenon
  <2>4. Replaced(w, o.body) = {}
    BY <2>3, Zenon DEF Replaced
  <2>5. LooseBody(w) \/ Len(w[o.body]) = 1
    <3>1. Len(w[o.body]) \in Nat \ {0}
      BY <1>2, Zenon DEF WellFormed
    <3>2. LooseBody(w) \/ ~(Len(w[o.body]) > 1)
      BY <1>2, <2>2, Zenon DEF LooseBody
    <3>3. \A n \in Nat \ {0} : ~(n > 1) => n = 1
      OBVIOUS
    <3>. QED
      BY <3>1, <3>2, <3>3, Zenon
  <2>. QED
    BY <2>1, <2>2, <2>4, <2>5, Zenon DEF CorrelatedBy
<1>7. ASSUME o \notin Replaced(w, b) PROVE Correlation(w, o.body) = {}
  BY <1>4, <1>5, <1>7, Zenon
<1>. QED
  BY <1>6, <1>7, Zenon

\* How a condition fares in the pass: as before, or as before with its key.
Fares(w, v, u, row, table, b) ==
  /\ Correlation(w, b) = {} => u[b] = v[b]
  /\ Correlation(w, b) # {} =>
       \A r \in table : u[b][r] = 2 <=> v[b][r] = 2 /\ Equal(r.c, row.x) = 2

\* NOT IN and the NOT EXISTS it becomes, where no null is compared.
LEMMA TurnedMeans ==
  ASSUME NEW o, NEW v, NEW u, NEW inner, NEW row, NEW table, o.op = "in", o.nots \in Nat,
         row.x # NULL, \A r \in table : r.c # NULL,
         \A r \in table : u[o.body][r] = 2 <=> v[o.body][r] = 2 /\ Equal(r.c, row.x) = 2
  PROVE  Literal(Turned(o), inner, row, table, u) = Literal(o, inner, row, table, v)
<1>. DEFINE Kept == {r \in table : v[o.body][r] = 2}
            Left == {r \in table : u[o.body][r] = 2}
<1>1. \A r \in table : Equal(row.x, r.c) = Equal(r.c, row.x) /\ Equal(row.x, r.c) # 1
  BY DEF Equal
<1>2. Left # {} <=> \E r \in Kept : Equal(row.x, r.c) = 2
  BY <1>1, Zenon
<1>3. ~ \E r \in Kept : Equal(row.x, r.c) = 1
  BY <1>1, Zenon
<1>4. Truth(o, inner, row, table, v) = IF \E r \in Kept : Equal(row.x, r.c) = 2 THEN 2
                                       ELSE IF \E r \in Kept : Equal(row.x, r.c) = 1 THEN 1 ELSE 0
  BY DEF Truth
<1>5. Truth(Turned(o), inner, row, table, u) = Bool(Left # {})
  <2>1. Turned(o).op = "exists" /\ Turned(o).body = o.body
    BY TurnedIs, Zenon
  <2>. QED
    BY <2>1 DEF Truth
<1>. HIDE DEF Kept, Left
<1>6. Truth(Turned(o), inner, row, table, u) = Truth(o, inner, row, table, v)
  BY <1>2, <1>3, <1>4, <1>5 DEF Bool
<1>7. Turned(o).nots = o.nots
  BY TurnedIs, Zenon
<1>. QED
  BY <1>6, <1>7, Zenon DEF Literal

LEMMA KeyMeans ==
  ASSUME NEW q, q # "shared", NEW inner, NEW row, NEW table, NEW u
  PROVE  Literal(Key(q), inner, row, table, u) = Equal(inner.c, row.x)
<1>1. Truth(Key(q), inner, row, table, u) = Equal(inner.c, row.x)
  BY DEF Truth, Key
<1>2. Key(q).nots % 2 = 0
  BY DEF Key
<1>. QED
  BY <1>1, <1>2, Zenon DEF Literal

LEMMA TrueVerdict ==
  ASSUME NEW c, NEW inner, NEW row, NEW table, NEW v
  PROVE  Verdict(c, inner, row, table, v) = 2
           <=> \E i \in DOMAIN c : \A o \in c[i] : Literal(o, inner, row, table, v) = 2
  BY DEF Verdict

\* Outside the pitfalls and without nulls every condition fares so.
LEMMA NotExistsFares ==
  ASSUME NEW w, NEW row, NEW table, WellFormed(w), ~Some(Captured, w), ~LooseBody(w),
         row.x # NULL, \A r \in table : r.c # NULL
  PROVE  \A b \in DOMAIN w :
           Fares(w, Values(w, row, table), Values(NotExistsIn(w), row, table), row, table, b)
<1>1. PICK t : t = NotExistsIn(w)
  BY Zenon
<1>2. PICK v : v = Values(w, row, table)
  BY Zenon
<1>3. PICK u : u = Values(t, row, table)
  BY Zenon
<1>4. Len(w) \in Nat /\ DOMAIN w = 1 .. Len(w)
  BY DEF WellFormed
<1>5. /\ WellFormed(t) /\ DOMAIN t = DOMAIN w
      /\ \A b \in DOMAIN w : DOMAIN t[b] = DOMAIN w[b]
  BY <1>1, NotExistsKeepsShape, Zenon DEF SameShape
<1>6. \A b \in DOMAIN w : \A i \in DOMAIN w[b] : \A p :
              p \in t[b][i] <=>
                \/ \E o \in w[b][i] : p = Image(w, b, o)
                \/ i = Len(w[b]) /\ p \in Correlation(w, b)
  BY <1>1, NotExistsInIs, Zenon
<1>7. \A b \in DOMAIN w : v[b] = OwnValues(w, row, table, b, v) /\ u[b] = OwnValues(t, row, table, b, u)
  BY <1>2, <1>3, <1>5, ValuesAre, Zenon
<1>. DEFINE T == {b \in DOMAIN w : ~Fares(w, v, u, row, table, b)}
<1>8. SUFFICES ASSUME T # {} PROVE FALSE
  BY <1>1, <1>2, <1>3, Zenon
<1>9. PICK b \in T : \A a \in T : a <= b
  <2>1. T \subseteq 1 .. Len(w)
    BY <1>4, Zenon
  <2>. HIDE DEF T
  <2>. QED
    BY <1>4, <1>8, <2>1, Latest
<1>10. b \in DOMAIN w /\ ~Fares(w, v, u, row, table, b)
  OBVIOUS
<1>11. \A a \in (b + 1) .. Len(w) : a \in DOMAIN w /\ Fares(w, v, u, row, table, a)
  BY <1>4, <1>9, <1>10, LaterPlace, Zenon
<1>12. ASSUME NEW inner, NEW o \in Operands(w[b])
       PROVE  Literal(Image(w, b, o), inner, row, table, u) = Literal(o, inner, row, table, v)
  <2>1. HasBody(o) => Fares(w, v, u, row, table, o.body)
    BY <1>10, <1>11, BodiesArePlaces, Zenon
  <2>2. CASE o \in Replaced(w, b)
    <3>1. Rewritable(o) /\ HasBody(o) /\ o.op = "in"
      BY <2>2, RewritablesHaveBodies, Zenon DEF Replaced
    <3>2. Correlation(w, o.body) # {}
      <4>1. CorrelatedBy(w, o.body, o)
        BY <1>10, <2>2, <3>1, ReplacedBodies, Zenon
      <4>. QED
        BY <4>1 DEF CorrelatedBy
    <3>3. \A r \in table : u[o.body][r] = 2 <=> v[o.body][r] = 2 /\ Equal(r.c, row.x) = 2
      BY <2>1, <3>1, <3>2, Zenon DEF Fares
    <3>4. o.nots \in Nat
      BY <1>10, Zenon DEF WellFormed, OperandOK
    <3>5. Image(w, b, o) = Turned(o)
      BY <2>2, Zenon DEF Image
    <3>6. Literal(Turned(o), inner, row, table, u) = Literal(o, inner, row, table, v)
      BY <3>1, <3>3, <3>4, TurnedMeans
    <3>. QED
      BY <3>5, <3>6, Zenon
  <2>3. CASE o \notin Replaced(w, b)
    <3>1. Image(w, b, o) = o
      BY <2>3, Zenon DEF Image
    <3>2. HasBody(o) => u[o.body] = v[o.body]
      BY <1>10, <2>1, <2>3, ReplacedBodies, Zenon DEF Fares
    <3>3. Literal(o, inner, row, table, u) = Literal(o, inner, row, table, v)
      BY <3>2, LiteralDepends
    <3>. QED
      BY <3>1, <3>3, Zenon
  <2>. QED
    BY <2>2, <2>3, Zenon
<1>13. \A i \in DOMAIN w[b] : \A o \in w[b][i] : o \in Operands(w[b])
  BY OperandsAre, Zenon
<1>14. ASSUME Correlation(w, b) = {} PROVE u[b] = v[b]
  <2>1. ASSUME NEW inner
        PROVE  Verdict(w[b], inner, row, table, v) = Verdict(t[b], inner, row, table, u)
    <3>1. ASSUME NEW i \in DOMAIN w[b]
          PROVE  /\ (\A o \in w[b][i] : Literal(o, inner, row, table, v) = 2)
                      <=> (\A p \in t[b][i] : Literal(p, inner, row, table, u) = 2)
                 /\ (\E o \in w[b][i] : Literal(o, inner, row, table, v) = 0)
                      <=> (\E p \in t[b][i] : Literal(p, inner, row, table, u) = 0)
      <4>1. \A p : p \in t[b][i] <=> \E o \in w[b][i] : p = Image(w, b, o)
        BY <1>6, <1>10, <1>14, Zenon
      <4>2. \A o \in w[b][i] : Literal(Image(w, b, o), inner, row, table, u) = Literal(o, inner, row, table, v)
        BY <1>12, <1>13, Zenon
      <4>. QED
        BY <4>1, <4>2, Zenon
    <3>2. Alike(w[b], v, t[b], u, inner, row, table)
      BY <1>5, <1>10, <3>1, Zenon DEF Alike
    <3>. QED
      BY <3>2, AlikeIsEqual
  <2>2. OwnValues(w, row, table, b, v) = OwnValues(t, row, table, b, u)
    BY <2>1, Zenon DEF OwnValues
  <2>. QED
    BY <1>7, <1>10, <2>2, Zenon
<1>15. ASSUME Correlation(w, b) # {}, NEW r \in table
       PROVE  u[b][r] = 2 <=> v[b][r] = 2 /\ Equal(r.c, row.x) = 2
  <2>1. PICK a \in 1 .. (b - 1) : \E o \in Replaced(w, a) : o.body = b
    BY <1>15, Zenon DEF Correlation
  <2>2. PICK o \in Replaced(w, a) : o.body = b
    BY <2>1, Zenon
  <2>3. a \in DOMAIN w
    <3>1. \A n \in Nat : \A c \in 1 .. n : \A d \in 1 .. (c - 1) : d \in 1 .. n
      OBVIOUS
    <3>. QED
      BY <1>4, <1>10, <2>1, <3>1, Zenon
  <2>4. o \in Operands(w[a]) /\ Rewritable(o) /\ HasBody(o)
    BY <2>2, RewritablesHaveBodies, Zenon DEF Replaced
  <2>5. CorrelatedBy(w, b, o)
    BY <2>2, <2>3, <2>4, ReplacedBodies, Zenon
  <2>6. /\ Correlation(w, b) = {Key(o.qualifier)} /\ Replaced(w, b) = {} /\ Len(w[b]) = 1
        /\ DOMAIN w[b] = 1 .. Len(w[b])
    BY <1>10, <2>5, Zenon DEF CorrelatedBy, WellFormed
  <2>7. \A i : i \in DOMAIN w[b] <=> i = 1
    BY <2>6
  <2>8. o.qualifier # "shared"
    BY <2>3, <2>4, Zenon DEF Some, Captured
  <2>9. \A p : p \in t[b][1] <=> p \in w[b][1] \/ p = Key(o.qualifier)
    <3>1. \A p : p \in t[b][1] <=> \/ \E q \in w[b][1] : p = Image(w, b, q)
                                   \/ p \in Correlation(w, b)
      BY <1>6, <1>10, <2>6, <2>7, Zenon
    <3>2. \A q : Image(w, b, q) = q
      BY <2>6, Zenon DEF Image
    <3>. QED
      BY <2>6, <3>1, <3>2, Zenon
  <2>10. \A q \in w[b][1] : Literal(q, r, row, table, u) = Literal(q, r, row, table, v)
    <3>1. \A q \in w[b][1] : q \in Operands(w[b]) /\ Image(w, b, q) = q
      BY <1>13, <2>6, <2>7, Zenon DEF Image
    <3>. QED
      BY <1>12, <3>1, Zenon
  <2>11. Literal(Key(o.qualifier), r, row, table, u) = Equal(r.c, row.x)
    BY <2>8, KeyMeans, Zenon
  <2>12. (\A p \in t[b][1] : Literal(p, r, row, table, u) = 2)
         <=> (\A q \in w[b][1] : Literal(q, r, row, table, v) = 2) /\ Equal(r.c, row.x) = 2
    BY <2>9, <2>10, <2>11, Zenon
  <2>13. Verdict(w[b], r, row, table, v) = 2 <=> \A q \in w[b][1] : Literal(q, r, row, table, v) = 2
    BY <2>7, TrueVerdict, Zenon
  <2>14. Verdict(t[b], r, row, table, u) = 2 <=> \A q \in t[b][1] : Literal(q, r, row, table, u) = 2
    <3>1. \A i : i \in DOMAIN t[b] <=> i = 1
      BY <1>5, <1>10, <2>7, Zenon
    <3>. QED
      BY <3>1, TrueVerdict, Zenon
  <2>15. v[b][r] = Verdict(w[b], r, row, table, v) /\ u[b][r] = Verdict(t[b], r, row, table, u)
    <3>1. /\ OwnValues(w, row, table, b, v)[r] = Verdict(w[b], r, row, table, v)
          /\ OwnValues(t, row, table, b, u)[r] = Verdict(t[b], r, row, table, u)
      BY Zenon DEF OwnValues
    <3>. QED
      BY <1>7, <1>10, <3>1, Zenon
  <2>. QED
    BY <2>12, <2>13, <2>14, <2>15, Zenon
<1>. QED
  BY <1>10, <1>14, <1>15, Zenon DEF Fares

-----------------------------------------------------------------------------
\* What each pass does to the value of a statement.
LEMMA RangesKeepValue ==
  ASSUME NEW w, NEW row, NEW table, WellFormed(w), ~Pitfall(w), row.d \in Int \cup {NULL}
  PROVE  Value(RangesIn(w), row, table) = Value(w, row, table)
<1>1. Len(w) \in Nat \ {0} /\ DOMAIN w = 1 .. Len(w)
  BY Zenon DEF WellFormed
<1>2. 1 \in DOMAIN w
  BY <1>1
<1>3. ~Some(NegatedRange, w)
  BY Zenon DEF Pitfall
<1>4. Values(RangesIn(w), row, table)[1] = Values(w, row, table)[1]
  <2>1. WellFormed(RangesIn(w))
    BY RangesKeepShape, Zenon
  <2>. QED
    BY <1>2, <1>3, <2>1, RangesKeepValues
<1>. QED
  BY <1>4, Zenon DEF Value

LEMMA NotExistsKeepsValue ==
  ASSUME NEW w, NEW row, NEW table, WellFormed(w), ~Pitfall(w),
         row.x # NULL, \A r \in table : r.c # NULL
  PROVE  Value(NotExistsIn(w), row, table) = Value(w, row, table)
<1>1. Len(w) \in Nat \ {0} /\ DOMAIN w = 1 .. Len(w)
  BY Zenon DEF WellFormed
<1>2. 1 \in DOMAIN w /\ 1 .. (1 - 1) = {}
  BY <1>1
<1>3. ~Some(Captured, w) /\ ~LooseBody(w)
  BY Zenon DEF Pitfall
<1>4. Fares(w, Values(w, row, table), Values(NotExistsIn(w), row, table), row, table, 1)
  BY <1>2, <1>3, NotExistsFares
<1>5. Correlation(w, 1) = {}
  BY <1>2, Zenon DEF Correlation
<1>. QED
  BY <1>4, <1>5, Zenon DEF Fares, Value

-----------------------------------------------------------------------------
SameValues(w, t) ==
  \A table \in Tables, row \in OuterRows :
    (\A r \in table : r.c # NULL) /\ row.x # NULL => Value(t, row, table) = Value(w, row, table)
RowsKept(w, t) == ~Pitfall(w) => ~Pitfall(t) /\ SameValues(w, t)

\* A statement is two parts; the passes on the clause leave the sort alone.
IsStatement(s) ==
  /\ s = [where |-> s.where, cte |-> s.cte]
  /\ s.cte = [order |-> s.cte.order, limit |-> s.cte.limit, offset |-> s.cte.offset]
  /\ s.cte.order \in BOOLEAN /\ s.cte.limit \in BOOLEAN

\* The clause is as good as the first one, and a limited CTE keeps its sort.
KeptInv ==
  /\ original \in Repairs
  /\ IsStatement(tree) /\ WellFormed(tree.where)
  /\ RowsKept(original.where, tree.where)
  /\ tree.cte.limit = original.cte.limit
  /\ original.cte.limit => tree.cte.order = original.cte.order

\* What a pass has rewritten it does not find again, and from the second
\* round on no pass finds anything.
DoneInv ==
  /\ pass \in {"datetime", "not in", "cte sort", "render"} /\ round \in Nat \ {0}
  /\ round = 1 /\ pass = "datetime" => tree.where = original.where
  /\ round = 1 /\ pass = "not in" => tree.where = RangesIn(original.where)
  /\ round # 1 \/ pass # "datetime" => ~Some(IsYear, tree.where)
  /\ ~NestedNotIn(original.where) =>
       /\ round # 1 \/ pass \in {"cte sort", "render"} => ~Some(Rewritable, tree.where)
       /\ round # 1 => applied = {}
  /\ round # 1 \/ pass = "render" => ~Sorted(tree)

RewriteInv == KeptInv /\ DoneInv

WithWhere(s, w, t) == t = [s EXCEPT !.where = w]
WithOrder(s, o, t) == t = [s EXCEPT !.cte.order = o]

LEMMA WherePut ==
  ASSUME NEW s, IsStatement(s), NEW w, NEW t, WithWhere(s, w, t)
  PROVE  IsStatement(t) /\ t.where = w /\ t.cte = s.cte
<1>1. s = [where |-> s.where, cte |-> s.cte]
  BY Zenon DEF IsStatement
<1>2. t = [where |-> w, cte |-> s.cte]
  BY <1>1 DEF WithWhere
<1>3. t.where = w /\ t.cte = s.cte
  BY <1>2
<1>. QED
  BY <1>2, <1>3, Zenon DEF IsStatement

LEMMA OrderPut ==
  ASSUME NEW s, IsStatement(s), NEW o \in BOOLEAN, NEW t, WithOrder(s, o, t)
  PROVE  /\ IsStatement(t) /\ t.where = s.where
         /\ t.cte.order = o /\ t.cte.limit = s.cte.limit
<1>1. /\ s = [where |-> s.where, cte |-> s.cte]
      /\ s.cte = [order |-> s.cte.order, limit |-> s.cte.limit, offset |-> s.cte.offset]
      /\ s.cte.limit \in BOOLEAN
  BY Zenon DEF IsStatement
<1>2. PICK c : c = [order |-> o, limit |-> s.cte.limit, offset |-> s.cte.offset]
  BY Zenon
<1>3. [s.cte EXCEPT !.order = o] = c
  BY <1>1, <1>2
<1>4. t = [where |-> s.where, cte |-> c]
  BY <1>1, <1>3 DEF WithOrder
<1>5. t.where = s.where /\ t.cte = c
  BY <1>4
<1>6. c.order = o /\ c.limit = s.cte.limit /\ c.offset = s.cte.offset
  BY <1>2
<1>. QED
  BY <1>1, <1>2, <1>4, <1>5, <1>6, Zenon DEF IsStatement

LEMMA InitRewriteInv == RInit => RewriteInv
<1>. SUFFICES ASSUME RInit PROVE RewriteInv
  OBVIOUS
<1>1. original \in Repairs /\ tree = original /\ pass = "datetime" /\ round = 1 /\ applied = {}
  BY DEF RInit
<1>2. original.where \in Clause
  BY <1>1, RewritesAssumption, Zenon
<1>3. WellFormed(original.where)
  BY <1>2, ClausesAreWellFormed, Zenon
<1>4. IsStatement(original)
  <2>1. PICK c : c = original.cte
    BY Zenon
  <2>2. original = [where |-> original.where, cte |-> c] /\ c \in [order : BOOLEAN, limit : BOOLEAN, offset : BOOLEAN]
    BY <1>1, <2>1, RewritesAssumption, Zenon
  <2>3. c = [order |-> c.order, limit |-> c.limit, offset |-> c.offset]
        /\ c.order \in BOOLEAN /\ c.limit \in BOOLEAN
    BY <2>2
  <2>. QED
    BY <2>1, <2>2, <2>3, Zenon DEF IsStatement
<1>5. RowsKept(original.where, original.where)
  BY Zenon DEF RowsKept, SameValues
<1>6. KeptInv
  BY <1>1, <1>3, <1>4, <1>5, Zenon DEF KeptInv
<1>7. DoneInv
  <2>1. "datetime" # "not in" /\ "datetime" # "cte sort" /\ "datetime" # "render" /\ round \in Nat \ {0}
    BY <1>1
  <2>. QED
    BY <1>1, <2>1, Zenon DEF DoneInv
<1>. QED
  BY <1>6, <1>7 DEF RewriteInv

\* The passes on a clause, as functions of it.
LEMMA RangesKeepRows ==
  ASSUME NEW a, NEW w, WellFormed(w), RowsKept(a, w)
  PROVE  RowsKept(a, RangesIn(w))
<1>. SUFFICES ASSUME ~Pitfall(a) PROVE ~Pitfall(RangesIn(w)) /\ SameValues(a, RangesIn(w))
  BY Zenon DEF RowsKept
<1>1. ~Pitfall(w) /\ SameValues(a, w)
  BY Zenon DEF RowsKept
<1>2. \A row \in OuterRows : row.d \in Int \cup {NULL}
  BY RewritesAssumption, Zenon
<1>3. \A table : \A row \in OuterRows : Value(RangesIn(w), row, table) = Value(w, row, table)
  BY <1>1, <1>2, RangesKeepValue, Zenon
<1>. QED
  BY <1>1, <1>3, RangesKeepPitfalls, Zenon DEF SameValues

LEMMA NotExistsKeepsRows ==
  ASSUME NEW a, NEW w, WellFormed(w), RowsKept(a, w)
  PROVE  RowsKept(a, NotExistsIn(w))
<1>. SUFFICES ASSUME ~Pitfall(a) PROVE ~Pitfall(NotExistsIn(w)) /\ SameValues(a, NotExistsIn(w))
  BY Zenon DEF RowsKept
<1>1. ~Pitfall(w) /\ SameValues(a, w)
  BY Zenon DEF RowsKept
<1>2. ASSUME NEW table, NEW row, \A r \in table : r.c # NULL, row.x # NULL
      PROVE  Value(NotExistsIn(w), row, table) = Value(w, row, table)
  BY <1>1, <1>2, NotExistsKeepsValue
<1>. QED
  BY <1>1, <1>2, NotExistsKeepsPitfalls, Zenon DEF SameValues

LEMMA FewerRewritables ==
  ASSUME NEW w, WellFormed(w), ~Some(Rewritable, w)
  PROVE  /\ ~Some(Rewritable, RangesIn(w)) /\ ~NestedNotIn(w)
<1>1. SameShape(w, RangesIn(w)) /\ SameBodied(w, RangesIn(w))
  BY RangesKeepShape, Zenon
<1>2. \A b \in DOMAIN w : \A o \in Operands(w[b]) : ~Rewritable(o)
  BY Zenon DEF Some
<1>3. ~NestedNotIn(w)
  BY <1>2, Zenon DEF NestedNotIn
<1>4. ~Some(Rewritable, RangesIn(w))
  BY <1>1, <1>2, RewritablesHaveBodies, Zenon DEF Some, SameShape, SameBodied
<1>. QED
  BY <1>3, <1>4, Zenon

LEMMA DatetimeStep ==
  ASSUME RewriteInv, DatetimeRanges
  PROVE  RewriteInv'
<1>1. KeptInv /\ DoneInv
  BY DEF RewriteInv
<1>2. /\ pass = "datetime" /\ pass' = "not in" /\ original' = original /\ round' = round
      /\ tree' = [tree EXCEPT !.where = RangesIn(tree.where)]
  BY Zenon DEF DatetimeRanges
<1>3. IsStatement(tree') /\ tree'.where = RangesIn(tree.where) /\ tree'.cte = tree.cte
  <2>1. PICK s : s = tree
    BY Zenon
  <2>2. PICK t : t = tree'
    BY Zenon
  <2>3. PICK w : w = RangesIn(tree.where)
    BY Zenon
  <2>4. IsStatement(s)
    BY <1>1, <2>1, Zenon DEF KeptInv
  <2>5. WithWhere(s, w, t)
    BY <1>2, <2>1, <2>2, <2>3 DEF WithWhere
  <2>6. IsStatement(t) /\ t.where = w /\ t.cte = s.cte
    BY <2>4, <2>5, WherePut, Zenon
  <2>. QED
    BY <2>1, <2>2, <2>3, <2>6, Zenon
<1>4. WellFormed(tree.where) /\ RowsKept(original.where, tree.where)
  BY <1>1, Zenon DEF KeptInv
<1>5. WellFormed(RangesIn(tree.where)) /\ RowsKept(original.where, RangesIn(tree.where))
  BY <1>4, RangesKeepShape, RangesKeepRows, Zenon
<1>6. KeptInv'
  BY <1>1, <1>2, <1>3, <1>5, Zenon DEF KeptInv
<1>7. "not in" # "datetime" /\ "not in" # "cte sort" /\ "not in" # "render"
      /\ "datetime" # "cte sort" /\ "datetime" # "render"
  OBVIOUS
<1>8. ~Some(IsYear, RangesIn(tree.where))
  BY <1>4, RangesKeepShape, Zenon
<1>9. ~Some(Rewritable, tree.where) => ~Some(Rewritable, RangesIn(tree.where))
  BY <1>4, FewerRewritables
<1>10. ~Some(IsYear, tree.where) /\ applied = {} => applied' = {}
  <2>1. applied' = applied \cup (IF Some(IsYear, tree.where) THEN {"OPT-SARG-RANGE"} ELSE {})
    BY Zenon DEF DatetimeRanges, Record
  <2>. QED
    BY <2>1
<1>11. Sorted(tree') <=> Sorted(tree)
  BY <1>3, Zenon DEF Sorted
<1>12. DoneInv'
  <2>1. /\ round' \in Nat \ {0}
        /\ round' = 1 => tree'.where = RangesIn(original'.where)
        /\ ~Some(IsYear, tree'.where)
        /\ round' # 1 => ~Sorted(tree')
    BY <1>1, <1>2, <1>3, <1>8, <1>11, Zenon DEF DoneInv
  <2>2. ~NestedNotIn(original'.where) /\ round' # 1 => ~Some(Rewritable, tree'.where) /\ applied' = {}
    BY <1>1, <1>2, <1>3, <1>9, <1>10, Zenon DEF DoneInv
  <2>. QED
    BY <1>2, <1>7, <2>1, <2>2, Zenon DEF DoneInv
<1>. QED
  BY <1>6, <1>12 DEF RewriteInv

LEMMA NotInStep ==
  ASSUME RewriteInv, NotInToNotExists
  PROVE  RewriteInv'
<1>1. KeptInv /\ DoneInv
  BY DEF RewriteInv
<1>2. /\ pass = "not in" /\ pass' = "cte sort" /\ original' = original /\ round' = round
      /\ tree' = [tree EXCEPT !.where = NotExistsIn(tree.where)]
  BY Zenon DEF NotInToNotExists
<1>3. IsStatement(tree') /\ tree'.where = NotExistsIn(tree.where) /\ tree'.cte = tree.cte
  <2>1. PICK s : s = tree
    BY Zenon
  <2>2. PICK t : t = tree'
    BY Zenon
  <2>3. PICK w : w = NotExistsIn(tree.where)
    BY Zenon
  <2>4. IsStatement(s)
    BY <1>1, <2>1, Zenon DEF KeptInv
  <2>5. WithWhere(s, w, t)
    BY <1>2, <2>1, <2>2, <2>3 DEF WithWhere
  <2>6. IsStatement(t) /\ t.where = w /\ t.cte = s.cte
    BY <2>4, <2>5, WherePut, Zenon
  <2>. QED
    BY <2>1, <2>2, <2>3, <2>6, Zenon
<1>4. WellFormed(tree.where) /\ RowsKept(original.where, tree.where)
  BY <1>1, Zenon DEF KeptInv
<1>5. WellFormed(NotExistsIn(tree.where)) /\ RowsKept(original.where, NotExistsIn(tree.where))
  BY <1>4, NotExistsKeepsShape, NotExistsKeepsRows, Zenon
<1>6. KeptInv'
  BY <1>1, <1>2, <1>3, <1>5, Zenon DEF KeptInv
<1>7. "not in" # "datetime" /\ "cte sort" # "datetime" /\ "cte sort" # "not in" /\ "cte sort" # "render"
  OBVIOUS
<1>8. Some(IsYear, NotExistsIn(tree.where)) => Some(IsYear, tree.where)
  BY <1>4, NotExistsKeepsPitfalls
<1>9. ~Some(Rewritable, tree.where) /\ applied = {} => applied' = {}
  <2>1. applied' = applied \cup (IF Some(Rewritable, tree.where) THEN {"OPT-NOT-IN-EXISTS"} ELSE {})
    BY Zenon DEF NotInToNotExists, Record
  <2>. QED
    BY <2>1
<1>10. ASSUME ~NestedNotIn(original.where)
       PROVE  ~Some(Rewritable, NotExistsIn(tree.where))
  <2>1. ~NestedNotIn(tree.where)
    <3>1. CASE round = 1
      <4>1. tree.where = RangesIn(original.where)
        BY <1>1, <1>2, <3>1, Zenon DEF DoneInv
      <4>2. WellFormed(original.where)
        BY <1>1, RewritesAssumption, ClausesAreWellFormed, Zenon DEF KeptInv
      <4>. QED
        BY <1>10, <4>1, <4>2, RangesKeepPitfalls, Zenon
    <3>2. CASE round # 1
      <4>1. ~Some(Rewritable, tree.where)
        BY <1>1, <1>10, <3>2, Zenon DEF DoneInv
      <4>. QED
        BY <1>4, <4>1, FewerRewritables
    <3>. QED
      BY <3>1, <3>2, Zenon
  <2>. QED
    BY <1>4, <2>1, NotExistsKeepsPitfalls
<1>11. Sorted(tree') <=> Sorted(tree)
  BY <1>3, Zenon DEF Sorted
<1>12. DoneInv'
  <2>1. /\ round' \in Nat \ {0}
        /\ ~Some(IsYear, tree'.where)
        /\ round' # 1 => ~Sorted(tree')
    BY <1>1, <1>2, <1>3, <1>7, <1>8, <1>11, Zenon DEF DoneInv
  <2>2. ~NestedNotIn(original'.where) => /\ ~Some(Rewritable, tree'.where)
                                         /\ round' # 1 => applied' = {}
    BY <1>1, <1>2, <1>3, <1>9, <1>10, Zenon DEF DoneInv
  <2>. QED
    BY <1>2, <1>7, <2>1, <2>2, Zenon DEF DoneInv
<1>. QED
  BY <1>6, <1>12 DEF RewriteInv

LEMMA SortStep ==
  ASSUME RewriteInv, StripCteOrderBy
  PROVE  RewriteInv'
<1>1. KeptInv /\ DoneInv
  BY DEF RewriteInv
<1>2. PICK order : order = (tree.cte.order /\ ~Sorted(tree))
  BY Zenon
<1>3. /\ pass = "cte sort" /\ pass' = "render" /\ original' = original /\ round' = round
      /\ tree' = [tree EXCEPT !.cte.order = order]
  BY <1>2, Zenon DEF StripCteOrderBy
<1>4. tree.cte.order \in BOOLEAN /\ tree.cte.limit \in BOOLEAN /\ order \in BOOLEAN
  BY <1>1, <1>2 DEF KeptInv, IsStatement
<1>5. /\ IsStatement(tree') /\ tree'.where = tree.where
      /\ tree'.cte.order = order /\ tree'.cte.limit = tree.cte.limit
  <2>1. PICK s : s = tree
    BY Zenon
  <2>2. PICK t : t = tree'
    BY Zenon
  <2>3. IsStatement(s)
    BY <1>1, <2>1, Zenon DEF KeptInv
  <2>4. WithOrder(s, order, t)
    BY <1>3, <2>1, <2>2 DEF WithOrder
  <2>5. IsStatement(t) /\ t.where = s.where /\ t.cte.order = order /\ t.cte.limit = s.cte.limit
    BY <1>4, <2>3, <2>4, OrderPut
  <2>. QED
    BY <2>1, <2>2, <2>5, Zenon
<1>6. ~Sorted(tree') /\ (tree.cte.limit => order = tree.cte.order)
  BY <1>2, <1>4, <1>5 DEF Sorted
<1>7. KeptInv'
  BY <1>1, <1>3, <1>5, <1>6, Zenon DEF KeptInv
<1>8. "cte sort" # "datetime" /\ "render" # "datetime" /\ "render" # "not in"
  OBVIOUS
<1>9. ~Sorted(tree) /\ applied = {} => applied' = {}
  <2>1. applied' = applied \cup (IF Sorted(tree) THEN {"OPT-CTE-SORT-DROP"} ELSE {})
    BY Zenon DEF StripCteOrderBy, Record
  <2>. QED
    BY <2>1
<1>10. DoneInv'
  <2>1. round' \in Nat \ {0} /\ ~Some(IsYear, tree'.where) /\ ~Sorted(tree')
    BY <1>1, <1>3, <1>5, <1>6, <1>8, Zenon DEF DoneInv
  <2>2. ~NestedNotIn(original'.where) => /\ ~Some(Rewritable, tree'.where)
                                         /\ round' # 1 => applied' = {}
    BY <1>1, <1>3, <1>5, <1>8, <1>9, Zenon DEF DoneInv
  <2>. QED
    BY <1>3, <1>8, <2>1, <2>2, Zenon DEF DoneInv
<1>. QED
  BY <1>7, <1>10 DEF RewriteInv

LEMMA AgainStep ==
  ASSUME RewriteInv, Again
  PROVE  RewriteInv'
<1>1. KeptInv /\ DoneInv
  BY DEF RewriteInv
<1>2. /\ pass = "render" /\ pass' = "datetime" /\ applied' = {} /\ round' = round + 1
      /\ original' = original /\ tree' = tree
  BY Zenon DEF Again
<1>3. KeptInv'
  BY <1>1, <1>2, Zenon DEF KeptInv
<1>4. round' \in Nat \ {0} /\ round' # 1
  <2>1. round \in Nat \ {0}
    BY <1>1, Zenon DEF DoneInv
  <2>. QED
    BY <1>2, <2>1
<1>5. "render" # "datetime"
  OBVIOUS
<1>6. DoneInv'
  BY <1>1, <1>2, <1>4, <1>5, Zenon DEF DoneInv
<1>. QED
  BY <1>3, <1>6 DEF RewriteInv

LEMMA NextRewriteInv == RewriteInv /\ [RNext]_rvars => RewriteInv'
<1>. SUFFICES ASSUME RewriteInv, [RNext]_rvars PROVE RewriteInv'
  OBVIOUS
<1>1. CASE DatetimeRanges
  BY <1>1, DatetimeStep
<1>2. CASE NotInToNotExists
  BY <1>2, NotInStep
<1>3. CASE StripCteOrderBy
  BY <1>3, SortStep
<1>4. CASE Again
  BY <1>4, AgainStep
<1>5. CASE UNCHANGED rvars
  <2>1. original' = original /\ tree' = tree /\ applied' = applied /\ pass' = pass /\ round' = round
    BY <1>5 DEF rvars
  <2>. QED
    BY <2>1, Zenon DEF RewriteInv, KeptInv, DoneInv
<1>. QED
  BY <1>1, <1>2, <1>3, <1>4, <1>5 DEF RNext

\* The rewriter's invariant holds after every pass, in every round (optimize_expression).
THEOREM RewriteInvariant == RSpec => []RewriteInv
<1>1. RInit => RewriteInv
  BY InitRewriteInv
<1>2. RewriteInv /\ [RNext]_rvars => RewriteInv'
  BY NextRewriteInv
<1>. QED
  BY <1>1, <1>2, PTL DEF RSpec

\* The rewrites keep the rows and find nothing twice, for any statements and
\* any data: the property of the passes of optimize_expression and of lint
\* --fix, which applies them again.
THEOREM RewritesAreAlwaysSafe == RSpec => []RewritesAreSafe
<1>1. ASSUME RewriteInv PROVE RewritesAreSafe
  <2>1. KeptInv /\ DoneInv
    BY <1>1 DEF RewriteInv
  <2>2. GuardedRewritesKeepRows
    <3>1. SUFFICES ASSUME ~Pitfall(original.where), ~original.cte.offset
                   PROVE  SameRows(original, tree, {t \in Tables : \A r \in t : r.c # NULL},
                                                   {o \in OuterRows : o.x # NULL})
      BY Zenon DEF GuardedRewritesKeepRows
    <3>2. SameValues(original.where, tree.where)
      BY <2>1, <3>1, Zenon DEF KeptInv, RowsKept
    <3>3. original.cte.limit \/ original.cte.offset => original.cte.order = tree.cte.order
      BY <2>1, <3>1, Zenon DEF KeptInv
    <3>4. \A table \in {t \in Tables : \A r \in t : r.c # NULL}, row \in {o \in OuterRows : o.x # NULL} :
            Value(tree.where, row, table) = Value(original.where, row, table)
      BY <3>2, Zenon DEF SameValues
    <3>. QED
      BY <3>3, <3>4, Zenon DEF SameRows
  <2>3. SecondRunIsClean
    <3>1. "render" # "datetime"
      OBVIOUS
    <3>. QED
      BY <2>1, <3>1, Zenon DEF DoneInv, SecondRunIsClean
  <2>. QED
    BY <2>2, <2>3 DEF RewritesAreSafe
<1>. QED
  BY <1>1, RewriteInvariant, PTL
=============================================================================
