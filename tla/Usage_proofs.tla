----------------------------- MODULE Usage_proofs -----------------------------
(***************************************************************************)
(* Proofs about the records of use.  InteractionRecorder, for any number   *)
(* of background threads and any buffer size: types, conservation of       *)
(* events, the final flush of a stop, and at most one flusher as long as   *)
(* no join times out.  UsageRecords, for any number of threads and         *)
(* records: the log, the dashboard's sums and the audit list add up.       *)
(***************************************************************************)
EXTENDS InteractionRecorder, UsageRecords, SequenceTheorems, FiniteSetTheorems,
        NaturalsInduction, WellFoundedInduction, TLAPS

USE RecorderAssumption DEF Threads

\* Each thread keeps to its own part of the code; the event is cleared before a
\* thread is made.
PlacesInv ==
  /\ pc[App] \in {"idle", "spawn", "join", "flush", "clear", "callback"}
  /\ pc[App] = "spawn" => ~stopEvent
  /\ \A t \in Flushers :
       pc[t] \in {"unborn", "dead", "check", "wait", "flush", "clear", "callback"}

\* The holder of the mutex knows the length it is about to clear.
LengthInv == \A t \in Threads : pc[t] = "clear" => n[t] = buffered

\* What a stop found recorded has been recorded, and has left the buffer once
\* the application is past the clear of its flush.
StopInv ==
  /\ atStop <= recorded
  /\ pc[App] \in {"idle", "spawn", "callback"} => atStop <= dropped + taken

\* Without a timed-out join, no thread lives but the current one, and none at
\* all when a new one is about to be made or a stop has joined it.
OnlyInv ==
  ~timedOut =>
    /\ \A t \in Flushers : Alive(t) => flushThread = t
    /\ pc[App] = "spawn" \/ (stopEvent /\ pc[App] # "join")
         => \A t \in Flushers : ~Alive(t)

IInv ==
  /\ TypeOK
  /\ PlacesInv
  /\ LengthInv
  /\ NothingLostOrCountedTwice
  /\ StopInv
  /\ OnlyInv

-----------------------------------------------------------------------------
(***************************************************************************)
(* Every action preserves the strengthening.                               *)
(***************************************************************************)
LEMMA InitIInv == Init => IInv
<1>. SUFFICES ASSUME Init PROVE IInv
  OBVIOUS
<1>1. /\ pc \in [Threads -> {"idle", "unborn"}]
      /\ pc[App] = "idle" /\ \A t \in Flushers : pc[t] = "unborn"
      /\ n \in [Threads -> Nat]
  BY DEF Init
<1>2. \A t \in Threads : pc[t] # "clear" /\ lock # t
  BY <1>1 DEF Init
<1>3. TypeOK
  <2>1. pc \in [Threads -> {"unborn", "dead", "idle", "spawn", "join", "check",
                            "wait", "flush", "clear", "callback"}]
    BY <1>1
  <2>2. buffered \in 0 .. BufferSize
    BY DEF Init
  <2>3. \A t \in Threads : pc[t] = "clear" <=> lock = t
    BY <1>2
  <2>. QED
    BY <1>1, <2>1, <2>2, <2>3 DEF Init, TypeOK
<1>4. PlacesInv /\ LengthInv /\ NothingLostOrCountedTwice /\ StopInv
  BY <1>1, <1>2 DEF Init, PlacesInv, LengthInv, NothingLostOrCountedTwice, StopInv
<1>5. OnlyInv
  BY <1>1 DEF OnlyInv, Alive
<1>. QED
  BY <1>3, <1>4, <1>5 DEF IInv

\* record() holds the mutex for its one append, so no flush is at its clear.
LEMMA RecordStep == IInv /\ Record => IInv'
<1>. SUFFICES ASSUME IInv, Record PROVE IInv'
  OBVIOUS
<1>1. /\ lock = Nobody /\ recorded' = recorded + 1
      /\ \/ buffered < BufferSize /\ buffered' = buffered + 1 /\ dropped' = dropped
         \/ dropped' = dropped + 1 /\ buffered' = buffered
      /\ UNCHANGED <<lock, flushThread, stopEvent, onFlush, pc, n, taken, atStop,
                     timedOut, raised>>
  BY DEF Record, control, marks
<1>2. \A t \in Threads : pc[t] # "clear"
  BY <1>1 DEF IInv, TypeOK
<1>3. TypeOK' /\ NothingLostOrCountedTwice'
  BY <1>1 DEF IInv, TypeOK, NothingLostOrCountedTwice
<1>4. PlacesInv' /\ LengthInv' /\ OnlyInv'
  BY <1>1, <1>2 DEF IInv, PlacesInv, LengthInv, OnlyInv, Alive
<1>5. StopInv'
  BY <1>1 DEF IInv, TypeOK, StopInv
<1>. QED
  BY <1>3, <1>4, <1>5 DEF IInv

LEMMA OnFlushStep == IInv /\ OnFlush => IInv'
BY DEF IInv, TypeOK, PlacesInv, LengthInv, NothingLostOrCountedTwice, StopInv,
       OnlyInv, Alive, OnFlush, counts, marks

LEMMA AppFlushStep == IInv /\ AppFlush => IInv'
<1>. SUFFICES ASSUME IInv, AppFlush PROVE IInv'
  OBVIOUS
<1>1. /\ pc[App] = "idle" /\ pc' = [pc EXCEPT ![App] = "flush"]
      /\ UNCHANGED <<buffered, lock, flushThread, stopEvent, onFlush, n, taken,
                     recorded, dropped, atStop, timedOut, raised>>
  BY DEF AppFlush, Goto, counts, control, marks
<1>2. TypeOK' /\ PlacesInv' /\ LengthInv'
  BY <1>1 DEF IInv, TypeOK, PlacesInv, LengthInv
<1>3. NothingLostOrCountedTwice' /\ StopInv'
  BY <1>1 DEF IInv, TypeOK, NothingLostOrCountedTwice, StopInv
<1>4. OnlyInv'
  BY <1>1 DEF IInv, TypeOK, OnlyInv, Alive
<1>. QED
  BY <1>2, <1>3, <1>4 DEF IInv

\* start_background_flush
LEMMA StartClearStep == IInv /\ StartClear => IInv'
<1>. SUFFICES ASSUME IInv, StartClear PROVE IInv'
  OBVIOUS
<1>1. /\ pc[App] = "idle" /\ pc' = [pc EXCEPT ![App] = "spawn"]
      /\ ~Alive(flushThread) /\ stopEvent' = FALSE
      /\ UNCHANGED <<buffered, lock, flushThread, onFlush, n, taken, recorded,
                     dropped, atStop, timedOut, raised>>
  BY DEF StartClear, Goto, counts, marks
<1>2. TypeOK' /\ PlacesInv' /\ LengthInv'
  BY <1>1 DEF IInv, TypeOK, PlacesInv, LengthInv
<1>3. NothingLostOrCountedTwice' /\ StopInv'
  BY <1>1 DEF IInv, TypeOK, NothingLostOrCountedTwice, StopInv
<1>4. ~timedOut => \A t \in Flushers : ~Alive(t)
  BY <1>1 DEF IInv, OnlyInv
<1>5. OnlyInv'
  BY <1>1, <1>4 DEF IInv, TypeOK, OnlyInv, Alive
<1>. QED
  BY <1>2, <1>3, <1>5 DEF IInv

LEMMA StartSpawnStep == IInv /\ StartSpawn => IInv'
<1>. SUFFICES ASSUME IInv, StartSpawn PROVE IInv'
  OBVIOUS
<1>1. PICK t \in Flushers :
        /\ pc[t] \in {"unborn", "dead"} /\ flushThread' = t
        /\ pc' = [pc EXCEPT ![App] = "idle", ![t] = "check"]
  BY DEF StartSpawn
<1>2. /\ pc[App] = "spawn"
      /\ UNCHANGED <<buffered, lock, stopEvent, onFlush, n, taken, recorded,
                     dropped, atStop, timedOut, raised>>
  BY DEF StartSpawn, counts, marks
<1>3. TypeOK' /\ PlacesInv' /\ LengthInv'
  BY <1>1, <1>2 DEF IInv, TypeOK, PlacesInv, LengthInv
<1>4. NothingLostOrCountedTwice' /\ StopInv'
  BY <1>1, <1>2 DEF IInv, TypeOK, NothingLostOrCountedTwice, StopInv
<1>5. OnlyInv'
  BY <1>1, <1>2 DEF IInv, TypeOK, PlacesInv, OnlyInv, Alive
<1>. QED
  BY <1>3, <1>4, <1>5 DEF IInv

\* stop_background_flush
LEMMA StopSetStep == IInv /\ StopSet => IInv'
BY DEF IInv, TypeOK, PlacesInv, LengthInv, NothingLostOrCountedTwice, StopInv,
       OnlyInv, Alive, StopSet, Goto, counts

LEMMA StopJoinedStep == IInv /\ StopJoined => IInv'
BY DEF IInv, TypeOK, PlacesInv, LengthInv, NothingLostOrCountedTwice, StopInv,
       OnlyInv, Alive, StopJoined, Goto, counts, marks

LEMMA StopTimeoutStep == IInv /\ StopJoinTimeout => IInv'
BY DEF IInv, TypeOK, PlacesInv, LengthInv, NothingLostOrCountedTwice, StopInv,
       OnlyInv, StopJoinTimeout, Goto, counts

\* flush(), by the application or by a background thread.
LEMMA FlushLenStep ==
  ASSUME IInv, NEW t \in Threads, FlushLen(t)
  PROVE  IInv'
BY DEF IInv, TypeOK, PlacesInv, LengthInv, NothingLostOrCountedTwice, StopInv,
       OnlyInv, Alive, FlushLen, Goto, counts, control, marks

LEMMA FlushClearStep ==
  ASSUME IInv, NEW t \in Threads, FlushClear(t)
  PROVE  IInv'
<1>1. /\ pc[t] = "clear" /\ lock = t /\ n[t] = buffered
      /\ buffered' = 0 /\ taken' = taken + buffered /\ lock' = Nobody
      /\ UNCHANGED <<flushThread, stopEvent, onFlush, recorded, dropped, atStop,
                     timedOut, raised>>
  BY DEF FlushClear, control, counts, marks, IInv, TypeOK, LengthInv
<1>2. \/ pc' = [pc EXCEPT ![t] = "callback"] /\ n' = n
      \/ pc' = [pc EXCEPT ![t] = AfterFlush(t)] /\ n' = [n EXCEPT ![t] = 0]
  BY DEF FlushClear, Goto
<1>3. AfterFlush(t) \in {"idle", "check"} /\ (AfterFlush(t) = "idle" <=> t = App)
  BY DEF AfterFlush
<1>4. TypeOK'
  BY <1>1, <1>2, <1>3 DEF IInv, TypeOK
<1>5. PlacesInv' /\ LengthInv'
  BY <1>1, <1>2, <1>3 DEF IInv, TypeOK, PlacesInv, LengthInv
<1>6. NothingLostOrCountedTwice' /\ dropped' + taken' = recorded'
  BY <1>1 DEF IInv, TypeOK, NothingLostOrCountedTwice
<1>7. StopInv'
  BY <1>1, <1>6 DEF IInv, TypeOK, StopInv
<1>8. OnlyInv'
  BY <1>1, <1>2, <1>3 DEF IInv, TypeOK, PlacesInv, OnlyInv, Alive
<1>. QED
  BY <1>4, <1>5, <1>6, <1>7, <1>8 DEF IInv

LEMMA CallbackSteps ==
  ASSUME IInv, NEW t \in Threads, CallbackReturns(t) \/ CallbackRaises(t)
  PROVE  IInv'
<1>1. /\ pc[t] = "callback" /\ n' = [n EXCEPT ![t] = 0]
      /\ raised' \in BOOLEAN
      /\ UNCHANGED <<buffered, lock, flushThread, stopEvent, onFlush, recorded,
                     dropped, taken, atStop, timedOut>>
  BY DEF CallbackReturns, CallbackRaises, counts, control, marks, IInv, TypeOK
<1>2. \/ t = App /\ pc' = [pc EXCEPT ![t] = "idle"]
      \/ t # App /\ pc' = [pc EXCEPT ![t] = "check"]
      \/ t # App /\ pc' = [pc EXCEPT ![t] = "dead"]
  BY DEF CallbackReturns, CallbackRaises, Goto, AfterFlush
<1>3. TypeOK' /\ PlacesInv' /\ LengthInv'
  BY <1>1, <1>2 DEF IInv, TypeOK, PlacesInv, LengthInv
<1>4. NothingLostOrCountedTwice' /\ StopInv'
  BY <1>1, <1>2 DEF IInv, TypeOK, NothingLostOrCountedTwice, StopInv
<1>5. OnlyInv'
  BY <1>1, <1>2 DEF IInv, TypeOK, OnlyInv, Alive
<1>. QED
  BY <1>3, <1>4, <1>5 DEF IInv

\* The loop of a background thread.
LEMMA LoopSteps ==
  ASSUME IInv, NEW t \in Threads, Loop(t)
  PROVE  IInv'
<1>1. /\ t \in Flushers /\ pc[t] \in {"check", "wait"}
      /\ \E l \in {"dead", "wait", "check", "flush"} : pc' = [pc EXCEPT ![t] = l]
      /\ UNCHANGED <<buffered, lock, flushThread, stopEvent, onFlush, n, recorded,
                     dropped, taken, atStop, timedOut, raised>>
  BY DEF Loop, LoopCheck, LoopWake, Goto, counts, control, marks, IInv, PlacesInv
<1>2. TypeOK' /\ PlacesInv' /\ LengthInv'
  BY <1>1 DEF IInv, TypeOK, PlacesInv, LengthInv
<1>3. NothingLostOrCountedTwice' /\ StopInv'
  BY <1>1 DEF IInv, TypeOK, NothingLostOrCountedTwice, StopInv
<1>4. OnlyInv'
  BY <1>1 DEF IInv, TypeOK, OnlyInv, Alive
<1>. QED
  BY <1>2, <1>3, <1>4 DEF IInv

LEMMA NextIInv == IInv /\ [Next]_vars => IInv'
<1>. SUFFICES ASSUME IInv, [Next]_vars PROVE IInv'
  OBVIOUS
<1>1. CASE Record
  BY <1>1, RecordStep
<1>2. CASE OnFlush \/ AppFlush
  BY <1>2, OnFlushStep, AppFlushStep
<1>3. CASE StartClear
  BY <1>3, StartClearStep
<1>4. CASE StartSpawn
  BY <1>4, StartSpawnStep
<1>5. CASE StopSet
  BY <1>5, StopSetStep
<1>6. CASE Stopping
  BY <1>6, StopJoinedStep, StopTimeoutStep DEF Stopping
<1>7. ASSUME NEW t \in Threads, Flush(t) \/ Loop(t) PROVE IInv'
  BY <1>7, FlushLenStep, FlushClearStep, CallbackSteps, LoopSteps DEF Flush
<1>8. CASE UNCHANGED vars
  BY <1>8 DEF vars, IInv, TypeOK, PlacesInv, LengthInv, NothingLostOrCountedTwice,
              StopInv, OnlyInv, Alive
<1>. QED
  BY <1>1, <1>2, <1>3, <1>4, <1>5, <1>6, <1>7, <1>8 DEF Next

-----------------------------------------------------------------------------
(***************************************************************************)
(* The theorems.                                                           *)
(***************************************************************************)
\* The strengthening holds in every reachable state.
THEOREM Strengthened == Spec => []IInv
BY InitIInv, NextIInv, PTL DEF Spec

\* The recorder keeps its types, and the mutex belongs to the thread that is
\* between the length and the clear.
THEOREM TypeCorrect == Spec => []TypeOK
<1>1. IInv => TypeOK
  BY DEF IInv
<1>. QED
  BY <1>1, Strengthened, PTL

\* record() and any number of concurrent flush() calls neither lose an event nor
\* count one twice.
THEOREM EventsConserved == Spec => []NothingLostOrCountedTwice
<1>1. IInv => NothingLostOrCountedTwice
  BY DEF IInv
<1>. QED
  BY <1>1, Strengthened, PTL

\* Until a join times out, at most one background thread is alive.
THEOREM AtMostOneFlusher == Spec => []OneFlusher
<1>1. IInv => OneFlusher
  <2>. SUFFICES ASSUME IInv, ~timedOut PROVE Cardinality(Live) <= 1
    BY DEF OneFlusher
  <2>1. Live \subseteq {flushThread}
    BY DEF IInv, OnlyInv, Live
  <2>2. IsFiniteSet({flushThread}) /\ Cardinality({flushThread}) = 1
    BY FS_Singleton
  <2>3. Cardinality(Live) <= Cardinality({flushThread})
    BY <2>1, <2>2, FS_Subset
  <2>. QED
    BY <2>2, <2>3
<1>. QED
  BY <1>1, Strengthened, PTL

\* Until a join times out, no background thread survives a stop.
THEOREM StopIsComplete == Spec => []StopMeansStopped
<1>1. IInv => StopMeansStopped
  BY DEF IInv, OnlyInv, StopMeansStopped, Live, Alive
<1>. QED
  BY <1>1, Strengthened, PTL

\* When stop_background_flush returns, timed out or not, whatever was recorded
\* before the call has left the buffer.
THEOREM StopFlushes == Spec => FinalFlush
<1>1. IInv /\ IInv' /\ [Next]_vars =>
        [pc[App] # "idle" /\ pc'[App] = "idle" => atStop <= dropped' + taken']_vars
  <2>. SUFFICES ASSUME IInv, IInv', [Next]_vars, pc[App] # "idle", pc'[App] = "idle"
                PROVE  atStop <= dropped' + taken'
    OBVIOUS
  <2>1. atStop' = atStop
    BY DEF Next, Record, OnFlush, AppFlush, StartClear, StartSpawn, StopSet,
           Stopping, StopJoined, StopJoinTimeout, Flush, FlushLen, FlushClear,
           CallbackReturns, CallbackRaises, Loop, LoopCheck, LoopWake, marks, vars
  <2>. QED
    BY <2>1 DEF IInv, StopInv
<1>. QED
  BY <1>1, Strengthened, PTL DEF Spec, FinalFlush

\* Events are conserved by any number of threads, types and mutex included.
THEOREM TheEventsAreKept == Spec => []EventsAreKept
<1>1. TypeOK /\ NothingLostOrCountedTwice => EventsAreKept
  BY DEF EventsAreKept
<1>. QED
  BY <1>1, TypeCorrect, EventsConserved, PTL

\* Starts and stops control the one background thread.
THEOREM TheFlusherIsControlled == Spec => []FlusherIsControlled
<1>1. OneFlusher /\ StopMeansStopped => FlusherIsControlled
  BY DEF FlusherIsControlled
<1>. QED
  BY <1>1, AtMostOneFlusher, StopIsComplete, PTL
-----------------------------------------------------------------------------
(***************************************************************************)
(* UsageRecords: the numbers the dashboard adds up.  A total is a fold over*)
(* a finite set; counting the elements is one function that satisfies its  *)
(* recursion, and a least set on which another differs shows it is the     *)
(* only one.                                                               *)
(***************************************************************************)
LEMMA Least ==
  ASSUME NEW T, T \subseteq Nat, T # {}
  PROVE  \E i \in T : \A j \in T : i <= j
<1>. DEFINE less == {p \in Nat \X Nat : p[1] < p[2]}
<1>1. IsWellFoundedOn(less, Nat)
  BY NatLessThanWellFounded DEF OpToRel
<1>2. \A i, j \in Nat : <<j, i>> \in less <=> j < i
  OBVIOUS
<1>. HIDE DEF less
<1>3. PICK i \in T : \A j \in T : ~(<<j, i>> \in less)
  BY <1>1, WFMin
<1>4. \A j \in T : ~(j < i)
  BY <1>2, <1>3
<1>5. \A j \in T : j \in Nat /\ i \in Nat
  OBVIOUS
<1>. QED
  BY <1>4, <1>5

One(s) == CHOOSE x \in s : TRUE
Sums(f, it) == it = [s \in SUBSET (DOMAIN f) |-> IF s = {} THEN 0 ELSE f[One(s)] + it[s \ {One(s)}]]

\* With the counts of the values of a key, the total is the count of all.
LEMMA TotalIsCount ==
  ASSUME NEW f, IsFiniteSet(DOMAIN f), NEW S, IsFiniteSet(S), NEW key,
         \A d \in DOMAIN f : f[d] = Cardinality({i \in S : key[i] = d})
  PROVE  Total(f) = Cardinality({i \in S : key[i] \in DOMAIN f})
<1>. DEFINE D == DOMAIN f
            Of(s) == {i \in S : key[i] \in s}
            count == [s \in SUBSET D |-> Cardinality(Of(s))]
<1>1. ASSUME NEW s
      PROVE  IsFiniteSet(Of(s)) /\ Cardinality(Of(s)) \in Nat
  BY FS_Subset, FS_CardinalityType
<1>2. ASSUME NEW s \in SUBSET D, s # {}
      PROVE  /\ One(s) \in s /\ s \ {One(s)} \in SUBSET D
             /\ Cardinality(Of(s)) = f[One(s)] + Cardinality(Of(s \ {One(s)}))
  <2>. DEFINE x == One(s)
              A == {i \in S : key[i] = x}
              B == Of(s \ {x})
  <2>1. x \in s
    BY <1>2 DEF One
  <2>. HIDE DEF x
  <2>2. IsFiniteSet(A) /\ IsFiniteSet(B) /\ Cardinality(A) \in Nat /\ Cardinality(B) \in Nat
    BY <1>1, FS_Subset, FS_CardinalityType
  <2>3. A \cup B = Of(s) /\ A \cap B = {}
    BY <2>1
  <2>4. Cardinality(A \cup B) = Cardinality(A) + Cardinality(B) - Cardinality(A \cap B)
    <3>. HIDE DEF A, B
    <3>. QED
      BY <2>2, FS_Union
  <2>5. f[x] = Cardinality(A)
    BY <2>1
  <2>. HIDE DEF A, B, Of
  <2>6. Cardinality(Of(s)) = f[x] + Cardinality(B)
    <3>1. Cardinality(A \cap B) = 0
      BY <2>3, FS_EmptySet, Zenon
    <3>2. Cardinality(Of(s)) = Cardinality(A \cup B)
      BY <2>3, Zenon
    <3>. QED
      BY <2>2, <2>4, <2>5, <3>1, <3>2
  <2>. QED
    BY <2>1, <2>6 DEF x, B
<1>3. Sums(f, count)
  <2>. DEFINE next == [s \in SUBSET D |-> IF s = {} THEN 0 ELSE f[One(s)] + count[s \ {One(s)}]]
  <2>1. ASSUME NEW s \in SUBSET D PROVE count[s] = next[s]
    <3>1. CASE s = {}
      <4>1. Of({}) = {}
        OBVIOUS
      <4>. QED
        BY <3>1, <4>1, FS_EmptySet
    <3>2. CASE s # {}
      <4>. HIDE DEF Of
      <4>. QED
        BY <1>2, <3>2
    <3>. QED
      BY <3>1, <3>2
  <2>2. DOMAIN count = SUBSET D /\ DOMAIN next = SUBSET D
    OBVIOUS
  <2>3. count = [s \in SUBSET D |-> next[s]]
    <3>. HIDE DEF next
    <3>. QED
      BY <2>1, Zenon
  <2>. QED
    BY <2>3, Zenon DEF Sums
<1>4. ASSUME NEW it, Sums(f, it)
      PROVE  it[D] = Cardinality(Of(D))
  <2>1. \A s \in SUBSET D : it[s] = IF s = {} THEN 0 ELSE f[One(s)] + it[s \ {One(s)}]
    BY <1>4, Zenon DEF Sums
  <2>. DEFINE Wrong(s) == s \in SUBSET D /\ it[s] # Cardinality(Of(s))
              T == {c \in Nat : \E s : Wrong(s) /\ Cardinality(s) = c}
  <2>2. SUFFICES ASSUME it[D] # Cardinality(Of(D)) PROVE FALSE
    OBVIOUS
  <2>3. T # {}
    <3>1. Wrong(D) /\ Cardinality(D) \in Nat
      BY <2>2, FS_CardinalityType
    <3>. HIDE DEF Wrong, D
    <3>. QED
      BY <3>1
  <2>4. PICK c \in T : \A m \in T : c <= m
    <3>1. T \subseteq Nat
      OBVIOUS
    <3>. HIDE DEF T
    <3>. QED
      BY <2>3, <3>1, Least
  <2>5. PICK s : Wrong(s) /\ Cardinality(s) = c
    BY <2>4, Zenon
  <2>6. s # {}
    <3>1. Of({}) = {}
      OBVIOUS
    <3>2. it[{}] = 0
      BY <2>1
    <3>. QED
      BY <2>5, <3>1, <3>2, FS_EmptySet
  <2>. DEFINE rest == s \ {One(s)}
  <2>7. /\ One(s) \in s /\ rest \in SUBSET D
        /\ Cardinality(Of(s)) = f[One(s)] + Cardinality(Of(rest))
    BY <1>2, <2>5, <2>6, Zenon
  <2>8. IsFiniteSet(s) /\ Cardinality(rest) = Cardinality(s) - 1 /\ Cardinality(rest) \in Nat /\ c \in Nat
    BY <2>5, <2>7, FS_Subset, FS_RemoveElement, FS_CardinalityType
  <2>9. ~Wrong(rest)
    <3>1. Cardinality(rest) \notin T
      <4>. HIDE DEF T, rest
      <4>. QED
        BY <2>4, <2>5, <2>8
    <3>. QED
      BY <2>8, <3>1, Zenon
  <2>10. it[rest] = Cardinality(Of(rest))
    BY <2>7, <2>9, Zenon
  <2>11. it[s] = f[One(s)] + it[rest]
    BY <2>1, <2>5, <2>6, Zenon
  <2>. HIDE DEF rest, Of
  <2>. QED
    BY <2>5, <2>7, <2>10, <2>11
<1>5. Total(f) = (CHOOSE it : Sums(f, it))[D]
  BY Zenon DEF Total, MapThenSumSet, MapThenFoldSet, Sums, One
<1>6. Sums(f, CHOOSE it : Sums(f, it))
  BY <1>3, Zenon
<1>. HIDE DEF Of, count
<1>7. Total(f) = Cardinality(Of(D))
  BY <1>4, <1>5, <1>6, Zenon
<1>. QED
  BY <1>7 DEF Of

Numbers == /\ time \in Nat /\ log \in Seq([ts : Nat, dialect : Dialects])
           /\ \A i \in DOMAIN log : log[i].ts <= time

LEMMA RecentIsFinite ==
  ASSUME Numbers, NEW days \in Nat
  PROVE  /\ IsFiniteSet(Recent(days)) /\ Cardinality(Recent(days)) \in Nat
         /\ \A i \in Recent(days) : /\ log[i].ts \in Nat /\ log[i].ts <= time
                                    /\ log[i].ts >= time - 2 * days /\ log[i].dialect \in Dialects
         /\ IsFiniteSet({log[i].dialect : i \in Recent(days)}) /\ IsFiniteSet(DaysSeen(days))
<1>1. Len(log) \in Nat /\ DOMAIN log = 1 .. Len(log)
      /\ \A i \in DOMAIN log : log[i] \in [ts : Nat, dialect : Dialects]
  BY LenProperties, ElementOfSeq DEF Numbers
<1>2. IsFiniteSet(1 .. Len(log))
  BY <1>1, FS_Interval
<1>3. IsFiniteSet(Recent(days)) /\ Cardinality(Recent(days)) \in Nat
  BY <1>1, <1>2, FS_Subset, FS_CardinalityType DEF Recent
<1>4. \A i \in Recent(days) : /\ log[i].ts \in Nat /\ log[i].ts <= time
                              /\ log[i].ts >= time - 2 * days /\ log[i].dialect \in Dialects
  BY <1>1 DEF Recent, Numbers
<1>5. IsFiniteSet({log[i].dialect : i \in Recent(days)})
  <2>. DEFINE D == {log[i].dialect : i \in Recent(days)}
              h == [i \in Recent(days) |-> log[i].dialect]
  <2>1. h \in Surjection(Recent(days), D)
    BY DEF Surjection, Range
  <2>. QED
    BY <1>3, <2>1, FS_Surjection
<1>6. IsFiniteSet(DaysSeen(days))
  <2>. DEFINE h == [i \in Recent(days) |-> log[i].ts \div 2]
  <2>1. h \in Surjection(Recent(days), DaysSeen(days))
    BY DEF Surjection, DaysSeen, Range
  <2>. QED
    BY <1>3, <2>1, FS_Surjection
<1>. QED
  BY <1>3, <1>4, <1>5, <1>6

\* The breakdown by dialect adds up to all records.
LEMMA BreakdownAddsUp ==
  ASSUME Numbers, NEW days \in Nat
  PROVE  Total(DialectStats(days, None)) = Cardinality(Recent(days))
<1>. DEFINE R == Recent(days)
            key == [i \in R |-> log[i].dialect]
            f == DialectStats(days, None)
<1>1. IsFiniteSet(R) /\ \A i \in R : log[i].dialect \in Dialects
  BY RecentIsFinite
<1>2. DOMAIN f = {log[i].dialect : i \in R}
  BY <1>1 DEF DialectStats
<1>3. IsFiniteSet(DOMAIN f)
  BY <1>2, RecentIsFinite
<1>4. \A d \in DOMAIN f : f[d] = Cardinality({i \in R : key[i] = d})
  <2>1. \A d : {i \in R : key[i] = d} = {i \in R : log[i].dialect = d}
    OBVIOUS
  <2>2. \A d \in DOMAIN f : f[d] = Cardinality({i \in R : log[i].dialect = d})
    BY Zenon DEF DialectStats
  <2>. HIDE DEF key, f, R
  <2>. QED
    BY <2>1, <2>2
<1>5. {i \in R : key[i] \in DOMAIN f} = R
  BY <1>2
<1>. HIDE DEF key, f, R
<1>6. Total(f) = Cardinality({i \in R : key[i] \in DOMAIN f})
  BY <1>1, <1>3, <1>4, TotalIsCount
<1>. QED
  BY <1>5, <1>6 DEF f, R

\* The daily volume adds up to all records, or to all but those of the first day.
LEMMA VolumeAddsUp ==
  ASSUME Numbers, NEW days \in Nat
  PROVE  LET all == Cardinality(Recent(days))
             cut == {i \in Recent(days) : log[i].ts \div 2 = time \div 2 - days}
         IN  Total(DailyVolume(days)) \in {all, all - Cardinality(cut)}
<1>. DEFINE R == Recent(days)
            last == time \div 2
            first == last - days
            seen == DaysSeen(days)
            After(x) == {y \in seen : y > x}
            kept == {x \in seen : Cardinality(After(x)) < days}
            key == [i \in R |-> log[i].ts \div 2]
            f == DailyVolume(days)
            cut == {i \in R : log[i].ts \div 2 = first}
<1>1. IsFiniteSet(R) /\ IsFiniteSet(seen) /\ time \in Nat /\ last \in Nat /\ first \in Int
  <2>1. IsFiniteSet(R) /\ IsFiniteSet(seen)
    BY RecentIsFinite
  <2>2. time \in Nat
    BY DEF Numbers
  <2>. HIDE DEF R, seen
  <2>. QED
    BY <2>1, <2>2
<1>2. \A i \in R : log[i].ts \div 2 \in first .. last
  <2>1. \A i \in R : log[i].ts \in Nat /\ log[i].ts <= time /\ log[i].ts >= time - 2 * days
    BY RecentIsFinite
  <2>. QED
    BY <1>1, <2>1
<1>3. seen = {log[i].ts \div 2 : i \in R} /\ \A x \in seen : x \in first .. last
  BY <1>2 DEF DaysSeen
<1>4. DOMAIN f = kept
  BY DEF DailyVolume
<1>. HIDE DEF last, first, seen, R, cut
<1>5. ASSUME NEW x \in seen, x # first
      PROVE  x \in kept
  <2>1. x \in first .. last /\ x + 1 \in Int /\ x + 1 > first
    BY <1>1, <1>3, <1>5
  <2>2. After(x) \subseteq (x + 1) .. last
    <3>1. \A y \in After(x) : y \in first .. last /\ y > x
      BY <1>3
    <3>. HIDE DEF After
    <3>. QED
      BY <1>1, <2>1, <3>1
  <2>3. IsFiniteSet((x + 1) .. last) /\ Cardinality((x + 1) .. last) = IF x + 1 > last THEN 0 ELSE last - (x + 1) + 1
    BY <1>1, <2>1, FS_Interval
  <2>4. Cardinality(After(x)) <= Cardinality((x + 1) .. last) /\ IsFiniteSet(After(x))
    <3>. HIDE DEF After
    <3>. QED
      BY <2>2, <2>3, FS_Subset
  <2>5. Cardinality(After(x)) \in Nat
    BY <2>4, FS_CardinalityType
  <2>6. first = last - days
    BY DEF first
  <2>. DEFINE c == Cardinality(After(x))
              w == Cardinality((x + 1) .. last)
  <2>7. c \in Nat /\ c <= w /\ w = IF x + 1 > last THEN 0 ELSE last - (x + 1) + 1
    BY <2>3, <2>4, <2>5
  <2>. HIDE DEF After, c, w
  <2>8. c < days
    BY <1>1, <1>5, <2>1, <2>6, <2>7
  <2>. QED
    BY <2>8 DEF c
<1>6. Total(f) = Cardinality({i \in R : key[i] \in kept})
  <2>1. IsFiniteSet(DOMAIN f)
    BY <1>1, <1>4, FS_Subset
  <2>2. \A d \in DOMAIN f : f[d] = Cardinality({i \in R : key[i] = d})
    <3>1. \A d : {i \in R : key[i] = d} = {i \in R : log[i].ts \div 2 = d}
      BY DEF R
    <3>2. \A d \in DOMAIN f : f[d] = Cardinality({i \in R : log[i].ts \div 2 = d})
      BY Zenon DEF DailyVolume, R
    <3>. HIDE DEF key, f
    <3>. QED
      BY <3>1, <3>2
  <2>. HIDE DEF f, key, kept
  <2>. QED
    BY <1>1, <1>4, <2>1, <2>2, TotalIsCount
<1>7. \A i \in R : key[i] = log[i].ts \div 2 /\ key[i] \in seen
  BY <1>3 DEF R
<1>. HIDE DEF key, f
<1>8. CASE first \in kept
  <2>1. {i \in R : key[i] \in kept} = R
    BY <1>5, <1>7, <1>8
  <2>. QED
    BY <1>6, <2>1 DEF f, R
<1>9. CASE first \notin kept
  <2>1. \A i : i \in {j \in R : key[j] \in kept} <=> i \in R \ cut
    <3>. HIDE DEF kept
    <3>. QED
      BY <1>5, <1>7, <1>9 DEF cut
  <2>2. {j \in R : key[j] \in kept} = R \ cut
    <3>. HIDE DEF kept
    <3>. QED
      BY <2>1
  <2>3. Cardinality(R \ cut) = Cardinality(R) - Cardinality(R \cap cut) /\ R \cap cut = cut
    BY <1>1, FS_Difference DEF cut
  <2>. QED
    BY <1>6, <2>2, <2>3 DEF f, R, cut, first, last
<1>. QED
  BY <1>8, <1>9

-----------------------------------------------------------------------------
(***************************************************************************)
(* UsageRecords: the log and the audit list.                               *)
(***************************************************************************)
Handles == [Callers -> {None, "open", "unlinked"}]

\* As long as no clear met an append: an append under way writes to the file that
\* is there, and a clear under way has counted all of it and is alone.
Undisturbed ==
  ~overlapped =>
    /\ logged = Len(log) + removed
    /\ \A t \in Callers : handle[t] # None => handle[t] = "open"
    /\ \A t \in Callers : counting[t] # None =>
         /\ counting[t] = Len(log)
         /\ \A u \in Callers : handle[u] = None /\ (u # t => counting[u] = None)

LogInv == /\ Numbers /\ logged \in Nat /\ removed \in Nat /\ forwarded = logged
          /\ overlapped \in BOOLEAN
          /\ handle \in Handles /\ counting \in [Callers -> Nat \cup {None}]
          /\ \A t \in Callers : handle[t] # None => Enabled
          /\ Undisturbed

Entries == [nr : Nat, granted : BOOLEAN]
Placed(places) == {t \in Callers : places[t] # None}
Rotating == Placed(rotating)

\* Every thread that has appended and not yet looked may have put the list one
\* over its limit; unless two rotated at once, who rotates cuts a full list.
AuditInv == /\ audit \in Seq(Entries) /\ audited \in Nat /\ collided \in BOOLEAN
            /\ rotating \in [Callers -> {None, "appended", "over"}]
            /\ \A i \in DOMAIN audit : audit[i].nr = audited - Len(audit) + i
            /\ Len(audit) <= AUDIT_MAX + Cardinality(Rotating)
            /\ ~collided =>
                 /\ Len(audit) >= audited \/ Len(audit) >= AUDIT_MAX - Half + 1
                 /\ \A t, u \in Callers : rotating[t] = "over" =>
                      Len(audit) > AUDIT_MAX /\ (rotating[u] = "over" => u = t)

LEMMA Appended ==
  ASSUME NEW S, NEW s \in Seq(S), NEW e \in S
  PROVE  /\ Append(s, e) \in Seq(S) /\ Len(Append(s, e)) = Len(s) + 1 /\ Len(s) \in Nat
         /\ DOMAIN s = 1 .. Len(s) /\ DOMAIN Append(s, e) = 1 .. (Len(s) + 1)
         /\ \A i \in 1 .. Len(s) : Append(s, e)[i] = s[i]
         /\ Append(s, e)[Len(s) + 1] = e
<1>1. /\ Append(s, e) \in Seq(S) /\ Len(Append(s, e)) = Len(s) + 1
      /\ \A i \in 1 .. Len(s) : Append(s, e)[i] = s[i]
      /\ Append(s, e)[Len(s) + 1] = e
  BY AppendProperties
<1>2. Len(s) \in Nat /\ DOMAIN s = 1 .. Len(s)
  BY LenProperties
<1>3. DOMAIN Append(s, e) = 1 .. (Len(s) + 1)
  BY <1>1, LenProperties, Zenon
<1>. QED
  BY <1>1, <1>2, <1>3

LEMMA UsageInit == UInit => LogInv /\ AuditInv
<1>. SUFFICES ASSUME UInit PROVE LogInv /\ AuditInv
  OBVIOUS
<1>. USE DEF UInit
<1>1. Numbers /\ Undisturbed /\ handle \in Handles /\ counting \in [Callers -> Nat \cup {None}]
  BY DEF Numbers, Undisturbed, Handles
<1>2. LogInv
  BY <1>1 DEF LogInv
<1>3. /\ audit \in Seq(Entries) /\ audited = 0 /\ collided = FALSE /\ Len(audit) = 0
      /\ DOMAIN audit = {} /\ rotating \in [Callers -> {None, "appended", "over"}]
      /\ \A t \in Callers : rotating[t] = None
  OBVIOUS
<1>4. Rotating = {} /\ Cardinality({}) = 0 /\ AUDIT_MAX \in Nat
  BY <1>3, FS_EmptySet, UsageAssumption DEF Rotating, Placed
<1>5. None # "over"
  BY UsageAssumption
<1>6. /\ \A i \in DOMAIN audit : audit[i].nr = audited - Len(audit) + i
      /\ Len(audit) <= AUDIT_MAX + Cardinality(Rotating) /\ Len(audit) >= audited
  BY <1>3, <1>4
<1>7. \A t \in Callers : rotating[t] # "over"
  BY <1>3, <1>5
<1>8. audited \in Nat
  BY <1>3
<1>8a. collided \in BOOLEAN
  BY <1>3, Zenon
<1>9. AuditInv
  BY <1>3, <1>6, <1>7, <1>8, <1>8a, Zenon DEF AuditInv
<1>. QED
  BY <1>2, <1>9

\* What the log's own steps keep.
LEMMA LogStep ==
  ASSUME LogInv, LogNext
  PROVE  LogInv'
<1>0. /\ time \in Nat /\ log \in Seq([ts : Nat, dialect : Dialects])
      /\ \A i \in DOMAIN log : log[i].ts <= time
      /\ logged \in Nat /\ removed \in Nat /\ forwarded = logged /\ Len(log) \in Nat
      /\ handle \in Handles /\ counting \in [Callers -> Nat \cup {None}] /\ Undisturbed
      /\ \A t \in Callers : handle[t] # None => Enabled
  BY LenProperties DEF LogInv, Numbers
<1>1. ASSUME NEW t \in Callers, LogOpen(t) PROVE LogInv'
  <2>1. /\ Enabled /\ (\A u \in Callers : handle[u] = None)
        /\ handle' = [handle EXCEPT ![t] = "open"]
        /\ time' = time /\ log' = log /\ counting' = counting /\ logged' = logged
        /\ removed' = removed /\ forwarded' = forwarded
    BY <1>1 DEF LogOpen, Locked
  <2>2. overlapped' = (overlapped \/ \E u \in Callers : counting[u] # None)
    BY <1>1 DEF LogOpen
  <2>3. overlapped' \in BOOLEAN
    BY <2>2, Zenon
  <2>4. handle' \in Handles /\ \A u \in Callers : handle'[u] # None => handle'[u] = "open"
    BY <1>0, <2>1 DEF Handles
  <2>5. ~overlapped' => ~overlapped /\ \A u \in Callers : counting'[u] = None
    BY <2>1, <2>2
  <2>6. Undisturbed'
    BY <1>0, <2>1, <2>4, <2>5 DEF Undisturbed
  <2>7. Numbers'
    BY <1>0, <2>1 DEF Numbers
  <2>. QED
    BY <1>0, <2>1, <2>3, <2>4, <2>6, <2>7 DEF LogInv
<1>2. ASSUME NEW t \in Callers, NEW d \in Dialects, LogWrite(t, d) PROVE LogInv'
  <2>. DEFINE e == [ts |-> time, dialect |-> d]
  <2>1. /\ handle[t] # None
        /\ log' = IF handle[t] = "open" THEN Append(log, e) ELSE log
        /\ handle' = [handle EXCEPT ![t] = None] /\ logged' = logged + 1
        /\ forwarded' = forwarded + (IF Remote THEN 1 ELSE 0)
        /\ time' = time /\ counting' = counting /\ removed' = removed /\ overlapped' = overlapped
    BY <1>2 DEF LogWrite
  <2>2. Remote
    BY <1>0, <2>1 DEF Remote
  <2>3. e \in [ts : Nat, dialect : Dialects] /\ e.ts = time
    BY <1>0
  <2>. HIDE DEF e
  <2>4. /\ Append(log, e) \in Seq([ts : Nat, dialect : Dialects])
        /\ Len(Append(log, e)) = Len(log) + 1
        /\ DOMAIN log = 1 .. Len(log) /\ DOMAIN Append(log, e) = 1 .. (Len(log) + 1)
        /\ \A i \in 1 .. Len(log) : Append(log, e)[i] = log[i]
        /\ Append(log, e)[Len(log) + 1] = e
    BY <1>0, <2>3, Appended
  <2>5. \A i \in DOMAIN Append(log, e) : Append(log, e)[i].ts <= time
    <3>1. \A i \in 1 .. (Len(log) + 1) : i \in 1 .. Len(log) \/ i = Len(log) + 1
      BY <1>0
    <3>. QED
      BY <1>0, <2>3, <2>4, <3>1
  <2>6. Numbers'
    BY <1>0, <2>1, <2>4, <2>5 DEF Numbers
  <2>7. handle' \in Handles /\ \A u \in Callers : handle'[u] # None => handle'[u] = handle[u]
    BY <1>0, <2>1 DEF Handles
  <2>8. Undisturbed'
    BY <1>0, <2>1, <2>4, <2>7 DEF Undisturbed
  <2>9. forwarded' = logged' /\ logged' \in Nat
    BY <1>0, <2>1, <2>2
  <2>. QED
    BY <1>0, <2>1, <2>6, <2>7, <2>8, <2>9 DEF LogInv
<1>3. ASSUME NEW t \in Callers, LogFails(t) PROVE LogInv'
  <2>1. /\ handle' = [handle EXCEPT ![t] = None]
        /\ log' = log /\ logged' = logged /\ forwarded' = forwarded
        /\ time' = time /\ counting' = counting /\ removed' = removed /\ overlapped' = overlapped
    BY <1>3 DEF LogFails
  <2>2. handle' \in Handles /\ \A u \in Callers : handle'[u] # None => handle'[u] = handle[u]
    BY <1>0, <2>1 DEF Handles
  <2>3. Undisturbed'
    BY <1>0, <2>1, <2>2 DEF Undisturbed
  <2>4. Numbers'
    BY <1>0, <2>1 DEF Numbers
  <2>. QED
    BY <1>0, <2>1, <2>2, <2>3, <2>4 DEF LogInv
<1>4. ASSUME NEW t \in Callers, ClearCount(t) PROVE LogInv'
  <2>1. /\ counting' = [counting EXCEPT ![t] = Len(log)]
        /\ log' = log /\ logged' = logged /\ forwarded' = forwarded
        /\ time' = time /\ handle' = handle /\ removed' = removed
    BY <1>4 DEF ClearCount
  <2>2. overlapped' = (overlapped \/ Locked \/ \E u \in Callers : counting[u] # None)
    BY <1>4 DEF ClearCount
  <2>3. overlapped' \in BOOLEAN
    BY <2>2, Zenon
  <2>4. ~overlapped' => /\ ~overlapped
                        /\ \A u \in Callers : handle'[u] = None /\ (u # t => counting'[u] = None)
    BY <1>0, <2>1, <2>2 DEF Locked
  <2>5. counting'[t] = Len(log) /\ counting' \in [Callers -> Nat \cup {None}]
    BY <1>0, <2>1
  <2>6. Undisturbed'
    BY <1>0, <2>1, <2>4, <2>5 DEF Undisturbed
  <2>7. Numbers'
    BY <1>0, <2>1 DEF Numbers
  <2>. QED
    BY <1>0, <2>1, <2>3, <2>5, <2>6, <2>7 DEF LogInv
<1>5. ASSUME NEW t \in Callers, ClearUnlink(t) PROVE LogInv'
  <2>1. /\ counting[t] # None /\ counting' = [counting EXCEPT ![t] = None]
        /\ time' = time /\ logged' = logged /\ forwarded' = forwarded /\ overlapped' = overlapped
        /\ counting' \in [Callers -> Nat \cup {None}]
    BY <1>0, <1>5 DEF ClearUnlink
  <2>2. CASE /\ log' = <<>> /\ removed' = removed + counting[t]
             /\ handle' = [u \in Callers |-> IF handle[u] = None THEN None ELSE "unlinked"]
    <3>1. Len(log') = 0 /\ DOMAIN log' = {} /\ log' \in Seq([ts : Nat, dialect : Dialects])
      BY <2>2
    <3>2. Numbers'
      BY <1>0, <2>1, <3>1 DEF Numbers
    <3>3. handle' \in Handles /\ \A u \in Callers : handle'[u] # None => handle[u] # None
      BY <2>2 DEF Handles
    <3>4. Undisturbed'
      BY <1>0, <2>1, <2>2, <3>1, <3>3 DEF Undisturbed
    <3>5. removed' \in Nat
      BY <1>0, <2>1, <2>2
    <3>. QED
      BY <1>0, <2>1, <3>2, <3>3, <3>4, <3>5 DEF LogInv
  <2>3. CASE UNCHANGED <<log, removed, handle>>
    <3>1. Undisturbed'
      BY <1>0, <2>1, <2>3 DEF Undisturbed
    <3>2. Numbers'
      BY <1>0, <2>1, <2>3 DEF Numbers
    <3>. QED
      BY <1>0, <2>1, <2>3, <3>1, <3>2 DEF LogInv
  <2>. QED
    BY <1>5, <2>2, <2>3 DEF ClearUnlink
<1>6. ASSUME Later PROVE LogInv'
  <2>1. /\ time' = time + 1 /\ log' = log /\ handle' = handle /\ counting' = counting
        /\ logged' = logged /\ removed' = removed /\ forwarded' = forwarded /\ overlapped' = overlapped
    BY <1>6 DEF Later, telemetry
  <2>2. Numbers'
    <3>1. \A i \in DOMAIN log : log[i].ts \in Nat
      <4>1. \A i \in DOMAIN log : log[i] \in [ts : Nat, dialect : Dialects]
        BY <1>0, ElementOfSeq, LenProperties
      <4>. QED
        BY <4>1
    <3>. QED
      BY <1>0, <2>1, <3>1 DEF Numbers
  <2>3. Undisturbed'
    BY <1>0, <2>1 DEF Undisturbed
  <2>. QED
    BY <1>0, <2>1, <2>2, <2>3 DEF LogInv
<1>. QED
  BY <1>1, <1>2, <1>3, <1>4, <1>5, <1>6 DEF LogNext

LEMMA OneFewer ==
  ASSUME IsFiniteSet(Callers), NEW places \in [Callers -> {None, "appended", "over"}], NEW t \in Callers, NEW l
  PROVE  LET before == Placed(places)
             after == Placed([places EXCEPT ![t] = l])
         IN  /\ Cardinality(before) \in Nat /\ Cardinality(after) \in Nat
             /\ places[t] = None /\ l # None => Cardinality(after) = Cardinality(before) + 1
             /\ places[t] # None /\ l = None => Cardinality(after) = Cardinality(before) - 1
             /\ (places[t] = None <=> l = None) => after = before
<1>. USE DEF Placed
<1>. DEFINE before == Placed(places)
            after == Placed([places EXCEPT ![t] = l])
<1>1. IsFiniteSet(before) /\ IsFiniteSet(after) /\ Cardinality(before) \in Nat /\ Cardinality(after) \in Nat
  BY FS_Subset, FS_CardinalityType
<1>2. \A u \in Callers : u # t => (u \in after <=> u \in before)
  OBVIOUS
<1>3. (t \in before <=> places[t] # None) /\ (t \in after <=> l # None)
      /\ before \subseteq Callers /\ after \subseteq Callers
  OBVIOUS
<1>. HIDE DEF before, after, Placed
<1>4. places[t] = None /\ l # None => Cardinality(after) = Cardinality(before) + 1
  <2>1. places[t] = None /\ l # None => after = before \cup {t} /\ t \notin before
    BY <1>2, <1>3
  <2>. QED
    BY <1>1, <2>1, FS_AddElement
<1>5. places[t] # None /\ l = None => Cardinality(after) = Cardinality(before) - 1
  <2>1. places[t] # None /\ l = None => after = before \ {t} /\ t \in before
    BY <1>2, <1>3
  <2>. QED
    BY <1>1, <2>1, FS_RemoveElement
<1>6. (places[t] = None <=> l = None) => after = before
  BY <1>2, <1>3
<1>. QED
  BY <1>1, <1>4, <1>5, <1>6 DEF before, after

\* What the audit list's own steps keep.
LEMMA AuditStep ==
  ASSUME AuditInv, AuditNext
  PROVE  AuditInv'
<1>. DEFINE c == Cardinality(Rotating)
<1>0. /\ audit \in Seq(Entries) /\ Len(audit) \in Nat /\ DOMAIN audit = 1 .. Len(audit)
      /\ audited \in Nat
      /\ rotating \in [Callers -> {None, "appended", "over"}]
      /\ \A i \in DOMAIN audit : audit[i].nr = audited - Len(audit) + i
      /\ Len(audit) <= AUDIT_MAX + c
  BY LenProperties DEF AuditInv
<1>0a. collided \in BOOLEAN /\
       (~collided => /\ Len(audit) >= audited \/ Len(audit) >= AUDIT_MAX - Half + 1
                     /\ \A t, u \in Callers : rotating[t] = "over" =>
                          Len(audit) > AUDIT_MAX /\ (rotating[u] = "over" => u = t))
  BY Zenon DEF AuditInv
<1>0b. /\ AUDIT_MAX \in Nat /\ Half \in Nat /\ Half >= 1 /\ Half <= AUDIT_MAX
       /\ None # "appended" /\ None # "over" /\ IsFiniteSet(Callers)
  <2>1. AUDIT_MAX \in Nat /\ AUDIT_MAX >= 2
        /\ None # "appended" /\ None # "over" /\ IsFiniteSet(Callers)
    BY UsageAssumption
  <2>. QED
    BY <2>1 DEF Half
<1>0c. c \in Nat
  BY <1>0, <1>0b, FS_Subset, FS_CardinalityType DEF Rotating, Placed
<1>1. ASSUME NEW t \in Callers, NEW granted \in BOOLEAN, AuditAppend(t, granted) PROVE AuditInv'
  <2>. DEFINE e == [nr |-> audited + 1, granted |-> granted]
  <2>1. /\ rotating[t] = None /\ audit' = Append(audit, e) /\ audited' = audited + 1
        /\ rotating' = [rotating EXCEPT ![t] = "appended"] /\ collided' = collided
    BY <1>1 DEF AuditAppend
  <2>2. e \in Entries /\ e.nr = audited + 1
    BY <1>0 DEF Entries
  <2>. HIDE DEF e
  <2>3. /\ audit' \in Seq(Entries) /\ Len(audit') = Len(audit) + 1
        /\ DOMAIN audit' = 1 .. (Len(audit) + 1)
        /\ \A i \in 1 .. Len(audit) : audit'[i] = audit[i]
        /\ audit'[Len(audit) + 1] = e
    BY <1>0, <2>1, <2>2, Appended
  <2>4. \A i \in DOMAIN audit' : audit'[i].nr = audited' - Len(audit') + i
    <3>. TAKE i \in DOMAIN audit'
    <3>1. CASE i \in 1 .. Len(audit)
      BY <1>0, <2>1, <2>3, <3>1
    <3>2. CASE i = Len(audit) + 1
      BY <1>0, <2>1, <2>2, <2>3, <3>2
    <3>. QED
      BY <1>0, <2>3, <3>1, <3>2
  <2>5. Cardinality(Rotating') = c + 1 /\ rotating' \in [Callers -> {None, "appended", "over"}]
    <3>1. Rotating' = Placed([rotating EXCEPT ![t] = "appended"])
      BY <2>1 DEF Rotating
    <3>2. rotating' \in [Callers -> {None, "appended", "over"}]
      BY <1>0, <2>1
    <3>. HIDE DEF c
    <3>. QED
      BY <1>0, <1>0b, <2>1, <3>1, <3>2, OneFewer DEF Rotating, c
  <2>6. \A u \in Callers : rotating'[u] = "over" => rotating[u] = "over"
    BY <1>0, <2>1
  <2>7. ~collided' => /\ Len(audit') >= audited' \/ Len(audit') >= AUDIT_MAX - Half + 1
                      /\ \A s, u \in Callers : rotating'[s] = "over" =>
                           Len(audit') > AUDIT_MAX /\ (rotating'[u] = "over" => u = s)
    <3>. HIDE DEF c
    <3>. QED
      BY <1>0, <1>0a, <1>0b, <2>1, <2>3, <2>6
  <2>8. Len(audit') <= AUDIT_MAX + Cardinality(Rotating')
    <3>. HIDE DEF c
    <3>. QED
      BY <1>0, <1>0b, <1>0c, <2>3, <2>5
  <2>9. audited' \in Nat
    BY <1>0, <2>1
  <2>. QED
    BY <1>0a, <2>1, <2>3, <2>4, <2>5, <2>7, <2>8, <2>9, Zenon DEF AuditInv
<1>2. ASSUME NEW t \in Callers, AuditLength(t) PROVE AuditInv'
  <2>. DEFINE over == Len(audit) > AUDIT_MAX
              l == IF over THEN "over" ELSE None
  <2>1. /\ rotating[t] = "appended" /\ rotating' = [rotating EXCEPT ![t] = l]
        /\ audit' = audit /\ audited' = audited
    BY <1>2 DEF AuditLength
  <2>2. collided' = (collided \/ (over /\ \E u \in Callers : rotating[u] = "over"))
    BY <1>2 DEF AuditLength
  <2>3. collided' \in BOOLEAN
    BY <2>2, Zenon
  <2>4. rotating' \in [Callers -> {None, "appended", "over"}]
    BY <1>0, <2>1
  <2>5. Len(audit) <= AUDIT_MAX + Cardinality(Rotating')
    <3>1. Rotating' = Placed([rotating EXCEPT ![t] = l])
      BY <2>1 DEF Rotating
    <3>2. /\ Cardinality(Rotating') \in Nat
          /\ (rotating[t] = None <=> l = None) => Rotating' = Rotating
      <4>. HIDE DEF l
      <4>. QED
        BY <1>0, <1>0b, <3>1, OneFewer DEF Rotating
    <3>3. CASE over
      <4>1. Rotating' = Rotating
        BY <1>0b, <2>1, <3>2, <3>3
      <4>. QED
        BY <1>0, <4>1
    <3>4. CASE ~over
      <4>. HIDE DEF c
      <4>. QED
        BY <1>0, <1>0b, <3>2, <3>4
    <3>. QED
      BY <3>3, <3>4
  <2>6. ~collided' => \A s, u \in Callers : rotating'[s] = "over" =>
                        Len(audit) > AUDIT_MAX /\ (rotating'[u] = "over" => u = s)
    <3>. SUFFICES ASSUME ~collided', NEW s \in Callers, NEW u \in Callers, rotating'[s] = "over"
                  PROVE  Len(audit) > AUDIT_MAX /\ (rotating'[u] = "over" => u = s)
      OBVIOUS
    <3>1. ~collided /\ (over => \A w \in Callers : rotating[w] # "over")
      BY <2>2, Zenon
    <3>2. \A w \in Callers : rotating'[w] = IF w = t THEN l ELSE rotating[w]
      BY <1>0, <2>1
    <3>3. l = "over" => over
      BY <1>0b
    <3>. HIDE DEF l, over
    <3>4. s = t => over
      BY <3>2, <3>3
    <3>5. s # t => rotating[s] = "over" /\ Len(audit) > AUDIT_MAX
      BY <1>0a, <3>1, <3>2
    <3>6. Len(audit) > AUDIT_MAX
      BY <3>4, <3>5 DEF over
    <3>7. rotating'[u] = "over" => u = s
      BY <1>0a, <3>1, <3>2, <3>3, <3>4, <3>5
    <3>. QED
      BY <3>6, <3>7
  <2>7. ~collided' => Len(audit) >= audited \/ Len(audit) >= AUDIT_MAX - Half + 1
    BY <1>0a, <2>2, Zenon
  <2>. QED
    BY <1>0, <2>1, <2>3, <2>4, <2>5, <2>6, <2>7, Zenon DEF AuditInv
<1>3. ASSUME NEW t \in Callers, AuditRotate(t) PROVE AuditInv'
  <2>1. /\ rotating[t] = "over" /\ audit' = SubSeq(audit, Half + 1, Len(audit))
        /\ rotating' = [rotating EXCEPT ![t] = None] /\ audited' = audited /\ collided' = collided
    BY <1>3 DEF AuditRotate
  <2>2. rotating' \in [Callers -> {None, "appended", "over"}]
        /\ \A u \in Callers : rotating'[u] = "over" => rotating[u] = "over" /\ u # t
    BY <1>0, <1>0b, <2>1
  <2>3. Cardinality(Rotating') = c - 1 /\ Cardinality(Rotating') \in Nat
    <3>1. Rotating' = Placed([rotating EXCEPT ![t] = None])
      BY <2>1 DEF Rotating
    <3>. QED
      BY <1>0, <1>0b, <2>1, <3>1, OneFewer DEF Rotating
  <2>4. CASE Len(audit) < Half
    <3>1. audit' = <<>>
      <4>1. Half + 1 > Len(audit) /\ Half + 1 \in Int /\ Len(audit) \in Int
        BY <1>0, <1>0b, <2>4
      <4>. QED
        BY <1>0, <2>1, <4>1, SubSeqProperties
    <3>2. audit' \in Seq(Entries) /\ Len(audit') = 0 /\ DOMAIN audit' = {}
      BY <3>1
    <3>3. collided
      <4>. HIDE DEF c
      <4>. QED
        BY <1>0, <1>0a, <1>0b, <2>1, <2>4
    <3>4. collided'
      BY <2>1, <3>3, Zenon
    <3>5. Len(audit') <= AUDIT_MAX + Cardinality(Rotating')
      BY <1>0b, <2>3, <3>2
    <3>. QED
      BY <1>0, <1>0a, <2>1, <2>2, <3>2, <3>4, <3>5, Zenon DEF AuditInv
  <2>5. CASE Len(audit) >= Half
    <3>1. /\ audit' \in Seq(Entries) /\ Len(audit') = Len(audit) - Half
          /\ \A i \in 1 .. (Len(audit) - Half) : audit'[i] = audit[Half + i]
      <4>1. \A i \in (Half + 1) .. Len(audit) : i \in 1 .. Len(audit)
        BY <1>0, <1>0b
      <4>2. \A i \in (Half + 1) .. Len(audit) : audit[i] \in Entries
        BY <1>0, <4>1, ElementOfSeq
      <4>. DEFINE m == Half + 1
                  top == Len(audit)
      <4>3. m \in Int /\ top \in Int /\ top - m + 1 = top - Half
        BY <1>0, <1>0b
      <4>4. \A i \in m .. top : audit[i] \in Entries
        BY <4>2
      <4>5. audit' = SubSeq(audit, m, top)
        BY <2>1
      <4>. HIDE DEF m, top
      <4>6. /\ audit' \in Seq(Entries)
            /\ Len(audit') = IF m <= top THEN top - m + 1 ELSE 0
            /\ \A i \in 1 .. (top - m + 1) : audit'[i] = audit[m + i - 1]
        BY <4>3, <4>4, <4>5, SubSeqProperties
      <4>7. top >= Half /\ m = Half + 1 /\ Half \in Nat /\ top = Len(audit)
        BY <1>0b, <2>5 DEF m, top
      <4>8. \A i \in 1 .. (top - Half) : m + i - 1 = Half + i
        BY <4>3, <4>7
      <4>. QED
        <5>1. Len(audit') = Len(audit) - Half
          <6>1. CASE top = Half
            <7>1. ~ (m <= top) /\ Len(audit) - Half = 0
              BY <4>3, <4>7, <6>1
            <7>. QED
              BY <4>6, <7>1
          <6>2. CASE top # Half
            <7>0. Half \in Int /\ top \in Int
              BY <1>0b, <4>3
            <7>1. m <= top
              <8>. m = Half + 1 /\ top >= Half /\ top # Half
                BY <4>7, <6>2, Zenon
              <8>. QED
                BY <7>0
            <7>2. top - m + 1 = Len(audit) - Half
              BY <4>3, <4>7
            <7>. QED
              BY <4>6, <7>1, <7>2
          <6>. QED
            BY <6>1, <6>2
        <5>2. \A i \in 1 .. (Len(audit) - Half) : audit'[i] = audit[Half + i]
          BY <4>3, <4>6, <4>7, <4>8
        <5>. QED
          BY <4>6, <5>1, <5>2
    <3>2. DOMAIN audit' = 1 .. (Len(audit) - Half)
      BY <3>1, LenProperties, Zenon
    <3>3. \A i \in DOMAIN audit' : audit'[i].nr = audited' - Len(audit') + i
      <4>. TAKE i \in DOMAIN audit'
      <4>1. Half + i \in DOMAIN audit /\ i \in Nat
        BY <1>0, <1>0b, <2>5, <3>2
      <4>2. audit'[i].nr = audited - Len(audit) + (Half + i)
        BY <1>0, <3>1, <3>2, <4>1
      <4>. QED
        <5>1. audited \in Nat /\ Len(audit) \in Nat /\ Half \in Nat /\ i \in Nat
          BY <1>0, <1>0b, <4>1
        <5>2. audited' - Len(audit') + i = audited - (Len(audit) - Half) + i
          BY <2>1, <3>1
        <5>. QED
          BY <4>2, <5>1, <5>2
    <3>4. Len(audit') <= AUDIT_MAX + Cardinality(Rotating')
      <4>. HIDE DEF c
      <4>. QED
        BY <1>0, <1>0b, <1>0c, <2>3, <3>1
    <3>5. ~collided' => /\ Len(audit') >= audited' \/ Len(audit') >= AUDIT_MAX - Half + 1
                        /\ \A s, u \in Callers : rotating'[s] = "over" =>
                             Len(audit') > AUDIT_MAX /\ (rotating'[u] = "over" => u = s)
      <4>. SUFFICES ASSUME ~collided
                    PROVE  /\ Len(audit') >= AUDIT_MAX - Half + 1
                           /\ \A s \in Callers : rotating'[s] # "over"
        BY <2>1
      <4>1. Len(audit) > AUDIT_MAX /\ \A s \in Callers : rotating[s] = "over" => s = t
        BY <1>0a, <2>1
      <4>2. Len(audit') >= AUDIT_MAX - Half + 1
        <5>. HIDE DEF c
        <5>. QED
          BY <1>0, <1>0b, <3>1, <4>1
      <4>. QED
        BY <2>2, <4>1, <4>2
    <3>. QED
      BY <1>0, <1>0a, <2>1, <2>2, <3>1, <3>3, <3>4, <3>5, Zenon DEF AuditInv
  <2>. QED
    BY <1>0, <1>0b, <2>4, <2>5
<1>4. ASSUME NEW t \in Callers, Access(t) PROVE AuditInv'
  <2>1. \A roles, needed : HasAnyRole(roles, needed) \in BOOLEAN
    BY Zenon DEF HasAnyRole
  <2>2. \A roles, action : CanPerform(roles, action) \in BOOLEAN
    BY Zenon DEF CanPerform
  <2>. QED
    BY <1>1, <1>4, <2>1, <2>2, Zenon DEF Access
<1>. QED
  BY <1>2, <1>3, <1>4 DEF AuditNext

\* The two records are written side by side.
LEMMA UsageStep ==
  ASSUME LogInv, AuditInv, [LogNext \/ AuditNext]_uvars
  PROVE  LogInv' /\ AuditInv'
<1>1. CASE LogNext
  <2>1. UNCHANGED auditing
    BY <1>1 DEF LogNext, LogOpen, LogFails, ClearCount, ClearUnlink, LogWrite, Later
  <2>2. AuditInv'
    BY <2>1 DEF AuditInv, auditing, Rotating, Placed
  <2>. QED
    BY <1>1, <2>2, LogStep
<1>2. CASE AuditNext
  <2>1. UNCHANGED <<time, telemetry>>
    BY <1>2 DEF AuditNext, Access, AuditAppend, AuditLength, AuditRotate
  <2>2. LogInv'
    BY <2>1 DEF LogInv, telemetry, Numbers, Undisturbed
  <2>. QED
    BY <1>2, <2>2, AuditStep
<1>3. CASE UNCHANGED uvars
  <2>1. LogInv'
    BY <1>3 DEF LogInv, uvars, Numbers, Undisturbed
  <2>2. AuditInv'
    BY <1>3 DEF AuditInv, uvars, Rotating, Placed
  <2>. QED
    BY <2>1, <2>2
<1>. QED
  BY <1>1, <1>2, <1>3

LEMMA LeastOfTwo ==
  ASSUME NEW a \in Nat, NEW b \in Nat, NEW l \in Nat, l >= a \/ l >= b
  PROVE  l >= Min({a, b})
<1>. DEFINE least == Min({a, b})
<1>1. \E x \in {a, b} : \A y \in {a, b} : x <= y
  <2>1. a <= b \/ b <= a
    OBVIOUS
  <2>. QED
    BY <2>1
<1>2. least \in {a, b} /\ \A y \in {a, b} : least <= y
  BY <1>1 DEF Min
<1>. QED
  BY <1>2

LEMMA UsageIsSummedUp == LogInv => UsageAddsUp
<1>. SUFFICES ASSUME LogInv PROVE UsageAddsUp
  OBVIOUS
<1>1. Numbers /\ forwarded = logged /\ (~overlapped => logged = Len(log) + removed)
  BY DEF LogInv, Undisturbed
<1>2. \A days \in 1 .. 2 : days \in Nat
  OBVIOUS
<1>. QED
  BY <1>1, <1>2, BreakdownAddsUp, VolumeAddsUp, Zenon DEF UsageAddsUp

LEMMA TheNewestAreKept == AuditInv => AuditKeepsTheNewest
<1>. SUFFICES ASSUME AuditInv PROVE AuditKeepsTheNewest
  OBVIOUS
<1>1. /\ Len(audit) \in Nat /\ audited \in Nat
      /\ \A i \in DOMAIN audit : audit[i].nr = audited - Len(audit) + i
      /\ Len(audit) <= AUDIT_MAX + Cardinality(Rotating)
      /\ ~collided => Len(audit) >= audited \/ Len(audit) >= AUDIT_MAX - Half + 1
  BY LenProperties DEF AuditInv
<1>2. AUDIT_MAX \in Nat /\ AUDIT_MAX - Half + 1 \in Nat /\ IsFiniteSet(Callers)
  BY UsageAssumption DEF Half
<1>3. /\ Cardinality(Rotating) <= Cardinality(Callers)
      /\ Cardinality(Rotating) \in Nat /\ Cardinality(Callers) \in Nat
  BY <1>2, FS_Subset, FS_CardinalityType DEF Rotating, Placed
<1>4. Len(audit) <= AUDIT_MAX + Cardinality(Callers)
  BY <1>1, <1>2, <1>3
<1>5. ~collided => Len(audit) >= Min({audited, AUDIT_MAX - Half + 1})
  BY <1>1, <1>2, LeastOfTwo
<1>. QED
  BY <1>1, <1>4, <1>5 DEF AuditKeepsTheNewest

\* For any number of threads, records and any limit of the audit list: every usage
\* record is in the log or was counted by the clear that removed it, the dashboard's
\* sums are those of the log, and the audit list ends with the newest entries,
\* without a gap (telemetry.py:404-461, api/graphql.py:190-253, api/rbac.py:28-46).
THEOREM RecordsAlwaysAddUp == USpec => []RecordsAddUp
<1>1. UInit => LogInv /\ AuditInv
  BY UsageInit
<1>2. LogInv /\ AuditInv /\ [LogNext \/ AuditNext]_uvars => (LogInv /\ AuditInv)'
  BY UsageStep
<1>3. LogInv /\ AuditInv => RecordsAddUp
  BY UsageIsSummedUp, TheNewestAreKept DEF RecordsAddUp
<1>. QED
  BY <1>1, <1>2, <1>3, PTL DEF USpec

=============================================================================
