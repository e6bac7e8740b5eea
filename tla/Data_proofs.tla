------------------------------ MODULE Data_proofs ------------------------------
(***************************************************************************)
(* Proofs about what touches data: the gateways keep honest trails and an  *)
(* honest cache, a DuckDB connection is honest about transactions, and the *)
(* converters keep the meaning of what they convert, for any queries,      *)
(* results, threads, depth of nesting, number of writes, tables and files. *)
(***************************************************************************)
EXTENDS DuckTransactions, Gateways, Converters, SequenceTheorems, FiniteSetTheorems,
        FunctionTheorems, WellFoundedInduction, TLAPS

-----------------------------------------------------------------------------
(***************************************************************************)
(* Gateways.  GatewaysAreHonest is not inductive: a MongoDB gateway with   *)
(* no collection must have stored nothing, and every cached result, within *)
(* reach or not, be the last one stored or one whose reply was lost.       *)
(***************************************************************************)
TrailTypes ==
  /\ rows \in [Trails -> Nat] /\ answered \in [Trails -> Nat] /\ partial \in [Trails -> Nat]

TrailInv ==
  /\ \A t \in Trails : rows[t] = answered[t] + partial[t]
  /\ ~collection => rows["mongo"] = 0
  /\ rows["mongo"] <= MaxFindings

Trusted(q) == q \in DOMAIN latest /\ cache[q] = latest[q]
CacheInv ==
  /\ DOMAIN doubtful = Queries /\ DOMAIN cache \subseteq Queries
  /\ \A q \in DOMAIN cache : Trusted(q) \/ cache[q] \in doubtful[q]

GatewayInv == TrailTypes /\ TrailInv /\ CacheInv

USE GatewayAssumption

LEMMA GatewayInit == GInit => GatewayInv
<1>. SUFFICES ASSUME GInit PROVE GatewayInv
  OBVIOUS
<1>1. TrailTypes /\ TrailInv
  BY DEF GInit, TrailTypes, TrailInv, Trails
<1>2. CacheInv
  BY DEF GInit, CacheInv, Trusted
<1>. QED
  BY <1>1, <1>2 DEF GatewayInv

\* A call stores n rows and reports some of them, or raises.
LEMMA StoredKeeps ==
  ASSUME TrailTypes, NEW t \in Trails, NEW n \in Nat, NEW told \in Nat, told <= n,
         Stored(t, n, told)
  PROVE  /\ TrailTypes' /\ rows' = [rows EXCEPT ![t] = @ + n]
         /\ \A s \in Trails : rows[s] = answered[s] + partial[s]
              => rows'[s] = answered'[s] + partial'[s]
  BY DEF TrailTypes, Stored

LEMMA WriteSnowflakeStep ==
  ASSUME GatewayInv, NEW n \in 0 .. MaxFindings, NEW k \in 0 .. MaxFindings, WriteSnowflake(n, k)
  PROVE  GatewayInv'
<1>1. PICK told \in Reports(n, k) : Stored("snowflake", k, told)
  BY DEF WriteSnowflake
<1>2. UNCHANGED <<collection, cache, latest, doubtful>>
  BY DEF WriteSnowflake, caching
<1>3. told \in Nat /\ told <= k
  BY DEF Reports
<1>4. TrailTypes /\ "snowflake" \in Trails
  BY DEF GatewayInv, Trails
<1>5. /\ TrailTypes' /\ rows' = [rows EXCEPT !["snowflake"] = @ + k]
      /\ \A s \in Trails : rows[s] = answered[s] + partial[s] => rows'[s] = answered'[s] + partial'[s]
  BY <1>1, <1>3, <1>4, StoredKeeps
<1>6. TrailInv'
  BY <1>2, <1>4, <1>5 DEF GatewayInv, TrailInv, TrailTypes, Trails
<1>. QED
  BY <1>2, <1>5, <1>6 DEF GatewayInv, CacheInv, Trusted

LEMMA WriteMongoStep ==
  ASSUME GatewayInv, NEW n \in 0 .. MaxFindings, NEW k \in 0 .. MaxFindings, WriteMongo(n, k)
  PROVE  GatewayInv'
<1>1. PICK told \in Reports(n, k) : Stored("mongo", k, told)
  BY DEF WriteMongo
<1>2. ~collection /\ collection' = TRUE /\ UNCHANGED <<cache, latest, doubtful>>
  BY DEF WriteMongo, Usable, ConnectMongo, caching
<1>3. told \in Nat /\ told <= k
  BY DEF Reports
<1>4. TrailTypes /\ "mongo" \in Trails
  BY DEF GatewayInv, Trails
<1>5. /\ TrailTypes' /\ rows' = [rows EXCEPT !["mongo"] = @ + k]
      /\ \A s \in Trails : rows[s] = answered[s] + partial[s] => rows'[s] = answered'[s] + partial'[s]
  BY <1>1, <1>3, <1>4, StoredKeeps
<1>6. TrailInv'
  BY <1>2, <1>4, <1>5 DEF GatewayInv, TrailInv, TrailTypes, Trails
<1>. QED
  BY <1>2, <1>5, <1>6 DEF GatewayInv, CacheInv, Trusted

LEMMA GatewayStep == GatewayInv /\ [GNext]_gvars => GatewayInv'
<1>. SUFFICES ASSUME GatewayInv, [GNext]_gvars PROVE GatewayInv'
  OBVIOUS
<1>1. ASSUME UNCHANGED trails, collection => collection' PROVE TrailTypes' /\ TrailInv'
  BY <1>1 DEF trails, GatewayInv, TrailTypes, TrailInv
<1>2. ASSUME UNCHANGED caching PROVE CacheInv'
  BY <1>2 DEF caching, GatewayInv, CacheInv, Trusted
<1>3. CASE ConnectGateway \/ ReadMongo \/ ReadSnowflake \/ UNCHANGED gvars
           \/ \E s \in Servers : CloseGateway(s) \/ Outage(s)
  <2>1. UNCHANGED trails /\ UNCHANGED caching /\ (collection => collection')
    <3>1. CASE ConnectGateway \/ ReadMongo \/ ReadSnowflake
      <4>1. ConnectSnowflake \/ ConnectRedis \/ ConnectMongo => (collection => collection')
        BY DEF ConnectSnowflake, ConnectRedis, ConnectMongo
      <4>. QED
        BY <3>1, <4>1 DEF ConnectGateway, ReadMongo, ReadSnowflake
    <3>2. CASE UNCHANGED gvars \/ \E s \in Servers : CloseGateway(s) \/ Outage(s)
      BY <3>2 DEF gvars, CloseGateway, Outage, trails, caching
    <3>. QED
      BY <1>3, <3>1, <3>2
  <2>. QED
    BY <1>1, <1>2, <2>1 DEF GatewayInv
<1>4. ASSUME NEW q \in Queries, NEW r \in Results,
             SetCached(q, r) \/ SetLost(q, r) \/ StoredLate(q, r)
      PROVE  CacheInv'
  <2>1. CASE SetCached(q, r)
    BY <2>1 DEF SetCached, Key, GatewayInv, CacheInv, Trusted
  <2>2. CASE SetLost(q, r)
    BY <2>2 DEF SetLost, GatewayInv, CacheInv, Trusted
  <2>3. CASE StoredLate(q, r)
    BY <2>3 DEF StoredLate, Key, GatewayInv, CacheInv, Trusted
  <2>. QED
    BY <1>4, <2>1, <2>2, <2>3
<1>5. ASSUME NEW q \in Queries, Invalidate(q) \/ Expire(q) PROVE CacheInv'
  BY <1>5 DEF Invalidate, Expire, Restrict, GatewayInv, CacheInv, Trusted
<1>6. CASE FlushAll
  BY <1>1, <1>6 DEF FlushAll, GatewayInv, CacheInv, Trusted
<1>7. ASSUME NEW q \in Queries,
             \/ Invalidate(q) \/ Expire(q)
             \/ \E r \in Results : SetCached(q, r) \/ SetLost(q, r) \/ StoredLate(q, r)
      PROVE  GatewayInv'
  <2>1. UNCHANGED trails /\ UNCHANGED collection
    BY <1>7 DEF Invalidate, Expire, SetCached, SetLost, StoredLate
  <2>. QED
    BY <1>1, <1>4, <1>5, <1>7, <2>1 DEF GatewayInv
<1>. QED
  BY <1>3, <1>6, <1>7, WriteSnowflakeStep, WriteMongoStep DEF GNext

\* Trails add up with what the calls reported and what calls that raised had
\* stored, MongoDB stores what its check lets it, and the cache answers only with
\* the last result or one whose reply was lost (write_findings, get_cached,
\* set_cached, invalidate).
THEOREM GatewaysAreAlwaysHonest == GSpec => []GatewaysAreHonest
<1>1. GatewayInv => GatewaysAreHonest
  BY DEF GatewayInv, TrailTypes, TrailInv, CacheInv, Trusted, GatewaysAreHonest, GetCached
<1>. QED
  BY <1>1, GatewayInit, GatewayStep, PTL DEF GSpec

-----------------------------------------------------------------------------
(***************************************************************************)
(* DuckTransactions.  TransactionsAreHonest is not inductive: as long as   *)
(* the connector is not shared, each transaction its caller is in must     *)
(* have its frame, the newest of its name, and hold exactly the writes     *)
(* from there up to the next one; and once a failure in a nested           *)
(* transaction, or close(), has cut that bond, nobody may be in one.       *)
(***************************************************************************)
USE DuckAssumption

FrameType == [name : Nat, writes : SUBSET Ids]

OneAtATime == \A t, u \in Threads : Busy(t) /\ Busy(u) => t = u

\* A write is in one place.
FramesInv ==
  /\ written \in 0 .. MaxWrites
  /\ \A i, j \in DOMAIN frames : i # j => frames[i].writes \cap frames[j].writes = {}
  /\ \A i \in DOMAIN frames : frames[i].writes \cap committed = {}
  /\ \A x \in committed : x < written
  /\ \A i \in DOMAIN frames : \A x \in frames[i].writes : x < written

\* The transactions m stand on the frames p.
InStep(m, p) ==
  /\ depth = Len(m)
  /\ \A d \in 1 .. depth :
       /\ p[d] \in DOMAIN frames /\ d <= p[d] /\ frames[p[d]].name = d - 1
       /\ \A i \in DOMAIN frames : p[d] < i => frames[i].name # d - 1
       /\ \A e \in 1 .. depth : d < e => p[d] < p[e]
       /\ \A x \in Ids : x \in m[d] <=> \E i \in DOMAIN frames :
                           /\ x \in frames[i].writes
                           /\ p[d] <= i /\ (d < depth => i < p[d + 1])

NoneOpen == \A t \in Threads : mine[t] = <<>>

Steady ==
  /\ Quiet
  /\ NoneOpen => depth = 0
  /\ \A t \in Threads : mine[t] # <<>> => \E p \in [1 .. depth -> DOMAIN frames] : InStep(mine[t], p)
  /\ depth = 0 <=> frames = <<>>
  /\ depth > 1 => savepoints
  /\ \A i \in DOMAIN frames : frames[i].writes \cap dropped = {}

\* A failed statement is about to roll back, or has.
Failing ==
  /\ NoneOpen /\ ~Quiet /\ frames # <<>> /\ depth >= 1
  /\ \A t \in Threads : pc[t] # "undone"
  /\ depth > 1 => nestedFail /\ CanName(depth - 1)
Undoing ==
  /\ NoneOpen /\ ~Quiet
  /\ \A t \in Threads : pc[t] # "failed"
  /\ frames # <<>> => nestedFail

\* DuckDB holds a transaction nobody believes in, or _tx_depth counts some that
\* DuckDB does not hold.
Orphaned == NoneOpen /\ Quiet /\ depth = 0 /\ frames # <<>> /\ nestedFail
Stale == NoneOpen /\ frames = <<>> /\ depth > 0 /\ cut /\ \A t \in Threads : pc[t] # "undone"

Bond == Steady \/ Failing \/ Undoing \/ Orphaned \/ Stale

Told ==
  /\ dropped \cap committed = {} /\ \A x \in dropped : x < written
  /\ ~nestedFail => kept \subseteq committed

TxInv == ~shared => OneAtATime /\ Bond /\ Told

DuckInv == TypeOK /\ FramesInv /\ TxInv

-----------------------------------------------------------------------------
LEMMA Least ==
  ASSUME NEW T, T \subseteq Nat, T # {}
  PROVE  \E i \in T : \A j \in T : i <= j
<1>. DEFINE less == {p \in Nat \X Nat : p[1] < p[2]}
<1>1. IsWellFoundedOn(less, Nat)
  BY NatLessThanWellFounded DEF OpToRel
<1>2. \A i, j \in Nat : <<j, i>> \in less <=> j < i
  OBVIOUS
<1>. HIDE DEF less
<1>3. PICK i \in T : \A j \in T : ~(<<j, i>> \in less)
  BY <1>1, WFMin
<1>4. \A j \in T : ~(j < i)
  BY <1>2, <1>3
<1>5. \A j \in T : j \in Nat /\ i \in Nat
  OBVIOUS
<1>. QED
  BY <1>4, <1>5

LEMMA Largest ==
  ASSUME NEW n \in Nat, NEW T \in SUBSET (1 .. n), T # {}
  PROVE  \E i \in T : \A j \in T : j <= i
<1>. DEFINE D == {n - i : i \in T}
<1>1. \A i \in T : i \in 1 .. n
  OBVIOUS
<1>2. D \subseteq Nat /\ D # {}
  <2>1. \A i \in T : n - i \in Nat
    BY <1>1
  <2>. QED
    BY <2>1
<1>. HIDE DEF D
<1>3. PICK d \in D : \A e \in D : d <= e
  BY <1>2, Least
<1>. USE DEF D
<1>4. PICK i \in T : d = n - i
  BY <1>3
<1>5. \A j \in T : d <= n - j
  BY <1>3
<1>. HIDE DEF D
<1>6. \A j \in T : j <= i
  BY <1>1, <1>4, <1>5
<1>. QED
  BY <1>6

\* The newest frame of a name.
LEMMA AtFacts ==
  ASSUME frames \in Seq(FrameType), NEW name \in Names
  PROVE  /\ At(name) \in DOMAIN frames /\ frames[At(name)].name = name
         /\ \A j \in DOMAIN frames : frames[j].name = name => j <= At(name)
<1>. DEFINE T == {i \in DOMAIN frames : frames[i].name = name}
<1>1. Len(frames) \in Nat /\ DOMAIN frames = 1 .. Len(frames)
  OBVIOUS
<1>2. T \in SUBSET (1 .. Len(frames)) /\ T # {}
  BY <1>1 DEF Names
<1>3. \E i \in T : \A j \in T : j <= i
  BY <1>1, <1>2, Largest
<1>4. \E i \in DOMAIN frames :
        frames[i].name = name /\ \A j \in DOMAIN frames : frames[j].name = name => j <= i
  BY <1>3
<1>. QED
  BY <1>4 DEF At

LEMMA AtIs ==
  ASSUME frames \in Seq(FrameType), NEW i \in DOMAIN frames,
         \A j \in DOMAIN frames : i < j => frames[j].name # frames[i].name
  PROVE  At(frames[i].name) = i
<1>. DEFINE name == frames[i].name
<1>1. name \in Names
  BY DEF Names
<1>2. /\ At(name) \in DOMAIN frames /\ frames[At(name)].name = name
      /\ i <= At(name)
  BY <1>1, AtFacts
<1>3. DOMAIN frames \subseteq Int
  OBVIOUS
<1>. QED
  BY <1>2, <1>3

\* What is left when a savepoint is released.
LEMMA ReleaseFacts ==
  ASSUME frames \in Seq(FrameType), NEW name, At(name) \in DOMAIN frames, At(name) > 1,
         DbRelease(name)
  PROVE  /\ frames' \in Seq(FrameType) /\ Len(frames') = At(name) - 1 /\ committed' = committed
         /\ \A j \in 1 .. At(name) - 1 : frames'[j].name = frames[j].name
         /\ \A j \in 1 .. At(name) - 2 : frames'[j] = frames[j]
         /\ \A x : x \in frames'[At(name) - 1].writes <=>
                     \/ x \in frames[At(name) - 1].writes
                     \/ \E k \in At(name) .. Len(frames) : x \in frames[k].writes
<1>. DEFINE i == At(name)
            below == SubSeq(frames, 1, i - 1)
            above == SubSeq(frames, i, Len(frames))
            moved == AllWrites(above)
<1>1. /\ Len(frames) \in Nat /\ i \in 2 .. Len(frames)
      /\ \A j \in 1 .. Len(frames) : frames[j] \in FrameType
  BY ElementOfSeq
<1>2. /\ below \in Seq(FrameType) /\ Len(below) = i - 1
      /\ \A j \in 1 .. i - 1 : below[j] = frames[j]
  <2>. HIDE DEF i
  <2>1. \A j \in 1 .. i - 1 : frames[j] \in FrameType
    BY <1>1
  <2>2. 1 \in Int /\ i - 1 \in Int /\ 1 <= i - 1
    BY <1>1
  <2>. QED
    BY <1>1, <2>1, <2>2, SubSeqProperties
<1>3. /\ above \in Seq(FrameType) /\ Len(above) = Len(frames) - i + 1
      /\ \A j \in 1 .. Len(frames) - i + 1 : above[j] = frames[i + j - 1]
  <2>. HIDE DEF i
  <2>1. \A j \in i .. Len(frames) : frames[j] \in FrameType
    BY <1>1
  <2>2. i \in Int /\ Len(frames) \in Int /\ i <= Len(frames)
    BY <1>1
  <2>. QED
    BY <1>1, <2>1, <2>2, SubSeqProperties
<1>4. frames' = [below EXCEPT ![i - 1].writes = @ \cup moved] /\ committed' = committed
  BY DEF DbRelease
<1>. HIDE DEF i, below, above
<1>5. \A x : x \in moved <=> \E k \in i .. Len(frames) : x \in frames[k].writes
  <2>1. DOMAIN above = 1 .. Len(frames) - i + 1
    BY <1>1, <1>3
  <2>2. ASSUME NEW x, x \in moved PROVE \E k \in i .. Len(frames) : x \in frames[k].writes
    <3>1. PICK j \in DOMAIN above : x \in above[j].writes
      BY <2>2 DEF AllWrites
    <3>2. i + j - 1 \in i .. Len(frames) /\ above[j] = frames[i + j - 1]
      BY <1>1, <1>3, <2>1
    <3>. QED
      BY <3>1, <3>2
  <2>3. ASSUME NEW x, NEW k \in i .. Len(frames), x \in frames[k].writes PROVE x \in moved
    <3>1. k - i + 1 \in DOMAIN above /\ above[k - i + 1] = frames[k]
      BY <1>1, <1>3, <2>1
    <3>. QED
      BY <2>3, <3>1 DEF AllWrites
  <2>. QED
    BY <2>2, <2>3
<1>6. moved \subseteq Ids
  BY <1>1, <1>5 DEF FrameType
<1>. HIDE DEF moved
<1>7. i - 1 \in 1 .. Len(below) /\ below[i - 1] = frames[i - 1] /\ frames[i - 1] \in FrameType
  BY <1>1, <1>2
<1>8. [frames[i - 1] EXCEPT !.writes = @ \cup moved] \in FrameType
  BY <1>6, <1>7 DEF FrameType
<1>9. frames' = [below EXCEPT ![i - 1] = [frames[i - 1] EXCEPT !.writes = @ \cup moved]]
  BY <1>4, <1>7, Zenon
<1>10. /\ frames' \in Seq(FrameType) /\ Len(frames') = i - 1
       /\ \A j \in 1 .. i - 1 : j # i - 1 => frames'[j] = frames[j]
       /\ frames'[i - 1] = [frames[i - 1] EXCEPT !.writes = @ \cup moved]
  <2>. DEFINE top == [frames[i - 1] EXCEPT !.writes = @ \cup moved]
  <2>1. top \in FrameType /\ frames' = [below EXCEPT ![i - 1] = top]
    BY <1>8, <1>9
  <2>. HIDE DEF top
  <2>2. frames' \in Seq(FrameType) /\ Len(frames') = i - 1
    BY <1>1, <1>2, <1>7, <2>1, ExceptSeq
  <2>3. \A j \in 1 .. i - 1 : frames'[j] = IF j = i - 1 THEN top ELSE frames[j]
    BY <1>1, <1>2, <1>7, <2>1
  <2>4. i - 1 \in 1 .. i - 1 /\ frames'[i - 1] = top
    BY <1>1, <2>3
  <2>5. \A j \in 1 .. i - 1 : j # i - 1 => frames'[j] = frames[j]
    BY <2>3
  <2>. QED
    BY <2>2, <2>4, <2>5 DEF top
<1>11. frames'[i - 1].name = frames[i - 1].name /\ frames'[i - 1].writes = frames[i - 1].writes \cup moved
  BY <1>7, <1>10 DEF FrameType
<1>12. \A x : x \in frames'[i - 1].writes <=>
         x \in frames[i - 1].writes \/ \E k \in i .. Len(frames) : x \in frames[k].writes
  BY <1>5, <1>11
<1>13. /\ \A j \in 1 .. i - 1 : frames'[j].name = frames[j].name
       /\ \A j \in 1 .. i - 2 : frames'[j] = frames[j]
  <2>1. i \in Int
    BY <1>1
  <2>2. \A j \in 1 .. i - 1 : j # i - 1 => frames'[j] = frames[j]
    BY <1>10
  <2>3. \A j \in 1 .. i - 2 : frames'[j] = frames[j]
    BY <2>1, <2>2
  <2>. QED
    BY <1>11, <2>2, <2>3
<1>. QED
  BY <1>4, <1>10, <1>12, <1>13 DEF i

\* What is left when a savepoint is rolled back.
LEMMA RollbackFacts ==
  ASSUME frames \in Seq(FrameType), NEW name \in Nat, At(name) \in DOMAIN frames,
         DbRollbackTo(name)
  PROVE  /\ frames' \in Seq(FrameType) /\ Len(frames') = At(name) /\ committed' = committed
         /\ \A j \in 1 .. At(name) - 1 : frames'[j] = frames[j]
         /\ frames'[At(name)] = Frame(name, {})
<1>. DEFINE i == At(name)
            below == SubSeq(frames, 1, i - 1)
<1>1. /\ Len(frames) \in Nat /\ i \in 1 .. Len(frames)
      /\ \A j \in 1 .. Len(frames) : frames[j] \in FrameType
  BY ElementOfSeq
<1>2. /\ below \in Seq(FrameType) /\ Len(below) = i - 1
      /\ \A j \in 1 .. i - 1 : below[j] = frames[j]
  <2>. HIDE DEF i
  <2>1. \A j \in 1 .. i - 1 : frames[j] \in FrameType
    BY <1>1
  <2>2. 1 \in Int /\ i - 1 \in Int
    BY <1>1
  <2>. QED
    BY <1>1, <2>1, <2>2, SubSeqProperties
<1>3. frames' = Append(below, Frame(name, {})) /\ committed' = committed
  BY DEF DbRollbackTo
<1>4. Frame(name, {}) \in FrameType
  BY DEF Frame, FrameType
<1>. HIDE DEF i, below
<1>5. /\ frames' \in Seq(FrameType) /\ Len(frames') = i
      /\ \A j \in 1 .. i - 1 : frames'[j] = frames[j]
      /\ frames'[i] = Frame(name, {})
  BY <1>1, <1>2, <1>3, <1>4, AppendProperties
<1>. QED
  BY <1>3, <1>5 DEF i

-----------------------------------------------------------------------------
(***************************************************************************)
(* What the statements do to the frames.                                   *)
(***************************************************************************)
LEMMA FrameFacts ==
  ASSUME TypeOK
  PROVE  /\ frames \in Seq(FrameType) /\ Len(frames) \in Nat /\ DOMAIN frames = 1 .. Len(frames)
         /\ \A i \in DOMAIN frames : frames[i] \in FrameType /\ frames[i].writes \subseteq Ids
         /\ frames = <<>> <=> Len(frames) = 0
         /\ frames # <<>> => connected /\ frames[1].name = 0
<1>1. frames \in Seq(FrameType)
  BY DEF TypeOK, FrameType
<1>2. \A i \in 1 .. Len(frames) : frames[i] \in FrameType
  BY <1>1, ElementOfSeq
<1>3. \A i \in 1 .. Len(frames) : frames[i].writes \subseteq Ids
  BY <1>2 DEF FrameType
<1>. QED
  BY <1>1, <1>2, <1>3 DEF TypeOK

LEMMA NameFacts ==
  ASSUME TypeOK, NEW name \in Nat \ {0}, CanName(name)
  PROVE  /\ savepoints /\ At(name) \in 2 .. Len(frames) /\ frames[At(name)].name = name
         /\ \A j \in DOMAIN frames : frames[j].name = name => j <= At(name)
<1>1. name \in Names /\ savepoints
  BY DEF CanName
<1>2. /\ At(name) \in DOMAIN frames /\ frames[At(name)].name = name
      /\ \A j \in DOMAIN frames : frames[j].name = name => j <= At(name)
  BY <1>1, AtFacts, FrameFacts
<1>3. At(name) # 1
  BY <1>2, FrameFacts
<1>. QED
  BY <1>1, <1>2, <1>3, FrameFacts

LEMMA PushFacts ==
  ASSUME TypeOK, NEW name \in Nat, Push(name)
  PROVE  /\ frames' \in Seq(FrameType) /\ Len(frames') = Len(frames) + 1
         /\ \A j \in 1 .. Len(frames) : frames'[j] = frames[j]
         /\ frames'[Len(frames) + 1] = Frame(name, {})
         /\ frames'[Len(frames) + 1].name = name /\ frames'[Len(frames) + 1].writes = {}
<1>1. Frame(name, {}) \in FrameType /\ Frame(name, {}).name = name /\ Frame(name, {}).writes = {}
  BY DEF Frame, FrameType
<1>. QED
  BY <1>1, FrameFacts, AppendProperties DEF Push

LEMMA WriteFacts ==
  ASSUME TypeOK, frames # <<>>, NEW x \in Ids,
         frames' = [frames EXCEPT ![Len(frames)].writes = @ \cup {x}]
  PROVE  /\ frames' \in Seq(FrameType) /\ Len(frames') = Len(frames)
         /\ \A j \in 1 .. Len(frames) : frames'[j].name = frames[j].name
         /\ \A j \in 1 .. Len(frames) - 1 : frames'[j] = frames[j]
         /\ frames'[Len(frames)].writes = frames[Len(frames)].writes \cup {x}
<1>. DEFINE n == Len(frames)
            top == [frames[n] EXCEPT !.writes = @ \cup {x}]
<1>1. n \in 1 .. n /\ n \in Nat /\ frames[n] \in FrameType
  BY FrameFacts
<1>2. top \in FrameType /\ top.name = frames[n].name /\ top.writes = frames[n].writes \cup {x}
  BY <1>1 DEF FrameType
<1>3. frames' = [frames EXCEPT ![n] = top]
  BY Zenon
<1>. HIDE DEF top
<1>4. frames' \in Seq(FrameType) /\ Len(frames') = n
  <2>1. frames \in Seq(FrameType) /\ top \in FrameType /\ n \in 1 .. Len(frames)
    BY <1>1, <1>2, FrameFacts
  <2>. HIDE DEF n
  <2>2. [frames EXCEPT ![n] = top] \in Seq(FrameType) /\ Len([frames EXCEPT ![n] = top]) = Len(frames)
    BY <2>1, ExceptSeq
  <2>. QED
    BY <1>3, <2>2 DEF n
<1>5. \A j \in 1 .. n : frames'[j] = IF j = n THEN top ELSE frames[j]
  BY <1>1, <1>2, <1>3, FrameFacts
<1>. QED
  BY <1>1, <1>2, <1>4, <1>5

\* The steps of the database, as every action takes one.
DbStep ==
  \/ UNCHANGED <<frames, committed>>
  \/ frames' = <<>> /\ committed' = committed
  \/ frames' = <<>> /\ committed' = committed \cup AllWrites(frames)
  \/ depth > 1 /\ CanName(depth - 1) /\ (DbRelease(depth - 1) \/ DbRollbackTo(depth - 1))
  \/ Push(depth) /\ (frames = <<>> <=> depth = 0) /\ connected /\ committed' = committed
WriteStep ==
  /\ written \in Ids /\ written' = written + 1
  /\ \/ frames = <<>> /\ committed' = committed \cup {written} /\ UNCHANGED frames
     \/ /\ frames # <<>> /\ frames' = [frames EXCEPT ![Len(frames)].writes = @ \cup {written}]
        /\ UNCHANGED committed

LEMMA DbSteps ==
  ASSUME TypeOK, FramesInv, Next
  PROVE  (DbStep /\ UNCHANGED written) \/ WriteStep
<1>1. ASSUME NEW t \in Threads, Write(t) PROVE WriteStep
  BY <1>1 DEF Write, WriteStep, FramesInv, Ids
<1>2. ASSUME NEW t \in Threads, BeginTransaction(t) PROVE DbStep /\ UNCHANGED written
  BY <1>2 DEF BeginTransaction, DbStep, CanBegin, CanSavepoint, Uses
<1>3. ASSUME NEW t \in Threads, Commit(t) PROVE DbStep /\ UNCHANGED written
  BY <1>3 DEF Commit, DbStep, DbCommit, dbVars
<1>4. ASSUME NEW t \in Threads,
             CommitConflict(t) \/ Rollback(t) \/ RollbackAll(t) \/ EndRaises(t)
             \/ FailStatement(t) \/ FailRollback(t) \/ FailReset(t)
      PROVE  DbStep /\ UNCHANGED written
  <2>1. Undone \/ UndoRaises => DbStep
    BY DEF Undone, UndoRaises, DbStep, DbRollback, dbVars
  <2>2. CommitConflict(t) => DbStep /\ UNCHANGED written
    BY DEF CommitConflict, DbStep, DbRollback
  <2>. QED
    BY <1>4, <2>1, <2>2
    DEF Rollback, RollbackAll, EndRaises, FailStatement, FailRollback, FailReset, DbStep, dbVars
<1>5. CASE Connect \/ Close
  BY <1>5 DEF Connect, Close, DbStep, dbVars
<1>. QED
  BY <1>1, <1>2, <1>3, <1>4, <1>5 DEF Next

\* The frames stay typed, and above the transaction.
LEMMA FramesTyped ==
  ASSUME TypeOK, FramesInv, DbStep \/ WriteStep
  PROVE  /\ frames' \in Seq(FrameType) /\ committed' \subseteq Ids
         /\ frames' # <<>> => connected /\ frames'[1].name = 0
<1>0. committed \subseteq Ids /\ depth \in Nat
  BY DEF TypeOK
<1>1. CASE UNCHANGED <<frames, committed>> \/ (frames' = <<>> /\ committed' = committed)
  <2>1. CASE UNCHANGED <<frames, committed>>
    BY <1>0, <2>1, FrameFacts
  <2>2. CASE frames' = <<>> /\ committed' = committed
    BY <1>0, <2>2, EmptySeq
  <2>. QED
    BY <1>1, <2>1, <2>2
<1>2. CASE frames' = <<>> /\ committed' = committed \cup AllWrites(frames)
  <2>1. AllWrites(frames) \subseteq Ids
    BY FrameFacts DEF AllWrites
  <2>. QED
    BY <1>0, <1>2, <2>1
<1>3. CASE depth > 1 /\ CanName(depth - 1) /\ (DbRelease(depth - 1) \/ DbRollbackTo(depth - 1))
  <2>. DEFINE name == depth - 1
              i == At(name)
  <2>1. name \in Nat \ {0}
    BY <1>0, <1>3
  <2>2. i \in 2 .. Len(frames) /\ Len(frames) \in Nat /\ DOMAIN frames = 1 .. Len(frames)
    BY <1>3, <2>1, NameFacts, FrameFacts
  <2>3. /\ frames' \in Seq(FrameType) /\ committed' = committed
        /\ frames'[1].name = frames[1].name
    <3>. HIDE DEF name
    <3>1. CASE DbRelease(name)
      <4>1. /\ frames' \in Seq(FrameType) /\ committed' = committed
            /\ \A j \in 1 .. i - 1 : frames'[j].name = frames[j].name
        BY <2>2, <3>1, FrameFacts, ReleaseFacts
      <4>2. 1 \in 1 .. i - 1
        BY <2>2
      <4>. QED
        BY <4>1, <4>2
    <3>2. CASE DbRollbackTo(name)
      <4>1. /\ frames' \in Seq(FrameType) /\ committed' = committed
            /\ \A j \in 1 .. i - 1 : frames'[j] = frames[j]
        BY <2>1, <2>2, <3>2, FrameFacts, RollbackFacts
      <4>2. 1 \in 1 .. i - 1
        BY <2>2
      <4>. QED
        BY <4>1, <4>2
    <3>. QED
      BY <1>3, <3>1, <3>2 DEF name
  <2>4. connected /\ frames[1].name = 0
    BY <2>2, FrameFacts
  <2>. QED
    BY <1>0, <2>3, <2>4
<1>4. CASE Push(depth) /\ (frames = <<>> => depth = 0) /\ connected /\ committed' = committed
  <2>1. /\ frames' \in Seq(FrameType)
        /\ \A j \in 1 .. Len(frames) : frames'[j] = frames[j]
        /\ frames'[Len(frames) + 1].name = depth
    BY <1>0, <1>4, PushFacts
  <2>2. frames'[1].name = 0
    <3>1. CASE frames = <<>>
      BY <1>4, <2>1, <3>1, FrameFacts
    <3>2. CASE frames # <<>>
      <4>1. 1 \in 1 .. Len(frames) /\ frames[1].name = 0
        BY <3>2, FrameFacts
      <4>. QED
        BY <2>1, <4>1
    <3>. QED
      BY <3>1, <3>2
  <2>. QED
    BY <1>0, <1>4, <2>1, <2>2
<1>5. CASE WriteStep
  <2>1. CASE frames = <<>>
    BY <1>0, <1>5, <2>1, FrameFacts DEF WriteStep
  <2>2. CASE frames # <<>>
    <3>1. /\ frames' \in Seq(FrameType)
          /\ \A j \in 1 .. Len(frames) : frames'[j].name = frames[j].name
          /\ committed' = committed
      BY <1>5, <2>2, WriteFacts DEF WriteStep
    <3>2. 1 \in 1 .. Len(frames) /\ frames[1].name = 0 /\ connected
      BY <2>2, FrameFacts
    <3>. QED
      BY <1>0, <3>1, <3>2
  <2>. QED
    BY <2>1, <2>2
<1>. QED
  BY <1>1, <1>2, <1>3, <1>4, <1>5 DEF DbStep

\* A write stays in one place.
LEMMA FramesStep ==
  ASSUME TypeOK, FramesInv, (DbStep /\ UNCHANGED written) \/ WriteStep
  PROVE  FramesInv'
<1>. DEFINE n == Len(frames)
<1>0. /\ depth \in Nat /\ n \in Nat /\ DOMAIN frames = 1 .. n /\ written \in Nat
      /\ frames' \in Seq(FrameType) /\ DOMAIN frames' = 1 .. Len(frames') /\ Len(frames') \in Nat
      /\ \A i \in DOMAIN frames : frames[i].writes \subseteq Ids
  <2>1. frames' \in Seq(FrameType)
    BY FramesTyped
  <2>. QED
    BY <2>1, FrameFacts DEF TypeOK, FramesInv
<1>. HIDE DEF n
<1>1. CASE UNCHANGED <<frames, committed, written>>
  BY <1>1 DEF FramesInv
<1>2. CASE frames' = <<>> /\ UNCHANGED <<committed, written>>
  BY <1>2 DEF FramesInv
<1>3. CASE frames' = <<>> /\ committed' = committed \cup AllWrites(frames) /\ UNCHANGED written
  BY <1>3 DEF FramesInv, AllWrites
<1>4. CASE depth > 1 /\ CanName(depth - 1) /\ DbRelease(depth - 1) /\ UNCHANGED written
  <2>. DEFINE name == depth - 1
              i == At(name)
  <2>1. name \in Nat \ {0}
    BY <1>0, <1>4
  <2>2. i \in 2 .. n
    BY <1>4, <2>1, NameFacts DEF n
  <2>. HIDE DEF i
  <2>3. /\ Len(frames') = i - 1 /\ committed' = committed
        /\ \A j \in 1 .. i - 2 : frames'[j] = frames[j]
        /\ \A x : x \in frames'[i - 1].writes <=>
                    \/ x \in frames[i - 1].writes
                    \/ \E k \in i .. n : x \in frames[k].writes
    BY <1>0, <1>4, <2>2, FrameFacts, ReleaseFacts DEF i, n
  <2>4. \A j \in 1 .. i - 1 : \A x \in frames'[j].writes :
          \E k \in 1 .. n : x \in frames[k].writes /\ (j < i - 1 => k = j) /\ (j = i - 1 => k >= j)
    BY <1>0, <2>2, <2>3
  <2>5. \A j, k \in 1 .. i - 1 : j # k => frames'[j].writes \cap frames'[k].writes = {}
    BY <1>0, <2>2, <2>4 DEF FramesInv
  <2>. QED
    BY <1>0, <1>4, <2>3, <2>4, <2>5 DEF FramesInv
<1>5. CASE depth > 1 /\ CanName(depth - 1) /\ DbRollbackTo(depth - 1) /\ UNCHANGED written
  <2>. DEFINE name == depth - 1
              i == At(name)
  <2>1. name \in Nat \ {0}
    BY <1>0, <1>5
  <2>2. i \in 2 .. n
    BY <1>5, <2>1, NameFacts DEF n
  <2>. HIDE DEF i
  <2>3. /\ Len(frames') = i /\ committed' = committed
        /\ \A j \in 1 .. i - 1 : frames'[j] = frames[j]
        /\ frames'[i].writes = {}
    <3>1. name \in Nat /\ DbRollbackTo(name) /\ At(name) \in DOMAIN frames /\ frames \in Seq(FrameType)
      BY <1>0, <1>5, <2>1, <2>2, FrameFacts DEF i
    <3>. HIDE DEF name
    <3>2. /\ Len(frames') = At(name) /\ committed' = committed
          /\ \A j \in 1 .. At(name) - 1 : frames'[j] = frames[j]
          /\ frames'[At(name)] = Frame(name, {})
      BY <3>1, RollbackFacts
    <3>3. Frame(name, {}).writes = {}
      BY DEF Frame
    <3>. QED
      BY <3>2, <3>3 DEF i
  <2>. QED
    BY <1>0, <1>5, <2>2, <2>3 DEF FramesInv
<1>6. CASE Push(depth) /\ UNCHANGED <<committed, written>>
  <2>1. /\ Len(frames') = n + 1
        /\ \A j \in 1 .. n : frames'[j] = frames[j]
        /\ frames'[n + 1].writes = {}
    BY <1>0, <1>6, PushFacts DEF n
  <2>. QED
    BY <1>0, <1>6, <2>1 DEF FramesInv
<1>7. CASE WriteStep
  <2>1. written \in Ids /\ written' = written + 1 /\ written' \in 0 .. MaxWrites
    BY <1>7 DEF WriteStep, FramesInv, Ids
  <2>2. CASE frames = <<>>
    BY <1>0, <1>7, <2>1, <2>2 DEF WriteStep, FramesInv, TypeOK, Ids
  <2>3. CASE frames # <<>>
    <3>1. /\ frames' = [frames EXCEPT ![Len(frames)].writes = @ \cup {written}]
          /\ committed' = committed
      BY <1>7, <2>3 DEF WriteStep
    <3>2. /\ Len(frames') = n /\ n >= 1
          /\ \A j \in 1 .. n - 1 : frames'[j] = frames[j]
          /\ frames'[n].writes = frames[n].writes \cup {written}
      BY <2>1, <2>3, <3>1, WriteFacts, FrameFacts DEF n
    <3>3. \A j \in 1 .. n : \A x \in frames'[j].writes :
            x \in frames[j].writes \/ (x = written /\ j = n)
      BY <1>0, <3>2
    <3>4. committed \subseteq Nat /\ \A j \in 1 .. n : frames[j].writes \subseteq Nat
      <4>1. Ids \subseteq Nat
        BY DEF Ids
      <4>. QED
        BY <1>0, <4>1 DEF TypeOK
    <3>5. \A j \in 1 .. n : \A x \in frames[j].writes : x < written
      BY <1>0 DEF FramesInv
    <3>6. \A j, k \in 1 .. n : j # k => frames'[j].writes \cap frames'[k].writes = {}
      BY <1>0, <3>3, <3>5 DEF FramesInv
    <3>7. \A j \in 1 .. n : frames'[j].writes \cap committed = {}
      BY <1>0, <3>3 DEF FramesInv
    <3>8. \A j \in 1 .. n : \A x \in frames'[j].writes : x < written'
      BY <1>0, <2>1, <3>3, <3>4, <3>5
    <3>9. \A x \in committed : x < written'
      BY <1>0, <2>1, <3>4 DEF FramesInv
    <3>. QED
      BY <1>0, <2>1, <3>1, <3>2, <3>6, <3>7, <3>8, <3>9 DEF FramesInv
  <2>. QED
    BY <2>2, <2>3
<1>. QED
  BY <1>1, <1>2, <1>3, <1>4, <1>5, <1>6, <1>7 DEF DbStep

-----------------------------------------------------------------------------
(***************************************************************************)
(* What the callers are told.                                              *)
(***************************************************************************)
LEMMA MineFacts ==
  ASSUME TypeOK, NEW t \in Threads
  PROVE  /\ mine[t] \in Seq(SUBSET Ids) /\ Len(mine[t]) \in Nat
         /\ DOMAIN mine[t] = 1 .. Len(mine[t])
         /\ \A d \in 1 .. Len(mine[t]) : mine[t][d] \subseteq Ids
         /\ mine[t] = <<>> <=> Len(mine[t]) = 0
         /\ Opened(mine[t]) \subseteq Ids
         /\ mine[t] # <<>> =>
              /\ Inner(t) \subseteq Ids /\ Inner(t) = mine[t][Len(mine[t])]
              /\ Outer(t) \in Seq(SUBSET Ids) /\ Len(Outer(t)) = Len(mine[t]) - 1
              /\ \A d \in 1 .. Len(mine[t]) - 1 : Outer(t)[d] = mine[t][d]
<1>1. mine[t] \in Seq(SUBSET Ids)
  BY DEF TypeOK
<1>2. \A d \in 1 .. Len(mine[t]) : mine[t][d] \in SUBSET Ids
  BY <1>1, ElementOfSeq
<1>3. /\ Len(mine[t]) \in Nat /\ DOMAIN mine[t] = 1 .. Len(mine[t])
      /\ mine[t] = <<>> <=> Len(mine[t]) = 0
  BY <1>1
<1>4. Opened(mine[t]) \subseteq Ids
  BY <1>2, <1>3 DEF Opened
<1>5. ASSUME mine[t] # <<>>
      PROVE  /\ Inner(t) \subseteq Ids /\ Inner(t) = mine[t][Len(mine[t])]
             /\ Outer(t) \in Seq(SUBSET Ids) /\ Len(Outer(t)) = Len(mine[t]) - 1
             /\ \A d \in 1 .. Len(mine[t]) - 1 : Outer(t)[d] = mine[t][d]
  <2>. DEFINE m == mine[t]
              n == Len(mine[t])
  <2>1. n \in 1 .. n /\ n - 1 \in Int /\ 1 \in Int
    BY <1>3, <1>5
  <2>2. \A d \in 1 .. n - 1 : m[d] \in SUBSET Ids
    BY <1>2, <2>1
  <2>. HIDE DEF m, n
  <2>3. /\ SubSeq(m, 1, n - 1) \in Seq(SUBSET Ids)
        /\ Len(SubSeq(m, 1, n - 1)) = IF 1 <= n - 1 THEN n - 1 - 1 + 1 ELSE 0
        /\ \A d \in 1 .. n - 1 - 1 + 1 : SubSeq(m, 1, n - 1)[d] = m[1 + d - 1]
    BY <2>1, <2>2, SubSeqProperties
  <2>4. Len(SubSeq(m, 1, n - 1)) = n - 1 /\ \A d \in 1 .. n - 1 : SubSeq(m, 1, n - 1)[d] = m[d]
    BY <2>1, <2>3
  <2>5. Outer(t) = SubSeq(m, 1, n - 1) /\ Inner(t) = m[n]
    BY DEF Outer, Inner, m, n
  <2>. QED
    BY <1>2, <2>1, <2>3, <2>4, <2>5 DEF m, n
<1>. QED
  BY <1>1, <1>2, <1>3, <1>4, <1>5

\* The innermost transaction is gone, and the one around it has its writes.
LEMMA ToldCommittedFacts ==
  ASSUME TypeOK, NEW t \in Threads, mine[t] # <<>>, ToldCommitted(t)
  PROVE  /\ mine' \in [Threads -> Seq(SUBSET Ids)] /\ kept' \subseteq Ids /\ dropped' = dropped
         /\ \A u \in Threads : u # t => mine'[u] = mine[u]
         /\ Len(mine'[t]) = Len(mine[t]) - 1
         /\ \A d \in 1 .. Len(mine[t]) - 2 : mine'[t][d] = mine[t][d]
         /\ Len(mine[t]) > 1 =>
              /\ mine'[t][Len(mine[t]) - 1] = mine[t][Len(mine[t]) - 1] \cup mine[t][Len(mine[t])]
              /\ kept' = kept
         /\ Len(mine[t]) = 1 => kept' = kept \cup mine[t][1]
<1>. DEFINE n == Len(mine[t])
<1>1. /\ n \in Nat \ {0} /\ kept \subseteq Ids /\ mine \in [Threads -> Seq(SUBSET Ids)]
      /\ Inner(t) \subseteq Ids /\ Inner(t) = mine[t][n]
      /\ Outer(t) \in Seq(SUBSET Ids) /\ Len(Outer(t)) = n - 1
      /\ \A d \in 1 .. n - 1 : Outer(t)[d] = mine[t][d] /\ mine[t][d] \subseteq Ids
  <2>1. kept \subseteq Ids /\ mine \in [Threads -> Seq(SUBSET Ids)]
    BY DEF TypeOK
  <2>2. n \in Nat \ {0} /\ \A d \in 1 .. n : mine[t][d] \subseteq Ids
    BY MineFacts
  <2>3. \A d \in 1 .. n - 1 : mine[t][d] \subseteq Ids
    BY <2>2
  <2>. QED
    BY <2>1, <2>2, <2>3, MineFacts
<1>2. CASE n = 1
  <2>1. kept' = kept \cup Inner(t) /\ mine' = [mine EXCEPT ![t] = <<>>] /\ dropped' = dropped
    BY <1>2 DEF ToldCommitted
  <2>2. <<>> \in Seq(SUBSET Ids) /\ Len(<<>>) = 0
    BY EmptySeq
  <2>3. /\ mine' \in [Threads -> Seq(SUBSET Ids)] /\ mine'[t] = <<>>
        /\ \A u \in Threads : u # t => mine'[u] = mine[u]
    BY <1>1, <2>1, <2>2
  <2>4. mine[t][n] = mine[t][1] /\ kept' \subseteq Ids /\ \A d \in 1 .. n - 2 : FALSE
    BY <1>1, <1>2, <2>1
  <2>5. Len(mine'[t]) = n - 1 /\ \A d \in 1 .. n - 2 : mine'[t][d] = mine[t][d]
    BY <1>2, <2>2, <2>3, <2>4
  <2>6. kept' = kept \cup mine[t][1] /\ dropped' = dropped /\ ~(n > 1)
    <3>1. Inner(t) = mine[t][1]
      BY <1>1, <2>4, Zenon
    <3>2. ~(n > 1)
      BY <1>2
    <3>. QED
      BY <2>1, <3>1, <3>2, Zenon
  <2>. HIDE DEF n
  <2>7. n = Len(mine[t])
    BY DEF n
  <2>. QED
    BY <2>3, <2>4, <2>5, <2>6, <2>7
<1>3. CASE n > 1
  <2>. DEFINE both == Outer(t)[n - 1] \cup Inner(t)
              new == [Outer(t) EXCEPT ![n - 1] = both]
  <2>1. n - 1 \in 1 .. n - 1 /\ both \in SUBSET Ids /\ Outer(t)[n - 1] = mine[t][n - 1]
    BY <1>1, <1>3
  <2>2. mine' = [mine EXCEPT ![t] = new] /\ kept' = kept /\ dropped' = dropped
    <3>1. Len(mine[t]) # 1
      BY <1>1, <1>3
    <3>. QED
      BY <3>1, Zenon DEF ToldCommitted
  <2>. HIDE DEF both
  <2>3. new \in Seq(SUBSET Ids) /\ Len(new) = n - 1
    BY <1>1, <2>1, ExceptSeq
  <2>4. \A d \in 1 .. n - 1 : new[d] = IF d = n - 1 THEN both ELSE mine[t][d]
    BY <1>1, <2>1
  <2>. HIDE DEF new
  <2>5. /\ mine' \in [Threads -> Seq(SUBSET Ids)] /\ mine'[t] = new
        /\ \A u \in Threads : u # t => mine'[u] = mine[u]
    BY <1>1, <2>2, <2>3
  <2>6. new[n - 1] = mine[t][n - 1] \cup mine[t][n]
    BY <1>1, <2>1, <2>4 DEF both
  <2>7. \A d \in 1 .. n - 2 : new[d] = mine[t][d]
    BY <1>1, <2>4
  <2>. QED
    BY <1>1, <1>3, <2>2, <2>3, <2>5, <2>6, <2>7
<1>. QED
  BY <1>1, <1>2, <1>3

LEMMA ToldRolledBackFacts ==
  ASSUME TypeOK, NEW t \in Threads, mine[t] # <<>>, ToldRolledBack(t)
  PROVE  /\ mine' \in [Threads -> Seq(SUBSET Ids)] /\ kept' = kept
         /\ dropped' = dropped \cup mine[t][Len(mine[t])] /\ dropped' \subseteq Ids
         /\ \A u \in Threads : u # t => mine'[u] = mine[u]
         /\ Len(mine'[t]) = Len(mine[t]) - 1
         /\ \A d \in 1 .. Len(mine[t]) - 1 : mine'[t][d] = mine[t][d]
<1>1. dropped \subseteq Ids /\ mine \in [Threads -> Seq(SUBSET Ids)]
  BY DEF TypeOK
<1>2. mine' = [mine EXCEPT ![t] = Outer(t)] /\ dropped' = dropped \cup Inner(t) /\ kept' = kept
  BY DEF ToldRolledBack
<1>. QED
  BY <1>1, <1>2, MineFacts

\* Types.
CallTypes ==
  /\ connected \in BOOLEAN /\ depth \in Nat /\ savepoints \in BOOLEAN
  /\ pc \in [Threads -> {"idle", "failed", "undone"}]
  /\ mine \in [Threads -> Seq(SUBSET Ids)]
  /\ kept \subseteq Ids /\ dropped \subseteq Ids

LEMMA CallTypesStep ==
  ASSUME TypeOK, FramesInv, Next
  PROVE  CallTypes'
<1>0. CallTypes
  BY DEF TypeOK, CallTypes
<1>1. ASSUME NEW t \in Threads, BeginTransaction(t) PROVE CallTypes'
  <2>1. Append(mine[t], {}) \in Seq(SUBSET Ids)
    BY MineFacts
  <2>. QED
    BY <1>0, <1>1, <2>1 DEF BeginTransaction, Uses, CallTypes
<1>2. ASSUME NEW t \in Threads, Write(t) PROVE CallTypes'
  <2>0. written \in Ids
    BY <1>2 DEF Write, FramesInv, Ids
  <2>1. CASE mine[t] = <<>>
    BY <1>0, <1>2, <2>0, <2>1 DEF Write, Uses, CallTypes
  <2>2. CASE mine[t] # <<>>
    <3>. DEFINE n == Len(mine[t])
                top == mine[t][n] \cup {written}
                new == [mine[t] EXCEPT ![n] = top]
    <3>1. n \in 1 .. Len(mine[t]) /\ top \in SUBSET Ids
      BY <2>0, <2>2, MineFacts
    <3>2. mine' = [mine EXCEPT ![t] = new] /\ kept' = kept
      BY <1>2, <2>2, Zenon DEF Write
    <3>. HIDE DEF top, n
    <3>3. new \in Seq(SUBSET Ids)
      BY <3>1, MineFacts, ExceptSeq
    <3>. HIDE DEF new
    <3>4. mine' \in [Threads -> Seq(SUBSET Ids)]
      BY <1>0, <3>2, <3>3 DEF CallTypes
    <3>. QED
      BY <1>0, <1>2, <3>2, <3>4 DEF Write, Uses, CallTypes
  <2>. QED
    BY <2>1, <2>2
<1>3. ASSUME NEW t \in Threads, Commit(t) PROVE CallTypes'
  <2>1. mine' \in [Threads -> Seq(SUBSET Ids)] /\ kept' \subseteq Ids /\ dropped' = dropped
    BY <1>3, ToldCommittedFacts DEF Commit
  <2>2. depth' \in Nat
    BY <1>0, <1>3 DEF Commit, CallTypes
  <2>. QED
    BY <1>0, <1>3, <2>1, <2>2 DEF Commit, Uses, CallTypes
<1>4. ASSUME NEW t \in Threads, CommitConflict(t) \/ Rollback(t) PROVE CallTypes'
  <2>1. mine[t] # <<>> /\ ToldRolledBack(t)
    <3>1. mine[t] = <<>> => Len(mine[t]) = 0
      BY MineFacts
    <3>2. CommitConflict(t) => mine[t] # <<>> /\ ToldRolledBack(t)
      BY <3>1 DEF CommitConflict
    <3>3. Rollback(t) => mine[t] # <<>> /\ ToldRolledBack(t)
      BY DEF Rollback
    <3>. QED
      BY <1>4, <3>2, <3>3
  <2>2. mine' \in [Threads -> Seq(SUBSET Ids)] /\ kept' = kept /\ dropped' \subseteq Ids
    BY <2>1, ToldRolledBackFacts
  <2>3. depth' \in Nat
    BY <1>0, <1>4 DEF CommitConflict, Rollback, Undone, CallTypes
  <2>. QED
    BY <1>0, <1>4, <2>2, <2>3 DEF CommitConflict, Rollback, Uses, CallTypes
<1>5. ASSUME NEW t \in Threads, RollbackAll(t) \/ EndRaises(t) PROVE CallTypes'
  <2>1. depth' \in Nat
    BY <1>0, <1>5 DEF RollbackAll, EndRaises, Undone, UndoRaises, CallTypes
  <2>2. <<>> \in Seq(SUBSET Ids)
    BY EmptySeq
  <2>. QED
    BY <1>0, <1>5, <2>1, <2>2 DEF RollbackAll, EndRaises, Uses, CallTypes, callVars
<1>6. ASSUME NEW t \in Threads, FailStatement(t) PROVE CallTypes'
  <2>1. <<>> \in Seq(SUBSET Ids) /\ Opened(mine[t]) \subseteq Ids
    BY EmptySeq, MineFacts
  <2>. QED
    BY <1>0, <1>6, <2>1 DEF FailStatement, Uses, CallTypes
<1>7. ASSUME NEW t \in Threads, FailRollback(t) \/ FailReset(t) PROVE CallTypes'
  <2>1. depth' \in Nat
    BY <1>0, <1>7 DEF FailRollback, FailReset, Undone, UndoRaises, CallTypes
  <2>. QED
    BY <1>0, <1>7, <2>1 DEF FailRollback, FailReset, Uses, CallTypes, callVars
<1>8. CASE Connect
  BY <1>0, <1>8 DEF Connect, CallTypes, callVars
<1>9. CASE Close
  <2>1. UNION {Opened(mine[t]) : t \in Threads} \subseteq Ids
    BY MineFacts
  <2>2. <<>> \in Seq(SUBSET Ids)
    BY EmptySeq
  <2>. QED
    BY <1>0, <1>9, <2>1, <2>2 DEF Close, CallTypes
<1>. QED
  BY <1>1, <1>2, <1>3, <1>4, <1>5, <1>6, <1>7, <1>8, <1>9 DEF Next

LEMMA DuckTypeStep ==
  ASSUME TypeOK, FramesInv, [Next]_vars
  PROVE  TypeOK'
<1>1. CASE Next
  <2>1. CallTypes'
    BY <1>1, CallTypesStep
  <2>2. /\ frames' \in Seq(FrameType) /\ committed' \subseteq Ids
        /\ frames' # <<>> => connected /\ frames'[1].name = 0
    BY <1>1, DbSteps, FramesTyped
  <2>3. frames' # <<>> /\ connected => connected'
    BY <1>1 DEF Next, Connect, Close, BeginTransaction, Write, Commit, CommitConflict, Rollback,
      RollbackAll, EndRaises, FailStatement, FailRollback, FailReset, Uses
  <2>. QED
    BY <2>1, <2>2, <2>3 DEF CallTypes, TypeOK, FrameType
<1>2. CASE UNCHANGED vars
  BY <1>2 DEF vars, dbVars, callVars, TypeOK
<1>. QED
  BY <1>1, <1>2

-----------------------------------------------------------------------------
(***************************************************************************)
(* A step of thread t while nobody else is at work.                        *)
(***************************************************************************)
Alone(t) == \A u \in Threads \ {t} : ~Busy(u)

\* Nobody but t is touched.
Turn(t) == /\ Alone(t) /\ \A u \in Threads \ {t} : mine'[u] = mine[u] /\ pc'[u] = pc[u]

LEMMA TurnFacts ==
  ASSUME NEW t \in Threads, Turn(t)
  PROVE  /\ OneAtATime'
         /\ NoneOpen <=> mine[t] = <<>>
         /\ Quiet <=> pc[t] = "idle"
         /\ NoneOpen' <=> mine'[t] = <<>>
         /\ Quiet' <=> pc'[t] = "idle"
         /\ \A u \in Threads \ {t} : mine'[u] = <<>> /\ pc'[u] = "idle"
BY DEF Turn, Alone, Busy, OneAtATime, NoneOpen, Quiet

LEMMA TurnIsTaken ==
  ASSUME TypeOK, FramesInv, NEW t \in Threads, ~shared',
         \/ BeginTransaction(t) \/ Write(t) \/ Commit(t) \/ CommitConflict(t)
         \/ Rollback(t) \/ RollbackAll(t) \/ EndRaises(t)
         \/ FailStatement(t) \/ FailRollback(t) \/ FailReset(t)
  PROVE  ~shared /\ Turn(t) /\ savepoints' = savepoints
<1>1. Uses(t)
  BY DEF BeginTransaction, Write, Commit, CommitConflict, Rollback, RollbackAll, EndRaises,
         FailStatement, FailRollback, FailReset
<1>2. ~shared /\ Alone(t) /\ savepoints' = savepoints
  BY <1>1 DEF Uses, Alone
<1>3. \A u \in Threads \ {t} : pc'[u] = pc[u]
  BY DEF BeginTransaction, Write, Commit, CommitConflict, Rollback, RollbackAll, EndRaises,
         FailStatement, FailRollback, FailReset, TypeOK
<1>4. \A u \in Threads \ {t} : mine'[u] = mine[u]
  <2>1. \/ mine' = mine \/ ToldCommitted(t) \/ ToldRolledBack(t)
        \/ \E m : mine' = [mine EXCEPT ![t] = m]
    BY DEF BeginTransaction, Write, Commit, CommitConflict, Rollback, RollbackAll, EndRaises,
           FailStatement, FailRollback, FailReset, callVars
  <2>2. ToldCommitted(t) => \E m : mine' = [mine EXCEPT ![t] = m]
    BY DEF ToldCommitted
  <2>3. ToldRolledBack(t) => \E m : mine' = [mine EXCEPT ![t] = m]
    BY DEF ToldRolledBack
  <2>. QED
    BY <2>1, <2>2, <2>3 DEF TypeOK
<1>. QED
  BY <1>2, <1>3, <1>4 DEF Turn

\* What steadiness says of the one thread that may be in a transaction.
LEMMA SteadyFacts ==
  ASSUME TypeOK, FramesInv, Steady, NEW t \in Threads, Alone(t)
  PROVE  /\ depth = Len(mine[t]) /\ pc[t] = "idle"
         /\ \E p \in [1 .. depth -> DOMAIN frames] : InStep(mine[t], p)
         /\ \A d \in 1 .. depth : \A x \in mine[t][d] : \E i \in DOMAIN frames : x \in frames[i].writes
         /\ \A x \in Opened(mine[t]) : \E i \in DOMAIN frames : x \in frames[i].writes
         /\ depth = 1 => frames # <<>>
         /\ depth > 1 => CanName(depth - 1)
<1>0. depth \in Nat
  BY DEF TypeOK
<1>1. /\ depth = Len(mine[t]) /\ pc[t] = "idle"
      /\ \E p \in [1 .. depth -> DOMAIN frames] : InStep(mine[t], p)
  <2>1. CASE mine[t] = <<>>
    <3>1. depth = 0 /\ Len(mine[t]) = 0
      BY <2>1, MineFacts DEF Steady, NoneOpen, Alone, Busy
    <3>2. [d \in 1 .. depth |-> 1] \in [1 .. depth -> DOMAIN frames]
      BY <3>1
    <3>3. InStep(mine[t], [d \in 1 .. depth |-> 1])
      BY <3>1 DEF InStep
    <3>. QED
      BY <3>1, <3>2, <3>3 DEF Steady, Quiet
  <2>2. CASE mine[t] # <<>>
    <3>1. PICK p \in [1 .. depth -> DOMAIN frames] : InStep(mine[t], p)
      BY <2>2 DEF Steady
    <3>. QED
      BY <3>1 DEF Steady, Quiet, InStep
  <2>. QED
    BY <2>1, <2>2
<1>2. PICK p \in [1 .. depth -> DOMAIN frames] : InStep(mine[t], p)
  BY <1>1
<1>3. \A d \in 1 .. depth : \A x \in mine[t][d] : \E i \in DOMAIN frames : x \in frames[i].writes
  BY <1>1, <1>2, MineFacts DEF InStep
<1>4. \A x \in Opened(mine[t]) : \E i \in DOMAIN frames : x \in frames[i].writes
  <2>1. DOMAIN mine[t] = 1 .. depth
    BY <1>1, MineFacts
  <2>. QED
    BY <1>3, <2>1 DEF Opened
<1>5. depth = 1 => frames # <<>>
  BY DEF Steady
<1>6. ASSUME depth > 1 PROVE CanName(depth - 1)
  <2>1. depth \in 1 .. depth
    BY <1>0, <1>6
  <2>2. p[depth] \in DOMAIN frames /\ frames[p[depth]].name = depth - 1
    BY <1>2, <2>1 DEF InStep
  <2>3. depth - 1 # 0 /\ savepoints
    BY <1>0, <1>6 DEF Steady
  <2>. QED
    BY <2>2, <2>3 DEF CanName, Names
<1>. QED
  BY <1>1, <1>3, <1>4, <1>5, <1>6

\* The database is empty: nothing open, everything at peace.
LEMMA EmptyIsSteady ==
  ASSUME NEW t \in Threads, Turn(t), frames' = <<>>, depth' = 0, mine'[t] = <<>>, pc'[t] = "idle"
  PROVE  Steady'
<1>1. NoneOpen' /\ Quiet'
  BY TurnFacts
<1>2. DOMAIN frames' = {}
  OBVIOUS
<1>. QED
  BY <1>1, <1>2 DEF Steady, NoneOpen

LEMMA SteadyNext ==
  ASSUME NEW t \in Threads, Turn(t), pc'[t] = "idle",
         mine'[t] = <<>> => depth' = 0,
         mine'[t] # <<>> => \E p \in [1 .. depth' -> DOMAIN frames'] : InStep(mine[t], p)',
         depth' = 0 <=> frames' = <<>>, depth' > 1 => savepoints',
         \A i \in DOMAIN frames' : frames'[i].writes \cap dropped' = {}
  PROVE  Steady'
<1>1. Quiet' /\ (NoneOpen' => depth' = 0)
  BY TurnFacts
<1>2. ASSUME NEW u \in Threads, mine'[u] # <<>>
      PROVE  \E p \in [1 .. depth' -> DOMAIN frames'] : InStep(mine[u], p)'
  <2>1. u = t
    BY <1>2, TurnFacts
  <2>. QED
    BY <1>2, <2>1
<1>. QED
  BY <1>1, <1>2 DEF Steady

\* From a steady state: one more transaction stands on the new frame.
LEMMA BeginKeepsStep ==
  ASSUME TypeOK, FramesInv, Steady, NEW t \in Threads, Turn(t), savepoints' = savepoints,
         BeginTransaction(t)
  PROVE  Steady'
<1>. DEFINE n == Len(frames)
            k == depth
            m == mine[t]
<1>1. /\ n \in Nat /\ k \in Nat /\ DOMAIN frames = 1 .. n /\ k = Len(m)
      /\ frames = <<>> <=> n = 0
  BY SteadyFacts, FrameFacts DEF TypeOK, Turn
<1>2. PICK p \in [1 .. k -> DOMAIN frames] : InStep(m, p)
  BY SteadyFacts DEF Turn
<1>3. /\ Len(frames') = n + 1 /\ frames' \in Seq(FrameType)
      /\ \A j \in 1 .. n : frames'[j] = frames[j]
      /\ frames'[n + 1].name = k /\ frames'[n + 1].writes = {}
  BY <1>1, PushFacts DEF BeginTransaction
<1>4. DOMAIN frames' = 1 .. n + 1
  BY <1>3
<1>5. /\ mine'[t] = Append(m, {}) /\ depth' = k + 1 /\ dropped' = dropped /\ pc'[t] = "idle"
      /\ (k > 0 => savepoints)
  BY <1>1 DEF BeginTransaction, CanSavepoint, TypeOK
<1>6. /\ Len(mine'[t]) = k + 1 /\ mine'[t][k + 1] = {}
      /\ \A d \in 1 .. k : mine'[t][d] = m[d]
  BY <1>1, <1>5, MineFacts
<1>7. mine'[t] # <<>>
  BY <1>1, <1>6
<1>8. /\ \A d \in 1 .. k :
           /\ p[d] \in 1 .. n /\ d <= p[d] /\ frames[p[d]].name = d - 1
           /\ \A i \in 1 .. n : p[d] < i => frames[i].name # d - 1
           /\ \A e \in 1 .. k : d < e => p[d] < p[e]
      /\ \A d \in 1 .. k : \A x \in Ids : x \in m[d] <=> \E i \in 1 .. n :
             x \in frames[i].writes /\ p[d] <= i /\ (d < k => i < p[d + 1])
  BY <1>1, <1>2 DEF InStep
<1>. HIDE DEF n, k, m
<1>9. PICK q \in [1 .. k + 1 -> 1 .. n + 1] : (\A d \in 1 .. k : q[d] = p[d]) /\ q[k + 1] = n + 1
  <2>. DEFINE q == [d \in 1 .. k + 1 |-> IF d <= k THEN p[d] ELSE n + 1]
  <2>1. q \in [1 .. k + 1 -> 1 .. n + 1] /\ (\A d \in 1 .. k : q[d] = p[d]) /\ q[k + 1] = n + 1
    BY <1>1, <1>8
  <2>. QED
    BY <2>1
<1>10. k <= n
  BY <1>1, <1>8
<1>11. ASSUME NEW d \in 1 .. k + 1
       PROVE  /\ q[d] \in 1 .. n + 1 /\ d <= q[d] /\ frames'[q[d]].name = d - 1
              /\ \A i \in 1 .. n + 1 : q[d] < i => frames'[i].name # d - 1
              /\ \A e \in 1 .. k + 1 : d < e => q[d] < q[e]
              /\ \A x \in Ids : x \in mine'[t][d] <=> \E i \in 1 .. n + 1 :
                   x \in frames'[i].writes /\ q[d] <= i /\ (d < k + 1 => i < q[d + 1])
  <2>1. CASE d = k + 1
    <3>1. q[d] = n + 1 /\ mine'[t][d] = {} /\ frames'[n + 1].name = d - 1
      BY <1>1, <1>3, <1>6, <1>9, <2>1
    <3>2. \A i \in 1 .. n + 1 : n + 1 <= i => frames'[i].writes = {}
      BY <1>1, <1>3
    <3>. QED
      BY <1>1, <1>10, <2>1, <3>1, <3>2
  <2>2. CASE d \in 1 .. k
    <3>1. q[d] = p[d] /\ p[d] \in 1 .. n /\ d <= p[d] /\ frames'[p[d]].name = d - 1
      BY <1>3, <1>8, <1>9, <2>2
    <3>2. \A i \in 1 .. n + 1 : p[d] < i => frames'[i].name # d - 1
      BY <1>1, <1>3, <1>8, <2>2
    <3>3. \A e \in 1 .. k + 1 : d < e => q[d] < q[e]
      <4>1. \A e \in 1 .. k : d < e => q[d] < q[e]
        BY <1>8, <1>9, <2>2
      <4>2. q[d] < q[k + 1]
        BY <1>1, <1>9, <3>1
      <4>3. \A e \in 1 .. k + 1 : e \in 1 .. k \/ e = k + 1
        BY <1>1
      <4>. QED
        BY <4>1, <4>2, <4>3
    <3>4. q[d + 1] = IF d < k THEN p[d + 1] ELSE n + 1
      <4>1. d = k \/ d + 1 \in 1 .. k
        BY <1>1, <2>2
      <4>. QED
        BY <1>1, <1>9, <2>2, <4>1
    <3>5. frames'[n + 1].writes = {} /\ \A i \in 1 .. n : frames'[i].writes = frames[i].writes
      BY <1>3
    <3>6. \A i \in 1 .. n : d < k => (i < q[d + 1] <=> i < p[d + 1])
      BY <3>4
    <3>7. \A i \in 1 .. n : d = k => i < q[d + 1]
      BY <1>1, <3>4
    <3>8. mine'[t][d] = m[d] /\ (d < k \/ d = k) /\ d < k + 1 /\ 1 .. n \subseteq 1 .. n + 1
      BY <1>1, <1>6, <2>2
    <3>9. ASSUME NEW x \in Ids
          PROVE  x \in m[d] <=> \E i \in 1 .. n + 1 :
                   x \in frames'[i].writes /\ p[d] <= i /\ (d < k + 1 => i < q[d + 1])
      <4>1. x \in m[d] <=> \E i \in 1 .. n : x \in frames[i].writes /\ p[d] <= i /\ (d < k => i < p[d + 1])
        BY <1>8, <2>2
      <4>2. \A i \in 1 .. n : (d < k => i < p[d + 1]) <=> (d < k + 1 => i < q[d + 1])
        BY <3>6, <3>7, <3>8, <1>1
      <4>3. \A i \in 1 .. n + 1 : x \in frames'[i].writes => i \in 1 .. n /\ x \in frames[i].writes
        BY <1>1, <3>5
      <4>4. \A i \in 1 .. n : x \in frames[i].writes => x \in frames'[i].writes
        BY <1>1, <3>5
      <4>. QED
        BY <3>8, <4>1, <4>2, <4>3, <4>4, Zenon
    <3>. QED
      BY <3>1, <3>2, <3>3, <3>8, <3>9
  <2>. QED
    BY <1>1, <2>1, <2>2
<1>12. InStep(mine[t], q)'
  BY <1>4, <1>5, <1>6, <1>11 DEF InStep
<1>13. \A i \in DOMAIN frames' : frames'[i].writes \cap dropped' = {}
  BY <1>1, <1>3, <1>4, <1>5 DEF Steady
<1>14. q \in [1 .. depth' -> DOMAIN frames'] /\ depth' # 0 /\ frames' # <<>> /\ (depth' > 1 => savepoints')
  BY <1>1, <1>3, <1>4, <1>5, <1>9
<1>. QED
  BY <1>5, <1>7, <1>12, <1>13, <1>14, SteadyNext

\* A statement in a transaction writes to its frame; outside, it is durable at
\* once.
LEMMA WriteKeepsStep ==
  ASSUME TypeOK, FramesInv, Steady, Told, NEW t \in Threads, Turn(t), savepoints' = savepoints,
         Write(t)
  PROVE  Steady' /\ Told'
<1>. DEFINE n == Len(frames)
            k == depth
            m == mine[t]
<1>1. /\ n \in Nat /\ k \in Nat /\ DOMAIN frames = 1 .. n /\ k = Len(m)
      /\ frames = <<>> <=> n = 0
      /\ frames = <<>> <=> k = 0
      /\ m = <<>> <=> k = 0
  <2>1. k = Len(m)
    BY SteadyFacts DEF Turn
  <2>2. n \in Nat /\ k \in Nat /\ DOMAIN frames = 1 .. n /\ (frames = <<>> <=> n = 0)
    BY FrameFacts DEF TypeOK
  <2>3. m = <<>> <=> Len(m) = 0
    BY MineFacts
  <2>4. frames = <<>> <=> k = 0
    BY DEF Steady
  <2>. QED
    BY <2>1, <2>2, <2>3, <2>4
<1>2. /\ written \in Ids /\ written' = written + 1 /\ written \notin dropped
      /\ depth' = k /\ pc'[t] = "idle" /\ dropped' = dropped /\ nestedFail' = nestedFail
      /\ \A x \in dropped : x < written'
  BY DEF Write, FramesInv, Ids, Told, TypeOK
<1>3. CASE frames = <<>>
  <2>1. /\ frames' = <<>> /\ committed' = committed \cup {written}
        /\ mine' = mine /\ kept' = kept \cup {written}
    BY <1>1, <1>3 DEF Write
  <2>2. k = 0 /\ mine'[t] = <<>>
    BY <1>1, <1>3, <2>1
  <2>3. Told'
    BY <1>2, <2>1 DEF Told
  <2>. QED
    BY <1>2, <2>1, <2>2, <2>3, EmptyIsSteady
<1>4. CASE frames # <<>>
  <2>1. /\ frames' = [frames EXCEPT ![Len(frames)].writes = @ \cup {written}]
        /\ committed' = committed /\ kept' = kept
        /\ mine' = [mine EXCEPT ![t][Len(mine[t])] = @ \cup {written}]
    BY <1>1, <1>4 DEF Write
  <2>2. /\ Len(frames') = n /\ frames' \in Seq(FrameType)
        /\ \A j \in 1 .. n : frames'[j].name = frames[j].name
        /\ \A j \in 1 .. n - 1 : frames'[j] = frames[j]
        /\ frames'[n].writes = frames[n].writes \cup {written}
    BY <1>2, <1>4, <2>1, WriteFacts
  <2>3. /\ DOMAIN frames' = 1 .. n /\ frames' # <<>> /\ n > 0 /\ k > 0
    BY <1>1, <1>4, <2>2
  <2>4. /\ Len(mine'[t]) = k /\ mine'[t] # <<>>
        /\ \A d \in 1 .. k : mine'[t][d] = IF d = k THEN m[k] \cup {written} ELSE m[d]
    <3>1. mine'[t] = [m EXCEPT ![Len(m)] = @ \cup {written}] /\ Len(m) \in 1 .. Len(m)
      BY <1>1, <2>1, <2>3 DEF TypeOK
    <3>. QED
      BY <1>1, <2>3, <3>1, MineFacts
  <2>5. PICK p \in [1 .. k -> DOMAIN frames] : InStep(m, p)
    BY SteadyFacts DEF Turn
  <2>6. /\ \A d \in 1 .. k :
             /\ p[d] \in 1 .. n /\ d <= p[d] /\ frames[p[d]].name = d - 1
             /\ \A i \in 1 .. n : p[d] < i => frames[i].name # d - 1
             /\ \A e \in 1 .. k : d < e => p[d] < p[e]
        /\ \A d \in 1 .. k : \A x \in Ids : x \in m[d] <=> \E i \in 1 .. n :
               x \in frames[i].writes /\ p[d] <= i /\ (d < k => i < p[d + 1])
    BY <1>1, <2>5 DEF InStep
  <2>. HIDE DEF n, k, m
  <2>7. ASSUME NEW d \in 1 .. k, NEW x \in Ids
        PROVE  x \in mine'[t][d] <=> \E i \in 1 .. n :
                 x \in frames'[i].writes /\ p[d] <= i /\ (d < k => i < p[d + 1])
    <3>1. CASE d = k
      <4>1. n \in 1 .. n /\ p[d] <= n /\ ~(d < k)
        BY <1>1, <2>3, <2>6, <3>1
      <4>2. \A i \in 1 .. n : x \in frames'[i].writes <=> x \in frames[i].writes \/ (i = n /\ x = written)
        BY <1>1, <2>2
      <4>3. x \in mine'[t][d] <=> x \in m[d] \/ x = written
        BY <2>4, <3>1
      <4>4. x \in m[d] <=> \E i \in 1 .. n : x \in frames[i].writes /\ p[d] <= i
        BY <2>6, <4>1
      <4>. QED
        BY <4>1, <4>2, <4>3, <4>4
    <3>2. CASE d < k
      <4>1. d + 1 \in 1 .. k
        BY <1>1, <3>2
      <4>2. p[d + 1] <= n
        BY <2>6, <4>1
      <4>3. mine'[t][d] = m[d]
        BY <2>4, <3>2, <1>1
      <4>4. \A i \in 1 .. n : i < p[d + 1] => frames'[i].writes = frames[i].writes
        BY <1>1, <2>2, <2>6, <4>1, <4>2
      <4>5. x \in m[d] <=> \E i \in 1 .. n :
               x \in frames[i].writes /\ p[d] <= i /\ (d < k => i < p[d + 1])
        BY <2>6
      <4>. QED
        BY <3>2, <4>3, <4>4, <4>5, Zenon
    <3>. QED
      BY <1>1, <3>1, <3>2
  <2>8. InStep(mine[t], p)'
    <3>1. \A d \in 1 .. k :
             /\ p[d] \in 1 .. n /\ d <= p[d] /\ frames'[p[d]].name = d - 1
             /\ \A i \in 1 .. n : p[d] < i => frames'[i].name # d - 1
             /\ \A e \in 1 .. k : d < e => p[d] < p[e]
      BY <2>2, <2>6
    <3>. QED
      BY <1>2, <2>3, <2>4, <2>7, <3>1 DEF InStep
  <2>9. \A i \in DOMAIN frames' : frames'[i].writes \cap dropped' = {}
    <3>1. \A i \in 1 .. n : \A x \in frames'[i].writes : x \in frames[i].writes \/ x = written
      BY <1>1, <2>2
    <3>2. \A i \in 1 .. n : frames[i].writes \cap dropped = {}
      BY <1>1 DEF Steady
    <3>. QED
      BY <1>2, <2>3, <3>1, <3>2
  <2>10. p \in [1 .. depth' -> DOMAIN frames'] /\ (depth' > 1 => savepoints') /\ depth' # 0
    BY <1>1, <1>2, <2>3, <2>5 DEF Steady, k
  <2>11. Told'
    BY <1>2, <2>1 DEF Told
  <2>. QED
    BY <1>2, <2>3, <2>4, <2>8, <2>9, <2>10, <2>11, SteadyNext
<1>. QED
  BY <1>3, <1>4

\* Where the innermost savepoint stands.
LEMMA InnermostFacts ==
  ASSUME TypeOK, FramesInv, Steady, NEW t \in Threads, Alone(t), depth > 1
  PROVE  \E p \in [1 .. depth -> DOMAIN frames] :
           InStep(mine[t], p) /\ p[depth] = At(depth - 1) /\ At(depth - 1) \in 2 .. Len(frames)
<1>1. PICK p \in [1 .. depth -> DOMAIN frames] : InStep(mine[t], p)
  BY SteadyFacts
<1>2. depth \in 1 .. depth /\ depth \in Nat
  BY DEF TypeOK
<1>3. /\ p[depth] \in DOMAIN frames /\ frames[p[depth]].name = depth - 1 /\ depth <= p[depth]
      /\ \A i \in DOMAIN frames : p[depth] < i => frames[i].name # depth - 1
  BY <1>1, <1>2 DEF InStep
<1>4. At(depth - 1) = p[depth]
  <2>. DEFINE i == p[depth]
  <2>1. frames \in Seq(FrameType) /\ i \in DOMAIN frames
        /\ \A j \in DOMAIN frames : i < j => frames[j].name # frames[i].name
    BY <1>3, FrameFacts
  <2>. HIDE DEF i
  <2>2. At(frames[i].name) = i
    BY <2>1, AtIs
  <2>. QED
    BY <1>3, <2>2 DEF i
<1>5. At(depth - 1) \in 2 .. Len(frames)
  BY <1>2, <1>3, <1>4, FrameFacts
<1>. QED
  BY <1>1, <1>4, <1>5

\* One level less is open, on the same frames.
LEMMA StepOut ==
  ASSUME TypeOK, Steady, NEW t \in Threads, Turn(t), savepoints' = savepoints,
         depth > 1, depth' = depth - 1, pc'[t] = "idle", Len(mine'[t]) = depth - 1,
         mine[t] # <<>>,
         NEW p \in [1 .. depth -> DOMAIN frames], InStep(mine[t], p),
         Len(frames') \in {p[depth] - 1, p[depth]}, frames' \in Seq(FrameType),
         Len(frames') = p[depth] => frames'[p[depth]].name = depth - 1,
         \A j \in 1 .. p[depth] - 1 : frames'[j].name = frames[j].name,
         \A j \in 1 .. p[depth] - 2 : frames'[j].writes = frames[j].writes,
         \A d \in 1 .. depth - 2 : mine'[t][d] = mine[t][d],
         \A x \in Ids : x \in mine'[t][depth - 1] <=>
             \E i \in 1 .. Len(frames') : x \in frames'[i].writes /\ p[depth - 1] <= i,
         \A i \in DOMAIN frames' : frames'[i].writes \cap dropped' = {}
  PROVE  Steady'
<1>. DEFINE k == depth
            i == p[depth]
            n == Len(frames')
            m == mine[t]
            mp == mine'[t]
<1>1. /\ k \in Nat /\ k > 1 /\ k - 1 \in 1 .. k /\ k \in 1 .. k /\ Len(frames) \in Nat
      /\ DOMAIN frames = 1 .. Len(frames)
  BY FrameFacts DEF TypeOK
<1>2. /\ \A d \in 1 .. k :
           /\ p[d] \in 1 .. Len(frames) /\ d <= p[d] /\ frames[p[d]].name = d - 1
           /\ \A j \in 1 .. Len(frames) : p[d] < j => frames[j].name # d - 1
           /\ \A e \in 1 .. k : d < e => p[d] < p[e]
      /\ \A d \in 1 .. k : \A x \in Ids : x \in m[d] <=> \E j \in 1 .. Len(frames) :
             x \in frames[j].writes /\ p[d] <= j /\ (d < k => j < p[d + 1])
  BY <1>1 DEF InStep
<1>3. /\ i = p[k] /\ i \in 1 .. Len(frames) /\ n \in {i - 1, i} /\ DOMAIN frames' = 1 .. n
      /\ \A d \in 1 .. k - 1 : p[d] < i
      /\ i > 1 /\ n >= 1 /\ n \in Nat
  <2>1. i = p[k] /\ i \in 1 .. Len(frames)
    BY <1>1, <1>2
  <2>2. \A d \in 1 .. k - 1 : p[d] < i
    BY <1>1, <1>2
  <2>3. n \in {i - 1, i} /\ DOMAIN frames' = 1 .. n
    BY <2>1
  <2>4. i > 1
    BY <1>1, <1>2, <2>1
  <2>. QED
    BY <2>1, <2>2, <2>3, <2>4
<1>4. /\ \A j \in 1 .. i - 1 : frames'[j].name = frames[j].name
      /\ \A j \in 1 .. i - 2 : frames'[j].writes = frames[j].writes
      /\ n = i => frames'[i].name = k - 1
      /\ \A d \in 1 .. k - 2 : mp[d] = m[d]
      /\ \A x \in Ids : x \in mp[k - 1] <=>
             \E j \in 1 .. n : x \in frames'[j].writes /\ p[k - 1] <= j
  OBVIOUS
<1>5. depth' = k - 1 /\ mine'[t] = mp /\ Len(mp) = k - 1
  OBVIOUS
<1>. HIDE DEF k, i, n, m, mp
<1>6. ASSUME NEW d \in 1 .. k - 1
      PROVE  /\ p[d] \in 1 .. n /\ d <= p[d] /\ frames'[p[d]].name = d - 1
             /\ \A j \in 1 .. n : p[d] < j => frames'[j].name # d - 1
             /\ \A e \in 1 .. k - 1 : d < e => p[d] < p[e]
  <2>1. p[d] < i /\ p[d] \in 1 .. n /\ p[d] \in 1 .. i - 1 /\ d \in 1 .. k
    BY <1>1, <1>2, <1>3
  <2>2. frames'[p[d]].name = d - 1 /\ d <= p[d]
    BY <1>2, <1>4, <2>1
  <2>3. \A j \in 1 .. n : p[d] < j => frames'[j].name # d - 1
    <3>1. \A j \in 1 .. i - 1 : p[d] < j => frames'[j].name # d - 1
      BY <1>1, <1>2, <1>3, <1>4, <2>1
    <3>2. n = i => frames'[i].name # d - 1
      BY <1>1, <1>4
    <3>3. \A j \in 1 .. n : j \in 1 .. i - 1 \/ (j = i /\ n = i)
      BY <1>3
    <3>. QED
      BY <3>1, <3>2, <3>3
  <2>4. \A e \in 1 .. k - 1 : d < e => p[d] < p[e]
    BY <1>1, <1>2, <2>1
  <2>. QED
    BY <2>1, <2>2, <2>3, <2>4
<1>7. ASSUME NEW d \in 1 .. k - 1, NEW x \in Ids
      PROVE  x \in mp[d] <=> \E j \in 1 .. n :
               x \in frames'[j].writes /\ p[d] <= j /\ (d < k - 1 => j < p[d + 1])
  <2>1. CASE d = k - 1
    BY <1>1, <1>4, <2>1
  <2>2. CASE d < k - 1
    <3>1. d \in 1 .. k - 2 /\ d + 1 \in 1 .. k - 1 /\ d \in 1 .. k /\ d < k
      BY <1>1, <2>2
    <3>2. mp[d] = m[d]
      BY <1>4, <3>1
    <3>3. p[d + 1] < i /\ p[d + 1] \in 1 .. Len(frames)
      BY <1>1, <1>2, <1>3, <3>1
    <3>4. \A j \in Nat \ {0} : j < p[d + 1] => j \in 1 .. i - 2 /\ j \in 1 .. n /\ j \in 1 .. Len(frames)
      BY <1>1, <1>3, <3>3
    <3>5. \A j \in 1 .. n : j < p[d + 1] => j \in 1 .. Len(frames) /\ frames'[j].writes = frames[j].writes
      BY <1>3, <1>4, <3>4
    <3>6. \A j \in 1 .. Len(frames) : j < p[d + 1] => j \in 1 .. n /\ frames'[j].writes = frames[j].writes
      BY <1>4, <3>4
    <3>7. x \in m[d] <=> \E j \in 1 .. Len(frames) :
             x \in frames[j].writes /\ p[d] <= j /\ (d < k => j < p[d + 1])
      BY <1>2, <3>1
    <3>. QED
      BY <2>2, <3>1, <3>2, <3>5, <3>6, <3>7, Zenon
  <2>. QED
    BY <1>1, <2>1, <2>2
<1>8. PICK q \in [1 .. k - 1 -> 1 .. n] : \A d \in 1 .. k - 1 : q[d] = p[d]
  <2>. DEFINE q == [d \in 1 .. k - 1 |-> p[d]]
  <2>1. q \in [1 .. k - 1 -> 1 .. n] /\ \A d \in 1 .. k - 1 : q[d] = p[d]
    BY <1>6
  <2>. QED
    BY <2>1
<1>9. ASSUME NEW d \in 1 .. k - 1
      PROVE  /\ q[d] \in 1 .. n /\ d <= q[d] /\ frames'[q[d]].name = d - 1
             /\ \A j \in 1 .. n : q[d] < j => frames'[j].name # d - 1
             /\ \A e \in 1 .. k - 1 : d < e => q[d] < q[e]
             /\ \A x \in Ids : x \in mp[d] <=> \E j \in 1 .. n :
                   x \in frames'[j].writes /\ q[d] <= j /\ (d < k - 1 => j < q[d + 1])
  <2>1. q[d] = p[d] /\ \A e \in 1 .. k - 1 : q[e] = p[e]
    BY <1>8
  <2>2. d < k - 1 => q[d + 1] = p[d + 1]
    BY <1>1, <1>8
  <2>3. ASSUME NEW x \in Ids
        PROVE  x \in mp[d] <=> \E j \in 1 .. n :
                 x \in frames'[j].writes /\ q[d] <= j /\ (d < k - 1 => j < q[d + 1])
    BY <1>7, <2>1, <2>2, Zenon
  <2>. QED
    BY <1>6, <2>1, <2>3
<1>10. InStep(mine[t], q)'
  <2>1. DOMAIN frames' = 1 .. n
    BY <1>3
  <2>. QED
    <3>1. depth' = Len(mine'[t]) /\ depth' = k - 1
      BY <1>5
    <3>2. ASSUME NEW d \in 1 .. k - 1
          PROVE  /\ q[d] \in DOMAIN frames' /\ d <= q[d] /\ frames'[q[d]].name = d - 1
                 /\ \A j \in DOMAIN frames' : q[d] < j => frames'[j].name # d - 1
                 /\ \A e \in 1 .. k - 1 : d < e => q[d] < q[e]
                 /\ \A x \in Ids : x \in mine'[t][d] <=> \E j \in DOMAIN frames' :
                       x \in frames'[j].writes /\ q[d] <= j /\ (d < k - 1 => j < q[d + 1])
      BY <1>5, <1>9, <2>1, Zenon
    <3>. QED
      BY <3>1, <3>2 DEF InStep
<1>11. q \in [1 .. depth' -> DOMAIN frames'] /\ depth' # 0 /\ frames' # <<>> /\ (depth' > 1 => savepoints')
  BY <1>1, <1>3, <1>5, <1>8 DEF Steady, k, n
<1>12. mine'[t] # <<>>
  BY <1>1, <1>5
<1>. QED
  BY <1>10, <1>11, <1>12, SteadyNext

\* A commit keeps what its caller wrote there: at once, or with the transaction
\* around it.
LEMMA CommitKeepsStep ==
  ASSUME TypeOK, FramesInv, Steady, Told, NEW t \in Threads, Turn(t), savepoints' = savepoints,
         Commit(t)
  PROVE  Steady' /\ Told'
<1>. DEFINE k == depth
            m == mine[t]
<1>1. /\ k \in Nat /\ k = Len(m) /\ k > 0 /\ m # <<>>
      /\ pc'[t] = "idle" /\ nestedFail' = nestedFail /\ written' = written
      /\ ToldCommitted(t)
  <2>1. k = Len(m) /\ m # <<>> /\ ToldCommitted(t)
    BY SteadyFacts DEF Turn, Commit
  <2>2. k \in Nat /\ (m = <<>> <=> Len(m) = 0)
    BY MineFacts DEF TypeOK
  <2>3. pc'[t] = "idle" /\ nestedFail' = nestedFail /\ written' = written
    BY DEF Commit
  <2>4. k > 0
    BY <2>1, <2>2
  <2>. QED
    BY <2>1, <2>2, <2>3, <2>4
<1>2. /\ dropped' = dropped /\ Len(mine'[t]) = k - 1
      /\ \A d \in 1 .. k - 2 : mine'[t][d] = m[d]
      /\ k > 1 => mine'[t][k - 1] = m[k - 1] \cup m[k] /\ kept' = kept
      /\ k = 1 => kept' = kept \cup m[1]
      /\ mine' \in [Threads -> Seq(SUBSET Ids)]
  BY <1>1, ToldCommittedFacts
<1>5. (k = 1 \/ k > 1) /\ (k > 1 => ~(k <= 0) /\ k # 1)
  <2>1. k \in Nat /\ k > 0
    BY <1>1
  <2>. HIDE DEF k
  <2>. QED
    BY <2>1
<1>3. CASE k = 1
  <2>1. depth' = 0 /\ frames' = <<>> /\ committed' = committed \cup AllWrites(frames)
    BY <1>3 DEF Commit, DbCommit
  <2>2. mine'[t] = <<>>
    BY <1>1, <1>2, <1>3
  <2>3. m[1] \subseteq AllWrites(frames)
    BY <1>3, SteadyFacts DEF Turn, AllWrites
  <2>4. AllWrites(frames) \cap dropped = {}
    BY DEF Steady, AllWrites
  <2>5. Told'
    BY <1>1, <1>2, <1>3, <2>1, <2>3, <2>4 DEF Told
  <2>. QED
    BY <1>1, <2>1, <2>2, <2>5, EmptyIsSteady
<1>4. CASE k > 1
  <2>1. CanName(k - 1) /\ depth' = k - 1 /\ DbRelease(k - 1)
    <3>1. ~(k <= 0) /\ k # 1
      BY <1>4, <1>5
    <3>. QED
      BY <3>1 DEF Commit
  <2>2. PICK p \in [1 .. k -> DOMAIN frames] :
          InStep(m, p) /\ p[k] = At(k - 1) /\ At(k - 1) \in 2 .. Len(frames)
    BY <1>4, InnermostFacts DEF Turn
  <2>. DEFINE i == p[k]
              n == Len(frames)
  <2>3. /\ n \in Nat /\ DOMAIN frames = 1 .. n /\ i \in 2 .. n
        /\ \A j \in 1 .. n : frames[j].writes \cap dropped = {}
    BY <2>2, FrameFacts DEF Steady
  <2>4. /\ frames' \in Seq(FrameType) /\ Len(frames') = i - 1 /\ committed' = committed
        /\ \A j \in 1 .. i - 1 : frames'[j].name = frames[j].name
        /\ \A j \in 1 .. i - 2 : frames'[j] = frames[j]
        /\ \A x : x \in frames'[i - 1].writes <=>
                    x \in frames[i - 1].writes \/ \E j \in i .. n : x \in frames[j].writes
    <3>1. frames \in Seq(FrameType) /\ At(k - 1) \in DOMAIN frames /\ At(k - 1) > 1
      BY <2>2, FrameFacts
    <3>. DEFINE name == k - 1
    <3>. HIDE DEF name
    <3>3. /\ frames' \in Seq(FrameType) /\ Len(frames') = At(name) - 1 /\ committed' = committed
          /\ \A j \in 1 .. At(name) - 1 : frames'[j].name = frames[j].name
          /\ \A j \in 1 .. At(name) - 2 : frames'[j] = frames[j]
          /\ \A x : x \in frames'[At(name) - 1].writes <=>
                      \/ x \in frames[At(name) - 1].writes
                      \/ \E j \in At(name) .. Len(frames) : x \in frames[j].writes
      BY <2>1, <3>1, ReleaseFacts DEF name
    <3>. QED
      BY <2>2, <3>3 DEF name
  <2>5. p[k - 1] \in 1 .. i - 1
    <3>1. k - 1 \in 1 .. k /\ k \in 1 .. k /\ k - 1 < k
      BY <1>1, <1>4
    <3>2. p[k - 1] \in DOMAIN frames /\ p[k - 1] < p[k]
      BY <2>2, <3>1 DEF InStep
    <3>. QED
      BY <2>3, <3>2
  <2>6. \A x \in Ids : /\ x \in m[k] <=> \E j \in 1 .. n : x \in frames[j].writes /\ i <= j
                       /\ x \in m[k - 1] <=>
                            \E j \in 1 .. n : x \in frames[j].writes /\ p[k - 1] <= j /\ j < i
    <3>1. k - 1 \in 1 .. k /\ k \in 1 .. k /\ k - 1 < k /\ ~(k < k) /\ (k - 1) + 1 = k
      BY <1>1, <1>4
    <3>. QED
      BY <2>2, <2>3, <3>1 DEF InStep
  <2>. HIDE DEF i, n
  <2>7. \A j \in 1 .. i - 1 : \A x \in frames'[j].writes : \E l \in 1 .. n : x \in frames[l].writes
    BY <2>3, <2>4
  <2>8. ASSUME NEW x \in Ids
        PROVE  x \in mine'[t][k - 1] <=>
                 \E j \in 1 .. i - 1 : x \in frames'[j].writes /\ p[k - 1] <= j
    <3>1. x \in mine'[t][k - 1] <=> \E j \in 1 .. n : x \in frames[j].writes /\ p[k - 1] <= j
      <4>1. x \in mine'[t][k - 1] <=> x \in m[k - 1] \/ x \in m[k]
        BY <1>2, <1>4
      <4>2. \A j \in 1 .. n : i <= j => p[k - 1] <= j
        BY <2>3, <2>5
      <4>3. \A j \in 1 .. n : j < i \/ i <= j
        BY <2>3
      <4>. QED
        BY <2>6, <4>1, <4>2, <4>3, Zenon
    <3>2. \A j \in 1 .. i - 1 : j # i - 1 => frames'[j].writes = frames[j].writes
      BY <2>3, <2>4
    <3>3. ASSUME NEW j \in 1 .. n, x \in frames[j].writes, p[k - 1] <= j
          PROVE  \E l \in 1 .. i - 1 : x \in frames'[l].writes /\ p[k - 1] <= l
      <4>1. CASE j < i - 1
        <5>1. j \in 1 .. i - 1 /\ j # i - 1
          BY <2>3, <4>1
        <5>. QED
          BY <3>2, <3>3, <5>1
      <4>2. CASE j >= i - 1
        <5>1. i - 1 \in 1 .. i - 1 /\ p[k - 1] <= i - 1 /\ (j = i - 1 \/ j \in i .. n)
          BY <2>3, <2>5, <4>2
        <5>. QED
          BY <2>4, <3>3, <5>1
      <4>. QED
        BY <2>3, <4>1, <4>2
    <3>4. ASSUME NEW j \in 1 .. i - 1, x \in frames'[j].writes, p[k - 1] <= j
          PROVE  \E l \in 1 .. n : x \in frames[l].writes /\ p[k - 1] <= l
      <4>1. CASE j # i - 1
        BY <2>3, <3>2, <3>4, <4>1
      <4>2. CASE j = i - 1
        <5>1. i - 1 \in 1 .. n /\ \A l \in i .. n : l \in 1 .. n /\ p[k - 1] <= l
          BY <2>3, <2>5
        <5>. QED
          BY <2>4, <3>4, <4>2, <5>1
      <4>. QED
        BY <4>1, <4>2
    <3>. QED
      BY <3>1, <3>3, <3>4
  <2>9. \A j \in DOMAIN frames' : frames'[j].writes \cap dropped' = {}
    <3>1. DOMAIN frames' = 1 .. i - 1
      BY <2>3, <2>4
    <3>. QED
      BY <1>2, <2>3, <2>7, <3>1
  <2>10. Told'
    BY <1>1, <1>2, <1>4, <2>4 DEF Told
  <2>11. \A j \in 1 .. i - 2 : frames'[j].writes = frames[j].writes
    BY <2>4
  <2>12. Len(frames') \in {i - 1, i} /\ ~(Len(frames') = i)
    BY <2>3, <2>4
  <2>13. Steady'
    BY <1>1, <1>2, <1>4, <2>1, <2>2, <2>4, <2>8, <2>9, <2>11, <2>12, StepOut DEF i
  <2>. QED
    BY <2>10, <2>13
<1>. QED
  BY <1>3, <1>4, <1>5

\* A rollback, or a commit that conflicts, drops what its caller wrote there.
LEMMA RollbackKeepsStep ==
  ASSUME TypeOK, FramesInv, Steady, Told, NEW t \in Threads, Turn(t), savepoints' = savepoints,
         Rollback(t) \/ CommitConflict(t)
  PROVE  Steady' /\ Told'
<1>. DEFINE k == depth
            m == mine[t]
            n == Len(frames)
<1>1. k = Len(m) /\ m # <<>> /\ ToldRolledBack(t) /\ k \in Nat /\ k > 0
  <2>1. k = Len(m) /\ k \in Nat /\ (m = <<>> <=> Len(m) = 0)
    BY MineFacts, SteadyFacts DEF Turn, TypeOK
  <2>2. (m # <<>> \/ Len(m) = 1) /\ ToldRolledBack(t)
    BY DEF Rollback, CommitConflict
  <2>. QED
    BY <2>1, <2>2
<1>2. pc'[t] = "idle" /\ nestedFail' = nestedFail /\ written' = written
  BY DEF Rollback, CommitConflict
<1>3. /\ kept' = kept /\ dropped' = dropped \cup m[k] /\ Len(mine'[t]) = k - 1
      /\ \A d \in 1 .. k - 1 : mine'[t][d] = m[d]
  BY <1>1, ToldRolledBackFacts
<1>4. /\ \A x \in m[k] : \E i \in 1 .. n : x \in frames[i].writes
      /\ n \in Nat /\ DOMAIN frames = 1 .. n /\ frames \in Seq(FrameType)
      /\ \A i \in 1 .. n : frames[i].writes \cap dropped = {}
  <2>1. k \in 1 .. depth /\ DOMAIN frames = 1 .. n
    BY <1>1, FrameFacts
  <2>2. \A x \in m[k] : \E i \in 1 .. n : x \in frames[i].writes
    BY <2>1, SteadyFacts DEF Turn
  <2>. QED
    BY <2>1, <2>2, FrameFacts DEF Steady
<1>5. \A x \in m[k] : x \notin committed /\ x < written
  BY <1>4 DEF FramesInv
<1>6. committed' = committed
  BY DEF Rollback, CommitConflict, Undone, DbRollback, DbRollbackTo
<1>7. Told'
  BY <1>2, <1>3, <1>5, <1>6 DEF Told
<1>8. (k = 1 \/ k > 1) /\ ~(k <= 0) /\ (k = 1 => ~(k > 1)) /\ (k > 1 => k # 1)
  <2>1. k \in Nat /\ k > 0
    BY <1>1
  <2>. HIDE DEF k
  <2>. QED
    BY <2>1
<1>9. CASE k = 1
  <2>1. depth' = 0 /\ frames' = <<>>
    BY <1>8, <1>9 DEF Rollback, CommitConflict, Undone, DbRollback
  <2>2. mine'[t] = <<>>
    <3>1. mine' \in [Threads -> Seq(SUBSET Ids)] /\ Len(mine'[t]) = 0
      BY <1>1, <1>3, <1>9, ToldRolledBackFacts
    <3>. QED
      BY <3>1
  <2>. QED
    BY <1>2, <1>7, <2>1, <2>2, EmptyIsSteady
<1>10. CASE k > 1
  <2>1. depth' = k - 1 /\ DbRollbackTo(k - 1)
    BY <1>8, <1>10 DEF Rollback, CommitConflict, Undone
  <2>2. PICK p \in [1 .. k -> DOMAIN frames] :
          InStep(m, p) /\ p[k] = At(k - 1) /\ At(k - 1) \in 2 .. Len(frames)
    BY <1>10, InnermostFacts DEF Turn
  <2>. DEFINE i == p[k]
  <2>3. /\ frames' \in Seq(FrameType) /\ Len(frames') = i /\ i \in 2 .. n
        /\ \A j \in 1 .. i - 1 : frames'[j] = frames[j]
        /\ frames'[i].name = k - 1 /\ frames'[i].writes = {}
    <3>. DEFINE name == k - 1
    <3>1. name \in Nat /\ At(name) \in DOMAIN frames
      BY <1>1, <1>4, <2>2
    <3>. HIDE DEF name
    <3>2. /\ frames' \in Seq(FrameType) /\ Len(frames') = At(name)
          /\ \A j \in 1 .. At(name) - 1 : frames'[j] = frames[j]
          /\ frames'[At(name)] = Frame(name, {})
      BY <1>4, <2>1, <3>1, RollbackFacts DEF name
    <3>3. Frame(name, {}).name = name /\ Frame(name, {}).writes = {}
      BY DEF Frame
    <3>. QED
      BY <2>2, <3>2, <3>3 DEF name
  <2>4. /\ \A x \in Ids : /\ x \in m[k] <=> \E j \in 1 .. n : x \in frames[j].writes /\ i <= j
                          /\ x \in m[k - 1] <=>
                               \E j \in 1 .. n : x \in frames[j].writes /\ p[k - 1] <= j /\ j < i
        /\ m[k] \subseteq Ids
    <3>1. k - 1 \in 1 .. k /\ k \in 1 .. k /\ k - 1 < k /\ ~(k < k) /\ (k - 1) + 1 = k
      BY <1>1, <1>10
    <3>2. m[k] \subseteq Ids
      BY <1>1, <3>1, MineFacts
    <3>. QED
      BY <1>4, <2>2, <3>1, <3>2 DEF InStep
  <2>. HIDE DEF i, n
  <2>5. \A j \in 1 .. i - 1 : frames[j].writes \cap m[k] = {}
    <3>1. ASSUME NEW j \in 1 .. i - 1, NEW x \in frames[j].writes, x \in m[k] PROVE FALSE
      <4>1. PICK l \in 1 .. n : x \in frames[l].writes /\ i <= l
        BY <2>4, <3>1
      <4>2. j \in 1 .. n /\ j # l
        BY <1>4, <2>3, <4>1
      <4>. QED
        BY <1>4, <3>1, <4>1, <4>2 DEF FramesInv
    <3>. QED
      BY <3>1
  <2>6. \A j \in DOMAIN frames' : frames'[j].writes \cap dropped' = {}
    <3>1. DOMAIN frames' = 1 .. i /\ \A j \in 1 .. i : j \in 1 .. i - 1 \/ j = i
      BY <1>4, <2>3
    <3>2. \A j \in 1 .. i - 1 : frames'[j].writes \cap dropped' = {}
      BY <1>3, <1>4, <2>3, <2>5
    <3>. QED
      BY <2>3, <3>1, <3>2
  <2>7. k - 1 \in 1 .. k - 1 /\ mine'[t][k - 1] = m[k - 1]
    BY <1>1, <1>3, <1>10
  <2>8. ASSUME NEW x \in Ids
        PROVE  x \in mine'[t][k - 1] <=>
                 \E j \in 1 .. Len(frames') : x \in frames'[j].writes /\ p[k - 1] <= j
    <3>1. \A j \in 1 .. i : j < i => frames'[j].writes = frames[j].writes /\ j \in 1 .. n
      BY <1>4, <2>3
    <3>2. \A j \in 1 .. n : j < i => j \in 1 .. i
      BY <1>4, <2>3
    <3>3. \A j \in 1 .. i : x \in frames'[j].writes => j < i
      BY <1>4, <2>3
    <3>. QED
      BY <2>3, <2>4, <2>7, <3>1, <3>2, <3>3, Zenon
  <2>9. /\ \A j \in 1 .. i - 1 : frames'[j].name = frames[j].name
        /\ \A j \in 1 .. i - 2 : frames'[j].writes = frames[j].writes
        /\ \A d \in 1 .. k - 2 : mine'[t][d] = m[d]
        /\ Len(frames') \in {i - 1, i}
        /\ Len(frames') = i => frames'[i].name = k - 1
    <3>1. 1 .. i - 2 \subseteq 1 .. i - 1 /\ 1 .. k - 2 \subseteq 1 .. k - 1
      BY <1>1, <1>4, <2>3
    <3>. QED
      BY <1>3, <2>3, <3>1
  <2>10. Steady'
    BY <1>1, <1>2, <1>3, <1>10, <2>1, <2>2, <2>3, <2>6, <2>8, <2>9, StepOut DEF i
  <2>. QED
    BY <1>7, <2>10
<1>. QED
  BY <1>8, <1>9, <1>10

Acts(t) ==
  \/ BeginTransaction(t) \/ Write(t) \/ Commit(t) \/ CommitConflict(t)
  \/ Rollback(t) \/ RollbackAll(t) \/ EndRaises(t)
  \/ FailStatement(t) \/ FailRollback(t) \/ FailReset(t)

\* A statement that fails outside any transaction changes nothing; within one,
\* it takes the caller's transactions away.
LEMMA FailKeepsStep ==
  ASSUME TypeOK, FramesInv, Steady, Told, NEW t \in Threads, Turn(t), savepoints' = savepoints,
         FailStatement(t)
  PROVE  Bond' /\ Told'
<1>1. /\ depth' = depth /\ frames' = frames /\ committed' = committed /\ kept' = kept
      /\ mine'[t] = <<>> /\ dropped' = dropped \cup Opened(mine[t])
      /\ pc'[t] = (IF depth > 0 THEN "failed" ELSE "idle")
      /\ (nestedFail => nestedFail') /\ (depth > 1 => nestedFail') /\ written' = written
  BY DEF FailStatement, dbVars, TypeOK
<1>2. \A x \in Opened(mine[t]) : x \notin committed /\ x < written
  BY SteadyFacts DEF Turn, FramesInv
<1>3. Told'
  BY <1>1, <1>2 DEF Told
<1>4. depth \in Nat
  BY DEF TypeOK
<1>5. CASE depth = 0
  <2>1. frames' = <<>> /\ depth' = 0 /\ pc'[t] = "idle"
    BY <1>1, <1>5 DEF Steady
  <2>. QED
    BY <1>1, <1>3, <2>1, EmptyIsSteady DEF Bond
<1>6. CASE depth > 0
  <2>1. frames # <<>> /\ pc'[t] = "failed" /\ depth >= 1
    <3>1. depth # 0 /\ depth >= 1
      BY <1>4, <1>6
    <3>. QED
      BY <1>1, <1>6, <3>1 DEF Steady
  <2>2. NoneOpen' /\ ~Quiet' /\ \A u \in Threads : pc'[u] # "undone"
    BY <1>1, <2>1, TurnFacts
  <2>3. depth > 1 => CanName(depth - 1)'
    <3>1. depth > 1 => CanName(depth - 1)
      BY SteadyFacts DEF Turn
    <3>. QED
      BY <1>1, <3>1 DEF CanName, Names
  <2>4. Failing'
    BY <1>1, <2>1, <2>2, <2>3 DEF Failing
  <2>. QED
    BY <1>3, <2>4 DEF Bond
<1>. QED
  BY <1>4, <1>5, <1>6

LEMMA SteadyStep ==
  ASSUME TypeOK, FramesInv, Steady, Told, NEW t \in Threads, Turn(t), savepoints' = savepoints,
         Acts(t)
  PROVE  Bond' /\ Told'
<1>1. CASE BeginTransaction(t)
  <2>1. Steady'
    BY <1>1, BeginKeepsStep
  <2>2. Told'
    BY <1>1 DEF BeginTransaction, Told
  <2>. QED
    BY <2>1, <2>2 DEF Bond
<1>2. CASE Write(t)
  BY <1>2, WriteKeepsStep DEF Bond
<1>3. CASE Commit(t)
  BY <1>3, CommitKeepsStep DEF Bond
<1>4. CASE Rollback(t) \/ CommitConflict(t)
  BY <1>4, RollbackKeepsStep DEF Bond
<1>5. CASE FailStatement(t)
  BY <1>5, FailKeepsStep
<1>6. depth \in Nat
  BY DEF TypeOK
<1>7. CASE RollbackAll(t)
  <2>1. depth <= 0 /\ frames # <<>>
    BY <1>7 DEF RollbackAll
  <2>. QED
    BY <1>6, <2>1 DEF Steady
<1>8. CASE EndRaises(t)
  <2>1. depth > 0 /\ IF depth = 1 THEN ~CanEnd ELSE ~CanName(depth - 1)
    BY <1>8 DEF EndRaises, UndoRaises
  <2>2. depth = 1 \/ depth > 1
    BY <1>6, <2>1
  <2>. QED
    BY <2>1, <2>2, SteadyFacts DEF Turn, CanEnd
<1>9. CASE FailRollback(t) \/ FailReset(t)
  BY <1>9, SteadyFacts DEF FailRollback, FailReset, Turn
<1>. QED
  BY <1>1, <1>2, <1>3, <1>4, <1>5, <1>7, <1>8, <1>9 DEF Acts

\* What was promised stays promised when nothing becomes durable.
LEMMA ToldStays ==
  ASSUME Told, UNCHANGED <<committed, kept, dropped, written>>, nestedFail => nestedFail'
  PROVE  Told'
BY DEF Told

\* The thread whose statement failed rolls back ...
LEMMA FailingStep ==
  ASSUME TypeOK, Failing, Told, NEW t \in Threads, Turn(t), Acts(t)
  PROVE  Bond' /\ Told'
<1>1. pc[t] = "failed" /\ mine[t] = <<>>
  BY TurnFacts DEF Failing, TypeOK
<1>2. FailRollback(t)
  BY <1>1 DEF Acts, BeginTransaction, Write, Commit, CommitConflict, Rollback, RollbackAll,
    EndRaises, FailStatement, FailReset
<1>3. depth = 1 \/ depth > 1
  BY DEF Failing, TypeOK
<1>4. ~UndoRaises
  BY <1>3 DEF UndoRaises, Failing, CanEnd
<1>5. Undone /\ pc'[t] = "undone" /\ UNCHANGED callVars /\ UNCHANGED <<written, nestedFail>>
  BY <1>2, <1>4 DEF FailRollback, TypeOK
<1>6. (frames' = <<>> \/ nestedFail') /\ committed' = committed
  <2>1. depth = 1 => frames' = <<>> /\ committed' = committed
    BY <1>5 DEF Undone, DbRollback
  <2>2. depth > 1 => nestedFail' /\ committed' = committed
    BY <1>5 DEF Undone, DbRollback, DbRollbackTo, Failing
  <2>. QED
    BY <1>3, <2>1, <2>2
<1>7. NoneOpen' /\ ~Quiet' /\ \A u \in Threads : pc'[u] # "failed"
  BY <1>1, <1>5, TurnFacts DEF callVars
<1>8. Undoing'
  BY <1>6, <1>7 DEF Undoing
<1>9. Told'
  BY <1>5, <1>6, ToldStays DEF callVars
<1>. QED
  BY <1>8, <1>9 DEF Bond

\* ... and sets the depth to zero, whatever DuckDB holds.
LEMMA UndoingStep ==
  ASSUME TypeOK, Undoing, Told, NEW t \in Threads, Turn(t), Acts(t)
  PROVE  Bond' /\ Told'
<1>1. pc[t] = "undone" /\ mine[t] = <<>>
  BY TurnFacts DEF Undoing, TypeOK
<1>2. FailReset(t)
  BY <1>1 DEF Acts, BeginTransaction, Write, Commit, CommitConflict, Rollback, RollbackAll,
    EndRaises, FailStatement, FailRollback
<1>3. /\ pc'[t] = "idle" /\ depth' = 0 /\ frames' = frames /\ committed' = committed
      /\ mine' = mine /\ kept' = kept /\ dropped' = dropped /\ written' = written
      /\ nestedFail' = nestedFail
  BY <1>2 DEF FailReset, dbVars, callVars, TypeOK
<1>4. Told'
  BY <1>3, ToldStays
<1>5. CASE frames = <<>>
  BY <1>1, <1>3, <1>4, <1>5, EmptyIsSteady DEF Bond
<1>6. CASE frames # <<>>
  <2>1. NoneOpen' /\ Quiet'
    BY <1>1, <1>3, TurnFacts
  <2>. QED
    BY <1>3, <1>4, <1>6, <2>1 DEF Bond, Orphaned, Undoing
<1>. QED
  BY <1>5, <1>6

LEMMA OrphanedStep ==
  ASSUME TypeOK, FramesInv, Orphaned, Told, NEW t \in Threads, Turn(t), Acts(t)
  PROVE  Bond' /\ Told'
<1>1. pc[t] = "idle" /\ mine[t] = <<>> /\ depth = 0 /\ frames # <<>> /\ nestedFail
  BY TurnFacts DEF Orphaned
<1>2. ~BeginTransaction(t) /\ ~Commit(t) /\ ~Rollback(t) /\ ~FailRollback(t) /\ ~FailReset(t)
  BY <1>1 DEF BeginTransaction, CanBegin, Commit, Rollback, FailRollback, FailReset
<1>3. ~CommitConflict(t) /\ ~EndRaises(t)
  BY <1>1 DEF CommitConflict, EndRaises, UndoRaises
<1>4. CASE Write(t)
  <2>1. /\ frames' = [frames EXCEPT ![Len(frames)].writes = @ \cup {written}]
        /\ committed' = committed /\ dropped' = dropped /\ written' = written + 1
        /\ mine' = mine /\ depth' = 0 /\ pc' = pc /\ nestedFail' = nestedFail
    BY <1>1, <1>4 DEF Write
  <2>2. frames' # <<>> /\ written \in Nat
    BY <1>1, <2>1 DEF FramesInv
  <2>3. Told'
    <3>1. \A x \in dropped : x < written + 1
      BY <2>2 DEF Told, TypeOK, Ids
    <3>. QED
      BY <1>1, <2>1, <3>1 DEF Told
  <2>4. NoneOpen' /\ Quiet'
    BY <1>1, <2>1, TurnFacts
  <2>. QED
    BY <1>1, <2>1, <2>2, <2>3, <2>4 DEF Bond, Orphaned
<1>5. CASE RollbackAll(t)
  <2>1. /\ depth' = 0 /\ frames' = <<>> /\ committed' = committed
        /\ mine' = mine /\ kept' = kept /\ dropped' = dropped /\ written' = written
        /\ nestedFail' = nestedFail /\ pc' = pc
    BY <1>1, <1>5 DEF RollbackAll, Undone, DbRollback, callVars
  <2>2. Told'
    BY <2>1, ToldStays
  <2>. QED
    BY <1>1, <2>1, <2>2, EmptyIsSteady DEF Bond
<1>6. CASE FailStatement(t)
  <2>1. Opened(mine[t]) = {}
    BY <1>1 DEF Opened
  <2>2. /\ depth' = 0 /\ frames' = frames /\ committed' = committed /\ kept' = kept
        /\ mine'[t] = <<>> /\ dropped' = dropped /\ written' = written
        /\ nestedFail' /\ pc'[t] = "idle"
    <3>1. /\ depth' = 0 /\ frames' = frames /\ committed' = committed /\ kept' = kept
          /\ dropped' = dropped /\ written' = written /\ nestedFail'
      BY <1>1, <1>6, <2>1 DEF FailStatement, dbVars
    <3>2. mine'[t] = <<>> /\ pc'[t] = "idle"
      BY <1>1, <1>6 DEF FailStatement, TypeOK
    <3>. QED
      BY <3>1, <3>2
  <2>3. Told' /\ NoneOpen' /\ Quiet'
    BY <2>2, ToldStays, TurnFacts
  <2>. QED
    BY <1>1, <2>2, <2>3 DEF Bond, Orphaned
<1>. QED
  BY <1>2, <1>3, <1>4, <1>5, <1>6 DEF Acts

LEMMA StaleStep ==
  ASSUME TypeOK, FramesInv, Stale, Told, NEW t \in Threads, Turn(t), Acts(t)
  PROVE  Bond' /\ Told'
<1>1. mine[t] = <<>> /\ depth \in Nat /\ depth > 0 /\ frames = <<>> /\ cut /\ pc[t] # "undone"
  BY TurnFacts DEF Stale, TypeOK
<1>2. ~CanEnd /\ \A name : ~CanName(name)
  BY <1>1 DEF CanEnd, CanName, Names
<1>3. ~BeginTransaction(t) /\ ~Commit(t) /\ ~Rollback(t) /\ ~FailReset(t) /\ ~Undone
  <2>1. depth # 0 /\ ~(depth <= 0)
    BY <1>1
  <2>. QED
    BY <1>1, <1>2, <2>1 DEF BeginTransaction, CanSavepoint, Commit, Rollback, FailReset, Undone
<1>4. ~CommitConflict(t) /\ ~RollbackAll(t)
  BY <1>1 DEF CommitConflict, RollbackAll
<1>5. CASE Write(t)
  <2>1. /\ frames' = <<>> /\ committed' = committed \cup {written} /\ kept' = kept \cup {written}
        /\ dropped' = dropped /\ written' = written + 1 /\ mine' = mine /\ depth' = depth
        /\ pc' = pc /\ nestedFail' = nestedFail /\ cut' = cut
    BY <1>1, <1>5 DEF Write
  <2>2. written \in Nat
    BY DEF FramesInv
  <2>3. Told'
    <3>1. \A x \in dropped : x < written + 1 /\ x # written
      BY <2>2 DEF Told, TypeOK, Ids
    <3>2. ~nestedFail => kept' \subseteq committed'
      BY <2>1 DEF Told
    <3>3. dropped' \cap committed' = {}
      BY <2>1, <3>1 DEF Told
    <3>. QED
      BY <2>1, <3>1, <3>2, <3>3 DEF Told
  <2>4. NoneOpen' /\ \A u \in Threads : pc'[u] # "undone"
    BY <2>1 DEF Stale, NoneOpen
  <2>. QED
    BY <1>1, <2>1, <2>3, <2>4 DEF Bond, Stale
<1>6. CASE EndRaises(t) \/ (FailRollback(t) /\ UndoRaises)
  <2>1. depth' = depth - 1 /\ frames' = frames /\ committed' = committed
    BY <1>6 DEF EndRaises, UndoRaises, dbVars
  <2>2. /\ mine'[t] = <<>> /\ kept' = kept /\ dropped' = dropped /\ written' = written
        /\ nestedFail' = nestedFail /\ cut' = cut
    BY <1>1, <1>6 DEF EndRaises, FailRollback, callVars, TypeOK
  <2>3. pc'[t] = "idle"
    BY <1>3, <1>6 DEF EndRaises, FailRollback, TypeOK
  <2>4. Told'
    BY <2>1, <2>2, ToldStays
  <2>5. CASE depth = 1
    <3>1. frames' = <<>> /\ depth' = 0
      BY <1>1, <2>1, <2>5
    <3>. QED
      BY <2>2, <2>3, <2>4, <3>1, EmptyIsSteady DEF Bond
  <2>6. CASE depth > 1
    <3>1. depth' > 0 /\ frames' = <<>> /\ cut'
      BY <1>1, <2>1, <2>2, <2>6
    <3>2. NoneOpen' /\ \A u \in Threads : pc'[u] # "undone"
      BY <2>2, <2>3, TurnFacts
    <3>. QED
      BY <2>4, <3>1, <3>2 DEF Bond, Stale
  <2>. QED
    BY <1>1, <2>5, <2>6
<1>7. CASE FailStatement(t)
  <2>1. Opened(mine[t]) = {}
    BY <1>1 DEF Opened
  <2>2. /\ depth' = depth /\ frames' = <<>> /\ committed' = committed /\ kept' = kept
        /\ mine'[t] = <<>> /\ dropped' = dropped /\ written' = written /\ cut' = cut
        /\ (nestedFail => nestedFail') /\ pc'[t] # "undone"
    BY <1>1, <1>7, <2>1 DEF FailStatement, dbVars, TypeOK
  <2>3. Told' /\ NoneOpen' /\ \A u \in Threads : pc'[u] # "undone"
    BY <2>2, ToldStays, TurnFacts
  <2>. QED
    BY <1>1, <2>2, <2>3 DEF Bond, Stale
<1>8. FailRollback(t) => UndoRaises
  BY <1>3 DEF FailRollback
<1>. QED
  BY <1>3, <1>4, <1>5, <1>6, <1>7, <1>8 DEF Acts

\* close() drops what is open; the depth outlives it.
LEMMA CloseStep ==
  ASSUME TypeOK, FramesInv, OneAtATime, Bond, Told, Close
  PROVE  OneAtATime' /\ Bond' /\ Told'
<1>1. /\ Quiet /\ NoneOpen' /\ Quiet' /\ OneAtATime' /\ frames' = <<>>
      /\ UNCHANGED <<depth, committed, kept, written, nestedFail, savepoints, pc>>
      /\ cut' = (cut \/ depth > 0)
      /\ dropped' = dropped \cup UNION {Opened(mine[t]) : t \in Threads}
  BY DEF Close, Quiet, NoneOpen, OneAtATime, Busy
<1>2. \A t \in Threads : \A x \in Opened(mine[t]) : x \notin committed /\ x < written
  <2>1. CASE NoneOpen
    <3>1. Opened(<<>>) = {}
      BY DEF Opened
    <3>. QED
      BY <2>1, <3>1 DEF NoneOpen
  <2>2. CASE Steady
    <3>1. ASSUME NEW t \in Threads, NEW x \in Opened(mine[t])
          PROVE  x \notin committed /\ x < written
      <4>1. mine[t] # <<>>
        BY <3>1 DEF Opened
      <4>2. Alone(t)
        BY <4>1 DEF OneAtATime, Alone, Busy
      <4>3. \E i \in DOMAIN frames : x \in frames[i].writes
        BY <2>2, <3>1, <4>2, SteadyFacts
      <4>. QED
        BY <4>3 DEF FramesInv
    <3>. QED
      BY <3>1
  <2>. QED
    BY <2>1, <2>2 DEF Bond, Failing, Undoing, Orphaned, Stale
<1>3. Told'
  BY <1>1, <1>2 DEF Told
<1>4. depth \in Nat
  BY DEF TypeOK
<1>5. CASE depth = 0
  <2>1. DOMAIN frames' = {}
    BY <1>1
  <2>2. Steady'
    BY <1>1, <1>5, <2>1 DEF Steady, NoneOpen
  <2>. QED
    BY <1>1, <1>3, <2>2 DEF Bond
<1>6. CASE depth > 0
  <2>1. Stale'
    BY <1>1, <1>6 DEF Stale, Quiet
  <2>. QED
    BY <1>1, <1>3, <2>1 DEF Bond
<1>. QED
  BY <1>4, <1>5, <1>6

LEMMA DuckInit == Init => DuckInv
<1>. SUFFICES ASSUME Init PROVE DuckInv
  OBVIOUS
<1>1. TypeOK
  <2>1. /\ \A t \in Threads : mine[t] = <<>>
        /\ <<>> \in Seq(SUBSET Ids) /\ <<>> \in Seq([name : Nat, writes : SUBSET Ids])
    BY EmptySeq DEF Init
  <2>. QED
    BY <2>1, EmptySeq DEF Init, TypeOK
<1>2. DOMAIN frames = {} /\ frames = <<>>
  BY DEF Init
<1>3. FramesInv
  BY <1>2 DEF Init, FramesInv
<1>4. NoneOpen /\ Quiet /\ OneAtATime
  BY DEF Init, NoneOpen, Quiet, OneAtATime, Busy
<1>5. Steady /\ Told
  BY <1>2, <1>4 DEF Init, Steady, NoneOpen, Told
<1>. QED
  BY <1>1, <1>3, <1>4, <1>5 DEF DuckInv, TxInv, Bond

LEMMA DuckStep == DuckInv /\ [Next]_vars => DuckInv'
<1>. SUFFICES ASSUME DuckInv, [Next]_vars PROVE DuckInv'
  OBVIOUS
<1>1. TypeOK /\ FramesInv /\ TxInv
  BY DEF DuckInv
<1>2. TypeOK'
  BY <1>1, DuckTypeStep
<1>3. FramesInv'
  <2>1. CASE Next
    BY <1>1, <2>1, DbSteps, FramesStep
  <2>2. CASE UNCHANGED vars
    BY <1>1, <2>2 DEF vars, dbVars, FramesInv
  <2>. QED
    BY <2>1, <2>2
<1>4. ASSUME NEW t \in Threads, Acts(t) PROVE TxInv'
  <2>. SUFFICES ASSUME ~shared' PROVE OneAtATime' /\ Bond' /\ Told'
    BY DEF TxInv
  <2>1. ~shared /\ Turn(t) /\ savepoints' = savepoints
    BY <1>1, <1>4, TurnIsTaken DEF Acts
  <2>2. Bond /\ Told
    BY <1>1, <2>1 DEF TxInv
  <2>3. OneAtATime'
    BY <2>1, TurnFacts
  <2>4. Bond' /\ Told'
    BY <1>1, <1>4, <2>1, <2>2, SteadyStep, FailingStep, UndoingStep, OrphanedStep, StaleStep DEF Bond
  <2>. QED
    BY <2>3, <2>4
<1>5. ASSUME Close PROVE TxInv'
  <2>1. shared' = shared
    BY <1>5 DEF Close
  <2>. SUFFICES ASSUME ~shared' PROVE OneAtATime' /\ Bond' /\ Told'
    BY DEF TxInv
  <2>2. OneAtATime /\ Bond /\ Told
    BY <1>1, <2>1 DEF TxInv
  <2>. QED
    BY <1>1, <1>5, <2>2, CloseStep
<1>6. ASSUME Connect \/ UNCHANGED vars PROVE TxInv'
  <2>1. /\ UNCHANGED <<depth, frames, committed, savepoints, pc>> /\ UNCHANGED <<mine, kept, dropped>>
        /\ UNCHANGED <<written, shared, nestedFail, cut>>
    BY <1>6 DEF Connect, vars, dbVars, callVars
  <2>2. Steady' = Steady
    BY <2>1 DEF Steady, Quiet, NoneOpen, InStep
  <2>3. Failing' = Failing /\ Undoing' = Undoing /\ Orphaned' = Orphaned /\ Stale' = Stale
    BY <2>1 DEF Failing, Undoing, Orphaned, Stale, NoneOpen, Quiet, CanName, Names
  <2>4. Told' = Told /\ OneAtATime' = OneAtATime
    BY <2>1 DEF Told, OneAtATime, Busy
  <2>5. Bond' = Bond
    BY <2>2, <2>3, Zenon DEF Bond
  <2>. SUFFICES ASSUME ~shared' PROVE OneAtATime' /\ Bond' /\ Told'
    BY DEF TxInv
  <2>6. OneAtATime /\ Bond /\ Told
    BY <1>1, <2>1 DEF TxInv
  <2>. QED
    BY <2>4, <2>5, <2>6
<1>7. TxInv'
  <2>1. Next => Connect \/ Close \/ \E t \in Threads : Acts(t)
    BY Zenon DEF Next, Acts
  <2>. QED
    BY <1>4, <1>5, <1>6, <2>1
<1>. QED
  BY <1>2, <1>3, <1>7 DEF DuckInv

\* in_transaction() tells what DuckDB does, what a caller was told is committed
\* is, and what it was told is rolled back never becomes durable
\* (begin_transaction, commit, rollback, execute_query_safe, close).
THEOREM TransactionsAreAlwaysHonest == Spec => []TransactionsAreHonest
<1>1. DuckInv => TransactionsAreHonest
  <2>. SUFFICES ASSUME DuckInv PROVE TransactionsAreHonest
    OBVIOUS
  <2>1. TypeOK /\ FramesInv /\ TxInv
    BY DEF DuckInv
  <2>2. KeptIsCommitted /\ DroppedIsGone
    BY <2>1 DEF KeptIsCommitted, DroppedIsGone, TxInv, Told
  <2>3. ASSUME Quiet, ~shared, ~nestedFail, ~cut
        PROVE  /\ (depth = 0) <=> (frames = <<>>)
               /\ depth <= Len(frames)
               /\ \A t \in Threads : Busy(t) => Len(mine[t]) = depth
    <3>1. Steady /\ OneAtATime
      BY <2>1, <2>3 DEF TxInv, Bond, Failing, Undoing, Orphaned, Stale
    <3>2. (depth = 0) <=> (frames = <<>>)
      BY <3>1 DEF Steady
    <3>3. \A t \in Threads : Busy(t) => Len(mine[t]) = depth
      BY <2>1, <3>1, SteadyFacts DEF Alone, OneAtATime
    <3>4. depth <= Len(frames)
      <4>1. CASE NoneOpen
        BY <2>1, <3>1, <4>1, FrameFacts DEF Steady
      <4>2. CASE ~NoneOpen
        <5>1. PICK t \in Threads : mine[t] # <<>>
          BY <4>2 DEF NoneOpen
        <5>2. PICK p \in [1 .. depth -> DOMAIN frames] : InStep(mine[t], p)
          BY <3>1, <5>1 DEF Steady
        <5>3. depth \in Nat /\ Len(frames) \in Nat /\ DOMAIN frames = 1 .. Len(frames)
          BY <2>1, FrameFacts DEF TypeOK
        <5>4. \A d \in 1 .. depth : p[d] \in DOMAIN frames /\ d <= p[d]
          BY <5>2 DEF InStep
        <5>. QED
          BY <5>3, <5>4
      <4>. QED
        BY <4>1, <4>2
    <3>. QED
      BY <3>2, <3>3, <3>4
  <2>4. DepthIsHonest
    BY <2>3 DEF DepthIsHonest
  <2>. QED
    BY <2>1, <2>2, <2>4 DEF TransactionsAreHonest
<1>. QED
  BY <1>1, DuckInit, DuckStep, PTL DEF Spec

-----------------------------------------------------------------------------
(***************************************************************************)
(* DuckTransactions implements NestedWrites.                               *)
(***************************************************************************)
Spoilt == shared \/ nestedFail

NestStep == [Nested!Next]_<<mine, committed, written, Spoilt>>

\* The transaction is at the bottom of the stack, and no savepoint is called 0.
Bottom == \A i \in DOMAIN frames : i > 1 => frames[i].name # 0

NestInv == DuckInv /\ Bottom

LEMMA BottomStep ==
  ASSUME TypeOK, Bottom, DbStep \/ WriteStep
  PROVE  Bottom'
<1>1. /\ depth \in Nat /\ Len(frames) \in Nat /\ DOMAIN frames = 1 .. Len(frames)
      /\ frames = <<>> <=> Len(frames) = 0
  BY FrameFacts DEF TypeOK
<1>2. CASE UNCHANGED <<frames, committed>> \/ frames' = <<>>
  BY <1>2 DEF Bottom
<1>3. CASE depth > 1 /\ CanName(depth - 1) /\ (DbRelease(depth - 1) \/ DbRollbackTo(depth - 1))
  <2>. DEFINE name == depth - 1
              i == At(name)
  <2>1. name \in Nat \ {0} /\ CanName(name) /\ (DbRelease(name) \/ DbRollbackTo(name))
    BY <1>1, <1>3
  <2>. HIDE DEF name
  <2>2. i \in 2 .. Len(frames)
    BY <2>1, NameFacts
  <2>3. /\ frames' \in Seq(FrameType) /\ Len(frames') \in {i - 1, i}
        /\ \A j \in 1 .. i - 1 : frames'[j].name = frames[j].name
        /\ Len(frames') = i => frames'[i].name = name
    <3>1. i \in DOMAIN frames /\ i > 1 /\ frames \in Seq(FrameType)
      BY <1>1, <2>2, FrameFacts
    <3>2. CASE DbRelease(name)
      BY <2>2, <3>1, <3>2, ReleaseFacts
    <3>3. CASE DbRollbackTo(name)
      <4>1. /\ frames' \in Seq(FrameType) /\ Len(frames') = i
            /\ \A j \in 1 .. i - 1 : frames'[j] = frames[j]
            /\ frames'[i] = Frame(name, {})
        BY <2>1, <3>1, <3>3, RollbackFacts
      <4>. QED
        BY <4>1 DEF Frame
    <3>. QED
      BY <2>1, <3>2, <3>3
  <2>. HIDE DEF i
  <2>4. DOMAIN frames' = 1 .. Len(frames')
    BY <2>3
  <2>5. ASSUME NEW j \in 1 .. Len(frames'), j > 1 PROVE frames'[j].name # 0
    <3>1. j \in 1 .. i - 1 \/ (Len(frames') = i /\ j = i)
      BY <2>2, <2>3, <2>5
    <3>2. CASE j \in 1 .. i - 1
      <4>1. j \in DOMAIN frames /\ frames'[j].name = frames[j].name
        BY <1>1, <2>2, <2>3, <3>2
      <4>. QED
        BY <2>5, <4>1 DEF Bottom
    <3>3. CASE Len(frames') = i /\ j = i
      BY <2>1, <2>3, <3>3
    <3>. QED
      BY <3>1, <3>2, <3>3
  <2>. QED
    BY <2>4, <2>5 DEF Bottom
<1>4. CASE Push(depth) /\ (frames = <<>> <=> depth = 0)
  <2>1. /\ frames' \in Seq(FrameType) /\ Len(frames') = Len(frames) + 1
        /\ \A j \in 1 .. Len(frames) : frames'[j] = frames[j]
        /\ frames'[Len(frames) + 1].name = depth
    BY <1>1, <1>4, PushFacts
  <2>2. DOMAIN frames' = 1 .. Len(frames) + 1
    BY <2>1
  <2>. QED
    BY <1>1, <1>4, <2>1, <2>2 DEF Bottom
<1>5. CASE WriteStep /\ frames # <<>> /\ frames' # frames
  <2>1. written \in Ids /\ frames' = [frames EXCEPT ![Len(frames)].writes = @ \cup {written}]
    BY <1>5, Zenon DEF WriteStep
  <2>2. /\ frames' \in Seq(FrameType) /\ Len(frames') = Len(frames)
        /\ \A j \in 1 .. Len(frames) : frames'[j].name = frames[j].name
    BY <1>5, <2>1, WriteFacts
  <2>3. DOMAIN frames' = 1 .. Len(frames)
    BY <2>2
  <2>. QED
    BY <1>1, <2>2, <2>3 DEF Bottom
<1>6. CASE frames' = frames
  BY <1>6 DEF Bottom
<1>. QED
  BY <1>2, <1>3, <1>4, <1>5, <1>6, Zenon DEF DbStep, WriteStep

LEMMA NestInvHolds == Spec => []NestInv
<1>1. Init => NestInv
  BY DuckInit DEF Init, NestInv, Bottom
<1>2. ASSUME NestInv, [Next]_vars PROVE NestInv'
  <2>1. DuckInv' /\ TypeOK /\ FramesInv /\ Bottom
    BY <1>2, DuckStep DEF NestInv, DuckInv
  <2>2. CASE Next
    <3>1. DbStep \/ WriteStep
      BY <2>1, <2>2, DbSteps
    <3>. QED
      BY <2>1, <3>1, BottomStep DEF NestInv
  <2>3. CASE UNCHANGED vars
    BY <2>1, <2>3 DEF vars, dbVars, Bottom, NestInv
  <2>. QED
    BY <1>2, <2>2, <2>3
<1>. QED
  BY <1>1, <1>2, PTL DEF Spec

-----------------------------------------------------------------------------
\* After a misuse, or with it: what is durable was written, and stays.
LEMMA SpoiltStep ==
  ASSUME DuckInv, DuckInv', Next, Spoilt'
  PROVE  NestStep
<1>1. TypeOK /\ FramesInv /\ TypeOK' /\ FramesInv'
  BY DEF DuckInv
<1>2. written \in Nat /\ written' \in {written, written + 1} /\ committed \subseteq committed'
  <2>1. written \in Nat
    BY <1>1 DEF FramesInv
  <2>2. CASE WriteStep
    BY <2>1, <2>2 DEF WriteStep
  <2>3. CASE DbStep /\ UNCHANGED written
    <3>1. committed \subseteq committed'
      BY <2>3 DEF DbStep, DbRelease, DbRollbackTo
    <3>. QED
      BY <2>1, <2>3, <3>1
  <2>. QED
    BY <1>1, <2>2, <2>3, DbSteps
<1>3. committed' \subseteq committed \cup 0 .. written' - 1
  <2>1. \A x \in committed' : x \in Nat /\ x < written'
    BY <1>1 DEF TypeOK, FramesInv, Ids
  <2>. QED
    BY <1>2, <2>1
<1>4. (shared \/ nestedFail)' = TRUE
  BY Zenon DEF Spoilt
<1>5. Nested!Spoil
  BY <1>2, <1>3, <1>4, Zenon DEF Nested!Spoil
<1>. QED
  BY <1>5, Zenon DEF NestStep, Nested!Next

\* Nothing the callers see happens.
LEMMA NestStutter ==
  ASSUME UNCHANGED <<mine, committed, written>>, ~Spoilt, ~Spoilt'
  PROVE  NestStep
<1>1. Spoilt' = Spoilt
  BY Zenon DEF Spoilt
<1>. QED
  BY <1>1 DEF NestStep

LEMMA Dropped ==
  ASSUME UNCHANGED <<committed, written>>, ~Spoilt, ~Spoilt', NEW T \in SUBSET Threads,
         mine' = [u \in Threads |-> IF u \in T THEN <<>> ELSE mine[u]]
  PROVE  NestStep
<1>1. Spoilt' = Spoilt
  BY Zenon DEF Spoilt
<1>2. Nested!AbortAll(T)
  BY <1>1, Zenon DEF Nested!AbortAll, Spoilt
<1>. QED
  BY <1>2, Zenon DEF NestStep, Nested!Next, Nested!Work, Spoilt

\* An undisturbed caller is in a transaction exactly when DuckDB is.
LEMMA HonestTurn ==
  ASSUME DuckInv, NEW t \in Threads, Acts(t), ~Spoilt'
  PROVE  /\ ~Spoilt /\ Turn(t)
         /\ mine[t] # <<>> => Steady
         /\ pc[t] = "idle" => (mine[t] = <<>> <=> frames = <<>>)
<1>1. TypeOK /\ FramesInv /\ TxInv
  BY DEF DuckInv
<1>2. ~shared' /\ ~nestedFail'
  BY Zenon DEF Spoilt
<1>3. ~shared /\ Turn(t)
  BY <1>1, <1>2, TurnIsTaken DEF Acts
<1>4. ~nestedFail
  BY <1>2 DEF Acts, BeginTransaction, Write, Commit, CommitConflict, Rollback, RollbackAll,
     EndRaises, FailStatement, FailRollback, FailReset
<1>5. Bond
  BY <1>1, <1>3 DEF TxInv
<1>6. mine[t] # <<>> => ~NoneOpen
  BY DEF NoneOpen
<1>7. mine[t] # <<>> => Steady
  BY <1>5, <1>6 DEF Bond, Failing, Undoing, Orphaned, Stale
<1>8. Steady => (mine[t] = <<>> <=> frames = <<>>)
  <2>1. Steady => depth = Len(mine[t]) /\ (depth = 0 <=> frames = <<>>)
    BY <1>1, <1>3, SteadyFacts DEF Turn, Steady
  <2>2. mine[t] = <<>> <=> Len(mine[t]) = 0
    BY <1>1, MineFacts
  <2>. QED
    BY <2>1, <2>2
<1>9. ASSUME pc[t] = "idle", ~Steady PROVE mine[t] = <<>> /\ frames = <<>>
  <2>1. Quiet
    BY <1>3, <1>9, TurnFacts
  <2>2. Stale
    BY <1>4, <1>5, <1>9, <2>1 DEF Bond, Failing, Undoing, Orphaned
  <2>. QED
    BY <2>2 DEF Stale, NoneOpen
<1>. QED
  BY <1>2, <1>3, <1>4, <1>7, <1>8, <1>9 DEF Spoilt

LEMMA WriteNests ==
  ASSUME DuckInv, NEW t \in Threads, Write(t), ~Spoilt'
  PROVE  NestStep
<1>1. Acts(t) /\ pc[t] = "idle"
  BY DEF Acts, Write
<1>2. ~Spoilt /\ (mine[t] = <<>> <=> frames = <<>>)
  BY <1>1, HonestTurn
<1>3. (shared \/ nestedFail)' = (shared \/ nestedFail)
  BY <1>2, Zenon DEF Spoilt
<1>4. CASE mine[t] = <<>>
  <2>1. committed' = committed \cup {written} /\ mine' = mine /\ written' = written + 1
    BY <1>2, <1>4, Zenon DEF Write
  <2>2. Nested!PutOutside(t)
    BY <1>3, <1>4, <2>1, Zenon DEF Nested!PutOutside
  <2>. QED
    BY <1>2, <2>2, Zenon DEF NestStep, Nested!Next, Nested!Work, Spoilt
<1>5. CASE mine[t] # <<>>
  <2>1. /\ committed' = committed /\ written' = written + 1
        /\ mine' = [mine EXCEPT ![t][Len(mine[t])] = @ \cup {written}]
    BY <1>2, <1>5, Zenon DEF Write
  <2>2. Nested!PutInside(t)
    BY <1>3, <1>5, <2>1, Zenon DEF Nested!PutInside
  <2>. QED
    BY <1>2, <2>2, Zenon DEF NestStep, Nested!Next, Nested!Work, Spoilt
<1>. QED
  BY <1>4, <1>5

\* The outermost commit makes durable what the caller wrote in the transaction.
LEMMA WritesAreMine ==
  ASSUME TypeOK, FramesInv, Steady, Bottom, NEW t \in Threads, Alone(t), depth = 1
  PROVE  AllWrites(frames) = mine[t][1]
<1>1. PICK p \in [1 .. depth -> DOMAIN frames] : InStep(mine[t], p)
  BY SteadyFacts
<1>2. 1 \in 1 .. depth /\ 1 - 1 = 0 /\ ~(1 < depth)
  OBVIOUS
<1>3. p[1] \in DOMAIN frames /\ frames[p[1]].name = 0
  BY <1>1, <1>2 DEF InStep
<1>4. p[1] = 1 /\ \A i \in DOMAIN frames : p[1] <= i
  BY <1>3, FrameFacts DEF Bottom
<1>5. \A x \in Ids : x \in mine[t][1] <=> \E i \in DOMAIN frames : x \in frames[i].writes
  BY <1>1, <1>2, <1>4 DEF InStep
<1>6. mine[t][1] \subseteq Ids
  <2>1. depth = Len(mine[t])
    BY SteadyFacts
  <2>. QED
    BY <2>1, MineFacts
<1>7. \A i \in DOMAIN frames : frames[i].writes \subseteq Ids
  BY FrameFacts
<1>. QED
  BY <1>5, <1>6, <1>7 DEF AllWrites

LEMMA CommitNests ==
  ASSUME NestInv, NEW t \in Threads, Commit(t), ~Spoilt'
  PROVE  NestStep
<1>1. TypeOK /\ FramesInv /\ Bottom /\ DuckInv /\ Acts(t) /\ mine[t] # <<>> /\ ToldCommitted(t)
  BY DEF NestInv, DuckInv, Acts, Commit
<1>2. ~Spoilt /\ Turn(t) /\ Steady
  BY <1>1, HonestTurn
<1>3. (shared \/ nestedFail)' = (shared \/ nestedFail) /\ written' = written
  BY <1>2, Zenon DEF Spoilt, Commit
<1>4. depth = Len(mine[t]) /\ (depth = 1 \/ depth > 1)
  <2>. DEFINE k == Len(mine[t])
  <2>1. depth = k /\ k \in Nat /\ k # 0
    BY <1>1, <1>2, SteadyFacts, MineFacts DEF Turn
  <2>. HIDE DEF k
  <2>2. k = 1 \/ k > 1
    BY <2>1
  <2>. QED
    BY <2>1, <2>2 DEF k
<1>5. CASE depth = 1
  <2>1. committed' = committed \cup AllWrites(frames)
    BY <1>5 DEF Commit, DbCommit
  <2>2. AllWrites(frames) = mine[t][1]
    BY <1>1, <1>2, <1>5, WritesAreMine DEF Turn
  <2>3. mine' = [mine EXCEPT ![t] = <<>>]
    BY <1>1, <1>4, <1>5 DEF ToldCommitted
  <2>4. Len(mine[t]) = 1 /\ mine[t][1] = Nested!Inmost(t)
    BY <1>4, <1>5, Zenon DEF Nested!Inmost
  <2>5. Nested!CommitOutermost(t)
    BY <1>3, <2>1, <2>2, <2>3, <2>4, Zenon DEF Nested!CommitOutermost
  <2>. QED
    BY <1>2, <2>5, Zenon DEF NestStep, Nested!Next, Nested!Work, Spoilt
<1>6. CASE depth > 1
  <2>1. ~(depth <= 0) /\ depth # 1 /\ Len(mine[t]) # 1 /\ Len(mine[t]) > 1
    <3>1. depth \in Nat
      BY <1>1 DEF TypeOK
    <3>2. ~(depth <= 0) /\ depth # 1 /\ depth > 1
      BY <1>6, <3>1
    <3>. QED
      BY <1>4, <3>2, Zenon
  <2>2. committed' = committed
    BY <2>1 DEF Commit, DbRelease
  <2>3. mine' = [mine EXCEPT ![t] = [Outer(t) EXCEPT ![Len(mine[t]) - 1] = @ \cup Inner(t)]]
    BY <1>1, <2>1, Zenon DEF ToldCommitted
  <2>4. Outer(t) = Nested!Others(t) /\ Inner(t) = Nested!Inmost(t)
    BY Zenon DEF Outer, Inner, Nested!Others, Nested!Inmost
  <2>5. Nested!CommitNested(t)
    BY <1>3, <2>1, <2>2, <2>3, <2>4, Zenon DEF Nested!CommitNested
  <2>. QED
    BY <1>2, <2>5, Zenon DEF NestStep, Nested!Next, Nested!Work, Spoilt
<1>. QED
  BY <1>4, <1>5, <1>6, Zenon

\* What a rollback, or a commit that conflicts, takes away was not durable.
LEMMA RollbackNests ==
  ASSUME DuckInv, NEW t \in Threads, CommitConflict(t) \/ Rollback(t), ~Spoilt'
  PROVE  NestStep
<1>1. DuckInv /\ Acts(t) /\ TypeOK
  BY DEF DuckInv, Acts
<1>2. ~Spoilt
  BY <1>1, HonestTurn
<1>3. written' = written
  BY DEF CommitConflict, Rollback
<1>4. committed' = committed
  BY DEF CommitConflict, Rollback, Undone, DbRollback, DbRollbackTo
<1>5. mine' = [mine EXCEPT ![t] = Nested!Others(t)]
  BY Zenon DEF CommitConflict, Rollback, ToldRolledBack, Outer, Nested!Others
<1>6. mine[t] # <<>>
  <2>1. Len(mine[t]) = 1 => mine[t] # <<>>
    <3>1. Len(<<>>) = 0
      BY SMT
    <3>2. 1 # 0
      OBVIOUS
    <3>. QED
      BY <3>1, <3>2, Zenon
  <2>. QED
    BY <2>1, Zenon DEF CommitConflict, Rollback
<1>7. (shared \/ nestedFail)' = (shared \/ nestedFail)
  BY <1>2, Zenon DEF Spoilt
<1>8. Nested!Abort(t)
  BY <1>3, <1>4, <1>5, <1>6, <1>7, Zenon DEF Nested!Abort
<1>. QED
  BY <1>2, <1>8, Zenon DEF NestStep, Nested!Next, Nested!Work, Spoilt

LEMMA FailureNests ==
  ASSUME DuckInv, NEW t \in Threads, EndRaises(t) \/ FailStatement(t), ~Spoilt'
  PROVE  NestStep
<1>1. DuckInv /\ Acts(t) /\ TypeOK
  BY DEF DuckInv, Acts
<1>2. ~Spoilt
  BY <1>1, HonestTurn
<1>3. UNCHANGED <<committed, written>> /\ mine' = [mine EXCEPT ![t] = <<>>]
  BY DEF EndRaises, FailStatement, UndoRaises, dbVars
<1>4. mine' = [u \in Threads |-> IF u \in {t} THEN <<>> ELSE mine[u]]
  BY <1>1, <1>3 DEF TypeOK
<1>5. {t} \in SUBSET Threads
  OBVIOUS
<1>. QED
  BY <1>2, <1>3, <1>4, <1>5, Dropped, Zenon

LEMMA QuietNests ==
  ASSUME DuckInv, NEW t \in Threads, RollbackAll(t) \/ FailRollback(t) \/ FailReset(t), ~Spoilt'
  PROVE  NestStep
<1>1. DuckInv /\ Acts(t)
  BY DEF Acts
<1>2. ~Spoilt
  BY <1>1, HonestTurn
<1>3. mine' = mine /\ written' = written
  BY DEF RollbackAll, FailRollback, FailReset, callVars
<1>4. committed' = committed
  BY DEF RollbackAll, FailRollback, FailReset, Undone, UndoRaises, DbRollback, DbRollbackTo, dbVars
<1>. QED
  BY <1>2, <1>3, <1>4, NestStutter

LEMMA BeginNests ==
  ASSUME DuckInv, NEW t \in Threads, BeginTransaction(t), ~Spoilt'
  PROVE  NestStep
<1>1. DuckInv /\ Acts(t)
  BY DEF Acts
<1>2. ~Spoilt
  BY <1>1, HonestTurn
<1>3. UNCHANGED <<committed, written>> /\ mine' = [mine EXCEPT ![t] = Append(@, {})]
  BY Zenon DEF BeginTransaction
<1>4. (shared \/ nestedFail)' = (shared \/ nestedFail)
  BY <1>2, Zenon DEF Spoilt
<1>5. Nested!Begin(t)
  BY <1>3, <1>4, Zenon DEF Nested!Begin
<1>. QED
  BY <1>2, <1>5, Zenon DEF NestStep, Nested!Next, Nested!Work, Spoilt

\* Until the connector is shared, or fails in a nested transaction: a write is
\* durable at once outside a transaction, and inside exactly when the outermost one
\* commits, with all others of it (begin_transaction, commit, rollback, close).
THEOREM ConnectorNests == Spec => WritesAreNested
<1>1. Init => Nested!Init
  BY DEF Init, Nested!Init
<1>2. ASSUME NestInv, NestInv', [Next]_vars PROVE NestStep
  <2>1. DuckInv /\ DuckInv'
    BY <1>2 DEF NestInv
  <2>2. ASSUME Next, ~Spoilt' PROVE NestStep
    <3>1. CASE Connect
      <4>1. UNCHANGED <<mine, committed, written, shared, nestedFail>>
        BY <3>1 DEF Connect, dbVars, callVars
      <4>. QED
        BY <2>2, <4>1, NestStutter DEF Spoilt
    <3>2. CASE Close
      <4>1. UNCHANGED <<committed, written, shared, nestedFail>> /\ mine' = [t \in Threads |-> <<>>]
        BY <3>2 DEF Close
      <4>2. mine' = [u \in Threads |-> IF u \in Threads THEN <<>> ELSE mine[u]]
        BY <4>1
      <4>3. ~Spoilt /\ Threads \in SUBSET Threads
        BY <2>2, <4>1 DEF Spoilt
      <4>. QED
        BY <2>2, <4>1, <4>2, <4>3, Dropped
    <3>3. ASSUME NEW t \in Threads, Acts(t) PROVE NestStep
      BY <1>2, <2>1, <2>2, <3>3, WriteNests, CommitNests, RollbackNests, FailureNests, QuietNests,
         BeginNests DEF Acts
    <3>4. Next => Connect \/ Close \/ \E t \in Threads : Acts(t)
      BY Zenon DEF Next, Acts
    <3>. QED
      BY <2>2, <3>1, <3>2, <3>3, <3>4
  <2>3. CASE UNCHANGED vars
    <3>1. UNCHANGED <<mine, committed, written, shared, nestedFail>>
      BY <2>3 DEF vars, dbVars, callVars
    <3>. QED
      BY <3>1 DEF NestStep, Spoilt
  <2>. QED
    BY <1>2, <2>1, <2>2, <2>3, SpoiltStep
<1>3. NestInv /\ NestInv' /\ [Next]_vars
      => [Nested!Next]_<<mine, committed, written, shared \/ nestedFail>>
  BY <1>2, Zenon DEF NestStep, Spoilt
<1>. QED
  BY <1>1, <1>3, NestInvHolds, PTL DEF Spec, WritesAreNested, Nested!Spec, Nested!nvars

-----------------------------------------------------------------------------
(***************************************************************************)
(* What nested transactions amount to, of any implementation: isolation.   *)
(***************************************************************************)
OpenTypes == mine \in [Threads -> Seq(SUBSET Nat)]
Below == \A c \in Threads : \A i \in DOMAIN mine[c] : \A x \in mine[c][i] : x < written
NotYet == \A c \in Threads : \A i \in DOMAIN mine[c] : mine[c][i] \cap committed = {}
OnePlace == \A c, d \in Threads : \A i \in DOMAIN mine[c] : \A j \in DOMAIN mine[d] :
              mine[c][i] \cap mine[d][j] # {} => c = d /\ i = j

WritesHeld == OpenTypes /\ Below /\ NotYet /\ OnePlace
Numbered == written \in Nat /\ \A x \in committed : x \in Nat /\ x < written
IsolationInv == Numbered /\ (~Spoilt => WritesHeld)

LEMMA OpenFacts ==
  ASSUME OpenTypes, NEW c \in Threads
  PROVE  /\ mine[c] \in Seq(SUBSET Nat) /\ Len(mine[c]) \in Nat
         /\ DOMAIN mine[c] = 1 .. Len(mine[c]) /\ (mine[c] = <<>> <=> Len(mine[c]) = 0)
         /\ \A i \in 1 .. Len(mine[c]) : mine[c][i] \in SUBSET Nat
<1>1. mine[c] \in Seq(SUBSET Nat)
  BY DEF OpenTypes
<1>2. \A i \in 1 .. Len(mine[c]) : mine[c][i] \in SUBSET Nat
  BY <1>1, ElementOfSeq
<1>. QED
  BY <1>1, <1>2

\* Where what was in transaction q of a client is when n are left.
Lower(q, n) == IF q <= n THEN q ELSE n

\* Client t has the transactions s now: each holds what it or a nested one held, and
\* perhaps the newest write.
Moved(t, s) ==
  /\ mine' = [mine EXCEPT ![t] = s]
  /\ written' \in {written, written + 1}
  /\ \A i \in 1 .. Len(s) : \A x \in s[i] :
       \/ \E q \in 1 .. Len(mine[t]) : x \in mine[t][q] /\ i = Lower(q, Len(s))
       \/ x = written /\ i = Len(s) /\ written' = written + 1

LEMMA MovedHolds ==
  ASSUME Numbered, WritesHeld, committed' = committed,
         NEW t \in Threads, NEW s \in Seq(SUBSET Nat), Moved(t, s)
  PROVE  WritesHeld'
<1>1. /\ mine \in [Threads -> Seq(SUBSET Nat)] /\ written \in Nat
      /\ written' \in {written, written + 1} /\ mine' = [mine EXCEPT ![t] = s]
      /\ \A x \in committed : x < written
  BY DEF WritesHeld, OpenTypes, Numbered, Moved
<1>2. OpenTypes' /\ mine'[t] = s /\ \A c \in Threads : c # t => mine'[c] = mine[c]
  BY <1>1 DEF OpenTypes
<1>3. DOMAIN s = 1 .. Len(s) /\ DOMAIN mine[t] = 1 .. Len(mine[t])
  BY OpenFacts DEF WritesHeld
<1>4. \A i \in DOMAIN s : \A x \in s[i] :
        \/ \E q \in DOMAIN mine[t] : x \in mine[t][q] /\ i = Lower(q, Len(s))
        \/ x = written /\ i = Len(s) /\ written' = written + 1
  BY <1>3, Zenon DEF Moved
<1>5. \A c \in Threads : \A i \in DOMAIN mine[c] : \A x \in mine[c][i] : x < written /\ x \notin committed
  BY DEF WritesHeld, Below, NotYet
<1>6. ASSUME NEW c \in Threads, NEW i \in DOMAIN mine'[c], NEW x \in mine'[c][i]
      PROVE  /\ x < written' /\ x \notin committed
             /\ \/ \E q \in DOMAIN mine[c] :
                     /\ x \in mine[c][q]
                     /\ i = IF c = t THEN Lower(q, Len(s)) ELSE q
                \/ x = written /\ c = t /\ i = Len(s)
  <2>1. CASE c = t
    <3>1. i \in DOMAIN s /\ x \in s[i]
      BY <1>2, <1>6, <2>1
    <3>2. CASE x = written /\ i = Len(s) /\ written' = written + 1
      <4>1. x < written' /\ ~(x < written)
        BY <1>1, <3>2
      <4>. QED
        BY <1>1, <2>1, <3>2, <4>1, Zenon
    <3>3. ASSUME NEW q \in DOMAIN mine[t], x \in mine[t][q], i = Lower(q, Len(s))
          PROVE  /\ x < written' /\ x \notin committed
                 /\ x \in mine[c][q] /\ q \in DOMAIN mine[c] /\ i = IF c = t THEN Lower(q, Len(s)) ELSE q
      <4>1. x < written /\ x \notin committed
        BY <1>5, <3>3
      <4>2. x \in Nat
        BY <1>3, <3>3, OpenFacts DEF WritesHeld
      <4>3. x < written'
        BY <1>1, <4>1, <4>2
      <4>. QED
        BY <2>1, <3>3, <4>1, <4>3, Zenon
    <3>. QED
      BY <1>4, <3>1, <3>2, <3>3, Zenon
  <2>2. CASE c # t
    <3>1. i \in DOMAIN mine[c] /\ x \in mine[c][i]
      BY <1>2, <1>6, <2>2, Zenon
    <3>2. x < written /\ x \notin committed
      BY <1>5, <3>1
    <3>3. x \in Nat
      BY <3>1, OpenFacts DEF WritesHeld
    <3>4. x < written'
      BY <1>1, <3>2, <3>3
    <3>. QED
      BY <2>2, <3>1, <3>2, <3>4, Zenon
  <2>. QED
    BY <2>1, <2>2
<1>7. Below' /\ NotYet'
  <2>1. Below'
    BY <1>6, Zenon DEF Below
  <2>2. NotYet'
    BY <1>6 DEF NotYet
  <2>. QED
    BY <2>1, <2>2
<1>. DEFINE Came(x, c, i) == \E q \in DOMAIN mine[c] :
                               x \in mine[c][q] /\ i = IF c = t THEN Lower(q, Len(s)) ELSE q
<1>8. ASSUME NEW c \in Threads, NEW d \in Threads, NEW i \in DOMAIN mine'[c],
             NEW j \in DOMAIN mine'[d], NEW x \in mine'[c][i], x \in mine'[d][j]
      PROVE  c = d /\ i = j
  <2>1. /\ Came(x, c, i) \/ (x = written /\ c = t /\ i = Len(s))
        /\ Came(x, d, j) \/ (x = written /\ d = t /\ j = Len(s))
    BY <1>6, <1>8
  <2>2. ASSUME x = written PROVE ~Came(x, c, i) /\ ~Came(x, d, j)
    <3>1. \A e \in Threads : \A q \in DOMAIN mine[e] : x \notin mine[e][q]
      BY <1>1, <1>5, <2>2
    <3>. QED
      BY <3>1
  <2>3. ASSUME Came(x, c, i), Came(x, d, j) PROVE c = d /\ i = j
    <3>1. PICK q \in DOMAIN mine[c] : x \in mine[c][q] /\ i = IF c = t THEN Lower(q, Len(s)) ELSE q
      BY <2>3
    <3>2. PICK r \in DOMAIN mine[d] : x \in mine[d][r] /\ j = IF d = t THEN Lower(r, Len(s)) ELSE r
      BY <2>3
    <3>3. mine[c][q] \cap mine[d][r] # {}
      BY <3>1, <3>2
    <3>4. c = d /\ q = r
      BY <3>3, Zenon DEF WritesHeld, OnePlace
    <3>. QED
      BY <3>1, <3>2, <3>4
  <2>. HIDE DEF Came
  <2>. QED
    BY <2>1, <2>2, <2>3, Zenon
<1>9. OnePlace'
  BY <1>8 DEF OnePlace
<1>. QED
  BY <1>2, <1>7, <1>9 DEF WritesHeld

\* Some clients lose all their transactions, and nothing else changes but that what
\* was written outside, or in the outermost one, becomes durable.
LEMMA EmptiedHolds ==
  ASSUME Numbered, WritesHeld, NEW T \in SUBSET Threads, NEW W \in SUBSET Nat,
         mine' = [c \in Threads |-> IF c \in T THEN <<>> ELSE mine[c]],
         written' \in {written, written + 1}, committed' = committed \cup W,
         \A c \in Threads \ T : \A i \in DOMAIN mine[c] : mine[c][i] \cap W = {}
  PROVE  WritesHeld'
<1>1. mine \in [Threads -> Seq(SUBSET Nat)] /\ written \in Nat
  BY DEF WritesHeld, OpenTypes, Numbered
<1>2. <<>> \in Seq(SUBSET Nat) /\ DOMAIN <<>> = {}
  BY EmptySeq
<1>3. OpenTypes' /\ \A c \in Threads : mine'[c] = IF c \in T THEN <<>> ELSE mine[c]
  BY <1>1, <1>2 DEF OpenTypes
<1>4. \A c \in Threads : \A i \in DOMAIN mine'[c] :
        c \notin T /\ i \in DOMAIN mine[c] /\ mine'[c][i] = mine[c][i]
  BY <1>2, <1>3
<1>5. Below'
  <2>1. ASSUME NEW c \in Threads, NEW i \in DOMAIN mine'[c], NEW x \in mine'[c][i] PROVE x < written'
    <3>1. x < written /\ x \in Nat
      BY <1>4, OpenFacts DEF WritesHeld, Below
    <3>. QED
      BY <1>1, <3>1
  <2>. QED
    BY <2>1, Zenon DEF Below
<1>6. NotYet' /\ OnePlace'
  BY <1>4 DEF WritesHeld, NotYet, OnePlace
<1>. QED
  BY <1>3, <1>5, <1>6 DEF WritesHeld

LEMMA BeginHolds ==
  ASSUME Numbered, WritesHeld, NEW t \in Threads, Nested!Begin(t)
  PROVE  WritesHeld'
<1>. DEFINE m == mine[t]
            n == Len(m)
            s == Append(m, {})
<1>1. n \in Nat /\ m \in Seq(SUBSET Nat) /\ {} \in SUBSET Nat /\ \A i \in 1 .. n : m[i] \in SUBSET Nat
  BY OpenFacts DEF WritesHeld
<1>. HIDE DEF m
<1>2. /\ s \in Seq(SUBSET Nat) /\ Len(s) = n + 1 /\ s[n + 1] = {}
      /\ \A i \in 1 .. n : s[i] = m[i]
  BY <1>1, AppendProperties
<1>. HIDE DEF s, n
<1>3. ASSUME NEW i \in 1 .. Len(s), NEW x \in s[i]
      PROVE  \E q \in 1 .. n : x \in m[q] /\ i = Lower(q, Len(s))
  <2>1. i \in 1 .. n \/ i = n + 1
    BY <1>1, <1>2
  <2>2. i \in 1 .. n /\ i <= Len(s) /\ s[i] = m[i]
    BY <1>1, <1>2, <1>3, <2>1
  <2>3. Lower(i, Len(s)) = i
    BY <2>2, Zenon DEF Lower
  <2>. QED
    BY <1>3, <2>2, <2>3
<1>4. mine' = [mine EXCEPT ![t] = s] /\ written' = written /\ committed' = committed
  BY Zenon DEF Nested!Begin, s, m
<1>5. Moved(t, s)
  BY <1>3, <1>4 DEF Moved, n, m
<1>. QED
  BY <1>2, <1>4, <1>5, MovedHolds

LEMMA PutInsideHolds ==
  ASSUME Numbered, WritesHeld, NEW t \in Threads, Nested!PutInside(t)
  PROVE  WritesHeld'
<1>. DEFINE m == mine[t]
            n == Len(m)
            top == m[n] \cup {written}
            s == [m EXCEPT ![n] = top]
<1>1. /\ n \in Nat /\ n \in 1 .. n /\ m \in Seq(SUBSET Nat)
      /\ \A i \in 1 .. n : m[i] \in SUBSET Nat
  BY OpenFacts DEF WritesHeld, Nested!PutInside
<1>2. top \in SUBSET Nat
  BY <1>1 DEF Numbered
<1>. HIDE DEF m, top
<1>3. s \in Seq(SUBSET Nat) /\ Len(s) = n
  BY <1>1, <1>2, ExceptSeq
<1>4. \A i \in 1 .. n : s[i] = IF i = n THEN top ELSE m[i]
  BY <1>1
<1>5. /\ mine' = [mine EXCEPT ![t] = s] /\ written' = written + 1 /\ committed' = committed
  BY Zenon DEF Nested!PutInside, s, n, m, top
<1>. HIDE DEF s, n
<1>6. ASSUME NEW i \in 1 .. Len(s), NEW x \in s[i]
      PROVE  (\E q \in 1 .. n : x \in m[q] /\ i = Lower(q, Len(s))) \/ (x = written /\ i = Len(s))
  <2>1. i \in 1 .. n /\ i <= Len(s)
    BY <1>1, <1>3
  <2>2. Lower(i, Len(s)) = i
    BY <2>1, Zenon DEF Lower
  <2>3. x \in m[i] \/ (x = written /\ i = n)
    BY <1>4, <1>6, <2>1 DEF top
  <2>. QED
    BY <1>3, <2>1, <2>2, <2>3, Zenon
<1>7. Moved(t, s)
  BY <1>5, <1>6 DEF Moved, n, m
<1>. QED
  BY <1>3, <1>5, <1>7, MovedHolds

\* The transactions but the innermost.
LEMMA OthersFacts ==
  ASSUME OpenTypes, NEW t \in Threads, mine[t] # <<>>
  PROVE  /\ Nested!Others(t) \in Seq(SUBSET Nat) /\ Len(mine[t]) \in Nat \ {0}
         /\ Len(Nested!Others(t)) = Len(mine[t]) - 1
         /\ \A i \in 1 .. Len(mine[t]) - 1 : Nested!Others(t)[i] = mine[t][i]
<1>. DEFINE m == mine[t]
            n == Len(m)
<1>1. n \in Nat \ {0} /\ \A i \in 1 .. n : m[i] \in SUBSET Nat
  BY OpenFacts
<1>2. 1 \in Int /\ n - 1 \in Int /\ \A i \in 1 .. n - 1 : m[i] \in SUBSET Nat
  BY <1>1
<1>. HIDE DEF m, n
<1>3. /\ SubSeq(m, 1, n - 1) \in Seq(SUBSET Nat)
      /\ Len(SubSeq(m, 1, n - 1)) = IF 1 <= n - 1 THEN n - 1 - 1 + 1 ELSE 0
      /\ \A i \in 1 .. n - 1 - 1 + 1 : SubSeq(m, 1, n - 1)[i] = m[1 + i - 1]
  BY <1>2, SubSeqProperties
<1>4. Len(SubSeq(m, 1, n - 1)) = n - 1 /\ \A i \in 1 .. n - 1 : SubSeq(m, 1, n - 1)[i] = m[i]
  BY <1>1, <1>3
<1>5. Nested!Others(t) = SubSeq(m, 1, n - 1)
  BY DEF Nested!Others, m, n
<1>. QED
  BY <1>1, <1>3, <1>4, <1>5 DEF m, n

LEMMA AbortHolds ==
  ASSUME Numbered, WritesHeld, NEW t \in Threads, Nested!Abort(t)
  PROVE  WritesHeld'
<1>. DEFINE s == Nested!Others(t)
            n == Len(mine[t])
<1>1. /\ s \in Seq(SUBSET Nat) /\ n \in Nat \ {0} /\ Len(s) = n - 1
      /\ \A i \in 1 .. n - 1 : s[i] = mine[t][i]
  BY OthersFacts DEF WritesHeld, Nested!Abort
<1>2. mine' = [mine EXCEPT ![t] = s] /\ written' = written /\ committed' = committed
  BY Zenon DEF Nested!Abort
<1>. HIDE DEF s, n
<1>3. ASSUME NEW i \in 1 .. Len(s), NEW x \in s[i]
      PROVE  \E q \in 1 .. n : x \in mine[t][q] /\ i = Lower(q, Len(s))
  <2>1. i \in 1 .. n /\ i <= Len(s) /\ s[i] = mine[t][i]
    BY <1>1
  <2>2. Lower(i, Len(s)) = i
    BY <2>1, Zenon DEF Lower
  <2>. QED
    BY <1>3, <2>1, <2>2
<1>4. Moved(t, s)
  BY <1>2, <1>3 DEF Moved, n
<1>. QED
  BY <1>1, <1>2, <1>4, MovedHolds

LEMMA CommitNestedHolds ==
  ASSUME Numbered, WritesHeld, NEW t \in Threads, Nested!CommitNested(t)
  PROVE  WritesHeld'
<1>. DEFINE o == Nested!Others(t)
            m == mine[t]
            n == Len(m)
            both == o[n - 1] \cup m[n]
            s == [o EXCEPT ![n - 1] = both]
<1>0. n > 1 /\ mine[t] # <<>>
  BY OpenFacts DEF WritesHeld, Nested!CommitNested
<1>1. /\ o \in Seq(SUBSET Nat) /\ n \in Nat \ {0} /\ Len(o) = n - 1
      /\ \A i \in 1 .. n - 1 : o[i] = m[i]
      /\ \A i \in 1 .. n : m[i] \in SUBSET Nat
  BY <1>0, OthersFacts, OpenFacts DEF WritesHeld
<1>2. mine' = [mine EXCEPT ![t] = s] /\ written' = written /\ committed' = committed
  BY Zenon DEF Nested!CommitNested, Nested!Inmost
<1>. HIDE DEF o, m, n
<1>3. n - 1 \in 1 .. n - 1 /\ n - 1 \in 1 .. n /\ n \in 1 .. n /\ o[n - 1] = m[n - 1]
  BY <1>0, <1>1 DEF m, n
<1>4. both \in SUBSET Nat
  BY <1>1, <1>3
<1>. HIDE DEF both
<1>5. s \in Seq(SUBSET Nat) /\ Len(s) = n - 1
  BY <1>1, <1>3, <1>4, ExceptSeq
<1>6. \A i \in 1 .. n - 1 : s[i] = IF i = n - 1 THEN both ELSE m[i]
  BY <1>1, <1>3
<1>. HIDE DEF s
<1>7. ASSUME NEW i \in 1 .. Len(s), NEW x \in s[i]
      PROVE  \E q \in 1 .. n : x \in m[q] /\ i = Lower(q, Len(s))
  <2>1. i \in 1 .. n - 1 /\ i \in 1 .. n /\ i <= Len(s)
    BY <1>1, <1>5
  <2>2. Lower(i, Len(s)) = i
    BY <2>1, Zenon DEF Lower
  <2>3. Lower(n, Len(s)) = n - 1
    BY <1>1, <1>5 DEF Lower
  <2>4. x \in m[i] \/ (i = n - 1 /\ x \in m[n])
    BY <1>3, <1>6, <1>7, <2>1 DEF both
  <2>. QED
    BY <1>3, <2>1, <2>2, <2>3, <2>4, Zenon
<1>8. Moved(t, s)
  BY <1>2, <1>7 DEF Moved, n, m
<1>. QED
  BY <1>2, <1>5, <1>8, MovedHolds

\* The writes of the outermost transaction become durable, and it is gone.
LEMMA CommitOutermostHolds ==
  ASSUME Numbered, WritesHeld, NEW t \in Threads, Nested!CommitOutermost(t)
  PROVE  WritesHeld' /\ Numbered'
<1>. DEFINE W == mine[t][1]
<1>1. /\ Len(mine[t]) = 1 /\ committed' = committed \cup Nested!Inmost(t) /\ written' = written
      /\ mine' = [mine EXCEPT ![t] = <<>>]
  BY Zenon DEF Nested!CommitOutermost
<1>2. 1 \in DOMAIN mine[t] /\ W \in SUBSET Nat
  BY <1>1, OpenFacts DEF WritesHeld
<1>3. committed' = committed \cup W
  BY <1>1, Zenon DEF Nested!Inmost
<1>4. mine' = [c \in Threads |-> IF c \in {t} THEN <<>> ELSE mine[c]]
  BY <1>1 DEF WritesHeld, OpenTypes
<1>5. \A c \in Threads \ {t} : \A i \in DOMAIN mine[c] : mine[c][i] \cap W = {}
  BY <1>2 DEF WritesHeld, OnePlace
<1>6. \A x \in W : x \in Nat /\ x < written
  BY <1>2 DEF WritesHeld, Below
<1>7. Numbered'
  BY <1>1, <1>3, <1>6 DEF Numbered
<1>8. {t} \in SUBSET Threads
  OBVIOUS
<1>. HIDE DEF W
<1>. QED
  BY <1>1, <1>2, <1>3, <1>4, <1>5, <1>7, <1>8, EmptiedHolds

LEMMA PutOutsideHolds ==
  ASSUME Numbered, WritesHeld, NEW t \in Threads, Nested!PutOutside(t)
  PROVE  WritesHeld' /\ Numbered'
<1>1. /\ committed' = committed \cup {written} /\ written' = written + 1 /\ mine' = mine
      /\ written \in Nat
  BY DEF Nested!PutOutside, Numbered
<1>2. Numbered'
  BY <1>1 DEF Numbered
<1>3. mine' = [c \in Threads |-> IF c \in {} THEN <<>> ELSE mine[c]]
  BY <1>1 DEF WritesHeld, OpenTypes
<1>4. \A c \in Threads : \A i \in DOMAIN mine[c] : mine[c][i] \cap {written} = {}
  BY <1>1 DEF WritesHeld, Below
<1>5. {} \in SUBSET Threads /\ {written} \in SUBSET Nat
  BY <1>1
<1>. QED
  BY <1>1, <1>2, <1>3, <1>4, <1>5, EmptiedHolds

LEMMA AbortAllHolds ==
  ASSUME Numbered, WritesHeld, NEW T \in SUBSET Threads, Nested!AbortAll(T)
  PROVE  WritesHeld'
<1>1. /\ committed' = committed \cup {} /\ written' = written
      /\ mine' = [c \in Threads |-> IF c \in T THEN <<>> ELSE mine[c]]
  BY DEF Nested!AbortAll
<1>2. {} \in SUBSET Nat /\ \A c \in Threads \ T : \A i \in DOMAIN mine[c] : mine[c][i] \cap {} = {}
  OBVIOUS
<1>. QED
  BY <1>1, <1>2, EmptiedHolds

LEMMA WorkHolds ==
  ASSUME Numbered, WritesHeld, Nested!Work
  PROVE  Numbered' /\ WritesHeld'
<1>1. ASSUME NEW t \in Threads,
             Nested!Begin(t) \/ Nested!PutInside(t) \/ Nested!CommitNested(t) \/ Nested!Abort(t)
      PROVE  Numbered' /\ WritesHeld'
  <2>1. committed' = committed /\ written' \in {written, written + 1}
    BY <1>1 DEF Nested!Begin, Nested!PutInside, Nested!CommitNested, Nested!Abort
  <2>2. Numbered'
    BY <2>1 DEF Numbered
  <2>. QED
    BY <1>1, <2>2, BeginHolds, PutInsideHolds, CommitNestedHolds, AbortHolds
<1>2. ASSUME NEW t \in Threads, Nested!PutOutside(t) \/ Nested!CommitOutermost(t)
      PROVE  Numbered' /\ WritesHeld'
  BY <1>2, PutOutsideHolds, CommitOutermostHolds
<1>3. ASSUME NEW T \in SUBSET Threads, Nested!AbortAll(T) PROVE Numbered' /\ WritesHeld'
  <2>1. committed' = committed /\ written' = written
    BY <1>3 DEF Nested!AbortAll
  <2>2. Numbered'
    BY <2>1 DEF Numbered
  <2>. QED
    BY <1>3, <2>2, AbortAllHolds
<1>. QED
  BY <1>1, <1>2, <1>3, Zenon DEF Nested!Work

\* The abstract connection, by itself: until it is misused nothing of an open
\* transaction is durable and no write is in two; what is durable was written, ever.
THEOREM NestedIsolation == Nested!Spec => []Nested!Isolated
<1>1. Nested!Init => IsolationInv
  <2>1. Nested!Init => Numbered
    BY DEF Nested!Init, Numbered
  <2>2. Nested!Init => WritesHeld
    BY EmptySeq DEF Nested!Init, WritesHeld, OpenTypes, Below, NotYet, OnePlace
  <2>. QED
    BY <2>1, <2>2, Zenon DEF IsolationInv
<1>2. ASSUME IsolationInv, [Nested!Next]_<<mine, committed, written, shared \/ nestedFail>>
      PROVE  IsolationInv'
  <2>1. CASE Nested!Spoil
    <3>1. Spoilt'
      BY <2>1, Zenon DEF Nested!Spoil, Spoilt
    <3>2. Numbered'
      BY <1>2, <2>1 DEF IsolationInv, Numbered, Nested!Spoil
    <3>. QED
      BY <3>1, <3>2, Zenon DEF IsolationInv
  <2>2. CASE ~(shared \/ nestedFail) /\ Nested!Work
    <3>1. Numbered /\ WritesHeld
      BY <1>2, <2>2, Zenon DEF IsolationInv, Spoilt
    <3>. QED
      BY <2>2, <3>1, WorkHolds, Zenon DEF IsolationInv
  <2>3. CASE UNCHANGED <<mine, committed, written, shared \/ nestedFail>>
    <3>1. /\ mine' = mine /\ committed' = committed /\ written' = written
          /\ (shared \/ nestedFail)' = (shared \/ nestedFail)
      BY <2>3
    <3>2. Spoilt' => Spoilt
      BY <3>1, Zenon DEF Spoilt
    <3>3. Spoilt => Spoilt'
      BY <3>1, Zenon DEF Spoilt
    <3>4. Numbered' = Numbered /\ WritesHeld' = WritesHeld
      BY <3>1 DEF Numbered, WritesHeld, OpenTypes, Below, NotYet, OnePlace
    <3>. QED
      BY <1>2, <3>2, <3>3, <3>4, Zenon DEF IsolationInv
  <2>. QED
    BY <1>2, <2>1, <2>2, <2>3, Zenon DEF Nested!Next
<1>3. IsolationInv => Nested!Isolated
  <2>. SUFFICES ASSUME IsolationInv PROVE Nested!Isolated
    OBVIOUS
  <2>1. committed \subseteq 0 .. written - 1
    BY DEF IsolationInv, Numbered
  <2>2. ~(shared \/ nestedFail) => NotYet /\ OnePlace
    BY Zenon DEF IsolationInv, Spoilt, WritesHeld
  <2>. QED
    BY <2>1, <2>2, Zenon DEF Nested!Isolated, NotYet, OnePlace
<1>. QED
  BY <1>1, <1>2, <1>3, PTL DEF Nested!Spec, Nested!nvars

-----------------------------------------------------------------------------
(***************************************************************************)
(* Converters.  A pipeline is run a stage at a time: the WHERE keeps the   *)
(* same rows on both sides, the groups are the same and their aggregates   *)
(* the same numbers, a sort that sees the same keys moves the rows alike,  *)
(* and a limit cuts both alike.  The lists of the two sides stay Alike: of *)
(* one length, with the same numbers under the names of the SELECT.        *)
(***************************************************************************)

(***************************************************************************)
(* Ranking.  A finite set under a total order is a list: the n-th of it is *)
(* the one that n - 1 others come before.                                  *)
(***************************************************************************)
Preceding(F, R, i) == {j \in F : <<j, i>> \in R}
RankOf(F, R, i) == Cardinality(Preceding(F, R, i))
Ordering(F, R) ==
  /\ \A i \in F : <<i, i>> \notin R
  /\ \A i, j \in F : i # j => <<i, j>> \in R \/ <<j, i>> \in R
  /\ \A i, j, k \in F : <<i, j>> \in R /\ <<j, k>> \in R => <<i, k>> \in R

LEMMA PlacesRise ==
  ASSUME NEW F, IsFiniteSet(F), NEW R, Ordering(F, R)
  PROVE  /\ \A i \in F : RankOf(F, R, i) \in 0 .. (Cardinality(F) - 1)
         /\ \A i, j \in F : <<i, j>> \in R => RankOf(F, R, i) < RankOf(F, R, j)
<1>. DEFINE c == Cardinality(F)
<1>1. c \in Nat
  BY FS_CardinalityType
<1>2. \A i, j : j \in Preceding(F, R, i) <=> j \in F /\ <<j, i>> \in R
  BY Zenon DEF Preceding
<1>3. \A i : Preceding(F, R, i) \in SUBSET F
  BY <1>2, Zenon
<1>4. \A i : /\ IsFiniteSet(Preceding(F, R, i)) /\ RankOf(F, R, i) \in Nat /\ RankOf(F, R, i) <= c
             /\ c = RankOf(F, R, i) => F = Preceding(F, R, i)
  BY <1>3, FS_Subset, FS_CardinalityType DEF RankOf
<1>5. \A i \in F : RankOf(F, R, i) \in 0 .. (c - 1)
  <2>. TAKE i \in F
  <2>1. i \notin Preceding(F, R, i)
    BY <1>2, Zenon DEF Ordering
  <2>2. RankOf(F, R, i) # c
    BY <1>4, <2>1, Zenon
  <2>. QED
    BY <1>1, <1>4, <2>2
<1>6. ASSUME NEW i \in F, NEW j \in F, <<i, j>> \in R PROVE RankOf(F, R, i) < RankOf(F, R, j)
  <2>1. Preceding(F, R, i) \in SUBSET Preceding(F, R, j)
    BY <1>2, <1>6, Zenon DEF Ordering
  <2>2. i \in Preceding(F, R, j) /\ i \notin Preceding(F, R, i)
    BY <1>2, <1>6, Zenon DEF Ordering
  <2>3. Preceding(F, R, j) # Preceding(F, R, i)
    BY <2>2, Zenon
  <2>4. /\ RankOf(F, R, i) <= RankOf(F, R, j)
        /\ RankOf(F, R, j) = RankOf(F, R, i) => Preceding(F, R, j) = Preceding(F, R, i)
    BY <1>4, <2>1, FS_Subset DEF RankOf
  <2>. QED
    BY <1>4, <2>3, <2>4
<1>. QED
  BY <1>5, <1>6, Zenon

LEMMA RankedIs ==
  ASSUME NEW F, IsFiniteSet(F), NEW R, Ordering(F, R), NEW c, c = Cardinality(F)
  PROVE  /\ c \in Nat /\ Ranked(F, R) \in [1 .. c -> F]
         /\ \A i \in F : \E n \in 1 .. c : Ranked(F, R)[n] = i
         /\ \A n, m \in 1 .. c : n < m => Ranked(F, R)[n] # Ranked(F, R)[m]
                                          /\ <<Ranked(F, R)[m], Ranked(F, R)[n]>> \notin R
<1>. DEFINE place == [i \in F |-> RankOf(F, R, i)]
            at(n) == CHOOSE i \in F : RankOf(F, R, i) = n - 1
<1>1. c \in Nat
  BY FS_CardinalityType
<1>2. /\ \A i \in F : RankOf(F, R, i) \in 0 .. (c - 1)
      /\ \A i, j \in F : <<i, j>> \in R => RankOf(F, R, i) < RankOf(F, R, j)
  BY PlacesRise, Zenon
<1>3. \A i, j \in F : RankOf(F, R, i) = RankOf(F, R, j) => i = j
  <2>1. \A i, j \in F : RankOf(F, R, i) = RankOf(F, R, j) => <<i, j>> \notin R
    BY <1>1, <1>2
  <2>. QED
    BY <2>1, Zenon DEF Ordering
<1>4. place \in Injection(F, 0 .. (c - 1))
  <2>1. place \in [F -> 0 .. (c - 1)]
    BY <1>2, Zenon
  <2>2. \A i, j \in F : place[i] = place[j] => i = j
    BY <1>3
  <2>. HIDE DEF place
  <2>. QED
    BY <2>1, <2>2, Zenon DEF Injection, IsInjective
<1>5. IsFiniteSet(0 .. (c - 1)) /\ Cardinality(0 .. (c - 1)) = c
  <2>1. 0 \in Int /\ c - 1 \in Int
    BY <1>1
  <2>2. IsFiniteSet(0 .. (c - 1)) /\ Cardinality(0 .. (c - 1)) = IF 0 > c - 1 THEN 0 ELSE c - 1 - 0 + 1
    BY <2>1, FS_Interval, Zenon
  <2>. QED
    BY <1>1, <2>2
<1>6. \A n \in 1 .. c : \E i \in F : RankOf(F, R, i) = n - 1
  <2>. TAKE n \in 1 .. c
  <2>1. n - 1 \in 0 .. (c - 1)
    BY <1>1
  <2>2. \A i \in F : place[i] = RankOf(F, R, i)
    BY Zenon
  <2>. HIDE DEF place
  <2>3. place \in Surjection(F, 0 .. (c - 1))
    BY <1>4, <1>5, FS_Injection, Zenon
  <2>4. \E i \in F : place[i] = n - 1
    BY <2>1, <2>3, Zenon DEF Surjection
  <2>. QED
    BY <2>2, <2>4, Zenon
<1>7. \A n \in 1 .. c : at(n) \in F /\ RankOf(F, R, at(n)) = n - 1
  BY <1>6, Zenon
<1>8. Ranked(F, R) = [n \in 1 .. c |-> at(n)]
  BY Zenon DEF Ranked, RankOf, Preceding
<1>. HIDE DEF at, place
<1>9. \A n \in 1 .. c : Ranked(F, R)[n] = at(n)
  BY <1>8, Zenon
<1>10. Ranked(F, R) \in [1 .. c -> F]
  BY <1>7, <1>8, Zenon
<1>11. ASSUME NEW i \in F PROVE \E n \in 1 .. c : Ranked(F, R)[n] = i
  <2>. DEFINE n == RankOf(F, R, i) + 1
  <2>1. n \in 1 .. c /\ n - 1 = RankOf(F, R, i)
    BY <1>1, <1>2
  <2>. HIDE DEF n
  <2>2. at(n) \in F /\ RankOf(F, R, at(n)) = RankOf(F, R, i)
    BY <1>7, <2>1
  <2>3. at(n) = i
    BY <1>3, <2>2, Zenon
  <2>. QED
    BY <1>9, <2>1, <2>3, Zenon
<1>12. ASSUME NEW n \in 1 .. c, NEW m \in 1 .. c, n < m
       PROVE  Ranked(F, R)[n] # Ranked(F, R)[m] /\ <<Ranked(F, R)[m], Ranked(F, R)[n]>> \notin R
  <2>1. /\ at(n) \in F /\ RankOf(F, R, at(n)) = n - 1
        /\ at(m) \in F /\ RankOf(F, R, at(m)) = m - 1
    BY <1>7, Zenon
  <2>2. ~(RankOf(F, R, at(m)) < RankOf(F, R, at(n))) /\ RankOf(F, R, at(m)) # RankOf(F, R, at(n))
    BY <1>12, <2>1
  <2>3. at(n) # at(m) /\ <<at(m), at(n)>> \notin R
    BY <1>2, <2>1, <2>2, Zenon
  <2>. QED
    BY <1>9, <2>3, Zenon
<1>. QED
  BY <1>1, <1>10, <1>11, <1>12, Zenon

LEMMA CountTo ==
  ASSUME NEW n \in Nat
  PROVE  IsFiniteSet(1 .. n) /\ Cardinality(1 .. n) = n
<1>1. 1 \in Int /\ n \in Int
  OBVIOUS
<1>2. IsFiniteSet(1 .. n) /\ Cardinality(1 .. n) = IF 1 > n THEN 0 ELSE n - 1 + 1
  BY <1>1, FS_Interval, Zenon
<1>. QED
  BY <1>2

\* What Pick returns: the elements at some places, one for each.
LEMMA PickIs ==
  ASSUME NEW T, NEW s \in Seq(T), NEW F \in SUBSET (DOMAIN s)
  PROVE  /\ Pick(s, F) \in Seq(T)
         /\ \A n \in 1 .. Len(Pick(s, F)) : \E i \in F : Pick(s, F)[n] = s[i]
         /\ \A i \in F : \E n \in 1 .. Len(Pick(s, F)) : Pick(s, F)[n] = s[i]
<1>. DEFINE R == {p \in F \X F : p[1] < p[2]}
            at == Ranked(F, R)
            c == Cardinality(F)
            t == Pick(s, F)
<1>1. Len(s) \in Nat /\ DOMAIN s = 1 .. Len(s) /\ \A i \in DOMAIN s : s[i] \in T
  BY LenProperties, ElementOfSeq
<1>2. IsFiniteSet(F)
  <2>1. IsFiniteSet(1 .. Len(s))
    BY <1>1, CountTo
  <2>. QED
    BY <1>1, <2>1, FS_Subset
<1>3. Ordering(F, R)
  <2>1. \A i \in F : i \in Nat
    BY <1>1
  <2>2. \A i, j \in F : <<i, j>> \in R <=> i < j
    OBVIOUS
  <2>. HIDE DEF R
  <2>. QED
    BY <2>1, <2>2 DEF Ordering
<1>4. /\ c \in Nat /\ at \in [1 .. c -> F]
      /\ \A i \in F : \E n \in 1 .. c : at[n] = i
  <2>. HIDE DEF R
  <2>. QED
    BY <1>2, <1>3, RankedIs
<1>5. t = [n \in DOMAIN at |-> s[at[n]]]
  BY Zenon DEF Pick
<1>. HIDE DEF R, at, c, t
<1>6. DOMAIN at = 1 .. c
  BY <1>4
<1>7. t = [n \in 1 .. c |-> s[at[n]]]
  BY <1>5, <1>6, Zenon
<1>8. \A n \in 1 .. c : at[n] \in F /\ s[at[n]] \in T /\ t[n] = s[at[n]]
  BY <1>1, <1>4, <1>7
<1>9. t \in Seq(T) /\ Len(t) = c
  <2>1. t \in [1 .. c -> T]
    BY <1>7, <1>8
  <2>. QED
    BY <1>4, <2>1
<1>. QED
  BY <1>4, <1>8, <1>9 DEF t

\* In its own order a list is ranked as it stands.
InPlace(n) == {p \in (1 .. n) \X (1 .. n) : p[1] < p[2]}

LEMMA RankedInPlace ==
  ASSUME NEW n \in Nat
  PROVE  Ranked(1 .. n, InPlace(n)) = [k \in 1 .. n |-> k]
<1>. DEFINE F == 1 .. n
            at == Ranked(F, InPlace(n))
            below(i) == {j \in F : <<j, i>> \in InPlace(n)}
<1>1. Cardinality(F) = n
  BY CountTo
<1>2. \A i \in F : Cardinality(below(i)) = i - 1
  <2>. TAKE i \in F
  <2>1. below(i) = 1 .. (i - 1) /\ i - 1 \in Nat
    BY DEF InPlace
  <2>. QED
    BY <2>1, CountTo
<1>3. at = [k \in 1 .. n |-> CHOOSE i \in F : Cardinality(below(i)) = k - 1]
  BY <1>1, Zenon DEF Ranked
<1>. HIDE DEF below
<1>4. \A k \in 1 .. n : at[k] = k
  <2>. TAKE k \in 1 .. n
  <2>1. at[k] = CHOOSE i \in F : Cardinality(below(i)) = k - 1
    BY <1>3, Zenon
  <2>2. k \in F /\ Cardinality(below(k)) = k - 1
    BY <1>2
  <2>3. at[k] \in F /\ Cardinality(below(at[k])) = k - 1
    BY <2>1, <2>2, Zenon
  <2>4. Cardinality(below(at[k])) = at[k] - 1
    BY <1>2, <2>3, Zenon
  <2>. QED
    BY <2>3, <2>4
<1>5. at = [k \in 1 .. n |-> at[k]]
  BY <1>3, Zenon
<1>. HIDE DEF at
<1>6. [k \in 1 .. n |-> at[k]] = [k \in 1 .. n |-> k]
  BY <1>4, Zenon
<1>. QED
  BY <1>5, <1>6, Zenon DEF at

\* Where all are picked, nothing changes.
LEMMA PickAll ==
  ASSUME NEW T, NEW s \in Seq(T)
  PROVE  Pick(s, DOMAIN s) = s
<1>. DEFINE n == Len(s)
            at == Ranked(1 .. n, InPlace(n))
<1>1. n \in Nat /\ DOMAIN s = 1 .. n
  BY LenProperties
<1>2. Pick(s, 1 .. n) = [k \in DOMAIN at |-> s[at[k]]]
  BY Zenon DEF Pick, InPlace
<1>. HIDE DEF n
<1>3. at = [k \in 1 .. n |-> k]
  BY <1>1, RankedInPlace
<1>. HIDE DEF at
<1>4. DOMAIN at = 1 .. n /\ \A k \in 1 .. n : at[k] = k
  BY <1>3
<1>5. Pick(s, 1 .. n) = [k \in 1 .. n |-> s[k]]
  BY <1>2, <1>4, Zenon
<1>6. s = [k \in 1 .. n |-> s[k]]
  BY <1>1
<1>. QED
  BY <1>1, <1>5, <1>6

-----------------------------------------------------------------------------
(* Rows and groups.                                                        *)
Full == [Fields -> Int]

\* The longest chain there is of a fold of stages: there is one of any length.
Runs(stages, rs, n, it) == it = [k \in 0 .. n |-> IF k = 0 THEN rs ELSE Run(stages[k], it[k - 1])]

LEMMA RunsAt ==
  ASSUME NEW stages, NEW rs, NEW n, NEW it, Runs(stages, rs, n, it), NEW k \in 0 .. n
  PROVE  it[k] = IF k = 0 THEN rs ELSE Run(stages[k], it[k - 1])
BY Zenon DEF Runs

LEMMA RunsExist ==
  ASSUME NEW stages, NEW rs, NEW n \in Nat
  PROVE  \E it : Runs(stages, rs, n, it)
<1>. DEFINE T == {k \in Nat : ~ \E it : Runs(stages, rs, k, it)}
<1>1. SUFFICES ASSUME n \in T PROVE FALSE
  BY Zenon
<1>2. PICK k \in T : \A j \in T : k <= j
  <2>1. T \subseteq Nat /\ T # {}
    BY <1>1
  <2>. HIDE DEF T
  <2>. QED
    BY <2>1, Least
<1>3. k \in Nat /\ ~ \E it : Runs(stages, rs, k, it)
  OBVIOUS
<1>4. CASE k = 0
  <2>. DEFINE it == [j \in 0 .. 0 |-> rs]
  <2>1. \A j \in 0 .. 0 : j = 0
    OBVIOUS
  <2>2. it = [j \in 0 .. 0 |-> IF j = 0 THEN rs ELSE Run(stages[j], it[j - 1])]
    BY <2>1, Zenon
  <2>. HIDE DEF it
  <2>. QED
    BY <1>3, <1>4, <2>2, Zenon DEF Runs
<1>5. CASE k # 0
  <2>1. k - 1 \in Nat /\ k - 1 \notin T
    BY <1>2, <1>3, <1>5
  <2>2. PICK it : Runs(stages, rs, k - 1, it)
    BY <2>1, Zenon
  <2>. DEFINE more == [j \in 0 .. k |-> IF j = k THEN Run(stages[k], it[k - 1]) ELSE it[j]]
              next == [j \in 0 .. k |-> IF j = 0 THEN rs ELSE Run(stages[j], more[j - 1])]
  <2>3. \A j \in 0 .. k : j # k => j \in 0 .. (k - 1)
    BY <1>3
  <2>4. \A j \in 0 .. k : j # 0 => j - 1 \in 0 .. k /\ j - 1 # k
    BY <1>3
  <2>5. ASSUME NEW j \in 0 .. k PROVE more[j] = next[j]
    <3>1. j # 0 => more[j - 1] = it[j - 1]
      BY <2>4, Zenon
    <3>2. next[j] = IF j = 0 THEN rs ELSE Run(stages[j], more[j - 1])
      BY Zenon
    <3>3. more[j] = IF j = k THEN Run(stages[k], it[k - 1]) ELSE it[j]
      BY Zenon
    <3>4. j # k => it[j] = IF j = 0 THEN rs ELSE Run(stages[j], it[j - 1])
      BY <2>2, <2>3, Zenon DEF Runs
    <3>. HIDE DEF more, next
    <3>. QED
      BY <1>5, <3>1, <3>2, <3>3, <3>4, Zenon
  <2>6. more = next
    <3>1. next = [j \in 0 .. k |-> more[j]]
      BY <2>5, Zenon
    <3>2. more = [j \in 0 .. k |-> more[j]]
      BY Zenon
    <3>. QED
      BY <3>1, <3>2, Zenon
  <2>. QED
    BY <1>3, <2>6, Zenon DEF Runs
<1>. QED
  BY <1>4, <1>5

LEMMA RunAllIs ==
  ASSUME NEW stages, Len(stages) \in Nat, NEW rs
  PROVE  \E it : Runs(stages, rs, Len(stages), it) /\ RunAll(stages, rs) = it[Len(stages)]
<1>. DEFINE n == Len(stages)
            after == CHOOSE it : it = [k \in 0 .. n |-> IF k = 0 THEN rs ELSE Run(stages[k], it[k - 1])]
<1>1. \E it : it = [k \in 0 .. n |-> IF k = 0 THEN rs ELSE Run(stages[k], it[k - 1])]
  <2>1. \E it : Runs(stages, rs, n, it)
    BY RunsExist
  <2>. QED
    BY <2>1, Zenon DEF Runs
<1>2. after = [k \in 0 .. n |-> IF k = 0 THEN rs ELSE Run(stages[k], after[k - 1])]
  BY <1>1, Zenon
<1>3. RunAll(stages, rs) = after[n]
  BY Zenon DEF RunAll
<1>. HIDE DEF after
<1>. QED
  BY <1>2, <1>3, Zenon DEF Runs

LEMMA RunNothing ==
  ASSUME NEW rs
  PROVE  RunAll(<<>>, rs) = rs
<1>1. Len(<<>>) = 0 /\ 0 \in Nat /\ 0 \in 0 .. 0
  OBVIOUS
<1>2. PICK it : Runs(<<>>, rs, 0, it) /\ RunAll(<<>>, rs) = it[0]
  BY <1>1, RunAllIs
<1>. QED
  BY <1>1, <1>2, Zenon DEF Runs

\* Runs of the same stages agree.
LEMMA RunsAgree ==
  ASSUME NEW stages, NEW more, NEW rs, NEW n \in Nat, NEW m \in Nat, n <= m,
         \A k \in 1 .. n : stages[k] = more[k],
         NEW it, Runs(stages, rs, n, it), NEW jt, Runs(more, rs, m, jt)
  PROVE  it[n] = jt[n]
<1>. DEFINE T == {k \in 0 .. n : it[k] # jt[k]}
<1>1. SUFFICES ASSUME n \in T PROVE FALSE
  <2>1. n \in 0 .. n
    OBVIOUS
  <2>. QED
    BY <2>1, Zenon
<1>2. PICK k \in T : \A j \in T : k <= j
  <2>1. T \subseteq Nat /\ T # {}
    BY <1>1
  <2>. HIDE DEF T
  <2>. QED
    BY <2>1, Least
<1>3. k \in 0 .. n /\ k \in 0 .. m /\ it[k] # jt[k]
  OBVIOUS
<1>4. /\ it[k] = IF k = 0 THEN rs ELSE Run(stages[k], it[k - 1])
      /\ jt[k] = IF k = 0 THEN rs ELSE Run(more[k], jt[k - 1])
  BY <1>3, Zenon DEF Runs
<1>5. k # 0
  BY <1>3, <1>4, Zenon
<1>6. k \in 1 .. n /\ k - 1 \in 0 .. n /\ ~(k <= k - 1)
  BY <1>3, <1>5
<1>7. it[k - 1] = jt[k - 1]
  BY <1>2, <1>6, Zenon
<1>8. stages[k] = more[k]
  BY <1>6
<1>. QED
  BY <1>3, <1>4, <1>7, <1>8, Zenon

LEMMA RunOneMore ==
  ASSUME NEW S, NEW stages \in Seq(S), NEW s \in S, NEW rs
  PROVE  RunAll(Append(stages, s), rs) = Run(s, RunAll(stages, rs))
<1>. DEFINE n == Len(stages)
            more == Append(stages, s)
            m == Len(more)
<1>1. /\ n \in Nat /\ m \in Nat /\ m - 1 = n /\ m \in 0 .. m /\ m # 0 /\ n <= m /\ more[m] = s
      /\ \A k \in 1 .. n : stages[k] = more[k]
  BY LenProperties
<1>2. PICK it : Runs(stages, rs, n, it) /\ RunAll(stages, rs) = it[n]
  BY <1>1, RunAllIs
<1>3. PICK jt : Runs(more, rs, m, jt) /\ RunAll(more, rs) = jt[m]
  BY <1>1, RunAllIs
<1>. HIDE DEF n, m, more
<1>4. it[n] = jt[n]
  BY <1>1, <1>2, <1>3, RunsAgree
<1>5. jt[m] = Run(more[m], jt[m - 1])
  BY <1>1, <1>3, RunsAt
<1>. QED
  BY <1>1, <1>2, <1>3, <1>4, <1>5, Zenon DEF more

-----------------------------------------------------------------------------
(* Sorting by several keys is a total order of the places of the rows: the *)
(* keys of a row are compared like the letters of a word.                  *)
Ahead(down, x, y) == IF down THEN y < x ELSE x < y
Lex(a, b, down, m) ==
  \E k \in 1 .. m : (\A j \in 1 .. (k - 1) : a[j] = b[j]) /\ Ahead(down[k], a[k], b[k])

LEMMA LexIsOneWay ==
  ASSUME NEW m \in Nat, NEW a \in [1 .. m -> Int], NEW b \in [1 .. m -> Int], NEW down
  PROVE  ~(Lex(a, b, down, m) /\ Lex(b, a, down, m))
<1>. SUFFICES ASSUME Lex(a, b, down, m), Lex(b, a, down, m) PROVE FALSE
  OBVIOUS
<1>1. PICK k \in 1 .. m : (\A j \in 1 .. (k - 1) : a[j] = b[j]) /\ Ahead(down[k], a[k], b[k])
  BY Zenon DEF Lex
<1>2. PICK l \in 1 .. m : (\A j \in 1 .. (l - 1) : b[j] = a[j]) /\ Ahead(down[l], b[l], a[l])
  BY Zenon DEF Lex
<1>3. k \in Int /\ l \in Int /\ a[k] \in Int /\ b[k] \in Int /\ a[l] \in Int /\ b[l] \in Int
  OBVIOUS
<1>4. a[k] # b[k] /\ a[l] # b[l]
  BY <1>1, <1>2, <1>3 DEF Ahead
<1>5. ~(k < l) /\ ~(l < k)
  BY <1>1, <1>2, <1>3, <1>4
<1>6. k = l
  BY <1>3, <1>5
<1>. QED
  BY <1>1, <1>2, <1>3, <1>6 DEF Ahead

LEMMA LexGoesOn ==
  ASSUME NEW m \in Nat, NEW a \in [1 .. m -> Int], NEW b \in [1 .. m -> Int], NEW c \in [1 .. m -> Int],
         NEW down, Lex(a, b, down, m), Lex(b, c, down, m)
  PROVE  Lex(a, c, down, m)
<1>1. PICK k \in 1 .. m : (\A j \in 1 .. (k - 1) : a[j] = b[j]) /\ Ahead(down[k], a[k], b[k])
  BY Zenon DEF Lex
<1>2. PICK l \in 1 .. m : (\A j \in 1 .. (l - 1) : b[j] = c[j]) /\ Ahead(down[l], b[l], c[l])
  BY Zenon DEF Lex
<1>3. /\ k \in Int /\ l \in Int /\ a[k] \in Int /\ b[k] \in Int /\ c[k] \in Int
      /\ a[l] \in Int /\ b[l] \in Int /\ c[l] \in Int
  OBVIOUS
<1>4. CASE k <= l
  <2>1. \A j \in 1 .. (k - 1) : j \in 1 .. (l - 1)
    BY <1>3, <1>4
  <2>2. \A j \in 1 .. (k - 1) : a[j] = c[j]
    BY <1>1, <1>2, <2>1
  <2>3. Ahead(down[k], a[k], c[k])
    <3>1. CASE k = l
      BY <1>1, <1>2, <1>3, <3>1 DEF Ahead
    <3>2. CASE k # l
      <4>1. k \in 1 .. (l - 1)
        BY <1>3, <1>4, <3>2
      <4>2. b[k] = c[k]
        BY <1>2, <4>1
      <4>. QED
        BY <1>1, <4>2
    <3>. QED
      BY <3>1, <3>2
  <2>. QED
    BY <2>2, <2>3, Zenon DEF Lex
<1>5. CASE l < k
  <2>1. l \in 1 .. (k - 1) /\ \A j \in 1 .. (l - 1) : j \in 1 .. (k - 1)
    BY <1>3, <1>5
  <2>2. \A j \in 1 .. (l - 1) : a[j] = c[j]
    BY <1>1, <1>2, <2>1
  <2>3. a[l] = b[l]
    BY <1>1, <2>1
  <2>4. Ahead(down[l], a[l], c[l])
    BY <1>2, <2>3
  <2>. QED
    BY <2>2, <2>4, Zenon DEF Lex
<1>. QED
  BY <1>3, <1>4, <1>5

LEMMA LexDecides ==
  ASSUME NEW m \in Nat, NEW a \in [1 .. m -> Int], NEW b \in [1 .. m -> Int], NEW down, a # b
  PROVE  Lex(a, b, down, m) \/ Lex(b, a, down, m)
<1>. DEFINE T == {k \in 1 .. m : a[k] # b[k]}
<1>1. PICK k \in T : \A j \in T : k <= j
  <2>1. T # {}
    OBVIOUS
  <2>2. T \subseteq Nat
    OBVIOUS
  <2>. HIDE DEF T
  <2>. QED
    BY <2>1, <2>2, Least
<1>2. k \in 1 .. m /\ a[k] # b[k] /\ a[k] \in Int /\ b[k] \in Int
  OBVIOUS
<1>3. \A j \in 1 .. (k - 1) : a[j] = b[j]
  <2>. TAKE j \in 1 .. (k - 1)
  <2>1. j \in 1 .. m /\ ~(k <= j)
    BY <1>2
  <2>. QED
    BY <1>1, <2>1
<1>4. Ahead(down[k], a[k], b[k]) \/ Ahead(down[k], b[k], a[k])
  BY <1>2 DEF Ahead
<1>. QED
  BY <1>2, <1>3, <1>4, Zenon DEF Lex

\* Rows whose keys are numbers, and how Before compares them.
Keyed(rs, keys) ==
  /\ Len(rs) \in Nat /\ DOMAIN rs = 1 .. Len(rs) /\ Len(keys) \in Nat /\ DOMAIN keys = 1 .. Len(keys)
  /\ \A i \in DOMAIN rs : \A k \in DOMAIN keys : Get(rs[i], keys[k].col) \in Int
KeysOf(r, keys) == [k \in DOMAIN keys |-> Get(r, keys[k].col)]
Down(keys) == [k \in DOMAIN keys |-> keys[k].desc]

LEMMA BeforeIsLex ==
  ASSUME NEW rs, NEW keys, Keyed(rs, keys), NEW i \in DOMAIN rs, NEW j \in DOMAIN rs
  PROVE  /\ KeysOf(rs[i], keys) \in [1 .. Len(keys) -> Int]
         /\ Before(rs[i], rs[j], keys) <=>
              Lex(KeysOf(rs[i], keys), KeysOf(rs[j], keys), Down(keys), Len(keys))
<1>. DEFINE a == KeysOf(rs[i], keys)
            b == KeysOf(rs[j], keys)
            m == Len(keys)
            x(k) == Get(rs[i], keys[k].col)
            y(k) == Get(rs[j], keys[k].col)
<1>1. m \in Nat /\ DOMAIN keys = 1 .. m /\ \A k \in 1 .. m : x(k) \in Int /\ y(k) \in Int
  BY Zenon DEF Keyed
<1>2. \A k \in 1 .. m : a[k] = x(k) /\ b[k] = y(k) /\ Down(keys)[k] = keys[k].desc
  BY <1>1, Zenon DEF KeysOf, Down
<1>3. a \in [1 .. m -> Int]
  BY <1>1, Zenon DEF KeysOf
<1>4. NULL \notin Int
  BY ConvertersAssumption
<1>5. \A k \in 1 .. m : (Less(x(k), y(k)) <=> x(k) < y(k)) /\ (Less(y(k), x(k)) <=> y(k) < x(k))
  BY <1>1, <1>4, Zenon DEF Less
<1>6. \A k \in 1 .. m : (IF keys[k].desc THEN Less(y(k), x(k)) ELSE Less(x(k), y(k)))
                        <=> Ahead(Down(keys)[k], a[k], b[k])
  BY <1>2, <1>5, Zenon DEF Ahead
<1>7. \A k \in 1 .. m : (\A j1 \in 1 .. (k - 1) : x(j1) = y(j1)) <=> \A j1 \in 1 .. (k - 1) : a[j1] = b[j1]
  <2>. TAKE k \in 1 .. m
  <2>1. \A j1 \in 1 .. (k - 1) : j1 \in 1 .. m
    BY <1>1
  <2>. QED
    BY <1>2, <2>1, Zenon
<1>8. Before(rs[i], rs[j], keys) <=> \E k \in 1 .. m : /\ \A j1 \in 1 .. (k - 1) : x(j1) = y(j1)
                                     /\ IF keys[k].desc THEN Less(y(k), x(k)) ELSE Less(x(k), y(k))
  BY <1>1, Zenon DEF Before
<1>. HIDE DEF x, y, a, b, m
<1>9. Before(rs[i], rs[j], keys) <=> \E k \in 1 .. m : (\A j1 \in 1 .. (k - 1) : a[j1] = b[j1])
                                                      /\ Ahead(Down(keys)[k], a[k], b[k])
  BY <1>6, <1>7, <1>8, Zenon
<1>10. Before(rs[i], rs[j], keys) <=> Lex(a, b, Down(keys), m)
  BY <1>9, Zenon DEF Lex
<1>. QED
  BY <1>3, <1>10, Zenon DEF a, b, m

SortOrder(rs, keys) ==
  {p \in (DOMAIN rs) \X (DOMAIN rs) : \/ Before(rs[p[1]], rs[p[2]], keys)
                                      \/ ~Before(rs[p[2]], rs[p[1]], keys) /\ p[1] < p[2]}

LEMMA SortIsTotal ==
  ASSUME NEW rs, NEW keys, Keyed(rs, keys)
  PROVE  Ordering(DOMAIN rs, SortOrder(rs, keys))
<1>. DEFINE D == DOMAIN rs
            R == SortOrder(rs, keys)
            m == Len(keys)
            w(i) == KeysOf(rs[i], keys)
            lex(i, j) == Lex(w(i), w(j), Down(keys), m)
<1>1. m \in Nat /\ \A i \in D : i \in Nat
  BY DEF Keyed
<1>2. \A i \in D : w(i) \in [1 .. m -> Int]
  BY BeforeIsLex
<1>3. \A i, j \in D : Before(rs[i], rs[j], keys) <=> lex(i, j)
  BY BeforeIsLex, Zenon
<1>4. \A i, j \in D : <<i, j>> \in R <=> lex(i, j) \/ (~lex(j, i) /\ i < j)
  <2>. TAKE i, j \in D
  <2>1. <<i, j>> \in R <=> Before(rs[i], rs[j], keys) \/ (~Before(rs[j], rs[i], keys) /\ i < j)
    BY DEF SortOrder
  <2>. QED
    BY <1>3, <2>1, Zenon
<1>5. \A i, j \in D : ~(lex(i, j) /\ lex(j, i)) /\ (~lex(i, j) /\ ~lex(j, i) => w(i) = w(j))
  <2>. TAKE i, j \in D
  <2>. HIDE DEF w, m
  <2>1. w(i) \in [1 .. m -> Int] /\ w(j) \in [1 .. m -> Int]
    BY <1>2
  <2>. QED
    BY <1>1, <2>1, LexIsOneWay, LexDecides
<1>6. \A i, j, k \in D : lex(i, j) /\ lex(j, k) => lex(i, k)
  <2>. TAKE i, j, k \in D
  <2>. HIDE DEF w, m
  <2>1. w(i) \in [1 .. m -> Int] /\ w(j) \in [1 .. m -> Int] /\ w(k) \in [1 .. m -> Int]
    BY <1>2
  <2>. QED
    BY <1>1, <2>1, LexGoesOn
<1>7. \A i, j \in D : w(i) = w(j) => \A k \in D : (lex(i, k) <=> lex(j, k)) /\ (lex(k, i) <=> lex(k, j))
  OBVIOUS
<1>. HIDE DEF w, lex, R, D, m
<1>8. \A i \in D : <<i, i>> \notin R
  BY <1>1, <1>4, <1>5
<1>9. \A i, j \in D : i # j => <<i, j>> \in R \/ <<j, i>> \in R
  BY <1>1, <1>4, <1>5
<1>10. \A i, j, k \in D : <<i, j>> \in R /\ <<j, k>> \in R => <<i, k>> \in R
  <2>. SUFFICES ASSUME NEW i \in D, NEW j \in D, NEW k \in D, <<i, j>> \in R, <<j, k>> \in R
                PROVE  <<i, k>> \in R
    OBVIOUS
  <2>1. (lex(i, j) \/ (~lex(j, i) /\ i < j)) /\ (lex(j, k) \/ (~lex(k, j) /\ j < k))
    BY <1>4
  <2>2. i < j /\ j < k => i < k
    BY <1>1
  <2>3. lex(i, k) \/ (~lex(k, i) /\ i < k)
    <3>1. CASE lex(i, j) /\ lex(j, k)
      BY <1>6, <3>1, Zenon
    <3>2. CASE lex(i, j) /\ ~lex(j, k)
      <4>1. w(j) = w(k)
        BY <1>5, <2>1, <3>2, Zenon
      <4>. QED
        BY <1>7, <3>2, <4>1, Zenon
    <3>3. CASE ~lex(i, j) /\ lex(j, k)
      <4>1. w(i) = w(j)
        BY <1>5, <2>1, <3>3, Zenon
      <4>. QED
        BY <1>7, <3>3, <4>1, Zenon
    <3>4. CASE ~lex(i, j) /\ ~lex(j, k)
      <4>1. w(i) = w(j) /\ w(j) = w(k)
        BY <1>5, <2>1, <3>4, Zenon
      <4>2. ~lex(k, i)
        BY <1>7, <2>1, <3>4, <4>1, Zenon
      <4>. QED
        BY <2>1, <2>2, <3>4, <4>2, Zenon
    <3>. QED
      BY <3>1, <3>2, <3>3, <3>4, Zenon
  <2>. QED
    BY <1>4, <2>3, Zenon
<1>. QED
  BY <1>8, <1>9, <1>10, Zenon DEF Ordering, D, R

\* Two lists whose keys are the same at each place are sorted alike.
SameKeys(rs, ss, keys) ==
  \A i \in DOMAIN rs : \A k \in DOMAIN keys : Get(rs[i], keys[k].col) = Get(ss[i], keys[k].col)
MovedAlike(rs, ss, keys) ==
  \E at \in [1 .. Len(rs) -> 1 .. Len(rs)] : /\ Sorted(rs, keys) = [n \in 1 .. Len(rs) |-> rs[at[n]]]
                                            /\ Sorted(ss, keys) = [n \in 1 .. Len(rs) |-> ss[at[n]]]

LEMMA SortsAlike ==
  ASSUME NEW rs, NEW ss, NEW keys, Keyed(rs, keys), Keyed(ss, keys), Len(rs) = Len(ss), SameKeys(rs, ss, keys)
  PROVE  MovedAlike(rs, ss, keys)
<1>. DEFINE D == DOMAIN rs
            m == Len(rs)
            R == SortOrder(rs, keys)
            at == Ranked(D, R)
<1>1. m \in Nat /\ D = 1 .. m /\ DOMAIN ss = D /\ DOMAIN keys = 1 .. Len(keys)
  BY DEF Keyed
<1>2. \A i, j \in D : Before(rs[i], rs[j], keys) <=> Before(ss[i], ss[j], keys)
  <2>. TAKE i, j \in D
  <2>1. \A k \in DOMAIN keys : Get(rs[i], keys[k].col) = Get(ss[i], keys[k].col)
                               /\ Get(rs[j], keys[k].col) = Get(ss[j], keys[k].col)
    BY Zenon DEF SameKeys
  <2>2. KeysOf(rs[i], keys) = KeysOf(ss[i], keys) /\ KeysOf(rs[j], keys) = KeysOf(ss[j], keys)
    BY <2>1, Zenon DEF KeysOf
  <2>. QED
    BY <1>1, <2>2, BeforeIsLex, Zenon
<1>3. SortOrder(ss, keys) = R
  BY <1>1, <1>2 DEF SortOrder
<1>4. Sorted(rs, keys) = [n \in DOMAIN at |-> rs[at[n]]]
  BY Zenon DEF Sorted, Places, SortOrder
<1>5. Sorted(ss, keys) = [n \in DOMAIN at |-> ss[at[n]]]
  <2>1. Sorted(ss, keys) = [n \in DOMAIN Places(ss, keys) |-> ss[Places(ss, keys)[n]]]
    BY Zenon DEF Sorted
  <2>2. Places(ss, keys) = at
    BY <1>1, <1>3, Zenon DEF Places, SortOrder
  <2>. QED
    BY <2>1, <2>2, Zenon
<1>6. Ordering(D, R) /\ IsFiniteSet(D) /\ m = Cardinality(D)
  BY <1>1, SortIsTotal, CountTo
<1>. HIDE DEF R, D, m
<1>7. at \in [1 .. m -> D]
  BY <1>6, RankedIs
<1>. HIDE DEF at
<1>8. DOMAIN at = 1 .. m
  BY <1>7
<1>. QED
  BY <1>1, <1>4, <1>5, <1>7, <1>8, Zenon DEF m, MovedAlike

-----------------------------------------------------------------------------
(* What the clauses do with rows that are full: no field of them is NULL.  *)
LEMMA FullRows ==
  ASSUME NEW table \in Tables, \A i \in DOMAIN table : \A c \in Fields : table[i][c] # NULL
  PROVE  table \in Seq(Full)
<1>1. table \in Seq([Fields -> Values])
  BY ConvertersAssumption
<1>2. Len(table) \in Nat /\ table \in [1 .. Len(table) -> [Fields -> Values]]
  BY <1>1
<1>3. \A i \in 1 .. Len(table) : table[i] \in Full
  <2>. TAKE i \in 1 .. Len(table)
  <2>1. table[i] \in [Fields -> Values] /\ i \in DOMAIN table
    BY <1>2
  <2>2. \A c \in Fields : table[i][c] \in Int
    BY <2>1 DEF Values
  <2>. QED
    BY <2>1, <2>2 DEF Full
<1>4. table \in [1 .. Len(table) -> Full]
  BY <1>2, <1>3
<1>. QED
  BY <1>2, <1>4

LEMMA GetIs ==
  ASSUME NEW r \in Full, NEW c \in Fields
  PROVE  Get(r, c) = r[c] /\ Get(r, c) \in Int /\ Get(r, c) # NULL
<1>1. NULL \notin Int
  BY ConvertersAssumption
<1>. QED
  BY <1>1 DEF Get, Full

\* A condition means the same to MongoDB and to SQL, if it compares with a number.
LEMMA KeptAlike ==
  ASSUME NEW q \in Selects, NEW rs \in Seq(Full),
         \A i \in DOMAIN q.where : JsonValue(q.where[i].value) # Text /\ q.where[i].value.of # NULL
  PROVE  Kept(rs, Compared(q), TRUE) = Kept(rs, q.where, FALSE) /\ Kept(rs, q.where, FALSE) \in Seq(Full)
<1>. DEFINE Test == [col : Fields, op : {"=", "<>", ">"}, value : Operands]
            passed(n) == \A i \in DOMAIN q.where : Holds(q.where[i], rs[n], FALSE)
            matched(n) == \A i \in DOMAIN Compared(q) : Holds(Compared(q)[i], rs[n], TRUE)
            F == {n \in DOMAIN rs : passed(n)}
<1>1. q.where \in Seq(Test)
  BY ConvertersAssumption DEF WellFormed
<1>2. \A i \in DOMAIN q.where : q.where[i] \in Test
  <2>. DEFINE w == q.where
  <2>1. w \in Seq(Test)
    BY <1>1
  <2>. HIDE DEF w, Test
  <2>2. \A i \in DOMAIN w : w[i] \in Test
    BY <2>1, LenProperties, ElementOfSeq
  <2>. QED
    BY <2>2 DEF w
<1>3. DOMAIN Compared(q) = DOMAIN q.where
  BY DEF Compared
<1>4. ASSUME NEW n \in DOMAIN rs, NEW i \in DOMAIN q.where
      PROVE  Holds(Compared(q)[i], rs[n], TRUE) = Holds(q.where[i], rs[n], FALSE)
  <2>. DEFINE c == q.where[i]
              d == Compared(q)[i]
  <2>1. rs[n] \in Full /\ c \in Test
    BY <1>2, <1>4, ElementOfSeq
  <2>2. d = [c EXCEPT !.value = JsonValue(@)]
    BY <1>4 DEF Compared
  <2>3. JsonValue(c.value) # Text /\ c.value.of # NULL
    BY <1>4
  <2>. HIDE DEF c, d
  <2>4. /\ d.col = c.col /\ d.op = c.op /\ d.value = JsonValue(c.value)
        /\ c.col \in Fields /\ c.op \in {"=", "<>", ">"}
    BY <2>1, <2>2
  <2>5. c.value.kind = "literal" /\ JsonValue(c.value) = c.value.of
    BY <2>3 DEF JsonValue
  <2>6. ValueOf(c.value, rs[n]) = c.value.of
    BY <2>5 DEF ValueOf
  <2>7. Get(rs[n], c.col) # NULL
    BY <2>1, <2>4, GetIs
  <2>8. Holds(d, rs[n], TRUE) = Holds(c, rs[n], FALSE)
    BY <2>3, <2>4, <2>5, <2>6, <2>7 DEF Holds
  <2>. QED
    BY <2>8, Zenon DEF c, d
<1>5. \A n \in DOMAIN rs : matched(n) <=> passed(n)
  BY <1>3, <1>4, Zenon
<1>6. {n \in DOMAIN rs : matched(n)} = F
  BY <1>5, Zenon
<1>7. Kept(rs, Compared(q), TRUE) = Pick(rs, {n \in DOMAIN rs : matched(n)}) /\ Kept(rs, q.where, FALSE) = Pick(rs, F)
  BY Zenon DEF Kept
<1>8. F \in SUBSET (DOMAIN rs)
  BY Zenon
<1>. HIDE DEF F, matched
<1>9. Pick(rs, F) \in Seq(Full)
  BY <1>8, PickIs
<1>. QED
  BY <1>6, <1>7, <1>9, Zenon

\* A group is a list of rows and has at least one.
Bunches == {g \in Seq(Full) : Len(g) \in Nat /\ Len(g) # 0}

LEMMA GroupsAre ==
  ASSUME NEW rs \in Seq(Full), NEW by
  PROVE  Groups(rs, by) \in Seq(Bunches)
<1>. DEFINE firstPlaces == {i \in DOMAIN rs : \A j \in 1..(i - 1) : GroupKey(rs[j], by) # GroupKey(rs[i], by)}
            firsts == Pick(rs, firstPlaces)
            like(n) == {i \in DOMAIN rs : GroupKey(rs[i], by) = GroupKey(firsts[n], by)}
            m == Len(firsts)
<1>1. Groups(rs, by) = [n \in DOMAIN firsts |-> Pick(rs, like(n))]
  BY Zenon DEF Groups
<1>2. firstPlaces \in SUBSET (DOMAIN rs)
  BY Zenon
<1>3. firsts \in Seq(Full) /\ \A n \in 1 .. m : \E i \in firstPlaces : firsts[n] = rs[i]
  <2>. HIDE DEF firstPlaces
  <2>. QED
    BY <1>2, PickIs
<1>4. m \in Nat /\ DOMAIN firsts = 1 .. m
  BY <1>3, LenProperties
<1>. HIDE DEF firsts, m
<1>5. ASSUME NEW n \in 1 .. m PROVE Pick(rs, like(n)) \in Bunches
  <2>1. PICK i \in firstPlaces : firsts[n] = rs[i]
    BY <1>3
  <2>2. i \in like(n)
    BY <1>2, <2>1
  <2>3. like(n) \in SUBSET (DOMAIN rs)
    BY Zenon
  <2>. HIDE DEF like
  <2>4. /\ Pick(rs, like(n)) \in Seq(Full)
        /\ \E k \in 1 .. Len(Pick(rs, like(n))) : Pick(rs, like(n))[k] = rs[i]
    BY <2>2, <2>3, PickIs
  <2>. QED
    BY <2>4 DEF Bunches
<1>6. Groups(rs, by) = [n \in 1 .. m |-> Pick(rs, like(n))]
  BY <1>1, <1>4, Zenon
<1>. HIDE DEF like
<1>7. Groups(rs, by) \in [1 .. m -> Bunches]
  BY <1>5, <1>6, Zenon
<1>. QED
  BY <1>4, <1>7

\* No cell of a full column is dropped.
LEMMA CellsAre ==
  ASSUME NEW g \in Bunches, NEW c \in Fields
  PROVE  Cells(g, c) \in Seq(Int) /\ Len(Cells(g, c)) = Len(g) /\ Cells(g, c) # <<>>
<1>. DEFINE vs == [i \in DOMAIN g |-> Get(g[i], c)]
            F == {i \in DOMAIN g : vs[i] # NULL}
<1>1. Len(g) \in Nat /\ Len(g) # 0 /\ DOMAIN g = 1 .. Len(g) /\ \A i \in DOMAIN g : g[i] \in Full
  <2>1. g \in Seq(Full) /\ Len(g) \in Nat /\ Len(g) # 0
    BY DEF Bunches
  <2>. QED
    BY <2>1, ElementOfSeq, LenProperties
<1>2. \A i \in DOMAIN g : vs[i] \in Int /\ vs[i] # NULL
  BY <1>1, GetIs
<1>3. F = DOMAIN g
  BY <1>2, Zenon
<1>4. Cells(g, c) = Pick(vs, F)
  BY Zenon DEF Cells
<1>5. vs \in [1 .. Len(g) -> Int] /\ DOMAIN vs = DOMAIN g
  BY <1>1, <1>2
<1>. HIDE DEF vs, F
<1>6. vs \in Seq(Int) /\ Len(vs) = Len(g)
  BY <1>1, <1>5
<1>7. Cells(g, c) = vs
  BY <1>3, <1>4, <1>5, <1>6, PickAll
<1>8. Len(<<>>) = 0
  BY SMT
<1>. QED
  BY <1>1, <1>6, <1>7, <1>8, Zenon

\* Sums, like runs, are unfolded one element at a time.
Sums(vs, n, it) == it = [k \in 0 .. n |-> IF k = 0 THEN 0 ELSE it[k - 1] + vs[k]]

LEMMA SumsExist ==
  ASSUME NEW vs, NEW n \in Nat, \A k \in 1 .. n : vs[k] \in Int
  PROVE  \E it \in [0 .. n -> Int] : Sums(vs, n, it)
<1>. DEFINE T == {k \in 0 .. n : ~ \E it \in [0 .. k -> Int] : Sums(vs, k, it)}
<1>1. SUFFICES ASSUME n \in T PROVE FALSE
  <2>1. n \in 0 .. n
    OBVIOUS
  <2>. QED
    BY <2>1, Zenon
<1>2. PICK k \in T : \A j \in T : k <= j
  <2>1. T \subseteq Nat /\ T # {}
    BY <1>1
  <2>. HIDE DEF T
  <2>. QED
    BY <2>1, Least
<1>3. k \in 0 .. n /\ ~ \E it \in [0 .. k -> Int] : Sums(vs, k, it)
  BY Zenon
<1>4. CASE k = 0
  <2>. DEFINE it == [j \in 0 .. 0 |-> 0]
  <2>1. it \in [0 .. 0 -> Int]
    OBVIOUS
  <2>2. \A j \in 0 .. 0 : j = 0
    OBVIOUS
  <2>3. it = [j \in 0 .. 0 |-> IF j = 0 THEN 0 ELSE it[j - 1] + vs[j]]
    BY <2>2, Zenon
  <2>. HIDE DEF it
  <2>. QED
    BY <1>3, <1>4, <2>1, <2>3, Zenon DEF Sums
<1>5. CASE k # 0
  <2>1. k - 1 \in 0 .. n /\ k - 1 \notin T
    BY <1>2, <1>3, <1>5
  <2>2. PICK it \in [0 .. (k - 1) -> Int] : Sums(vs, k - 1, it)
    BY <2>1, Zenon
  <2>. DEFINE more == [j \in 0 .. k |-> IF j = k THEN it[k - 1] + vs[k] ELSE it[j]]
              next == [j \in 0 .. k |-> IF j = 0 THEN 0 ELSE more[j - 1] + vs[j]]
  <2>3. \A j \in 0 .. k : j # k => j \in 0 .. (k - 1)
    BY <1>3
  <2>4. \A j \in 0 .. k : j # 0 => j - 1 \in 0 .. k /\ j - 1 # k
    BY <1>3
  <2>5. ASSUME NEW j \in 0 .. k PROVE more[j] = next[j]
    <3>1. j # 0 => more[j - 1] = it[j - 1]
      BY <2>4, Zenon
    <3>2. next[j] = IF j = 0 THEN 0 ELSE more[j - 1] + vs[j]
      BY Zenon
    <3>3. more[j] = IF j = k THEN it[k - 1] + vs[k] ELSE it[j]
      BY Zenon
    <3>4. j # k => it[j] = IF j = 0 THEN 0 ELSE it[j - 1] + vs[j]
      BY <2>2, <2>3, Zenon DEF Sums
    <3>. HIDE DEF more, next
    <3>. QED
      BY <1>5, <3>1, <3>2, <3>3, <3>4, Zenon
  <2>6. more = next
    <3>1. next = [j \in 0 .. k |-> more[j]]
      BY <2>5, Zenon
    <3>2. more = [j \in 0 .. k |-> more[j]]
      BY Zenon
    <3>. QED
      BY <3>1, <3>2, Zenon
  <2>7. more \in [0 .. k -> Int]
    <3>1. k - 1 \in 0 .. (k - 1) /\ vs[k] \in Int
      BY <1>3, <1>5
    <3>2. it[k - 1] + vs[k] \in Int
      BY <3>1
    <3>. QED
      BY <2>3, <3>2
  <2>. HIDE DEF more
  <2>. QED
    BY <1>3, <2>6, <2>7, Zenon DEF Sums
<1>. QED
  BY <1>4, <1>5

LEMMA TotalIs ==
  ASSUME NEW vs \in Seq(Int)
  PROVE  Total(vs) \in Int
<1>. DEFINE n == Len(vs)
            upto == CHOOSE it : it = [k \in 0 .. n |-> IF k = 0 THEN 0 ELSE it[k - 1] + vs[k]]
<1>1. n \in Nat /\ (\A k \in 1 .. n : vs[k] \in Int) /\ n \in 0 .. n
  BY LenProperties, ElementOfSeq
<1>2. PICK it \in [0 .. n -> Int] : Sums(vs, n, it)
  BY <1>1, SumsExist
<1>3. upto = [k \in 0 .. n |-> IF k = 0 THEN 0 ELSE upto[k - 1] + vs[k]]
  BY <1>2, Zenon DEF Sums
<1>4. Total(vs) = upto[n]
  BY Zenon DEF Total
<1>. HIDE DEF upto, n
<1>5. \A k \in 0 .. n : upto[k] = it[k]
  <2>. DEFINE T == {k \in 0 .. n : upto[k] # it[k]}
  <2>1. SUFFICES ASSUME T # {} PROVE FALSE
    BY Zenon
  <2>2. PICK k \in T : \A j \in T : k <= j
    <3>1. T \subseteq Nat
      BY <1>1
    <3>. HIDE DEF T
    <3>. QED
      BY <2>1, <3>1, Least
  <2>3. k \in 0 .. n /\ upto[k] # it[k]
    BY Zenon
  <2>4. /\ upto[k] = IF k = 0 THEN 0 ELSE upto[k - 1] + vs[k]
        /\ it[k] = IF k = 0 THEN 0 ELSE it[k - 1] + vs[k]
    BY <1>2, <1>3, <2>3, Zenon DEF Sums
  <2>5. k # 0
    BY <2>3, <2>4, Zenon
  <2>6. k - 1 \in 0 .. n /\ ~(k <= k - 1)
    BY <1>1, <2>3, <2>5
  <2>7. upto[k - 1] = it[k - 1]
    BY <2>2, <2>6, Zenon
  <2>. QED
    BY <2>3, <2>4, <2>7, Zenon
<1>. QED
  BY <1>1, <1>2, <1>4, <1>5

LEMMA LargestIs ==
  ASSUME NEW vs \in Seq(Int), vs # <<>>
  PROVE  Max(Range(vs)) \in Int
<1>. DEFINE n == Len(vs)
            top(k, i) == \A j \in 1 .. k : vs[j] <= vs[i]
            T == {k \in 1 .. n : ~ \E i \in 1 .. k : top(k, i)}
<1>1. n \in Nat /\ n # 0 /\ DOMAIN vs = 1 .. n /\ \A k \in 1 .. n : vs[k] \in Int
  BY LenProperties, ElementOfSeq, EmptySeq
<1>2. ASSUME T # {} PROVE FALSE
  <2>1. PICK k \in T : \A j \in T : k <= j
    <3>1. T \subseteq Nat
      BY <1>1
    <3>. HIDE DEF T
    <3>. QED
      BY <1>2, <3>1, Least
  <2>2. k \in 1 .. n /\ ~ \E i \in 1 .. k : top(k, i)
    BY Zenon
  <2>3. CASE k = 1
    <3>1. 1 \in 1 .. 1 /\ \A j \in 1 .. 1 : j = 1
      OBVIOUS
    <3>2. vs[1] <= vs[1]
      BY <1>1, <2>2, <2>3
    <3>. QED
      BY <2>2, <2>3, <3>1, <3>2
  <2>4. CASE k # 1
    <3>1. k - 1 \in 1 .. n /\ ~(k <= k - 1)
      BY <1>1, <2>2, <2>4
    <3>2. PICK i \in 1 .. (k - 1) : top(k - 1, i)
      BY <2>1, <3>1
    <3>3. i \in 1 .. k /\ k \in 1 .. k /\ vs[i] \in Int /\ vs[k] \in Int
      BY <1>1, <2>2, <3>2
    <3>4. \A j \in 1 .. k : j = k \/ j \in 1 .. (k - 1)
      BY <2>2
    <3>5. \A j \in 1 .. k : vs[j] \in Int
      <4>1. \A j \in 1 .. k : j \in 1 .. n
        BY <1>1, <2>2
      <4>. QED
        BY <1>1, <4>1
    <3>6. vs[k] <= vs[i] => top(k, i)
      BY <3>2, <3>4
    <3>7. ~(vs[k] <= vs[i]) => top(k, k)
      <4>1. SUFFICES ASSUME ~(vs[k] <= vs[i]), NEW j \in 1 .. k PROVE vs[j] <= vs[k]
        BY Zenon
      <4>2. vs[j] \in Int /\ (j = k \/ vs[j] <= vs[i])
        BY <3>2, <3>4, <3>5
      <4>3. \A x, y, z \in Int : (x = z \/ x <= y) /\ ~(z <= y) => x <= z
        OBVIOUS
      <4>4. j = k => vs[j] = vs[k]
        OBVIOUS
      <4>. QED
        BY <3>3, <4>1, <4>2, <4>3, <4>4, Zenon
    <3>. QED
      BY <2>2, <3>3, <3>6, <3>7
  <2>. QED
    BY <2>3, <2>4
<1>3. n \in 1 .. n
  BY <1>1
<1>4. PICK i \in 1 .. n : top(n, i)
  BY <1>2, <1>3
<1>5. \A x : x \in Range(vs) <=> \E j \in 1 .. n : x = vs[j]
  BY <1>1 DEF Range
<1>6. vs[i] \in Range(vs) /\ \A y \in Range(vs) : vs[i] >= y
  <2>1. \A j \in 1 .. n : vs[i] >= vs[j]
    BY <1>1, <1>4
  <2>. QED
    BY <1>5, <2>1
<1>7. Max(Range(vs)) \in Range(vs)
  BY <1>6, Zenon DEF Max
<1>. QED
  BY <1>1, <1>5, <1>7

Counting == {e \in [kind : {"count", "sum", "max"}, col : Fields \cup {"*"}, as : STRING] :
               e.kind # "count" => e.col \in Fields}

\* An aggregate of a group is a number, the same to both.
LEMMA AggregatesAlike ==
  ASSUME NEW e \in Counting, NEW g \in Bunches
  PROVE  Aggregate(e, g, TRUE) = Aggregate(e, g, FALSE) /\ Aggregate(e, g, TRUE) \in Int
<1>1. Len(g) \in Int /\ e.kind \in {"count", "sum", "max"} /\ (e.col = "*" \/ e.col \in Fields)
      /\ (e.kind # "count" => e.col \in Fields)
  BY DEF Bunches, Counting
<1>2. e.col \in Fields =>
        /\ Cells(g, e.col) \in Seq(Int) /\ Len(Cells(g, e.col)) = Len(g) /\ Cells(g, e.col) # <<>>
        /\ Total(Cells(g, e.col)) \in Int /\ Max(Range(Cells(g, e.col))) \in Int
  BY CellsAre, TotalIs, LargestIs
<1>3. CASE e.kind = "count"
  BY <1>1, <1>2, <1>3 DEF Aggregate
<1>4. CASE e.kind = "sum"
  BY <1>1, <1>2, <1>4 DEF Aggregate
<1>5. CASE e.kind = "max"
  BY <1>1, <1>2, <1>5 DEF Aggregate
<1>. QED
  BY <1>1, <1>3, <1>4, <1>5

-----------------------------------------------------------------------------
(* The items of a sound query, and the rows both sides make of them.       *)
Convertible(q) == q \in Selects /\ Sound(q) /\ ~Refused(q)
ItemsOf(q) == Range(q.items)
NamesOf(q) == Aliases(ItemsOf(q))

LEMMA ItemsAre ==
  ASSUME NEW q, Convertible(q)
  PROVE  /\ Aggregates(q.items) \subseteq Counting
         /\ \A e \in Columns(q.items) : e.kind = "column" /\ e.col \in Fields /\ e.as = e.col
         /\ ItemsOf(q) = Aggregates(q.items) \cup Columns(q.items)
         /\ \A e \in ItemsOf(q) : e.as # "_id" /\ Named(ItemsOf(q), e.as) = e
         /\ \A e \in Aggregates(q.items) : Named(Aggregates(q.items), e.as) = e /\ e.kind # "column"
         /\ \A e \in Columns(q.items) : e.as \notin Aliases(Aggregates(q.items))
<1>. DEFINE Item == [kind : {"column", "count", "sum", "max", "star"}, col : Fields \cup {"*"}, as : STRING]
            I == Range(q.items)
<1>1. q.items \in Seq(Item) /\ \A e \in I : e.kind \in {"column", "sum", "max"} => e.col \in Fields
  BY ConvertersAssumption DEF Convertible, WellFormed
<1>2. \A i \in DOMAIN q.items : q.items[i] \in Item /\ q.items[i].kind # "star"
  <2>. DEFINE s == q.items
  <2>1. s \in Seq(Item)
    BY <1>1
  <2>. HIDE DEF s, Item
  <2>2. \A i \in DOMAIN s : s[i] \in Item
    BY <2>1, LenProperties, ElementOfSeq
  <2>. QED
    BY <2>2, Zenon DEF s, Convertible, Refused
<1>3. \A e \in I : e \in Item /\ e.kind # "star"
  BY <1>2, Zenon DEF Range
<1>4. /\ \A e, f \in I : e.as = f.as => e = f
      /\ \A e \in I : e.as # "_id"
      /\ \A e \in Columns(q.items) : ~Aliased(e)
  BY Zenon DEF Convertible, Sound
<1>5. Aggregates(q.items) = {e \in I : e.kind # "column"} /\ Columns(q.items) = {e \in I : e.kind = "column"}
  BY Zenon DEF Aggregates, Columns
<1>. HIDE DEF I
<1>6. \A e \in I : e.kind # "column" => e \in Counting
  <2>. SUFFICES ASSUME NEW e \in I, e.kind # "column" PROVE e \in Counting
    BY Zenon
  <2>1. e \in Item /\ e.kind # "star" /\ (e.kind \in {"column", "sum", "max"} => e.col \in Fields)
    BY <1>1, <1>3
  <2>2. e.kind \in {"count", "sum", "max"}
    BY <2>1
  <2>3. e \in [kind : {"count", "sum", "max"}, col : Fields \cup {"*"}, as : STRING]
    BY <2>1, <2>2
  <2>. QED
    BY <2>1, <2>2, <2>3 DEF Counting
<1>7. \A e \in I : e.kind = "column" => e.col \in Fields
  BY <1>1
<1>8. \A e \in I : Named(I, e.as) = e
  BY <1>4, Zenon DEF Named
<1>9. \A e \in Aggregates(q.items) : Named(Aggregates(q.items), e.as) = e
  BY <1>4, <1>5, Zenon DEF Named
<1>10. \A e \in Columns(q.items) : e.as \notin Aliases(Aggregates(q.items))
  BY <1>4, <1>5, Zenon DEF Aliases
<1>. HIDE DEF Item
<1>. QED
  BY <1>4, <1>5, <1>6, <1>7, <1>8, <1>9, <1>10, Zenon DEF ItemsOf, I, Aliased

\* Two lists of rows that show the same numbers under the names N.
Alike(rs, ss, N) ==
  /\ Len(rs) \in Nat /\ DOMAIN rs = 1 .. Len(rs) /\ DOMAIN ss = DOMAIN rs /\ Len(ss) = Len(rs)
  /\ \A i \in DOMAIN rs : \A n \in N : Get(rs[i], n) = Get(ss[i], n) /\ Get(rs[i], n) \in Int

Grouping(q) == [stage |-> "group", by |-> q.group, aggs |-> Aggregates(q.items)]
Ungrouping(q) == [stage |-> "ungroup", by |-> q.group, aggs |-> Aggregates(q.items)]

\* The document of a group.
Document(q, g, r) ==
  /\ r["_id"] = GroupKey(g[1], q.group)
  /\ \A e \in Aggregates(q.items) : e.as \in DOMAIN r /\ r[e.as] = Aggregate(e, g, TRUE)

LEMMA GroupIs ==
  ASSUME NEW q, Convertible(q), NEW rs \in Seq(Full), NEW gs, gs = Groups(rs, q.group),
         NEW i \in DOMAIN gs, NEW r, r = Group(Grouping(q), rs)[i]
  PROVE  Document(q, gs[i], r)
<1>. DEFINE aggs == Aggregates(q.items)
            f == [c \in {"_id"} |-> GroupKey(gs[i][1], q.group)]
            g == [n \in Aliases(aggs) |-> Aggregate(Named(aggs, n), gs[i], TRUE)]
<1>1. Grouping(q).by = q.group /\ Grouping(q).aggs = aggs
  BY DEF Grouping
<1>2. r = Over(f, g)
  BY <1>1, Zenon DEF Group
<1>3. DOMAIN f = {"_id"} /\ f["_id"] = GroupKey(gs[i][1], q.group) /\ DOMAIN g = Aliases(aggs)
  BY Zenon
<1>4. \A e \in aggs : e.as \in Aliases(aggs) /\ g[e.as] = Aggregate(Named(aggs, e.as), gs[i], TRUE)
  BY Zenon DEF Aliases
<1>5. \A e \in aggs : e.as # "_id" /\ Named(aggs, e.as) = e
  BY ItemsAre, Zenon
<1>. HIDE DEF f, g, aggs
<1>6. DOMAIN r = (DOMAIN f) \cup (DOMAIN g) /\ (\A x \in DOMAIN f : r[x] = f[x])
      /\ \A x \in DOMAIN g : x \notin DOMAIN f => r[x] = g[x]
  BY <1>2, Zenon DEF Over
<1>7. r["_id"] = GroupKey(gs[i][1], q.group)
  BY <1>3, <1>6, Zenon
<1>8. \A e \in aggs : e.as \in DOMAIN r /\ r[e.as] = Aggregate(e, gs[i], TRUE)
  BY <1>3, <1>4, <1>5, <1>6, Zenon
<1>. QED
  BY <1>7, <1>8, Zenon DEF aggs, Document

\* The row that the document of a group is spread into.
Spread(q, g, r) ==
  /\ \A e \in Aggregates(q.items) : e.as \in DOMAIN r /\ r[e.as] = Aggregate(e, g, TRUE)
  /\ \A c \in Range(q.group) : c \notin Aliases(Aggregates(q.items)) => c \in DOMAIN r /\ r[c] = Get(g[1], c)

LEMMA UngroupIs ==
  ASSUME NEW q, Convertible(q), NEW rs \in Seq(Full), NEW gs, gs = Groups(rs, q.group),
         NEW i \in DOMAIN gs, NEW r, r = Ungroup(Ungrouping(q), Group(Grouping(q), rs))[i]
  PROVE  Spread(q, gs[i], r)
<1>. DEFINE aggs == Aggregates(q.items)
            A == Group(Grouping(q), rs)
            f == Restrict(A[i], Aliases(aggs))
            g == [c \in Range(q.group) |-> A[i]["_id"][c]]
<1>1. Ungrouping(q).by = q.group /\ Ungrouping(q).aggs = aggs /\ Grouping(q).by = q.group
  BY DEF Ungrouping, Grouping
<1>2. DOMAIN A = DOMAIN gs
  BY <1>1, Zenon DEF Group
<1>3. /\ A[i]["_id"] = GroupKey(gs[i][1], q.group)
      /\ \A e \in aggs : e.as \in DOMAIN A[i] /\ A[i][e.as] = Aggregate(e, gs[i], TRUE)
  <2>1. PICK a : a = Group(Grouping(q), rs)[i]
    OBVIOUS
  <2>2. Document(q, gs[i], a)
    BY <2>1, GroupIs, Zenon
  <2>. QED
    BY <2>1, <2>2, Zenon DEF Document
<1>. HIDE DEF A
<1>4. r = Over(f, g)
  BY <1>1, <1>2, Zenon DEF Ungroup, A
<1>5. \A n : n \in Aliases(aggs) <=> \E e \in aggs : n = e.as
  BY Zenon DEF Aliases
<1>6. DOMAIN f = Aliases(aggs) /\ \A n \in Aliases(aggs) : f[n] = A[i][n]
  BY <1>3, <1>5, Zenon DEF Restrict
<1>7. DOMAIN g = Range(q.group) /\ \A c \in Range(q.group) : g[c] = Get(gs[i][1], c)
  <2>1. \A c \in Range(q.group) : g[c] = GroupKey(gs[i][1], q.group)[c]
    BY <1>3, Zenon
  <2>2. \A c \in Range(q.group) : GroupKey(gs[i][1], q.group)[c] = Get(gs[i][1], c)
    BY Zenon DEF GroupKey
  <2>. QED
    BY <2>1, <2>2, Zenon
<1>. HIDE DEF f, g
<1>8. DOMAIN r = (DOMAIN f) \cup (DOMAIN g) /\ (\A x \in DOMAIN f : r[x] = f[x])
      /\ \A x \in DOMAIN g : x \notin DOMAIN f => r[x] = g[x]
  BY <1>4, Zenon DEF Over
<1>9. \A e \in aggs : e.as \in DOMAIN r /\ r[e.as] = Aggregate(e, gs[i], TRUE)
  BY <1>3, <1>5, <1>6, <1>8, Zenon
<1>10. \A c \in Range(q.group) : c \notin Aliases(aggs) => c \in DOMAIN r /\ r[c] = Get(gs[i][1], c)
  BY <1>6, <1>7, <1>8, Zenon
<1>. QED
  BY <1>9, <1>10, Zenon DEF Spread, aggs

\* What a row shows of a group, to MongoDB or to SQL.
Counted(q, g, r, mongo) ==
  /\ \A e \in Aggregates(q.items) : Get(r, e.as) = Aggregate(e, g, mongo)
  /\ \A e \in Columns(q.items) : Get(r, e.as) = Get(g[1], e.col)

LEMMA GroupedRowsAre ==
  ASSUME NEW q, Convertible(q), NEW rs \in Seq(Full), NEW gs, gs = Groups(rs, q.group),
         q.group = <<>> => rs # <<>>, NEW i \in DOMAIN gs, NEW r, r = GroupedRows(q, rs)[i]
  PROVE  Counted(q, gs[i], r, FALSE)
<1>. DEFINE N == NamesOf(q)
            item(e) == IF e.kind = "column" THEN Get(gs[i][1], e.col) ELSE Aggregate(e, gs[i], FALSE)
            f == [n \in N |-> item(Named(ItemsOf(q), n))]
<1>1. (IF q.group = <<>> /\ rs = <<>> THEN <<rs>> ELSE Groups(rs, q.group)) = gs
  BY Zenon
<1>3. r = Over(f, GroupKey(gs[i][1], q.group))
  BY <1>1, Zenon DEF GroupedRows, NamesOf, ItemsOf
<1>4. DOMAIN f = N /\ \A n \in N : f[n] = item(Named(ItemsOf(q), n))
  BY Zenon
<1>. HIDE DEF f
<1>5. \A n \in N : n \in DOMAIN r /\ r[n] = item(Named(ItemsOf(q), n))
  BY <1>3, <1>4, Zenon DEF Over
<1>6. \A e \in ItemsOf(q) : e.as \in N /\ Named(ItemsOf(q), e.as) = e
  BY ItemsAre, Zenon DEF NamesOf, Aliases
<1>7. \A e \in ItemsOf(q) : Get(r, e.as) = item(e)
  BY <1>5, <1>6, Zenon DEF Get
<1>8. /\ \A e \in Aggregates(q.items) : e \in ItemsOf(q) /\ e.kind # "column"
      /\ \A e \in Columns(q.items) : e \in ItemsOf(q) /\ e.kind = "column"
  BY ItemsAre, Zenon
<1>. QED
  BY <1>7, <1>8, Zenon DEF Counted

LEMMA LenIs ==
  ASSUME NEW m \in Nat, NEW f, \E x : f = [i \in 1 .. m |-> x[i]]
  PROVE  Len(f) = m
<1>1. PICK x : f = [i \in 1 .. m |-> x[i]]
  OBVIOUS
<1>2. Len([i \in 1 .. m |-> x[i]]) = m
  OBVIOUS
<1>. QED
  BY <1>1, <1>2

LEMMA ColumnsOfGroups ==
  ASSUME NEW q, Convertible(q), q.group # <<>> \/ Aggregates(q.items) # {}
  PROVE  /\ Aggregates(q.items) # {}
         /\ \A e \in Columns(q.items) : e.col \in Range(q.group)
         /\ q.group = <<>> => Columns(q.items) = {}
<1>1. q.group # <<>> \/ (Aggregates(q.items) # {} /\ Columns(q.items) # {}) =>
         /\ Aggregates(q.items) # {}
         /\ \A e \in Columns(q.items) : e.col \in Range(q.group)
  BY Zenon DEF Convertible, Sound
<1>2. Range(<<>>) = {}
  BY DEF Range
<1>3. q.group = <<>> => Columns(q.items) = {}
  BY <1>1, <1>2, Zenon
<1>. QED
  BY <1>1, <1>3, Zenon

\* The rows that grouping makes.
Grouped(q, rs) ==
  IF q.group # <<>> THEN Ungroup(Ungrouping(q), Group(Grouping(q), rs)) ELSE Group(Grouping(q), rs)

LEMMA GroupedIs ==
  ASSUME NEW q, Convertible(q), q.group # <<>> \/ Aggregates(q.items) # {}, NEW rs \in Seq(Full),
         NEW gs, gs = Groups(rs, q.group), NEW i \in DOMAIN gs, NEW s, s = Grouped(q, rs)[i]
  PROVE  Counted(q, gs[i], s, TRUE)
<1>1. CASE q.group # <<>>
  <2>1. PICK r : r = Ungroup(Ungrouping(q), Group(Grouping(q), rs))[i]
    OBVIOUS
  <2>2. Spread(q, gs[i], r)
    BY <2>1, UngroupIs, Zenon
  <2>3. \A e \in Columns(q.items) : e.col \in Range(q.group)
    BY ColumnsOfGroups, Zenon
  <2>4. \A e \in Columns(q.items) : e.as = e.col /\ e.as \notin Aliases(Aggregates(q.items))
    BY ItemsAre, Zenon
  <2>5. s = r
    BY <1>1, <2>1, Zenon DEF Grouped
  <2>. QED
    BY <2>2, <2>3, <2>4, <2>5, Zenon DEF Get, Spread, Counted
<1>2. CASE q.group = <<>>
  <2>1. PICK r : r = Group(Grouping(q), rs)[i]
    OBVIOUS
  <2>2. Document(q, gs[i], r)
    BY <2>1, GroupIs, Zenon
  <2>3. Columns(q.items) = {}
    BY <1>2, ColumnsOfGroups, Zenon
  <2>4. s = r
    BY <1>2, <2>1, Zenon DEF Grouped
  <2>. QED
    BY <2>2, <2>3, <2>4, Zenon DEF Get, Document, Counted
<1>. QED
  BY <1>1, <1>2

LEMMA GroupedAlike ==
  ASSUME NEW q, Convertible(q), q.group # <<>> \/ Aggregates(q.items) # {}, NEW rs \in Seq(Full),
         q.group = <<>> => rs # <<>>
  PROVE  Alike(Grouped(q, rs), GroupedRows(q, rs), NamesOf(q))
<1>. DEFINE gs == Groups(rs, q.group)
            M == Grouped(q, rs)
            W == GroupedRows(q, rs)
            m == Len(gs)
<1>1. gs \in Seq(Bunches)
  BY GroupsAre
<1>2. m \in Nat /\ DOMAIN gs = 1 .. m /\ \A i \in DOMAIN gs : gs[i] \in Bunches
  <2>. HIDE DEF gs
  <2>. QED
    BY <1>1, LenProperties, ElementOfSeq
<1>3. M = [i \in DOMAIN gs |-> M[i]]
  <2>1. Grouping(q).by = q.group
    BY DEF Grouping
  <2>2. Group(Grouping(q), rs) = [i \in DOMAIN gs |-> Group(Grouping(q), rs)[i]]
    BY <2>1, Zenon DEF Group
  <2>3. Ungroup(Ungrouping(q), Group(Grouping(q), rs)) =
          [i \in DOMAIN gs |-> Ungroup(Ungrouping(q), Group(Grouping(q), rs))[i]]
    BY <2>2, Zenon DEF Ungroup
  <2>. QED
    BY <2>2, <2>3, Zenon DEF Grouped
<1>4. W = [i \in DOMAIN gs |-> W[i]]
  <2>1. (IF q.group = <<>> /\ rs = <<>> THEN <<rs>> ELSE Groups(rs, q.group)) = gs
    BY Zenon
  <2>. QED
    BY <2>1, Zenon DEF GroupedRows
<1>5. ASSUME NEW i \in DOMAIN gs PROVE Counted(q, gs[i], M[i], TRUE) /\ Counted(q, gs[i], W[i], FALSE)
  <2>1. PICK r, s : r = W[i] /\ s = M[i]
    BY Zenon
  <2>2. Counted(q, gs[i], r, FALSE)
    BY <2>1, GroupedRowsAre, Zenon
  <2>3. Counted(q, gs[i], s, TRUE)
    BY <2>1, GroupedIs, Zenon
  <2>. QED
    BY <2>1, <2>2, <2>3, Zenon
<1>. HIDE DEF gs, M, W
<1>7. \A e \in Aggregates(q.items) : e \in Counting
  BY ItemsAre, Zenon
<1>8. \A e \in Columns(q.items) : e.col \in Fields
  BY ItemsAre, Zenon
<1>9. \A g \in Bunches : /\ \A e \in Counting : /\ Aggregate(e, g, TRUE) = Aggregate(e, g, FALSE)
                                                 /\ Aggregate(e, g, TRUE) \in Int
                         /\ \A c \in Fields : Get(g[1], c) \in Int
  <2>. TAKE g \in Bunches
  <2>1. \A e \in Counting : Aggregate(e, g, TRUE) = Aggregate(e, g, FALSE) /\ Aggregate(e, g, TRUE) \in Int
    BY AggregatesAlike, Zenon
  <2>2. g \in Seq(Full) /\ 1 \in 1 .. Len(g)
    BY DEF Bunches
  <2>3. g[1] \in Full
    BY <2>2, ElementOfSeq
  <2>. QED
    BY <2>1, <2>3, GetIs
<1>10. \A i \in DOMAIN gs : \A e \in ItemsOf(q) : Get(M[i], e.as) = Get(W[i], e.as) /\ Get(M[i], e.as) \in Int
  <2>. TAKE i \in DOMAIN gs
  <2>0. gs[i] \in Bunches
    BY <1>2, Zenon
  <2>1. \A e \in Aggregates(q.items) : Get(M[i], e.as) = Get(W[i], e.as) /\ Get(M[i], e.as) \in Int
    BY <1>5, <1>7, <1>9, <2>0, Zenon DEF Counted
  <2>2. \A e \in Columns(q.items) : Get(M[i], e.as) = Get(W[i], e.as) /\ Get(M[i], e.as) \in Int
    BY <1>5, <1>8, <1>9, <2>0, Zenon DEF Counted
  <2>3. ItemsOf(q) = Aggregates(q.items) \cup Columns(q.items)
    BY ItemsAre, Zenon
  <2>. QED
    BY <2>1, <2>2, <2>3, Zenon
<1>11. \A i \in DOMAIN gs : \A n \in NamesOf(q) : Get(M[i], n) = Get(W[i], n) /\ Get(M[i], n) \in Int
  BY <1>10, Zenon DEF NamesOf, Aliases
<1>12. DOMAIN M = 1 .. m /\ DOMAIN W = 1 .. m
  BY <1>2, <1>3, <1>4, Zenon
<1>13. Len(M) = m /\ Len(W) = m
  <2>1. \E x : M = [i \in 1 .. m |-> x[i]]
    BY <1>2, <1>3, Zenon
  <2>2. \E x : W = [i \in 1 .. m |-> x[i]]
    BY <1>2, <1>4, Zenon
  <2>. HIDE DEF m
  <2>. QED
    BY <1>2, <1>12, <2>1, <2>2, LenIs
<1>. QED
  BY <1>2, <1>11, <1>12, <1>13, Zenon DEF Alike, M, W

\* The rows that a projection makes.
Projecting(q) == [stage |-> "project", keep |-> {e.col : e \in ItemsOf(q)}]
Projected(q, rs) == IF ItemsOf(q) = {} THEN rs ELSE Run(Projecting(q), rs)

LEMMA ProjectedIs ==
  ASSUME NEW q, Convertible(q), Aggregates(q.items) = {}, NEW rs \in Seq(Full), NEW i \in DOMAIN rs,
         NEW e \in ItemsOf(q)
  PROVE  /\ Get(Projected(q, rs)[i], e.as) = rs[i][e.col]
         /\ Get(PlainRows(q, rs)[i], e.as) = rs[i][e.col]
         /\ rs[i][e.col] \in Int
<1>. DEFINE keep == {f.col : f \in ItemsOf(q)}
            part == Restrict(rs[i], keep \cap DOMAIN rs[i])
            N == NamesOf(q)
            f == [n \in N |-> rs[i][Named(ItemsOf(q), n).col]]
<1>1. e.col \in Fields /\ e.as = e.col /\ Named(ItemsOf(q), e.as) = e
  BY ItemsAre, Zenon
<1>2. rs[i] \in Full
  BY ElementOfSeq, LenProperties
<1>3. e.col \in DOMAIN rs[i] /\ rs[i][e.col] \in Int
  BY <1>1, <1>2 DEF Full
<1>4. e.col \in keep /\ e.as \in N
  BY Zenon DEF NamesOf, Aliases
<1>5. part[e.col] = rs[i][e.col] /\ e.col \in DOMAIN part
  BY <1>3, <1>4, Zenon DEF Restrict
<1>6. Projected(q, rs)[i] = part
  <2>1. Projecting(q).stage = "project" /\ Projecting(q).keep = keep
    BY DEF Projecting
  <2>2. Run(Projecting(q), rs) = [j \in DOMAIN rs |-> Restrict(rs[j], keep \cap DOMAIN rs[j])]
    <3>. DEFINE s == Projecting(q)
    <3>1. s.stage = "project" /\ s.keep = keep
      BY <2>1, Zenon
    <3>. HIDE DEF s, keep
    <3>2. Run(s, rs) = [j \in DOMAIN rs |-> Restrict(rs[j], s.keep \cap DOMAIN rs[j])]
      BY <3>1 DEF Run
    <3>. QED
      BY <3>1, <3>2, Zenon DEF s
  <2>3. ItemsOf(q) # {}
    OBVIOUS
  <2>. QED
    BY <2>2, <2>3, Zenon DEF Projected
<1>7. PlainRows(q, rs)[i] = Over(f, rs[i])
  BY Zenon DEF PlainRows, NamesOf, ItemsOf
<1>8. f[e.as] = rs[i][e.col] /\ DOMAIN f = N
  BY <1>1, <1>4, Zenon
<1>. HIDE DEF f, part
<1>9. e.as \in DOMAIN Over(f, rs[i]) /\ Over(f, rs[i])[e.as] = rs[i][e.col]
  BY <1>4, <1>8, Zenon DEF Over
<1>. QED
  BY <1>1, <1>3, <1>5, <1>6, <1>7, <1>9, Zenon DEF Get

LEMMA PlainAlike ==
  ASSUME NEW q, Convertible(q), Aggregates(q.items) = {}, NEW rs \in Seq(Full)
  PROVE  Alike(Projected(q, rs), PlainRows(q, rs), NamesOf(q))
<1>. DEFINE M == Projected(q, rs)
            W == PlainRows(q, rs)
            m == Len(rs)
<1>1. m \in Nat /\ DOMAIN rs = 1 .. m
  BY LenProperties
<1>2. rs = [i \in DOMAIN rs |-> rs[i]]
  BY <1>1
<1>3. M = [i \in DOMAIN rs |-> M[i]]
  <2>1. Projecting(q).stage = "project"
    BY DEF Projecting
  <2>2. Run(Projecting(q), rs) = [i \in DOMAIN rs |-> Run(Projecting(q), rs)[i]]
    <3>. DEFINE s == Projecting(q)
    <3>1. s.stage = "project"
      BY <2>1, Zenon
    <3>. HIDE DEF s
    <3>2. Run(s, rs) = [j \in DOMAIN rs |-> Restrict(rs[j], s.keep \cap DOMAIN rs[j])]
      BY <3>1 DEF Run
    <3>3. Run(s, rs) = [i \in DOMAIN rs |-> Run(s, rs)[i]]
      BY <3>2, Zenon
    <3>. QED
      BY <3>3, Zenon DEF s
  <2>. QED
    BY <1>2, <2>2, Zenon DEF Projected
<1>4. W = [i \in DOMAIN rs |-> W[i]]
  BY Zenon DEF PlainRows
<1>5. \A i \in DOMAIN rs : \A e \in ItemsOf(q) : Get(M[i], e.as) = Get(W[i], e.as) /\ Get(M[i], e.as) \in Int
  <2>. TAKE i \in DOMAIN rs
  <2>. TAKE e \in ItemsOf(q)
  <2>1. Get(M[i], e.as) = rs[i][e.col] /\ Get(W[i], e.as) = rs[i][e.col] /\ rs[i][e.col] \in Int
    BY ProjectedIs
  <2>. QED
    BY <2>1, Zenon
<1>. HIDE DEF M, W
<1>6. \A i \in DOMAIN rs : \A n \in NamesOf(q) : Get(M[i], n) = Get(W[i], n) /\ Get(M[i], n) \in Int
  BY <1>5, Zenon DEF NamesOf, Aliases
<1>7. DOMAIN M = 1 .. m /\ DOMAIN W = 1 .. m
  BY <1>1, <1>3, <1>4, Zenon
<1>8. Len(M) = m /\ Len(W) = m
  <2>1. \E x : M = [i \in 1 .. m |-> x[i]]
    BY <1>1, <1>3, Zenon
  <2>2. \E x : W = [i \in 1 .. m |-> x[i]]
    BY <1>1, <1>4, Zenon
  <2>. HIDE DEF m
  <2>. QED
    BY <1>1, <2>1, <2>2, LenIs
<1>. QED
  BY <1>1, <1>6, <1>7, <1>8, Zenon DEF Alike, M, W

-----------------------------------------------------------------------------
(* Sorting, cutting and showing two lists that are alike.                  *)
SortsBy(keys, N) ==
  Len(keys) \in Nat /\ DOMAIN keys = 1 .. Len(keys) /\ \A k \in DOMAIN keys : keys[k].col \in N

LEMMA SortedAlike ==
  ASSUME NEW rs, NEW ss, NEW N, Alike(rs, ss, N), NEW keys, SortsBy(keys, N)
  PROVE  Alike(Sorted(rs, keys), Sorted(ss, keys), N)
<1>. DEFINE m == Len(rs)
            M == Sorted(rs, keys)
            W == Sorted(ss, keys)
<1>1. /\ m \in Nat /\ DOMAIN rs = 1 .. m /\ DOMAIN ss = 1 .. m /\ Len(ss) = m
      /\ \A i \in 1 .. m : \A n \in N : Get(rs[i], n) = Get(ss[i], n) /\ Get(rs[i], n) \in Int
  BY Zenon DEF Alike
<1>2. Keyed(rs, keys) /\ Keyed(ss, keys)
  BY <1>1, Zenon DEF Keyed, SortsBy
<1>3. SameKeys(rs, ss, keys)
  BY <1>1, Zenon DEF SortsBy, SameKeys
<1>4. PICK at \in [1 .. m -> 1 .. m] : M = [n \in 1 .. m |-> rs[at[n]]] /\ W = [n \in 1 .. m |-> ss[at[n]]]
  <2>1. MovedAlike(rs, ss, keys)
    BY <1>1, <1>2, <1>3, SortsAlike
  <2>. QED
    BY <2>1, Zenon DEF MovedAlike
<1>. HIDE DEF m, M, W
<1>5. \A i \in 1 .. m : at[i] \in 1 .. m /\ M[i] = rs[at[i]] /\ W[i] = ss[at[i]]
  BY <1>4
<1>6. \A i \in 1 .. m : \A n \in N : Get(M[i], n) = Get(W[i], n) /\ Get(M[i], n) \in Int
  <2>. TAKE i \in 1 .. m
  <2>1. PICK j \in 1 .. m : M[i] = rs[j] /\ W[i] = ss[j]
    BY <1>5, Zenon
  <2>. QED
    BY <1>1, <2>1, Zenon
<1>7. Len(M) = m /\ Len(W) = m /\ DOMAIN M = 1 .. m /\ DOMAIN W = 1 .. m
  BY <1>1, <1>4
<1>. QED
  BY <1>1, <1>6, <1>7, Zenon DEF Alike, M, W

LEMMA FirstAlike ==
  ASSUME NEW rs, NEW ss, NEW N, Alike(rs, ss, N), NEW l \in Nat
  PROVE  Alike(FirstRows(l, rs), FirstRows(l, ss), N)
<1>. DEFINE m == Len(rs)
            k == IF l < m THEN l ELSE m
            M == FirstRows(l, rs)
            W == FirstRows(l, ss)
<1>1. /\ m \in Nat /\ DOMAIN rs = 1 .. m /\ DOMAIN ss = 1 .. m /\ Len(ss) = m
      /\ \A i \in 1 .. m : \A n \in N : Get(rs[i], n) = Get(ss[i], n) /\ Get(rs[i], n) \in Int
  BY Zenon DEF Alike
<1>2. k \in Nat /\ k <= m
  BY <1>1
<1>3. M = [i \in 1 .. k |-> rs[i]] /\ W = [i \in 1 .. k |-> ss[i]]
  <2>1. M = SubSeq(rs, 1, k) /\ W = SubSeq(ss, 1, k)
    BY <1>1, Zenon DEF FirstRows
  <2>. HIDE DEF M, W, k, m
  <2>. QED
    BY <1>1, <1>2, <2>1
<1>. HIDE DEF m, M, W, k
<1>4. \A i \in 1 .. k : i \in 1 .. m /\ M[i] = rs[i] /\ W[i] = ss[i]
  BY <1>1, <1>2, <1>3
<1>5. \A i \in 1 .. k : \A n \in N : Get(M[i], n) = Get(W[i], n) /\ Get(M[i], n) \in Int
  BY <1>1, <1>4, Zenon
<1>6. Len(M) = k /\ Len(W) = k /\ DOMAIN M = 1 .. k /\ DOMAIN W = 1 .. k
  BY <1>2, <1>3
<1>. QED
  BY <1>2, <1>5, <1>6, Zenon DEF Alike, M, W

LEMMA ShownAlike ==
  ASSUME NEW q, NEW rs, NEW ss, Alike(rs, ss, NamesOf(q))
  PROVE  Shown(q, rs) = Shown(q, ss)
<1>1. DOMAIN ss = DOMAIN rs /\ \A i \in DOMAIN rs : \A n \in NamesOf(q) : Get(rs[i], n) = Get(ss[i], n)
  BY Zenon DEF Alike
<1>2. /\ Shown(q, rs) = [i \in DOMAIN rs |-> [n \in NamesOf(q) |-> Get(rs[i], n)]]
      /\ Shown(q, ss) = [i \in DOMAIN ss |-> [n \in NamesOf(q) |-> Get(ss[i], n)]]
  BY Zenon DEF Shown, NamesOf, ItemsOf
<1>3. \A i \in DOMAIN rs : [n \in NamesOf(q) |-> Get(rs[i], n)] = [n \in NamesOf(q) |-> Get(ss[i], n)]
  BY <1>1, Zenon
<1>. QED
  BY <1>1, <1>2, <1>3, Zenon

LEMMA SortedByNothing ==
  ASSUME NEW rs, Len(rs) \in Nat, DOMAIN rs = 1 .. Len(rs)
  PROVE  Sorted(rs, <<>>) = [i \in 1 .. Len(rs) |-> rs[i]]
<1>. DEFINE m == Len(rs)
            at == Places(rs, <<>>)
<1>1. \A r, s : ~Before(r, s, <<>>)
  <2>1. DOMAIN <<>> = {}
    OBVIOUS
  <2>. QED
    BY <2>1, Zenon DEF Before
<1>2. at = Ranked(1 .. m, InPlace(m))
  BY <1>1, Zenon DEF Places, InPlace
<1>. HIDE DEF at, m
<1>3. at = [k \in 1 .. m |-> k]
  BY <1>2, RankedInPlace DEF m
<1>4. DOMAIN at = 1 .. m /\ \A k \in 1 .. m : at[k] = k
  BY <1>3
<1>5. Sorted(rs, <<>>) = [k \in DOMAIN at |-> rs[at[k]]]
  BY Zenon DEF Sorted, at
<1>. QED
  BY <1>4, <1>5, Zenon DEF m

LEMMA UnsortedAlike ==
  ASSUME NEW rs, NEW ss, NEW N, Alike(rs, ss, N)
  PROVE  Alike(rs, Sorted(ss, <<>>), N)
<1>. DEFINE m == Len(rs)
            W == Sorted(ss, <<>>)
<1>1. /\ m \in Nat /\ DOMAIN rs = 1 .. m /\ DOMAIN ss = 1 .. m /\ Len(ss) = m
      /\ \A i \in 1 .. m : \A n \in N : Get(rs[i], n) = Get(ss[i], n) /\ Get(rs[i], n) \in Int
  BY Zenon DEF Alike
<1>2. W = [i \in 1 .. m |-> ss[i]]
  BY <1>1, SortedByNothing
<1>. HIDE DEF W, m
<1>3. DOMAIN W = 1 .. m /\ Len(W) = m /\ \A i \in 1 .. m : W[i] = ss[i]
  BY <1>1, <1>2
<1>. QED
  BY <1>1, <1>3, Zenon DEF Alike, W, m

\* A sound query sorts by each column once, so the keys are its ORDER BY.
LEMMA SortKeysAre ==
  ASSUME NEW q, Convertible(q)
  PROVE  SortKeys(q.order) = q.order /\ SortsBy(q.order, NamesOf(q))
<1>. DEFINE o == q.order
            lastOf(k) == CHOOSE j \in DOMAIN o :
                            o[j].col = o[k].col /\ \A l \in DOMAIN o : o[l].col = o[k].col => l <= j
            T == [col : STRING, desc : BOOLEAN]
            first == {k \in DOMAIN o : \A j \in 1 .. (k - 1) : o[j].col # o[k].col}
<1>1. o \in Seq(T)
  BY ConvertersAssumption, Zenon DEF Convertible, WellFormed
<1>2. \A i, j \in DOMAIN o : o[i].col = o[j].col => i = j
  BY Zenon DEF Convertible, Sound
<1>3. \A i \in DOMAIN o : o[i].col \in NamesOf(q)
  BY Zenon DEF Convertible, Sound, NamesOf, ItemsOf
<1>4. SortKeys(o) = Pick([k \in DOMAIN o |-> o[lastOf(k)]], first)
  BY Zenon DEF SortKeys
<1>. HIDE DEF o, T
<1>5. Len(o) \in Nat /\ DOMAIN o = 1 .. Len(o) /\ o = [k \in DOMAIN o |-> o[k]]
  BY <1>1
<1>6. \A k \in DOMAIN o : lastOf(k) = k
  <2>. TAKE k \in DOMAIN o
  <2>1. \A l \in DOMAIN o : o[l].col = o[k].col => l <= k
    BY <1>2, <1>5
  <2>2. lastOf(k) \in DOMAIN o /\ o[lastOf(k)].col = o[k].col
    BY <2>1, Zenon
  <2>. HIDE DEF lastOf
  <2>. QED
    BY <1>2, <2>2, Zenon
<1>. HIDE DEF lastOf
<1>7. [k \in DOMAIN o |-> o[lastOf(k)]] = o
  BY <1>5, <1>6, Zenon
<1>8. first = DOMAIN o
  <2>1. \A k \in DOMAIN o : \A j \in 1 .. (k - 1) : j \in DOMAIN o /\ j # k
    BY <1>5
  <2>. QED
    BY <1>2, <2>1, Zenon
<1>9. Pick(o, DOMAIN o) = o
  BY <1>1, PickAll
<1>. QED
  BY <1>3, <1>4, <1>5, <1>7, <1>8, <1>9, Zenon DEF SortsBy, o

-----------------------------------------------------------------------------
(* The pipeline of a sound query, one clause after the other.              *)
Matching(q) == [stage |-> "match", all |-> Compared(q)]
Sorting(q) == [stage |-> "sort", keys |-> q.order]
Limiting(q) == [stage |-> "limit", n |-> q.limit]
Stages(q) == {Matching(q), Grouping(q), Ungrouping(q), Projecting(q), Sorting(q), Limiting(q)}

LEMMA RunThen ==
  ASSUME NEW S, NEW stages \in Seq(S), NEW s \in S, NEW rs
  PROVE  stages \o <<s>> \in Seq(S) /\ RunAll(stages \o <<s>>, rs) = Run(s, RunAll(stages, rs))
<1>1. stages \o <<s>> = Append(stages, s) /\ Append(stages, s) \in Seq(S)
  OBVIOUS
<1>. QED
  BY <1>1, RunOneMore

\* What each stage does.
LEMMA StagesRun ==
  ASSUME NEW q, NEW rs
  PROVE  /\ Run(Matching(q), rs) = Kept(rs, Compared(q), TRUE)
         /\ Run(Grouping(q), rs) = Group(Grouping(q), rs)
         /\ Run(Ungrouping(q), rs) = Ungroup(Ungrouping(q), rs)
         /\ Run(Sorting(q), rs) = Sorted(rs, q.order)
         /\ Run(Limiting(q), rs) = FirstRows(q.limit, rs)
<1>1. /\ Matching(q).stage = "match" /\ Matching(q).all = Compared(q)
      /\ Grouping(q).stage = "group" /\ Ungrouping(q).stage = "ungroup"
      /\ Sorting(q).stage = "sort" /\ Sorting(q).keys = q.order
      /\ Limiting(q).stage = "limit" /\ Limiting(q).n = q.limit
  BY DEF Matching, Grouping, Ungrouping, Sorting, Limiting
<1>2. \A s : /\ s.stage = "match" => Run(s, rs) = Kept(rs, s.all, TRUE)
             /\ s.stage = "group" => Run(s, rs) = Group(s, rs)
             /\ s.stage = "ungroup" => Run(s, rs) = Ungroup(s, rs)
             /\ s.stage = "sort" => Run(s, rs) = Sorted(rs, s.keys)
             /\ s.stage = "limit" => Run(s, rs) = FirstRows(s.n, rs)
  BY DEF Run
<1>. QED
  BY <1>1, <1>2, Zenon

LEMMA MatchRuns ==
  ASSUME NEW q, NEW rs \in Seq(Full)
  PROVE  <<>> \o Match(q) \in Seq(Stages(q)) /\ RunAll(<<>> \o Match(q), rs) = Kept(rs, Compared(q), TRUE)
<1>. DEFINE S == Stages(q)
            m == Matching(q)
<1>1. m \in S
  BY Zenon DEF Stages
<1>. HIDE DEF S
<1>2. <<>> \in Seq(S)
  OBVIOUS
<1>3. CASE q.where # <<>>
  <2>1. Match(q) = <<m>>
    BY <1>3, Zenon DEF Match, Matching
  <2>. HIDE DEF m
  <2>2. <<>> \o <<m>> \in Seq(S) /\ RunAll(<<>> \o <<m>>, rs) = Run(m, RunAll(<<>>, rs))
    BY <1>1, <1>2, RunThen
  <2>3. RunAll(<<>>, rs) = rs
    BY RunNothing
  <2>4. Run(m, rs) = Kept(rs, Compared(q), TRUE)
    BY StagesRun DEF m
  <2>. QED
    BY <2>1, <2>2, <2>3, <2>4, Zenon DEF S
<1>4. CASE q.where = <<>>
  <2>1. <<>> \o Match(q) = <<>>
    BY <1>4 DEF Match
  <2>2. Kept(rs, Compared(q), TRUE) = Pick(rs, DOMAIN rs)
    <3>1. DOMAIN Compared(q) = {}
      BY <1>4 DEF Compared
    <3>2. {n \in DOMAIN rs : \A i \in DOMAIN Compared(q) : Holds(Compared(q)[i], rs[n], TRUE)} = DOMAIN rs
      BY <3>1, Zenon
    <3>. QED
      BY <3>2, Zenon DEF Kept
  <2>3. Pick(rs, DOMAIN rs) = rs
    BY PickAll
  <2>4. RunAll(<<>>, rs) = rs
    BY RunNothing
  <2>. QED
    BY <1>2, <1>4, <2>1, <2>2, <2>3, <2>4, Zenon DEF S
<1>. QED
  BY <1>3, <1>4

\* What the rows are once they are grouped or projected.
Wide(q, rs) == IF q.group # <<>> \/ Aggregates(q.items) # {} THEN Grouped(q, rs) ELSE Projected(q, rs)

LEMMA GroupRuns ==
  ASSUME NEW q, Convertible(q), NEW stages \in Seq(Stages(q)), NEW rs
  PROVE  /\ stages \o GroupProject(q) \in Seq(Stages(q))
         /\ RunAll(stages \o GroupProject(q), rs) = Wide(q, RunAll(stages, rs))
<1>. DEFINE S == Stages(q)
            aggs == Aggregates(q.items)
            by == IF aggs = {} /\ Len(q.group) = 1 THEN <<>> ELSE q.group
            extra == {e \in Columns(q.items) : e.col \notin Range(q.group)}
            plain == {e \in Range(q.items) : ~Aliased(e)}
            held == RunAll(stages, rs)
            G == Grouping(q)
            U == Ungrouping(q)
            P == Projecting(q)
<1>1. G \in S /\ U \in S /\ P \in S /\ stages \in Seq(S)
  BY Zenon DEF Stages
<1>2. /\ Run(G, held) = Group(G, held)
      /\ Run(U, Group(G, held)) = Ungroup(U, Group(G, held))
  BY StagesRun
<1>3. q.group # <<>> =>
        GroupProject(q) = <<[stage |-> "group", by |-> by, aggs |-> aggs]>>
                          \o (IF extra \cup aggs = {} THEN <<>>
                              ELSE <<[stage |-> "ungroup", by |-> by, aggs |-> aggs]>>)
  BY Zenon DEF GroupProject
<1>4. q.group = <<>> =>
        GroupProject(q) = IF aggs # {} THEN <<[stage |-> "group", by |-> <<>>, aggs |-> aggs]>>
                          ELSE IF plain = {} THEN <<>>
                          ELSE <<[stage |-> "project", keep |-> {e.col : e \in plain}]>>
  BY Zenon DEF GroupProject
<1>5. plain = ItemsOf(q) \/ aggs # {}
  <2>1. \A e \in Columns(q.items) : ~Aliased(e)
    BY Zenon DEF Convertible, Sound
  <2>2. aggs = {} => \A e \in Range(q.items) : e \in Columns(q.items)
    BY Zenon DEF Aggregates, Columns
  <2>. QED
    BY <2>1, <2>2, Zenon DEF ItemsOf
<1>. HIDE DEF S, held
<1>6. CASE q.group # <<>>
  <2>1. aggs # {}
    BY <1>6, ColumnsOfGroups, Zenon
  <2>2. GroupProject(q) = <<G>> \o <<U>>
    BY <1>3, <1>6, <2>1, Zenon DEF Grouping, Ungrouping
  <2>. HIDE DEF G, U
  <2>3. stages \o (<<G>> \o <<U>>) = (stages \o <<G>>) \o <<U>>
    <3>1. <<G>> \in Seq(S) /\ <<U>> \in Seq(S)
      BY <1>1
    <3>. QED
      BY <1>1, <3>1, ConcatAssociative
  <2>4. stages \o <<G>> \in Seq(S) /\ RunAll(stages \o <<G>>, rs) = Run(G, held)
    BY <1>1, RunThen DEF held
  <2>5. /\ (stages \o <<G>>) \o <<U>> \in Seq(S)
        /\ RunAll((stages \o <<G>>) \o <<U>>, rs) = Run(U, RunAll(stages \o <<G>>, rs))
    <3>1. PICK grouped \in Seq(S) : grouped = stages \o <<G>>
      BY <2>4, Zenon
    <3>2. grouped \o <<U>> \in Seq(S) /\ RunAll(grouped \o <<U>>, rs) = Run(U, RunAll(grouped, rs))
      BY <1>1, RunThen
    <3>. QED
      BY <3>1, <3>2, Zenon
  <2>6. Wide(q, held) = Ungroup(U, Group(G, held))
    BY <1>6, Zenon DEF Wide, Grouped, G, U
  <2>. QED
    BY <1>2, <2>2, <2>3, <2>4, <2>5, <2>6, Zenon DEF S, held
<1>7. CASE q.group = <<>> /\ aggs # {}
  <2>1. GroupProject(q) = <<G>>
    BY <1>4, <1>7, Zenon DEF Grouping
  <2>2. Wide(q, held) = Group(G, held)
    BY <1>7, Zenon DEF Wide, Grouped
  <2>. HIDE DEF G
  <2>3. stages \o <<G>> \in Seq(S) /\ RunAll(stages \o <<G>>, rs) = Run(G, held)
    BY <1>1, RunThen DEF held
  <2>. QED
    BY <1>2, <2>1, <2>2, <2>3, Zenon DEF S, held
<1>8. CASE q.group = <<>> /\ aggs = {} /\ ItemsOf(q) # {}
  <2>1. GroupProject(q) = <<P>>
    BY <1>4, <1>5, <1>8, Zenon DEF Projecting
  <2>2. Wide(q, held) = Run(P, held)
    BY <1>8, Zenon DEF Wide, Projected
  <2>. HIDE DEF P
  <2>3. stages \o <<P>> \in Seq(S) /\ RunAll(stages \o <<P>>, rs) = Run(P, held)
    BY <1>1, RunThen DEF held
  <2>. QED
    BY <2>1, <2>2, <2>3, Zenon DEF S, held
<1>9. CASE q.group = <<>> /\ aggs = {} /\ ItemsOf(q) = {}
  <2>1. GroupProject(q) = <<>>
    BY <1>4, <1>5, <1>9, Zenon
  <2>2. Wide(q, held) = held
    BY <1>9, Zenon DEF Wide, Projected
  <2>3. stages \o <<>> = stages
    BY <1>1, ConcatEmptySeq
  <2>. QED
    BY <1>1, <2>1, <2>2, <2>3, Zenon DEF S, held
<1>. QED
  BY <1>6, <1>7, <1>8, <1>9, Zenon

LEMMA SortRuns ==
  ASSUME NEW q, Convertible(q), NEW stages \in Seq(Stages(q)), NEW rs
  PROVE  /\ stages \o SortStage(q) \in Seq(Stages(q))
         /\ RunAll(stages \o SortStage(q), rs) =
              IF q.order = <<>> THEN RunAll(stages, rs) ELSE Sorted(RunAll(stages, rs), q.order)
<1>. DEFINE S == Stages(q)
            s == Sorting(q)
            before == RunAll(stages, rs)
<1>1. s \in S /\ stages \in Seq(S)
  BY Zenon DEF Stages
<1>2. Run(s, before) = Sorted(before, q.order)
  BY StagesRun
<1>3. SortStage(q) = IF q.order = <<>> THEN <<>> ELSE <<s>>
  <2>1. SortKeys(q.order) = q.order
    BY SortKeysAre, Zenon
  <2>. QED
    BY <2>1, Zenon DEF SortStage, Sorting
<1>. HIDE DEF S, s, before
<1>4. stages \o <<s>> \in Seq(S) /\ RunAll(stages \o <<s>>, rs) = Run(s, before)
  BY <1>1, RunThen DEF before
<1>5. stages \o <<>> = stages
  BY <1>1, ConcatEmptySeq
<1>. QED
  BY <1>1, <1>2, <1>3, <1>4, <1>5, Zenon DEF S, before

LEMMA LimitRuns ==
  ASSUME NEW q, NEW stages \in Seq(Stages(q)), NEW rs
  PROVE  RunAll(stages \o Limit(q), rs) =
           IF q.limit = NULL THEN RunAll(stages, rs) ELSE FirstRows(q.limit, RunAll(stages, rs))
<1>. DEFINE S == Stages(q)
            s == Limiting(q)
            before == RunAll(stages, rs)
<1>1. s \in S /\ stages \in Seq(S)
  BY Zenon DEF Stages
<1>2. Run(s, before) = FirstRows(q.limit, before)
  BY StagesRun
<1>3. Limit(q) = IF q.limit = NULL THEN <<>> ELSE <<s>>
  BY Zenon DEF Limit, Limiting
<1>. HIDE DEF S, s, before
<1>4. RunAll(stages \o <<s>>, rs) = Run(s, before)
  BY <1>1, RunThen DEF before
<1>5. stages \o <<>> = stages
  BY <1>1, ConcatEmptySeq
<1>. QED
  BY <1>2, <1>3, <1>4, <1>5, Zenon DEF before

\* The pipeline after each clause.
Matched(q) == <<>> \o Match(q)
Arranged(q) == Matched(q) \o GroupProject(q)
Ordered(q) == Arranged(q) \o SortStage(q)
Limited(q) == Ordered(q) \o Limit(q)

\* The whole pipeline answers the query.
LEMMA LimitedAnswers ==
  ASSUME NEW q, Convertible(q), NEW table \in Tables, WithoutNulls(q, table)
  PROVE  Shown(q, RunAll(Limited(q), table)) = SqlAnswer(q, table)
<1>. DEFINE rs == Kept(table, q.where, FALSE)
            grouping == q.group # <<>> \/ Aggregates(q.items) # {}
            wide == IF grouping THEN GroupedRows(q, rs) ELSE PlainRows(q, rs)
            sorted == Sorted(wide, q.order)
            W == IF q.limit = NULL THEN sorted ELSE FirstRows(q.limit, sorted)
            N == NamesOf(q)
<1>1. /\ \A i \in DOMAIN table : \A c \in Fields : table[i][c] # NULL
      /\ \A i \in DOMAIN q.where : JsonValue(q.where[i].value) # Text /\ q.where[i].value.of # NULL
      /\ q.group = <<>> /\ Aggregates(q.items) # {} => rs # <<>>
  BY Zenon DEF WithoutNulls, Convertible, Sound
<1>2. table \in Seq(Full)
  BY <1>1, FullRows
<1>3. Kept(table, Compared(q), TRUE) = rs /\ rs \in Seq(Full)
  BY <1>1, <1>2, KeptAlike DEF Convertible
<1>4. Matched(q) \in Seq(Stages(q)) /\ RunAll(Matched(q), table) = rs
  BY <1>2, <1>3, MatchRuns, Zenon DEF Matched
<1>5. Arranged(q) \in Seq(Stages(q)) /\ RunAll(Arranged(q), table) = Wide(q, rs)
  <2>1. /\ Matched(q) \o GroupProject(q) \in Seq(Stages(q))
        /\ RunAll(Matched(q) \o GroupProject(q), table) = Wide(q, RunAll(Matched(q), table))
    BY <1>4, GroupRuns, Zenon
  <2>. QED
    BY <1>4, <2>1, Zenon DEF Arranged
<1>6. /\ Ordered(q) \in Seq(Stages(q))
      /\ RunAll(Ordered(q), table) = IF q.order = <<>> THEN Wide(q, rs) ELSE Sorted(Wide(q, rs), q.order)
  BY <1>5, SortRuns, Zenon DEF Ordered
<1>7. RunAll(Limited(q), table) =
        IF q.limit = NULL THEN RunAll(Ordered(q), table) ELSE FirstRows(q.limit, RunAll(Ordered(q), table))
  BY <1>6, LimitRuns, Zenon DEF Limited
<1>8. SqlAnswer(q, table) = Shown(q, W)
  BY Zenon DEF SqlAnswer
<1>. HIDE DEF rs, N
<1>9. Alike(Wide(q, rs), wide, N)
  <2>1. CASE grouping
    <3>1. q.group = <<>> => rs # <<>>
      BY <1>1, <2>1, Zenon
    <3>2. Alike(Grouped(q, rs), GroupedRows(q, rs), N)
      BY <1>3, <2>1, <3>1, GroupedAlike, Zenon DEF N
    <3>. QED
      BY <2>1, <3>2, Zenon DEF Wide
  <2>2. CASE ~grouping
    <3>1. Aggregates(q.items) = {}
      BY <2>2, Zenon
    <3>2. Alike(Projected(q, rs), PlainRows(q, rs), N)
      BY <1>3, <3>1, PlainAlike, Zenon DEF N
    <3>. QED
      BY <2>2, <3>2, Zenon DEF Wide
  <2>. QED
    BY <2>1, <2>2, Zenon
<1>. HIDE DEF wide
<1>10. Alike(RunAll(Ordered(q), table), sorted, N)
  <2>1. CASE q.order = <<>>
    <3>1. Alike(Wide(q, rs), Sorted(wide, <<>>), N)
      BY <1>9, UnsortedAlike, Zenon
    <3>. QED
      BY <1>6, <2>1, <3>1, Zenon
  <2>2. CASE q.order # <<>>
    <3>1. SortsBy(q.order, N)
      BY SortKeysAre, Zenon DEF N
    <3>2. Alike(Sorted(Wide(q, rs), q.order), Sorted(wide, q.order), N)
      BY <1>9, <3>1, SortedAlike, Zenon
    <3>. QED
      BY <1>6, <2>2, <3>2, Zenon
  <2>. QED
    BY <2>1, <2>2, Zenon
<1>. HIDE DEF sorted
<1>11. Alike(RunAll(Limited(q), table), W, N)
  <2>1. q.limit = NULL \/ q.limit \in Nat
    <3>1. q.limit \in {NULL} \cup Nat
      BY ConvertersAssumption, Zenon DEF Convertible, WellFormed
    <3>. QED
      BY <3>1, Zenon
  <2>2. q.limit \in Nat => Alike(FirstRows(q.limit, RunAll(Ordered(q), table)), FirstRows(q.limit, sorted), N)
    BY <1>10, FirstAlike, Zenon
  <2>. QED
    BY <1>7, <1>10, <2>1, <2>2, Zenon
<1>. HIDE DEF W
<1>12. Shown(q, RunAll(Limited(q), table)) = Shown(q, W)
  BY <1>11, ShownAlike, Zenon DEF N
<1>. QED
  BY <1>8, <1>12, Zenon

-----------------------------------------------------------------------------
(* The two converters at work.                                             *)
Halfway(q, c, p) ==
  /\ c \in {"where", "group", "order", "limit", "done", "refused"}
  /\ c \in {"group", "order", "limit", "done"} => ~Refused(q)
  /\ c = "where" => p = <<>>
  /\ c = "group" => p = Matched(q)
  /\ c = "order" => p = Arranged(q)
  /\ c = "limit" => p = Ordered(q)
  /\ c = "done" => p = Limited(q)
ConvertersInv == query \in Selects /\ file \in Files /\ Halfway(query, clause, pipeline)
Inserted == \E n \in Nat : n <= Height(file) /\ script = [i \in 1 .. n |-> Row(file, i)]

LEMMA FilesAre ==
  ASSUME NEW f \in Files
  PROVE  Height(f) \in Nat /\ \A c \in DOMAIN f : DOMAIN f[c].cells = 1 .. Height(f)
BY ConvertersAssumption, Zenon

\* A batch is what comes next, and is not empty while rows are left.
LEMMA BatchIs ==
  ASSUME NEW f \in Files, NEW n \in Nat, n <= Height(f)
  PROVE  \E m \in Nat : /\ n <= m /\ m <= Height(f) /\ (n < Height(f) => n < m)
                        /\ Batch(f, n) = [i \in 1 .. (m - n) |-> Row(f, n + i)]
                        /\ Len(Batch(f, n)) = m - n
<1>. DEFINE h == Height(f)
            m == IF n + BatchSize < h THEN n + BatchSize ELSE h
            all == [i \in 1 .. h |-> Row(f, i)]
<1>1. h \in Nat /\ BatchSize \in Nat \ {0}
  BY FilesAre, ConvertersAssumption
<1>2. m \in Nat /\ n <= m /\ m <= h /\ (n < h => n < m)
  BY <1>1
<1>3. Batch(f, n) = SubSeq(all, n + 1, m)
  BY Zenon DEF Batch
<1>. HIDE DEF m
<1>4. \A i \in 1 .. (m - n) : n + i \in 1 .. h
  BY <1>1, <1>2
<1>5. SubSeq(all, n + 1, m) = [i \in 1 .. (m - n) |-> all[n + i]]
  <2>. HIDE DEF all, h
  <2>. QED
    BY <1>1, <1>2
<1>6. \A i \in 1 .. (m - n) : all[n + i] = Row(f, n + i)
  BY <1>4, Zenon
<1>7. Batch(f, n) = [i \in 1 .. (m - n) |-> Row(f, n + i)]
  <2>. HIDE DEF all
  <2>. QED
    BY <1>3, <1>5, <1>6, Zenon
<1>8. Len(Batch(f, n)) = m - n
  BY <1>2, <1>7
<1>. QED
  BY <1>2, <1>7, <1>8, Zenon DEF h

\* A literal has the type of its column.
LEMMA LiteralIs ==
  ASSUME NEW column, NEW i \in DOMAIN column.cells, NEW v, v = column.cells[i], ~column.dated
  PROVE  SqlLiteral(v, InferColumnType(column)) =
           [of |-> v.of, kind |->
              CASE v.kind = "null" -> "null"
                [] v.kind \in {"int", "float"} /\ Kinds(column) \subseteq {"int", "float", "null"} -> "number"
                [] v.kind = "bool" /\ Kinds(column) \subseteq {"bool", "null"} -> "bool"
                [] OTHER -> "quoted"]
<1>. DEFINE K == Kinds(column)
            type == InferColumnType(column)
<1>1. v.kind \in K
  BY Zenon DEF Kinds, Kind
<1>2. /\ Dtype(column) = "int64" <=> K = {"int"}
      /\ Dtype(column) = "float64" <=> K # {"int"} /\ K \subseteq {"int", "float", "null"}
      /\ Dtype(column) = "bool" <=> ~(K \subseteq {"int", "float", "null"}) /\ K = {"bool"}
      /\ Dtype(column) = "object" <=> ~(K \subseteq {"int", "float", "null"}) /\ K # {"bool"}
  <2>1. K = {"int"} => K \subseteq {"int", "float", "null"}
    BY Zenon
  <2>. HIDE DEF K
  <2>. QED
    BY <2>1 DEF Dtype, K
<1>. HIDE DEF K
<1>3. type = CASE Dtype(column) = "int64" -> "INTEGER"
               [] Dtype(column) = "float64" -> "DOUBLE"
               [] Dtype(column) = "bool" \/ (Dtype(column) = "object" /\ K \ {"null"} = {"bool"}) -> "BOOLEAN"
               [] OTHER -> "TEXT"
  BY Zenon DEF InferColumnType, K
<1>4. CASE v.kind = "null"
  BY <1>4 DEF SqlLiteral
<1>5. CASE v.kind # "null" /\ K \subseteq {"int", "float", "null"}
  <2>1. v.kind \in {"int", "float"}
    BY <1>1, <1>5
  <2>2. Dtype(column) = "int64" \/ Dtype(column) = "float64"
    BY <1>2, <1>5, Zenon
  <2>3. type \in {"INTEGER", "DOUBLE"}
    BY <1>3, <2>2
  <2>. HIDE DEF type
  <2>4. SqlLiteral(v, type) = [kind |-> "number", of |-> v.of]
    BY <1>5, <2>3 DEF SqlLiteral
  <2>. QED
    BY <1>5, <2>1, <2>4 DEF type, K
<1>6. CASE v.kind # "null" /\ ~(K \subseteq {"int", "float", "null"}) /\ K \subseteq {"bool", "null"}
  <2>1. v.kind = "bool"
    BY <1>1, <1>6
  <2>2. K = {"bool"} \/ (K # {"bool"} /\ K \ {"null"} = {"bool"})
    BY <1>1, <1>6, <2>1
  <2>3. Dtype(column) = "bool" \/ (Dtype(column) = "object" /\ K \ {"null"} = {"bool"})
    BY <1>2, <1>6, <2>2, Zenon
  <2>4. type = "BOOLEAN"
    BY <1>3, <2>3
  <2>. HIDE DEF type
  <2>5. SqlLiteral(v, type) = [kind |-> "bool", of |-> v.of]
    BY <1>6, <2>4 DEF SqlLiteral
  <2>. QED
    BY <1>6, <2>1, <2>5 DEF type, K
<1>7. CASE v.kind # "null" /\ ~(K \subseteq {"int", "float", "null"}) /\ ~(K \subseteq {"bool", "null"})
  <2>1. K # {"bool"} /\ K \ {"null"} # {"bool"}
    BY <1>7
  <2>2. Dtype(column) = "object"
    BY <1>2, <1>7, <2>1, Zenon
  <2>3. type = "TEXT"
    BY <1>3, <2>1, <2>2
  <2>. HIDE DEF type
  <2>4. SqlLiteral(v, type) = [kind |-> "quoted", of |-> v.of]
    BY <1>7, <2>3 DEF SqlLiteral
  <2>. QED
    BY <1>7, <2>4 DEF type, K
<1>. QED
  BY <1>4, <1>5, <1>6, <1>7, Zenon

LEMMA InsertedLoads ==
  ASSUME file \in Files, Inserted
  PROVE  ScriptLoadsTheFile
<1>1. PICK n \in Nat : n <= Height(file) /\ script = [i \in 1 .. n |-> Row(file, i)]
  BY Zenon DEF Inserted
<1>2. DOMAIN script = 1 .. n /\ Len(script) = n /\ \A i \in 1 .. n : script[i] = Row(file, i)
  BY <1>1
<1>3. n < Height(file) => Batch(file, n) # <<>>
  <2>1. PICK m \in Nat : (n < Height(file) => n < m) /\ Len(Batch(file, n)) = m - n
    BY <1>1, BatchIs
  <2>2. n < m => m - n # 0
    BY SMT
  <2>3. Len(<<>>) = 0
    BY SMT
  <2>. QED
    BY <2>1, <2>2, <2>3, Zenon
<1>4. ASSUME NEW i \in 1 .. n, NEW c \in DOMAIN file, NEW v, v = file[c].cells[i], ~file[c].dated
      PROVE  script[i][c] = [of |-> v.of, kind |->
               CASE v.kind = "null" -> "null"
                 [] v.kind \in {"int", "float"} /\ Kinds(file[c]) \subseteq {"int", "float", "null"} -> "number"
                 [] v.kind = "bool" /\ Kinds(file[c]) \subseteq {"bool", "null"} -> "bool"
                 [] OTHER -> "quoted"]
  <2>1. i \in 1 .. Height(file)
    BY <1>1, FilesAre
  <2>2. i \in DOMAIN file[c].cells
    BY <2>1, FilesAre, Zenon
  <2>3. script[i][c] = SqlLiteral(v, InferColumnType(file[c]))
    BY <1>2, <1>4, Zenon DEF Row
  <2>. QED
    BY <1>4, <2>2, <2>3, LiteralIs
<1>. QED
  BY <1>2, <1>3, <1>4, Zenon DEF ScriptLoadsTheFile

LEMMA ConvertersInvHolds == CSpec => [](ConvertersInv /\ Inserted)
<1>1. CInit => ConvertersInv /\ Inserted
  <2>. SUFFICES ASSUME CInit PROVE ConvertersInv /\ Inserted
    OBVIOUS
  <2>1. ConvertersInv
    BY DEF CInit, ConvertersInv, Halfway
  <2>2. script = [i \in 1 .. 0 |-> Row(file, i)] /\ 0 \in Nat /\ 0 <= Height(file)
    BY FilesAre DEF CInit
  <2>. QED
    BY <2>1, <2>2, Zenon DEF Inserted
<1>2. ASSUME ConvertersInv, Inserted, [ConvertNext \/ InsertBatch]_cvars
      PROVE  ConvertersInv' /\ Inserted'
  <2>1. CASE RefuseQuery
    <3>1. clause' = "refused" /\ UNCHANGED <<query, pipeline, file, script>>
      BY <2>1, Zenon DEF RefuseQuery
    <3>2. Halfway(query, clause', pipeline')
      BY <3>1 DEF Halfway
    <3>. QED
      BY <1>2, <3>1, <3>2 DEF ConvertersInv, Inserted
  <2>2. CASE Convert
    <3>1. query' = query /\ file' = file /\ script' = script
      BY <2>2, Zenon DEF Convert, Then
    <3>2. Inserted'
      BY <1>2, <3>1 DEF Inserted
    <3>3. ASSUME ~Refused(query) /\ Then("where", Match(query), "group")
          PROVE  Halfway(query, clause', pipeline')
      <4>1. clause = "where" /\ clause' = "group" /\ pipeline' = pipeline \o Match(query)
        BY <3>3, Zenon DEF Then
      <4>2. Halfway(query, clause, pipeline)
        BY <1>2, Zenon DEF ConvertersInv
      <4>. QED
        BY <3>3, <4>1, <4>2 DEF Halfway, Matched
    <3>4. ASSUME Then("group", GroupProject(query), "order")
          PROVE  Halfway(query, clause', pipeline')
      <4>1. clause = "group" /\ clause' = "order" /\ pipeline' = pipeline \o GroupProject(query)
        BY <3>4, Zenon DEF Then
      <4>2. Halfway(query, clause, pipeline)
        BY <1>2, Zenon DEF ConvertersInv
      <4>. QED
        BY <3>4, <4>1, <4>2 DEF Halfway, Arranged
    <3>5. ASSUME Then("order", SortStage(query), "limit")
          PROVE  Halfway(query, clause', pipeline')
      <4>1. clause = "order" /\ clause' = "limit" /\ pipeline' = pipeline \o SortStage(query)
        BY <3>5, Zenon DEF Then
      <4>2. Halfway(query, clause, pipeline)
        BY <1>2, Zenon DEF ConvertersInv
      <4>. QED
        BY <3>5, <4>1, <4>2 DEF Halfway, Ordered
    <3>6. ASSUME Then("limit", Limit(query), "done")
          PROVE  Halfway(query, clause', pipeline')
      <4>1. clause = "limit" /\ clause' = "done" /\ pipeline' = pipeline \o Limit(query)
        BY <3>6, Zenon DEF Then
      <4>2. Halfway(query, clause, pipeline)
        BY <1>2, Zenon DEF ConvertersInv
      <4>. QED
        BY <3>6, <4>1, <4>2 DEF Halfway, Limited
    <3>7. Halfway(query, clause', pipeline')
      BY <2>2, <3>3, <3>4, <3>5, <3>6, Zenon DEF Convert
    <3>. QED
      BY <1>2, <3>1, <3>2, <3>7 DEF ConvertersInv
  <2>3. CASE InsertBatch
    <3>1. /\ Len(script) < Height(file) /\ script' = script \o Batch(file, Len(script))
          /\ UNCHANGED <<query, pipeline, clause, file>>
      BY <2>3, Zenon DEF InsertBatch
    <3>2. ConvertersInv'
      BY <1>2, <3>1 DEF ConvertersInv
    <3>3. PICK n \in Nat : n <= Height(file) /\ script = [i \in 1 .. n |-> Row(file, i)]
      BY <1>2, Zenon DEF Inserted
    <3>4. Len(script) = n
      BY <3>3
    <3>5. file \in Files
      BY <1>2 DEF ConvertersInv
    <3>6. PICK m \in Nat : /\ n <= m /\ m <= Height(file)
                           /\ Batch(file, n) = [i \in 1 .. (m - n) |-> Row(file, n + i)]
      BY <3>3, <3>5, BatchIs
    <3>7. script' = [i \in 1 .. m |-> Row(file, i)]
      <4>. DEFINE R(i) == Row(file, i)
      <4>1. script = [i \in 1 .. n |-> R(i)] /\ Batch(file, n) = [i \in 1 .. (m - n) |-> R(n + i)]
        BY <3>3, <3>6, Zenon
      <4>. HIDE DEF R
      <4>2. [i \in 1 .. n |-> R(i)] \o [i \in 1 .. (m - n) |-> R(n + i)] = [i \in 1 .. m |-> R(i)]
        BY <3>6
      <4>3. script' = [i \in 1 .. m |-> R(i)]
        BY <3>1, <3>4, <4>1, <4>2, Zenon
      <4>. QED
        BY <4>3, Zenon DEF R
    <3>8. Inserted'
      BY <3>1, <3>6, <3>7, Zenon DEF Inserted
    <3>. QED
      BY <3>2, <3>8
  <2>4. CASE UNCHANGED cvars
    BY <1>2, <2>4 DEF cvars, ConvertersInv, Inserted
  <2>. QED
    BY <1>2, <2>1, <2>2, <2>3, <2>4, Zenon DEF ConvertNext
<1>. QED
  BY <1>1, <1>2, PTL DEF CSpec

(* The pipeline of a sound query answers on every table what the query     *)
(* answers, and the script holds each row of the file once, in order and   *)
(* under a type that keeps it (polyglot.py:84-183, 188-355).               *)
THEOREM ConvertersAlwaysKeepTheMeaning == CSpec => []ConvertersKeepTheMeaning
<1>1. ConvertersInv /\ Inserted => ConvertersKeepTheMeaning
  <2>. SUFFICES ASSUME ConvertersInv, Inserted PROVE ConvertersKeepTheMeaning
    OBVIOUS
  <2>1. ScriptLoadsTheFile
    BY InsertedLoads DEF ConvertersInv
  <2>2. PipelineAnswersTheQuery
    <3>. SUFFICES ASSUME clause = "done", Sound(query), NEW table \in Tables, WithoutNulls(query, table)
                  PROVE  Shown(query, RunAll(pipeline, table)) = SqlAnswer(query, table)
      BY Zenon DEF PipelineAnswersTheQuery
    <3>1. query \in Selects /\ pipeline = Limited(query) /\ ~Refused(query)
      BY DEF ConvertersInv, Halfway
    <3>2. Convertible(query)
      BY <3>1, Zenon DEF Convertible
    <3>. QED
      BY <3>1, <3>2, LimitedAnswers, Zenon
  <2>. QED
    BY <2>1, <2>2, Zenon DEF ConvertersKeepTheMeaning
<1>. QED
  BY <1>1, ConvertersInvHolds, PTL
=============================================================================
