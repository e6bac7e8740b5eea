------------------------------ MODULE Gateways ------------------------------
(***************************************************************************)
(* The data gateways of connectors/polyglot.py: one object each for        *)
(* Snowflake and MongoDB, which keep an audit trail of findings, and for   *)
(* Redis, which caches lint results.  A server may be unreachable, fail in *)
(* the middle of a call or do what it is asked and lose the reply; a call  *)
(* connects when its object has no connection yet.  PostgresGateway never  *)
(* gets as far: its connect imports `sqlalchemy.func`, which is no module, *)
(* and reports SQLAlchemy missing, so every call raises.                   *)
(***************************************************************************)
EXTENDS Integers, Functions

CONSTANTS Queries, Results, None,   \* cached by dialect and SQL; lint results
          MaxFindings, MaxRows      \* bounds: findings of a call, rows of a trail

ASSUME GatewayAssumption == {MaxFindings, MaxRows} \subseteq Nat /\ None \notin Results

Trails == {"snowflake", "mongo"}
Servers == Trails \cup {"redis"}

VARIABLES up,           \* server -> it answers
          client,       \* server -> "none", "open" or "closed": the driver's object
          collection,   \* MongoDBGateway._coll is set
          rows,         \* trail -> rows stored
          answered,     \* trail -> rows its calls reported
          partial,      \* history: trail -> rows stored by calls that raised
          cache,        \* what Redis holds
          latest,       \* history: query -> the last result whose set_cached returned True
          doubtful      \* history: query -> results whose set_cached lost the reply

gvars == <<up, client, collection, rows, answered, partial, cache, latest, doubtful>>
trails == <<rows, answered, partial>>
caching == <<cache, latest, doubtful>>

GInit == /\ up = [s \in Servers |-> TRUE] /\ client = [s \in Servers |-> "none"]
         /\ collection = FALSE
         /\ rows = [t \in Trails |-> 0] /\ answered = rows /\ partial = rows
         /\ cache = <<>> /\ latest = <<>> /\ doubtful = [q \in Queries |-> {}]

(* connect().  Redis and MongoDB set the client before the first ping,     *)
(* MongoDB its collection before the indexes.                              *)
Connected(s, c) == client' = [client EXCEPT ![s] = c]
ConnectSnowflake == up["snowflake"] /\ Connected("snowflake", "open") /\ UNCHANGED collection
ConnectRedis == Connected("redis", "open") /\ UNCHANGED collection
ConnectMongo == /\ Connected("mongo", "open")
                /\ collection' = (collection \/ up["mongo"])
ConnectGateway == /\ ConnectSnowflake \/ ConnectRedis \/ ConnectMongo
           /\ UNCHANGED <<up, trails, caching>>
(* close(): the attribute keeps the closed object.                         *)
CloseGateway(s) == /\ client[s] # "none" /\ Connected(s, "closed")
            /\ UNCHANGED <<up, collection, trails, caching>>

(* write_findings.                                                         *)
Stored(t, n, reported) ==
    /\ rows[t] + n <= MaxRows
    /\ rows' = [rows EXCEPT ![t] = @ + n]
    /\ answered' = [answered EXCEPT ![t] = @ + reported]
    /\ partial' = [partial EXCEPT ![t] = @ + n - reported]
(* Mutant: the count is of the findings given.                             *)
ReportsGiven(n, k) == {0, n}
(* What a call that stored k of its n findings reports: all of them, or    *)
(* nothing, since it raised on a row or lost the reply to the last one.    *)
Reports(n, k) == {0} \cup (IF k = n THEN {n} ELSE {})
(* Snowflake commits each row.  A closed connection is not None and is not *)
(* opened again.                                                           *)
WriteSnowflake(n, k) ==
    /\ up["snowflake"] /\ client["snowflake"] # "closed" /\ k <= n
    /\ Connected("snowflake", "open")
    /\ \E told \in Reports(n, k) : Stored("snowflake", k, told)
    /\ UNCHANGED <<up, collection, caching>>
(* A PyMongo collection has no truth value: `not self._coll` raises unless *)
(* it is still None, so only the call that connects can write.             *)
(* insert_many raises on the document that fails; those before it stay.    *)
Usable == ~collection
WriteMongo(n, k) == /\ Usable /\ up["mongo"] /\ k <= n
                    /\ ConnectMongo
                    /\ \E told \in Reports(n, k) : Stored("mongo", k, told)
                    /\ UNCHANGED <<up, caching>>
(* query_findings and count_by_rule connect and read.                      *)
ReadMongo == /\ Usable /\ ConnectMongo /\ UNCHANGED <<up, trails, caching>>
ReadSnowflake == /\ client["snowflake"] = "none" /\ ConnectSnowflake
                 /\ UNCHANGED <<up, trails, caching>>

(* The cache: without a client, or on an error, a call misses.  redis-py   *)
(* opens a closed client again.                                            *)
Reachable == client["redis"] # "none" /\ up["redis"]
Key(f, q, r) == [x \in DOMAIN f \cup {q} |-> IF x = q THEN r ELSE f[x]]
SetCached(q, r) == /\ Reachable
                   /\ cache' = Key(cache, q, r) /\ latest' = Key(latest, q, r)
                   /\ UNCHANGED <<up, client, collection, trails, doubtful>>
(* The reply is lost: the caller is told False, and Redis may store the    *)
(* result at once, or when it reads what the lost connection left behind.  *)
SetLost(q, r) == /\ Reachable /\ doubtful' = [doubtful EXCEPT ![q] = @ \cup {r}]
                 /\ UNCHANGED <<up, client, collection, trails, cache, latest>>
StoredLate(q, r) == /\ r \in doubtful[q] /\ cache' = Key(cache, q, r)
                    /\ UNCHANGED <<up, client, collection, trails, latest, doubtful>>
GetCached(q) == IF Reachable /\ q \in DOMAIN cache THEN cache[q] ELSE None
Invalidate(q) == /\ Reachable /\ q \in DOMAIN cache
                 /\ cache' = Restrict(cache, DOMAIN cache \ {q})
                 /\ latest' = Restrict(latest, DOMAIN latest \ {q})
                 /\ UNCHANGED <<up, client, collection, trails, doubtful>>
FlushAll == /\ Reachable /\ cache' = <<>> /\ latest' = <<>>
            /\ UNCHANGED <<up, client, collection, trails, doubtful>>
(* The key expires, or a deletion is done whose reply is lost.             *)
Expire(q) == /\ q \in DOMAIN cache /\ cache' = Restrict(cache, DOMAIN cache \ {q})
             /\ UNCHANGED <<up, client, collection, trails, latest, doubtful>>

Outage(s) == /\ up' = [up EXCEPT ![s] = ~@]
             /\ UNCHANGED <<client, collection, trails, caching>>

GNext == \/ ConnectGateway \/ \E s \in Servers : CloseGateway(s) \/ Outage(s)
         \/ \E n, k \in 0..MaxFindings : WriteSnowflake(n, k) \/ WriteMongo(n, k)
         \/ ReadMongo \/ ReadSnowflake \/ FlushAll
         \/ \E q \in Queries : \/ Invalidate(q) \/ Expire(q)
                              \/ \E r \in Results :
                                   SetCached(q, r) \/ SetLost(q, r) \/ StoredLate(q, r)
GSpec == GInit /\ [][GNext]_gvars

-----------------------------------------------------------------------------
(* Through outages, closing and reconnecting, calls that raise half way    *)
(* and lost replies: a trail never holds fewer rows than its calls         *)
(* reported, and exactly those but for what calls that raised had stored;  *)
(* a MongoDB gateway writes at most once in its life; and the cache        *)
(* answers nothing but the last result stored for a query and not          *)
(* withdrawn, or one whose set_cached lost the reply and said it was not   *)
(* stored (polyglot.py:391-789).                                           *)
GatewaysAreHonest ==
    /\ \A t \in Trails : rows[t] = answered[t] + partial[t] /\ partial[t] >= 0
    /\ rows["mongo"] <= MaxFindings
    /\ \A q \in Queries : GetCached(q) # None =>
         \/ q \in DOMAIN latest /\ GetCached(q) = latest[q]
         \/ GetCached(q) \in doubtful[q]
=============================================================================
