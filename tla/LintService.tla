---------------------------- MODULE LintService ----------------------------
(***************************************************************************)
(* How api/server.py schedules linting: a batch lints on the executor's    *)
(* threads under a semaphore and is answered by gather(), a WebSocket      *)
(* handler lints what it receives, one message at a time, and POST /lint   *)
(* lints inside the event loop, which does nothing else meanwhile.  A      *)
(* result is named by the query it is of.                                  *)
(***************************************************************************)
EXTENDS Naturals, Sequences, FiniteSets

CONSTANTS Clients,          \* WebSocket clients
          BatchSize, MaxMessages    \* bounds: queries of a batch, messages of a client

ASSUME ServiceAssumption == {BatchSize, MaxMessages} \subseteq Nat \ {0}

VARIABLES concurrency,      \* of the batch: 1 .. 32
          sound,            \* query -> _handle_lint does not raise on it
          job,              \* query of the batch -> where its task is
          reply,            \* "none", "error" or the results of the batch
          blocked,          \* POST /lint runs in the event loop
          connections,      \* _ConnectionManager._connections
          handler,          \* client -> where _websocket_lint is
          inbox, written,   \* client -> its messages not yet received, those it wrote
          received          \* client -> results it was sent

svars == <<concurrency, sound, job, reply, blocked, connections, handler, inbox, written, received>>
batching == <<concurrency, sound, job, reply>>
streaming == <<connections, handler, inbox, written, received>>

BatchQueries == 1..BatchSize
SInit == /\ concurrency \in 1..BatchSize
         /\ sound \in [BatchQueries -> BOOLEAN]
         /\ job = [q \in BatchQueries |-> "created"] /\ reply = "none" /\ blocked = FALSE
         /\ connections = {} /\ handler = [c \in Clients |-> "new"]
         /\ inbox = [c \in Clients |-> <<>>] /\ written = [c \in Clients |-> 0]
         /\ received = [c \in Clients |-> <<>>]

(* The event loop runs the steps of coroutines, one at a time.             *)
Loop == ~blocked

-----------------------------------------------------------------------------
(* _handle_batch_lint: a task waits for the semaphore, hands its query to  *)
(* the executor and stores the result at its own index; gather() raises    *)
(* the first exception at once and lets the other tasks run on.            *)
Linting == {q \in BatchQueries : job[q] \in {"executing", "returned", "raised"}}
(* Mutant: no semaphore.                                                   *)
AcquireAlways(q) == /\ Loop /\ job[q] = "created"
                    /\ job' = [job EXCEPT ![q] = "executing"]
                    /\ UNCHANGED <<concurrency, sound, reply, blocked, streaming>>
Acquire(q) == /\ Loop /\ job[q] = "created" /\ Cardinality(Linting) < concurrency
              /\ job' = [job EXCEPT ![q] = "executing"]
              /\ UNCHANGED <<concurrency, sound, reply, blocked, streaming>>
HandleLint(q) == /\ job[q] = "executing"
                 /\ job' = [job EXCEPT ![q] = IF sound[q] THEN "returned" ELSE "raised"]
                 /\ UNCHANGED <<concurrency, sound, reply, blocked, streaming>>
(* Mutant: a failed task keeps its place in the semaphore.                 *)
ReleaseStored(q) == /\ Loop /\ job[q] = "returned"
                    /\ job' = [job EXCEPT ![q] = "stored"]
                    /\ UNCHANGED <<concurrency, sound, reply, blocked, streaming>>
Release(q) == /\ Loop /\ job[q] \in {"returned", "raised"}
              /\ job' = [job EXCEPT ![q] = IF @ = "raised" THEN "failed" ELSE "stored"]
              /\ reply' = IF job[q] = "raised" /\ reply = "none" THEN "error" ELSE reply
              /\ UNCHANGED <<concurrency, sound, blocked, streaming>>
Gather == /\ Loop /\ reply = "none" /\ \A q \in BatchQueries : job[q] = "stored"
          /\ reply' = "results"
          /\ UNCHANGED <<concurrency, sound, job, blocked, streaming>>

(* POST /lint: a coroutine that calls the engine itself.                   *)
LintBegin == /\ Loop /\ blocked' = TRUE /\ UNCHANGED <<batching, streaming>>
LintEnd == /\ blocked /\ blocked' = FALSE /\ UNCHANGED <<batching, streaming>>

-----------------------------------------------------------------------------
(* _websocket_lint.                                                        *)
At(c, place) == handler' = [handler EXCEPT ![c] = place]
Connect(c) == /\ Loop /\ handler[c] = "new"
              /\ connections' = connections \cup {c} /\ At(c, "receiving")
              /\ UNCHANGED <<batching, blocked, inbox, written, received>>
ClientWrites(c) == /\ handler[c] # "new" /\ written[c] < MaxMessages
                   /\ \E m \in {"query", "no json", "close"} :
                        inbox' = [inbox EXCEPT ![c] = Append(@, [kind |-> m, nr |-> written[c] + 1])]
                   /\ written' = [written EXCEPT ![c] = @ + 1]
                   /\ UNCHANGED <<batching, blocked, connections, handler, received>>
(* A closed socket raises WebSocketDisconnect, which removes the entry;    *)
(* any other exception leaves the handler with the entry in place.         *)
Disconnected(c) == At(c, "ended") /\ connections' = connections \ {c}
Fails(c) == At(c, "failed") /\ UNCHANGED connections
Receive(c) == /\ Loop /\ handler[c] = "receiving" /\ inbox[c] # <<>>
              /\ CASE Head(inbox[c]).kind = "query" -> At(c, "linting") /\ UNCHANGED connections
                   [] Head(inbox[c]).kind = "close" -> Disconnected(c)
                   [] OTHER -> Fails(c)
              /\ UNCHANGED <<batching, blocked, inbox, written, received>>
LintMessage(c) == /\ handler[c] = "linting"
                  /\ At(c, "sending") \/ At(c, "raised")
                  /\ UNCHANGED <<batching, blocked, connections, inbox, written, received>>
SendResult(c) == /\ Loop /\ handler[c] = "sending" /\ c \in connections
                 /\ received' = [received EXCEPT ![c] = Append(@, Head(inbox[c]).nr)]
                 /\ inbox' = [inbox EXCEPT ![c] = Tail(@)]
                 /\ At(c, "receiving")
                 /\ UNCHANGED <<batching, blocked, connections, written>>
MessageRaised(c) == /\ Loop /\ handler[c] = "raised" /\ Fails(c)
                    /\ UNCHANGED <<batching, blocked, inbox, written, received>>

BatchNext == \/ \E q \in BatchQueries : Acquire(q) \/ HandleLint(q) \/ Release(q)
             \/ Gather \/ LintBegin \/ LintEnd
StreamNext == \E c \in Clients : \/ Connect(c) \/ ClientWrites(c) \/ Receive(c) \/ LintMessage(c)
                                 \/ SendResult(c) \/ MessageRaised(c)
SNext == BatchNext \/ StreamNext
(* The executor runs what it was given; asyncio's loop is a fair queue.    *)
SFairness == /\ WF_svars(LintEnd) /\ SF_svars(Gather)
             /\ \A q \in BatchQueries : SF_svars(Acquire(q)) /\ WF_svars(HandleLint(q)) /\ SF_svars(Release(q))
SSpec == SInit /\ [][SNext]_svars /\ SFairness

-----------------------------------------------------------------------------
(* No more queries of a batch are linted at once than its concurrency, it  *)
(* is answered with results only when each query has its own and with an   *)
(* error only when one raised; a client gets the results of its messages   *)
(* in the order it wrote them, and a handler that has ended leaves its     *)
(* connection behind only when it failed (server.py:222-297).              *)
ServiceKeepsCount ==
    /\ Cardinality(Linting) <= concurrency
    /\ reply = "results" => \A q \in BatchQueries : sound[q]
    /\ reply = "error" => \E q \in BatchQueries : ~sound[q]
    /\ \A c \in Clients : /\ \A i, j \in DOMAIN received[c] : i < j => received[c][i] < received[c][j]
                          /\ handler[c] = "ended" => c \notin connections
                          /\ handler[c] \in {"receiving", "linting", "sending", "raised", "failed"}
                                => c \in connections

(* Every batch that has begun is answered and its tasks all end, also      *)
(* after another task has raised, however often POST /lint takes the loop  *)
(* (server.py:222-247).                                                    *)
BatchEnds == (Linting # {}) ~> (reply # "none" /\ \A q \in BatchQueries : job[q] \in {"stored", "failed"})
=============================================================================
