--------------------------- MODULE Frontends_proofs ---------------------------
(***************************************************************************)
(* Proofs about the three programs that lint for somebody else and answer  *)
(* while they are spoken to: the API server (LintService), the language    *)
(* server of the editors (RpcServers) and the scans of the dashboard       *)
(* (ScanSession), for any number of clients, documents, files and messages.*)
(***************************************************************************)
EXTENDS LintService, RpcServers, ScanSession, Integers, SequenceTheorems,
        FiniteSetTheorems, WellFoundedInduction, TLAPS

-----------------------------------------------------------------------------
(***************************************************************************)
(* LintService: a batch never lints more queries at once than its          *)
(* concurrency and is answered as its queries deserve, and a client gets   *)
(* its results in order.                                                   *)
(*                                                                         *)
(* ServiceKeepsCount is not inductive: the strengthening says what a task  *)
(* that got so far shows of its query, and that the messages of a client   *)
(* that wait are the last it wrote.                                        *)
(***************************************************************************)
USE ServiceAssumption

Places == {"created", "executing", "returned", "raised", "stored", "failed"}
Stages == {"new", "receiving", "linting", "sending", "raised", "ended", "failed"}
MessageKinds == {"query", "no json", "close"}
Messages == [kind : MessageKinds, nr : Nat]

BatchTypes ==
  /\ concurrency \in 1..BatchSize
  /\ sound \in [BatchQueries -> BOOLEAN]
  /\ job \in [BatchQueries -> Places]

\* A task is where its query sends it, and the reply is what the tasks say.
BatchInv ==
  /\ \A q \in BatchQueries : /\ job[q] \in {"raised", "failed"} => ~sound[q]
                             /\ job[q] \in {"returned", "stored"} => sound[q]
  /\ reply = "results" => \A q \in BatchQueries : sound[q]
  /\ reply = "error" => \E q \in BatchQueries : ~sound[q]

Counted == Cardinality(Linting) <= concurrency

StreamTypes ==
  /\ handler \in [Clients -> Stages]
  /\ inbox \in [Clients -> Seq(Messages)]
  /\ written \in [Clients -> Nat]
  /\ received \in [Clients -> Seq(Nat)]

\* The number of messages of c that its handler has done with.
Handled(c) == written[c] - Len(inbox[c])

\* The messages that wait are the last ones written, results are of earlier
\* ones, in order, and a handler at work has its message before it.
OrderInv(c) ==
  /\ Handled(c) >= 0
  /\ \A i \in 1..Len(inbox[c]) : inbox[c][i].nr = Handled(c) + i
  /\ \A i \in 1..Len(received[c]) : received[c][i] <= Handled(c)
  /\ \A i, j \in 1..Len(received[c]) : i < j => received[c][i] < received[c][j]
  /\ handler[c] \in {"linting", "sending", "raised"} => inbox[c] # <<>>

ConnectedInv(c) ==
  /\ handler[c] = "ended" => c \notin connections
  /\ handler[c] \in {"receiving", "linting", "sending", "raised", "failed"} => c \in connections

StreamInv == StreamTypes /\ \A c \in Clients : OrderInv(c) /\ ConnectedInv(c)

ServiceInv == BatchTypes /\ BatchInv /\ Counted /\ StreamInv

-----------------------------------------------------------------------------
LEMMA LintingIsFinite == IsFiniteSet(Linting)
<1>1. IsFiniteSet(BatchQueries)
  BY FS_Interval DEF BatchQueries
<1>2. Linting \subseteq BatchQueries
  BY DEF Linting
<1> QED
  BY <1>1, <1>2, FS_Subset

LEMMA InitServiceInv == SInit => ServiceInv
<1> SUFFICES ASSUME SInit PROVE ServiceInv
  OBVIOUS
<1>1. BatchTypes /\ BatchInv
  BY DEF SInit, BatchTypes, BatchInv, Places, BatchQueries
<1>2. Counted
  <2>1. Linting = {}
    BY DEF SInit, Linting
  <2> QED
    BY <1>1, <2>1, FS_EmptySet DEF Counted, BatchTypes
<1>3. StreamTypes
  BY DEF SInit, StreamTypes, Stages
<1>4. \A c \in Clients : OrderInv(c) /\ ConnectedInv(c)
  BY DEF SInit, OrderInv, ConnectedInv, Handled
<1> QED
  BY <1>1, <1>2, <1>3, <1>4 DEF ServiceInv, StreamInv

-----------------------------------------------------------------------------
(***************************************************************************)
(* The batch.                                                              *)
(***************************************************************************)
LEMMA StreamKept == ASSUME StreamInv, UNCHANGED streaming PROVE StreamInv'
BY DEF streaming, StreamInv, StreamTypes, OrderInv, ConnectedInv, Handled

LEMMA BatchKept == ASSUME BatchTypes, BatchInv, Counted, UNCHANGED batching
                   PROVE  BatchTypes' /\ BatchInv' /\ Counted'
<1>1. Linting' = Linting
  BY DEF batching, Linting
<1> QED
  BY <1>1 DEF batching, BatchTypes, BatchInv, Counted

\* The semaphore: one more query is linted only when there was room for it.
LEMMA AcquireStep == ASSUME ServiceInv, NEW q \in BatchQueries, Acquire(q) PROVE ServiceInv'
<1>1. /\ job' = [job EXCEPT ![q] = "executing"]
      /\ UNCHANGED <<concurrency, sound, reply>>
  BY DEF Acquire
<1>2. BatchTypes' /\ BatchInv'
  BY <1>1 DEF ServiceInv, BatchTypes, BatchInv, Places
<1>3. Linting' = Linting \cup {q} /\ q \notin Linting
  BY <1>1 DEF Acquire, Linting, ServiceInv, BatchTypes
<1>4. Cardinality(Linting') = Cardinality(Linting) + 1
  BY <1>3, LintingIsFinite, FS_AddElement
<1>5. Cardinality(Linting) < concurrency
  BY DEF Acquire
<1>6. Counted'
  BY <1>1, <1>4, <1>5, LintingIsFinite, FS_CardinalityType DEF Counted, ServiceInv, BatchTypes
<1> QED
  BY <1>2, <1>6, StreamKept DEF Acquire, ServiceInv

\* Fewer queries are linted afterwards, or as many.
LEMMA FewerKeeps ==
  ASSUME Counted, BatchTypes, Linting' \subseteq Linting, concurrency' = concurrency
  PROVE  Counted'
<1>1. Cardinality(Linting') <= Cardinality(Linting)
  BY LintingIsFinite, FS_Subset
<1>2. Cardinality(Linting) \in Nat /\ Cardinality(Linting') \in Nat
  BY LintingIsFinite, FS_Subset, FS_CardinalityType
<1> QED
  BY <1>1, <1>2 DEF Counted, BatchTypes

LEMMA HandleLintStep == ASSUME ServiceInv, NEW q \in BatchQueries, HandleLint(q) PROVE ServiceInv'
<1>1. /\ job[q] = "executing"
      /\ job' = [job EXCEPT ![q] = IF sound[q] THEN "returned" ELSE "raised"]
      /\ UNCHANGED <<concurrency, sound, reply>>
  BY DEF HandleLint
<1>2. BatchTypes'
  BY <1>1 DEF ServiceInv, BatchTypes, Places
<1>3. BatchInv'
  BY <1>1 DEF ServiceInv, BatchTypes, BatchInv
<1>4. Linting' \subseteq Linting
  BY <1>1 DEF Linting, ServiceInv, BatchTypes
<1> QED
  BY <1>1, <1>2, <1>3, <1>4, FewerKeeps, StreamKept DEF HandleLint, ServiceInv

LEMMA ReleaseStep == ASSUME ServiceInv, NEW q \in BatchQueries, Release(q) PROVE ServiceInv'
<1>1. /\ job[q] \in {"returned", "raised"}
      /\ job' = [job EXCEPT ![q] = IF job[q] = "raised" THEN "failed" ELSE "stored"]
      /\ UNCHANGED <<concurrency, sound>>
  BY DEF Release
<1>2. reply' = IF job[q] = "raised" /\ reply = "none" THEN "error" ELSE reply
  BY DEF Release
<1>3. BatchTypes'
  BY <1>1 DEF ServiceInv, BatchTypes, Places
<1>4. BatchInv'
  BY <1>1, <1>2 DEF ServiceInv, BatchTypes, BatchInv
<1>5. Linting' \subseteq Linting
  BY <1>1 DEF Linting, ServiceInv, BatchTypes
<1> QED
  BY <1>1, <1>3, <1>4, <1>5, FewerKeeps, StreamKept DEF Release, ServiceInv

LEMMA GatherStep == ASSUME ServiceInv, Gather PROVE ServiceInv'
<1>1. UNCHANGED <<concurrency, sound, job>> /\ reply' = "results"
      /\ \A q \in BatchQueries : job[q] = "stored"
  BY DEF Gather
<1>2. BatchTypes' /\ BatchInv'
  BY <1>1 DEF ServiceInv, BatchTypes, BatchInv
<1>3. Linting' \subseteq Linting
  BY <1>1 DEF Linting
<1> QED
  BY <1>1, <1>2, <1>3, FewerKeeps, StreamKept DEF Gather, ServiceInv

-----------------------------------------------------------------------------
(***************************************************************************)
(* The streams.  A step of one client leaves those of the others alone.    *)
(***************************************************************************)
LEMMA OthersKept ==
  ASSUME StreamInv, NEW c \in Clients, StreamTypes',
         \A d \in Clients \ {c} :
           /\ handler'[d] = handler[d] /\ inbox'[d] = inbox[d] /\ written'[d] = written[d]
           /\ received'[d] = received[d] /\ (d \in connections' <=> d \in connections),
         OrderInv(c)', ConnectedInv(c)'
  PROVE  StreamInv'
BY DEF StreamInv, OrderInv, ConnectedInv, Handled

\* A handler moves on without touching its messages.
LEMMA MoveKeeps ==
  ASSUME StreamInv, NEW c \in Clients, NEW place \in Stages, At(c, place),
         UNCHANGED <<inbox, written, received>>,
         connections' \in {connections, connections \cup {c}, connections \ {c}},
         place = "ended" => c \notin connections',
         place \in {"receiving", "linting", "sending", "raised", "failed"} => c \in connections',
         place \in {"linting", "sending", "raised"} => inbox[c] # <<>>
  PROVE  StreamInv'
<1>1. /\ handler' = [handler EXCEPT ![c] = place]
  BY DEF At
<1>2. StreamTypes'
  BY <1>1 DEF StreamInv, StreamTypes
<1>3. handler'[c] = place /\ \A d \in Clients \ {c} : handler'[d] = handler[d]
  BY <1>1 DEF StreamInv, StreamTypes
<1>4. OrderInv(c)' /\ ConnectedInv(c)'
  BY <1>3 DEF StreamInv, OrderInv, ConnectedInv, Handled
<1> QED
  BY <1>2, <1>3, <1>4, OthersKept

\* What is known of one client.
LEMMA ClientFacts ==
  ASSUME ServiceInv, NEW c \in Clients
  PROVE  /\ StreamTypes /\ OrderInv(c) /\ ConnectedInv(c)
         /\ inbox[c] \in Seq(Messages) /\ received[c] \in Seq(Nat) /\ written[c] \in Nat
         /\ Len(inbox[c]) \in Nat /\ Len(received[c]) \in Nat
         /\ Handled(c) \in Nat /\ Handled(c) + Len(inbox[c]) = written[c]
<1>1. StreamTypes /\ OrderInv(c) /\ ConnectedInv(c)
  BY DEF ServiceInv, StreamInv
<1>2. inbox[c] \in Seq(Messages) /\ received[c] \in Seq(Nat) /\ written[c] \in Nat
  BY <1>1 DEF StreamTypes
<1>3. Len(inbox[c]) \in Nat /\ Len(received[c]) \in Nat
  BY <1>2
<1>4. Handled(c) >= 0
  BY <1>1 DEF OrderInv
<1> QED
  BY <1>1, <1>2, <1>3, <1>4 DEF Handled

LEMMA WriteStep == ASSUME ServiceInv, NEW c \in Clients, ClientWrites(c) PROVE StreamInv'
<1>1. /\ StreamInv /\ StreamTypes /\ OrderInv(c) /\ ConnectedInv(c)
      /\ inbox[c] \in Seq(Messages) /\ written[c] \in Nat /\ Len(inbox[c]) \in Nat
      /\ Handled(c) \in Nat /\ Handled(c) + Len(inbox[c]) = written[c]
  BY ClientFacts DEF ServiceInv
<1>2. PICK m \in MessageKinds :
        inbox' = [inbox EXCEPT ![c] = Append(inbox[c], [kind |-> m, nr |-> written[c] + 1])]
  BY Zenon DEF ClientWrites, MessageKinds
<1>3. /\ written' = [written EXCEPT ![c] = written[c] + 1]
      /\ UNCHANGED <<connections, handler, received>>
  BY DEF ClientWrites
<1> DEFINE new == [kind |-> m, nr |-> written[c] + 1]
<1>4. new \in Messages /\ new.nr = written[c] + 1
  BY <1>1 DEF Messages
<1>5. inbox' = [inbox EXCEPT ![c] = Append(inbox[c], new)]
  BY <1>2
<1> HIDE DEF new
<1>6. inbox'[c] = Append(inbox[c], new) /\ written'[c] = written[c] + 1
  BY <1>1, <1>3, <1>5 DEF StreamTypes
<1>7. Append(inbox[c], new) \in Seq(Messages)
  BY <1>1, <1>4
<1>8. /\ Len(inbox'[c]) = Len(inbox[c]) + 1
      /\ inbox'[c][Len(inbox[c]) + 1] = new
      /\ \A i \in 1..Len(inbox[c]) : inbox'[c][i] = inbox[c][i]
  BY <1>1, <1>4, <1>6
<1>9. StreamTypes'
  BY <1>1, <1>3, <1>5, <1>7 DEF StreamTypes
<1>10. OrderInv(c)'
  <2>1. Handled(c)' = Handled(c)
    BY <1>1, <1>6, <1>8 DEF Handled
  <2>2. ASSUME NEW i \in 1..Len(inbox'[c]) PROVE inbox'[c][i].nr = Handled(c) + i
    <3>1. CASE i \in 1..Len(inbox[c])
      BY <1>1, <1>8, <3>1 DEF OrderInv
    <3>2. CASE i = Len(inbox[c]) + 1
      BY <1>1, <1>4, <1>8, <3>2
    <3> QED
      BY <1>1, <1>8, <3>1, <3>2
  <2>3. inbox'[c] # <<>>
    <3>1. Len(inbox'[c]) # 0
      BY <1>1, <1>8
    <3>2. Len(<<>>) = 0
      OBVIOUS
    <3> QED
      BY <3>1, <3>2
  <2>4. Handled(c)' >= 0 /\ \A i \in 1..Len(inbox'[c]) : inbox'[c][i].nr = Handled(c)' + i
    BY <1>1, <2>1, <2>2
  <2>5. \A i \in 1..Len(received'[c]) : received'[c][i] <= Handled(c)'
    BY <1>1, <1>3, <2>1 DEF OrderInv
  <2>6. \A i, j \in 1..Len(received'[c]) : i < j => received'[c][i] < received'[c][j]
    BY <1>1, <1>3 DEF OrderInv
  <2> QED
    BY <2>3, <2>4, <2>5, <2>6 DEF OrderInv
<1>11. \A d \in Clients \ {c} : inbox'[d] = inbox[d] /\ written'[d] = written[d]
  BY <1>1, <1>3, <1>5 DEF StreamTypes
<1>12. ConnectedInv(c)'
  BY <1>1, <1>3 DEF ConnectedInv
<1> QED
  BY <1>1, <1>3, <1>9, <1>10, <1>11, <1>12, OthersKept

LEMMA SendStep == ASSUME ServiceInv, NEW c \in Clients, SendResult(c) PROVE StreamInv'
<1>1. /\ StreamInv /\ StreamTypes /\ OrderInv(c) /\ ConnectedInv(c)
      /\ inbox[c] \in Seq(Messages) /\ received[c] \in Seq(Nat) /\ written[c] \in Nat
      /\ Len(inbox[c]) \in Nat /\ Len(received[c]) \in Nat
      /\ Handled(c) \in Nat /\ Handled(c) + Len(inbox[c]) = written[c]
  BY ClientFacts DEF ServiceInv
<1>2. /\ handler[c] = "sending" /\ c \in connections
      /\ received' = [received EXCEPT ![c] = Append(received[c], Head(inbox[c]).nr)]
      /\ inbox' = [inbox EXCEPT ![c] = Tail(inbox[c])]
      /\ handler' = [handler EXCEPT ![c] = "receiving"]
      /\ UNCHANGED <<connections, written>>
  BY DEF SendResult, At
<1>3. inbox[c] # <<>> /\ Len(inbox[c]) >= 1
  <2>1. inbox[c] # <<>>
    BY <1>1, <1>2 DEF OrderInv
  <2> QED
    BY <1>1, <2>1
<1> DEFINE nr == Head(inbox[c]).nr
<1>4. nr = Handled(c) + 1
  <2>1. Head(inbox[c]) = inbox[c][1] /\ 1 \in 1..Len(inbox[c])
    BY <1>1, <1>3
  <2> QED
    BY <1>1, <2>1 DEF OrderInv
<1>5. /\ received' = [received EXCEPT ![c] = Append(received[c], nr)] /\ nr \in Nat
  BY <1>1, <1>2, <1>4
<1> HIDE DEF nr
<1>6. /\ inbox'[c] = Tail(inbox[c]) /\ received'[c] = Append(received[c], nr)
      /\ handler'[c] = "receiving" /\ written'[c] = written[c]
  BY <1>1, <1>2, <1>5 DEF StreamTypes
<1>7. Tail(inbox[c]) \in Seq(Messages) /\ Append(received[c], nr) \in Seq(Nat)
  BY <1>1, <1>3, <1>5
<1>8. /\ Len(inbox'[c]) = Len(inbox[c]) - 1
      /\ \A i \in 1..(Len(inbox[c]) - 1) : inbox'[c][i] = inbox[c][i + 1]
  BY <1>1, <1>3, <1>6
<1>9. /\ Len(received'[c]) = Len(received[c]) + 1
      /\ received'[c][Len(received[c]) + 1] = nr
      /\ \A i \in 1..Len(received[c]) : received'[c][i] = received[c][i] /\ received[c][i] \in Nat
  BY <1>1, <1>5, <1>6
<1>10. StreamTypes'
  BY <1>1, <1>2, <1>5, <1>7 DEF StreamTypes, Stages
<1>11. Handled(c)' = Handled(c) + 1
  BY <1>1, <1>6, <1>8 DEF Handled
<1>12. ASSUME NEW i \in 1..Len(inbox'[c]) PROVE inbox'[c][i].nr = Handled(c) + 1 + i
  <2>1. i \in 1..(Len(inbox[c]) - 1) /\ i + 1 \in 1..Len(inbox[c])
    BY <1>1, <1>8
  <2>2. inbox[c][i + 1].nr = Handled(c) + (i + 1)
    BY <1>1, <2>1 DEF OrderInv
  <2>3. Handled(c) + (i + 1) = Handled(c) + 1 + i
    BY <1>1, <2>1
  <2> QED
    BY <1>8, <2>1, <2>2, <2>3
<1>13. ASSUME NEW i \in 1..Len(received'[c])
       PROVE  /\ received'[c][i] <= Handled(c) + 1
              /\ i \in 1..Len(received[c]) => received'[c][i] < nr
  <2>1. CASE i \in 1..Len(received[c])
    <3>1. received[c][i] <= Handled(c)
      BY <1>1, <2>1 DEF OrderInv
    <3> QED
      BY <1>1, <1>4, <1>9, <2>1, <3>1 DEF nr
  <2>2. CASE i = Len(received[c]) + 1
    BY <1>1, <1>4, <1>9, <2>2 DEF nr
  <2> QED
    BY <1>1, <1>9, <2>1, <2>2
<1>14. ASSUME NEW i \in 1..Len(received'[c]), NEW j \in 1..Len(received'[c]), i < j
       PROVE  received'[c][i] < received'[c][j]
  <2>1. i \in 1..Len(received[c])
    BY <1>1, <1>9, <1>14
  <2>2. CASE j \in 1..Len(received[c])
    BY <1>1, <1>9, <1>14, <2>1, <2>2 DEF OrderInv
  <2>3. CASE j = Len(received[c]) + 1
    BY <1>9, <1>13, <2>1, <2>3
  <2> QED
    BY <1>1, <1>9, <2>2, <2>3
<1>15. OrderInv(c)'
  <2>1. Handled(c)' >= 0
    BY <1>1, <1>11 DEF OrderInv
  <2>2. \A i \in 1..Len(inbox'[c]) : inbox'[c][i].nr = Handled(c)' + i
    BY <1>11, <1>12
  <2>3. \A i \in 1..Len(received'[c]) : received'[c][i] <= Handled(c)'
    BY <1>11, <1>13
  <2>4. \A i, j \in 1..Len(received'[c]) : i < j => received'[c][i] < received'[c][j]
    BY <1>14
  <2>5. handler'[c] \in {"linting", "sending", "raised"} => inbox'[c] # <<>>
    BY <1>1, <1>6
  <2> QED
    BY <2>1, <2>2, <2>3, <2>4, <2>5 DEF OrderInv
<1>16. ConnectedInv(c)'
  BY <1>2, <1>6 DEF ConnectedInv
<1>17. \A d \in Clients \ {c} : /\ inbox'[d] = inbox[d] /\ received'[d] = received[d]
                                /\ handler'[d] = handler[d] /\ written'[d] = written[d]
  BY <1>1, <1>2 DEF StreamTypes
<1> QED
  BY <1>1, <1>2, <1>10, <1>15, <1>16, <1>17, OthersKept

LEMMA HandlerStep ==
  ASSUME ServiceInv, NEW c \in Clients, Connect(c) \/ Receive(c) \/ LintMessage(c) \/ MessageRaised(c)
  PROVE  StreamInv'
<1> USE DEF ServiceInv
<1>1. CASE Connect(c)
  BY <1>1, MoveKeeps DEF Connect, Stages
<1>2. CASE Receive(c)
  <2>1. /\ inbox[c] # <<>> /\ UNCHANGED <<inbox, written, received>>
        /\ c \in connections
    BY <1>2 DEF Receive, StreamInv, ConnectedInv
  <2>2. \/ At(c, "linting") /\ UNCHANGED connections
        \/ Disconnected(c)
        \/ Fails(c)
    BY <1>2 DEF Receive
  <2> QED
    BY <2>1, <2>2, MoveKeeps DEF Disconnected, Fails, Stages
<1>3. CASE LintMessage(c)
  <2>1. inbox[c] # <<>> /\ c \in connections
    BY <1>3 DEF LintMessage, StreamInv, OrderInv, ConnectedInv
  <2> QED
    BY <1>3, <2>1, MoveKeeps DEF LintMessage, Stages
<1>4. CASE MessageRaised(c)
  <2>1. c \in connections
    BY <1>4 DEF MessageRaised, StreamInv, ConnectedInv
  <2> QED
    BY <1>4, <2>1, MoveKeeps DEF MessageRaised, Fails, Stages
<1> QED
  BY <1>1, <1>2, <1>3, <1>4

-----------------------------------------------------------------------------
LEMMA NextServiceInv == ServiceInv /\ [SNext]_svars => ServiceInv'
<1> SUFFICES ASSUME ServiceInv, [SNext]_svars PROVE ServiceInv'
  OBVIOUS
<1>1. CASE UNCHANGED svars
  <2>1. UNCHANGED batching /\ UNCHANGED streaming
    BY <1>1 DEF svars, batching, streaming
  <2> QED
    BY <2>1, BatchKept, StreamKept DEF ServiceInv
<1>2. CASE BatchNext
  <2>1. CASE LintBegin \/ LintEnd
    <3>1. UNCHANGED batching /\ UNCHANGED streaming
      BY <2>1 DEF LintBegin, LintEnd
    <3> QED
      BY <3>1, BatchKept, StreamKept DEF ServiceInv
  <2> QED
    BY <1>2, <2>1, AcquireStep, HandleLintStep, ReleaseStep, GatherStep DEF BatchNext
<1>3. CASE StreamNext
  <2>1. UNCHANGED batching
    BY <1>3 DEF StreamNext, Connect, ClientWrites, Receive, LintMessage, SendResult, MessageRaised
  <2>2. StreamInv'
    BY <1>3, WriteStep, SendStep, HandlerStep DEF StreamNext
  <2> QED
    BY <2>1, <2>2, BatchKept DEF ServiceInv
<1> QED
  BY <1>1, <1>2, <1>3 DEF SNext

\* The strengthening holds in every reachable state (api/server.py).
THEOREM ServiceStrengthened == SSpec => []ServiceInv
BY InitServiceInv, NextServiceInv, PTL DEF SSpec

\* A batch keeps within its concurrency and is answered as its queries deserve,
\* and every client gets its results in order (server.py:222-297).
THEOREM TheServiceKeepsCount == SSpec => []ServiceKeepsCount
<1>1. ASSUME ServiceInv PROVE ServiceKeepsCount
  <2>1. \A c \in Clients : DOMAIN received[c] = 1..Len(received[c])
    BY <1>1 DEF ServiceInv, StreamInv, StreamTypes
  <2> QED
    BY <1>1, <2>1 DEF ServiceInv, BatchInv, Counted, StreamInv, OrderInv, ConnectedInv, ServiceKeepsCount
<1> QED
  BY <1>1, ServiceStrengthened, PTL

HIDE ServiceAssumption

-----------------------------------------------------------------------------
(***************************************************************************)
(* RpcServers.  EditorSeesItsText speaks of an empty pipe; the inductive   *)
(* invariant says, at every place of the pipe, which text of a document    *)
(* the server will hold when it comes there: the last one told before that *)
(* place or, if none is, the one it holds now.                             *)
(***************************************************************************)
Tellings == {"textDocument/didOpen", "textDocument/didChange"}
Asked == {"initialize", "initialized", "shutdown", "exit", "textDocument/codeAction"}
Methods == Tellings \cup Asked \cup {"textDocument/didSave", "textDocument/didClose"}
MessageFrames == [frame : {"message"}, method : Methods, id : Nat, uri : Uris, texts : Seq(Texts)]
OtherFrames == [frame : {"corrupt", "not an object", "blank", "malformed"}]

\* Frame m tells the server what document u holds.
Tells(m, u) == /\ m.frame = "message" /\ m.method \in Tellings /\ m.uri = u /\ m.texts # <<>>
Holds(docs, diags, u, t) == u \in DOMAIN docs \cap DOMAIN diags /\ docs[u] = t /\ diags[u] = t

\* When the server comes to place i of the pipe p it holds t for document u.
Before(p, docs, diags, u, i, t) ==
  \/ \E j \in 1 .. (i - 1) : /\ Tells(p[j], u) /\ Last(p[j].texts) = t
                             /\ \A k \in (j + 1) .. (i - 1) : ~Tells(p[k], u)
  \/ (\A k \in 1 .. (i - 1) : ~Tells(p[k], u)) /\ Holds(docs, diags, u, t)
Now(u, i, t) == Before(pipe, documents, published, u, i, t)
Then(u, i, t) == Before(pipe', documents', published', u, i, t)

Saves(m) == m.frame = "message" /\ m.method = "textDocument/didSave"

PipeInv ==
  /\ pipe \in Seq(MessageFrames \cup OtherFrames)
  /\ \A i \in DOMAIN pipe :
       /\ pipe[i].frame = "message" /\ pipe[i].method = "textDocument/didOpen" => Len(pipe[i].texts) = 1
       /\ Saves(pipe[i]) /\ pipe[i].texts # <<>> => Now(pipe[i].uri, i, pipe[i].texts[1])
  /\ \A u \in DOMAIN shown : Now(u, Len(pipe) + 1, shown[u])

ShownInv == /\ shown \in [DOMAIN shown -> Texts] /\ DOMAIN shown \subseteq Uris
            /\ endpoint = "lsp" \/ (endpoint = "mcp" /\ DOMAIN shown = {})

RpcInv == /\ ShownInv /\ sent \in Nat
          /\ endpoint = "lsp" /\ serving => PipeInv

LEMMA RpcInit == PInit => RpcInv
<1>. SUFFICES ASSUME PInit PROVE RpcInv
  OBVIOUS
<1>1. DOMAIN <<>> = {}
  BY EmptySeq
<1>2. ShownInv
  BY <1>1 DEF PInit, ShownInv
<1>3. PipeInv
  BY <1>1, EmptySeq DEF PInit, PipeInv
<1>. QED
  BY <1>2, <1>3 DEF RpcInv, PInit

\* A frame written at the end tells of the places after it alone.
LEMMA WrittenFrames ==
  ASSUME pipe \in Seq(MessageFrames \cup OtherFrames), NEW m \in MessageFrames \cup OtherFrames,
         pipe' = Append(pipe, m), UNCHANGED <<documents, published>>
  PROVE  /\ pipe' \in Seq(MessageFrames \cup OtherFrames) /\ Len(pipe') = Len(pipe) + 1
         /\ DOMAIN pipe = 1 .. Len(pipe) /\ DOMAIN pipe' = 1 .. (Len(pipe) + 1) /\ Len(pipe) \in Nat
         /\ \A i \in DOMAIN pipe : pipe'[i] = pipe[i]
         /\ pipe'[Len(pipe) + 1] = m
         /\ \A u, t : \A i \in 1 .. (Len(pipe) + 1) : Now(u, i, t) => Then(u, i, t)
         /\ \A u, t : ~Tells(m, u) /\ Now(u, Len(pipe) + 1, t) => Then(u, Len(pipe) + 2, t)
         /\ \A u : Tells(m, u) => Then(u, Len(pipe) + 2, Last(m.texts))
<1>. DEFINE n == Len(pipe)
<1>1. /\ pipe' \in Seq(MessageFrames \cup OtherFrames) /\ Len(pipe') = n + 1
      /\ DOMAIN pipe = 1 .. n /\ n \in Nat
      /\ \A i \in 1 .. n : pipe'[i] = pipe[i]
      /\ pipe'[n + 1] = m
  <2>1. DOMAIN pipe = 1 .. n /\ n \in Nat
    BY LenProperties
  <2>. QED
    BY <2>1, AppendProperties
<1>2. DOMAIN pipe' = 1 .. (n + 1)
  BY <1>1, LenProperties
<1>. HIDE DEF n
<1>3. ASSUME NEW u, NEW t, NEW i \in 1 .. (n + 1), Now(u, i, t) PROVE Then(u, i, t)
  <2>1. \A k \in 1 .. (i - 1) : pipe'[k] = pipe[k]
    BY <1>1
  <2>2. \A k \in 1 .. (i - 1) : Tells(pipe'[k], u) <=> Tells(pipe[k], u)
    BY <2>1, Zenon DEF Tells
  <2>3. ASSUME NEW j \in 1 .. (i - 1), Tells(pipe[j], u), Last(pipe[j].texts) = t,
               \A k \in (j + 1) .. (i - 1) : ~Tells(pipe[k], u)
        PROVE  Then(u, i, t)
    <3>1. \A k \in (j + 1) .. (i - 1) : k \in 1 .. (i - 1)
      BY <1>1
    <3>2. Tells(pipe'[j], u) /\ Last(pipe'[j].texts) = t
          /\ \A k \in (j + 1) .. (i - 1) : ~Tells(pipe'[k], u)
      BY <2>1, <2>2, <2>3, <3>1, Zenon
    <3>. QED
      BY <3>2, Zenon DEF Before, Now, Then
  <2>4. ASSUME \A k \in 1 .. (i - 1) : ~Tells(pipe[k], u), Holds(documents, published, u, t)
        PROVE  Then(u, i, t)
    BY <2>2, <2>4, Zenon DEF Before, Now, Then, Holds
  <2>. QED
    BY <1>3, <2>3, <2>4, Zenon DEF Before, Now, Then
<1>4. ASSUME NEW u, NEW t, ~Tells(m, u), Now(u, n + 1, t) PROVE Then(u, n + 2, t)
  <2>1. ~Tells(pipe'[n + 1], u)
    BY <1>1, <1>4
  <2>2. Then(u, n + 1, t)
    BY <1>1, <1>3, <1>4
  <2>3. /\ (n + 1) - 1 = n /\ (n + 2) - 1 = n + 1 /\ \A k \in 1 .. (n + 1) : k \in 1 .. n \/ k = n + 1
        /\ \A j \in 1 .. n : j \in 1 .. (n + 1)
                              /\ \A k \in (j + 1) .. (n + 1) : k \in (j + 1) .. n \/ k = n + 1
    BY <1>1
  <2>4. \/ \E j \in 1 .. n : /\ Tells(pipe'[j], u) /\ Last(pipe'[j].texts) = t
                             /\ \A k \in (j + 1) .. n : ~Tells(pipe'[k], u)
        \/ (\A k \in 1 .. n : ~Tells(pipe'[k], u)) /\ Holds(documents', published', u, t)
    BY <2>2, <2>3, Zenon DEF Before, Now, Then, Tells
  <2>5. \/ \E j \in 1 .. (n + 1) : /\ Tells(pipe'[j], u) /\ Last(pipe'[j].texts) = t
                             /\ \A k \in (j + 1) .. (n + 1) : ~Tells(pipe'[k], u)
        \/ (\A k \in 1 .. (n + 1) : ~Tells(pipe'[k], u)) /\ Holds(documents', published', u, t)
    BY <2>1, <2>3, <2>4, Zenon
  <2>. QED
    BY <2>3, <2>5, Zenon DEF Before, Now, Then, Tells
<1>5. ASSUME NEW u, Tells(m, u) PROVE Then(u, n + 2, Last(m.texts))
  <2>1. Tells(pipe'[n + 1], u) /\ pipe'[n + 1] = m
    BY <1>1, <1>5
  <2>2. n + 1 \in 1 .. ((n + 2) - 1) /\ \A k \in ((n + 1) + 1) .. ((n + 2) - 1) : FALSE
    BY <1>1
  <2>. QED
    BY <2>1, <2>2, Zenon DEF Before, Now, Then, Tells
<1>. QED
  BY <1>1, <1>2, <1>3, <1>4, <1>5 DEF n

LEMMA WritesKeep ==
  ASSUME PipeInv, NEW m \in MessageFrames \cup OtherFrames, Write(m),
         m.frame = "message" /\ m.method = "textDocument/didOpen" => Len(m.texts) = 1,
         Saves(m) /\ m.texts # <<>> => m.uri \in DOMAIN shown /\ m.texts[1] = shown[m.uri],
         \A u \in DOMAIN shown' : \/ Tells(m, u) /\ Last(m.texts) = shown'[u]
                                  \/ ~Tells(m, u) /\ u \in DOMAIN shown /\ shown'[u] = shown[u]
  PROVE  PipeInv'
<1>. DEFINE n == Len(pipe)
<1>1. pipe' = Append(pipe, m) /\ UNCHANGED <<documents, published>>
  BY DEF Write
<1>2. pipe \in Seq(MessageFrames \cup OtherFrames)
  BY DEF PipeInv
<1>3. /\ pipe' \in Seq(MessageFrames \cup OtherFrames) /\ Len(pipe') = n + 1
      /\ DOMAIN pipe = 1 .. n /\ DOMAIN pipe' = 1 .. (n + 1) /\ n \in Nat
      /\ \A i \in DOMAIN pipe : pipe'[i] = pipe[i]
      /\ pipe'[n + 1] = m
      /\ \A u, t : \A i \in 1 .. (n + 1) : Now(u, i, t) => Then(u, i, t)
      /\ \A u, t : ~Tells(m, u) /\ Now(u, n + 1, t) => Then(u, n + 2, t)
      /\ \A u : Tells(m, u) => Then(u, n + 2, Last(m.texts))
  BY <1>1, <1>2, WrittenFrames
<1>. HIDE DEF n
<1>4. ASSUME NEW u \in DOMAIN shown' PROVE Then(u, n + 2, shown'[u])
  <2>1. CASE Tells(m, u) /\ Last(m.texts) = shown'[u]
    <3>. DEFINE t == shown'[u]
    <3>1. Then(u, n + 2, Last(m.texts))
      BY <1>3, <2>1
    <3>. QED
      BY <2>1, <3>1, Zenon DEF Before, Now, Then
  <2>2. CASE ~Tells(m, u) /\ u \in DOMAIN shown /\ shown'[u] = shown[u]
    <3>1. Now(u, n + 1, shown[u])
      BY <2>2, Zenon DEF PipeInv, n
    <3>2. Then(u, n + 2, shown[u])
      BY <1>3, <2>2, <3>1
    <3>. QED
      BY <2>2, <3>2, Zenon DEF Before, Now, Then
  <2>. QED
    BY <2>1, <2>2
<1>5. ASSUME NEW i \in DOMAIN pipe'
      PROVE  /\ pipe'[i].frame = "message" /\ pipe'[i].method = "textDocument/didOpen"
                  => Len(pipe'[i].texts) = 1
             /\ Saves(pipe'[i]) /\ pipe'[i].texts # <<>>
                  => Then(pipe'[i].uri, i, pipe'[i].texts[1])
  <2>0. i \in DOMAIN pipe \/ i = n + 1
    BY <1>3
  <2>1. CASE i \in DOMAIN pipe
    BY <1>3, <2>1 DEF PipeInv
  <2>2. CASE i = n + 1
    <3>1. pipe'[i] = m
      BY <1>3, <2>2
    <3>2. ASSUME Saves(m), m.texts # <<>> PROVE Then(pipe'[i].uri, i, pipe'[i].texts[1])
      <4>1. Now(m.uri, n + 1, m.texts[1])
        BY <3>2 DEF PipeInv, n
      <4>2. Then(m.uri, n + 1, m.texts[1])
        BY <1>3, <4>1
      <4>. QED
        BY <2>2, <3>1, <4>2, Zenon DEF Before, Now, Then
    <3>. QED
      BY <3>1, <3>2, Zenon
  <2>. QED
    BY <2>0, <2>1, <2>2, Zenon
<1>6. \A u \in DOMAIN shown' : Then(u, Len(pipe') + 1, shown'[u])
  <2>1. Len(pipe') + 1 = n + 2
    BY <1>3
  <2>. QED
    BY <1>4, <2>1, Zenon DEF Before, Now, Then
<1>. QED
  BY <1>3, <1>5, <1>6, Zenon DEF PipeInv, Saves, Now, Then

\* The first frame is taken: every place comes one nearer.
LEMMA TakesKeep ==
  ASSUME PipeInv, pipe # <<>>, pipe' = Tail(pipe), UNCHANGED shown,
         \A u, t : Tells(Head(pipe), u) => Holds(documents', published', u, Last(Head(pipe).texts)),
         \A u, t : ~Tells(Head(pipe), u) /\ Holds(documents, published, u, t)
                     => Holds(documents', published', u, t)
  PROVE  PipeInv'
<1>. DEFINE n == Len(pipe)
            h == Head(pipe)
<1>1. pipe \in Seq(MessageFrames \cup OtherFrames)
  BY DEF PipeInv
<1>2. /\ DOMAIN pipe = 1 .. n /\ n \in Nat /\ n > 0
      /\ pipe' \in Seq(MessageFrames \cup OtherFrames) /\ Len(pipe') = n - 1
      /\ \A i \in 1 .. (n - 1) : pipe'[i] = pipe[i + 1]
      /\ h = pipe[1]
  <2>1. DOMAIN pipe = 1 .. n /\ n \in Nat /\ n # 0
    BY <1>1, LenProperties, EmptySeq
  <2>. QED
    BY <1>1, <2>1, HeadTailProperties
<1>3. DOMAIN pipe' = 1 .. (n - 1)
  BY <1>2, LenProperties
<1>. HIDE DEF n, h
<1>4. ASSUME NEW u, NEW t, NEW i \in 1 .. n, Now(u, i + 1, t) PROVE Then(u, i, t)
  <2>0. /\ \A k \in 1 .. (i - 1) : k \in 1 .. (n - 1) /\ k + 1 \in 1 .. i
        /\ (i + 1) - 1 = i
    BY <1>2
  <2>1. \A k \in 1 .. (i - 1) : Tells(pipe'[k], u) <=> Tells(pipe[k + 1], u)
    BY <1>2, <2>0, Zenon
  <2>2. ASSUME NEW j \in 1 .. i, Tells(pipe[j], u), Last(pipe[j].texts) = t,
               \A k \in (j + 1) .. i : ~Tells(pipe[k], u)
        PROVE  Then(u, i, t)
    <3>1. CASE j = 1
      <4>1. Holds(documents', published', u, t)
        BY <1>2, <2>2, <3>1 DEF h
      <4>2. \A k \in 1 .. (i - 1) : k + 1 \in (j + 1) .. i
        BY <3>1
      <4>. QED
        BY <2>1, <2>2, <4>1, <4>2, Zenon DEF Then, Before
    <3>2. CASE j > 1
      <4>. DEFINE l == j - 1
      <4>1. l \in 1 .. (i - 1) /\ l + 1 = j /\ l \in 1 .. (n - 1)
            /\ \A k \in (l + 1) .. (i - 1) : k \in 1 .. (i - 1) /\ k + 1 \in (j + 1) .. i
        BY <1>2, <3>2
      <4>. HIDE DEF l
      <4>2. Tells(pipe'[l], u) /\ Last(pipe'[l].texts) = t
        BY <1>2, <2>2, <4>1
      <4>3. \A k \in (l + 1) .. (i - 1) : ~Tells(pipe'[k], u)
        BY <2>1, <2>2, <4>1, Zenon
      <4>. QED
        BY <4>1, <4>2, <4>3, Zenon DEF Then, Before
    <3>. QED
      BY <3>1, <3>2
  <2>3. ASSUME \A k \in 1 .. i : ~Tells(pipe[k], u), Holds(documents, published, u, t)
        PROVE  Then(u, i, t)
    <3>1. Holds(documents', published', u, t)
      <4>1. 1 \in 1 .. i
        BY <1>2
      <4>2. ~Tells(h, u)
        BY <1>2, <2>3, <4>1
      <4>. QED
        BY <2>3, <4>2, Zenon DEF h
    <3>2. \A k \in 1 .. (i - 1) : ~Tells(pipe'[k], u)
      BY <2>0, <2>1, <2>3, Zenon
    <3>. QED
      BY <3>1, <3>2, Zenon DEF Then, Before
  <2>. QED
    BY <1>4, <2>0, <2>2, <2>3, Zenon DEF Now, Before
<1>5. ASSUME NEW i \in DOMAIN pipe'
      PROVE  /\ pipe'[i].frame = "message" /\ pipe'[i].method = "textDocument/didOpen"
                  => Len(pipe'[i].texts) = 1
             /\ Saves(pipe'[i]) /\ pipe'[i].texts # <<>>
                  => Then(pipe'[i].uri, i, pipe'[i].texts[1])
  <2>1. i + 1 \in DOMAIN pipe /\ pipe'[i] = pipe[i + 1] /\ i \in 1 .. n
    BY <1>2, <1>3
  <2>2. /\ pipe[i + 1].frame = "message" /\ pipe[i + 1].method = "textDocument/didOpen"
             => Len(pipe[i + 1].texts) = 1
        /\ Saves(pipe[i + 1]) /\ pipe[i + 1].texts # <<>>
             => Now(pipe[i + 1].uri, i + 1, pipe[i + 1].texts[1])
    BY <2>1, Zenon DEF PipeInv
  <2>. QED
    BY <1>4, <2>1, <2>2, Zenon
<1>6. \A u \in DOMAIN shown : Then(u, Len(pipe') + 1, shown[u])
  <2>1. n \in 1 .. n /\ Len(pipe') + 1 = n
    BY <1>2
  <2>2. \A u \in DOMAIN shown : Now(u, n + 1, shown[u])
    BY Zenon DEF PipeInv, n
  <2>. QED
    BY <1>4, <2>1, <2>2, Zenon
<1>. QED
  BY <1>2, <1>5, <1>6, Zenon DEF PipeInv, Saves, Now, Then

-----------------------------------------------------------------------------
\* What each frame of the language server's pipe does to its documents.
LEMMA LintDocumentHolds ==
  ASSUME NEW u, NEW text, LintDocument(u, text)
  PROVE  /\ Holds(documents', published', u, text)
         /\ \A v, t : v # u /\ Holds(documents, published, v, t) => Holds(documents', published', v, t)
<1>1. documents' = Put(documents, u, text) /\ published' = Put(published, u, text)
  BY DEF LintDocument
<1>2. ASSUME NEW f PROVE /\ DOMAIN Put(f, u, text) = DOMAIN f \cup {u} /\ Put(f, u, text)[u] = text
                         /\ \A v \in DOMAIN f : v # u => Put(f, u, text)[v] = f[v]
  BY DEF Put
<1>3. /\ DOMAIN documents' = DOMAIN documents \cup {u} /\ documents'[u] = text /\ published'[u] = text
      /\ \A v \in DOMAIN documents : v # u => documents'[v] = documents[v]
      /\ DOMAIN published' = DOMAIN published \cup {u}
      /\ \A v \in DOMAIN published : v # u => published'[v] = published[v]
  BY <1>1, <1>2, Zenon
<1>. QED
  BY <1>3 DEF Holds

LEMMA ServedFramesKeep ==
  ASSUME RpcInv, Ignored \/ Notified \/ Requested
  PROVE  PipeInv'
<1>. DEFINE h == Head(pipe)
<1>1. /\ endpoint = "lsp" /\ serving /\ pipe # <<>> /\ pipe' = Tail(pipe) /\ UNCHANGED shown
  BY DEF Ignored, Notified, Requested, Reply, Take, Lsp
<1>2. PipeInv
  BY <1>1 DEF RpcInv
<1>3. h = pipe[1] /\ 1 \in DOMAIN pipe /\ h \in MessageFrames \cup OtherFrames
  <2>1. pipe \in Seq(MessageFrames \cup OtherFrames)
    BY <1>2 DEF PipeInv
  <2>2. DOMAIN pipe = 1 .. Len(pipe) /\ Len(pipe) \in Nat /\ Len(pipe) # 0
    BY <1>1, <2>1, LenProperties, EmptySeq
  <2>. QED
    BY <1>1, <2>1, <2>2, HeadTailProperties
<1>4. /\ h.frame = "message" /\ h.method = "textDocument/didOpen" => Len(h.texts) = 1
      /\ Saves(h) /\ h.texts # <<>> => Holds(documents, published, h.uri, h.texts[1])
  <2>1. /\ h.frame = "message" /\ h.method = "textDocument/didOpen" => Len(h.texts) = 1
        /\ Saves(h) /\ h.texts # <<>> => Now(h.uri, 1, h.texts[1])
    BY <1>2, <1>3, Zenon DEF PipeInv
  <2>2. \A u, t : Now(u, 1, t) => Holds(documents, published, u, t)
    <3>1. \A j \in 1 .. (1 - 1) : FALSE
      OBVIOUS
    <3>. QED
      BY <3>1, Zenon DEF Now, Before
  <2>. QED
    BY <2>1, <2>2, Zenon
<1>. HIDE DEF h
<1>5. /\ \A u : Tells(h, u) => Holds(documents', published', u, Last(h.texts))
      /\ \A u, t : ~Tells(h, u) /\ Holds(documents, published, u, t) => Holds(documents', published', u, t)
  <2>1. CASE Ignored
    <3>1. UNCHANGED <<documents, published>> /\ h.frame # "message"
      BY <2>1 DEF Ignored, Frame, h
    <3>. QED
      BY <3>1, Zenon DEF Tells, Holds
  <2>2. CASE Requested
    <3>1. UNCHANGED <<documents, published>>
          /\ h.method \notin {"textDocument/didOpen", "textDocument/didChange"}
      BY <2>2 DEF Requested, Frame, h
    <3>. QED
      BY <3>1, Zenon DEF Tells, Holds, Tellings
  <2>3. CASE Notified /\ DidOpen(h)
    <3>1. LintDocument(h.uri, h.texts[1]) /\ h.frame = "message" /\ h.method = "textDocument/didOpen"
      BY <2>3 DEF Notified, DidOpen, Frame, h
    <3>2. Last(h.texts) = h.texts[1] /\ h.texts # <<>>
      BY <1>4, <3>1, EmptySeq DEF Last
    <3>3. \A u : Tells(h, u) <=> u = h.uri
      BY <3>1, <3>2 DEF Tells, Tellings
    <3>. QED
      BY <3>1, <3>2, <3>3, LintDocumentHolds
  <2>4. CASE Notified /\ DidChange(h)
    <3>1. /\ LintDocument(h.uri, IF h.texts = <<>> THEN Known(h.uri) ELSE Last(h.texts))
          /\ h.frame = "message" /\ h.method = "textDocument/didChange"
      BY <2>4 DEF Notified, DidChange, Frame, h
    <3>2. CASE h.texts = <<>>
      <4>1. \A u : ~Tells(h, u)
        BY <3>2 DEF Tells
      <4>2. \A t : Holds(documents, published, h.uri, t) => Known(h.uri) = t
        BY DEF Holds, Known
      <4>3. LintDocument(h.uri, Known(h.uri))
        BY <3>1, <3>2
      <4>. QED
        BY <4>1, <4>2, <4>3, LintDocumentHolds
    <3>3. CASE h.texts # <<>>
      <4>1. \A u : Tells(h, u) <=> u = h.uri
        BY <3>1, <3>3 DEF Tells, Tellings
      <4>2. LintDocument(h.uri, Last(h.texts))
        BY <3>1, <3>3
      <4>. QED
        BY <4>1, <4>2, LintDocumentHolds
    <3>. QED
      BY <3>2, <3>3
  <2>5. CASE Notified /\ DidSave(h)
    <3>1. /\ LintDocument(h.uri, IF h.texts \in {<<>>, <<"">>} THEN Known(h.uri) ELSE h.texts[1])
          /\ h.frame = "message" /\ h.method = "textDocument/didSave"
      BY <2>5 DEF Notified, DidSave, Frame, h
    <3>2. \A u : ~Tells(h, u)
      BY <3>1 DEF Tells, Tellings
    <3>3. \A t : Holds(documents, published, h.uri, t)
                   => t = IF h.texts \in {<<>>, <<"">>} THEN Known(h.uri) ELSE h.texts[1]
      <4>1. CASE h.texts \in {<<>>, <<"">>}
        BY <4>1 DEF Holds, Known
      <4>2. CASE h.texts \notin {<<>>, <<"">>}
        <5>1. Holds(documents, published, h.uri, h.texts[1])
          BY <1>4, <3>1, <4>2 DEF Saves
        <5>. QED
          BY <4>2, <5>1 DEF Holds
      <4>. QED
        BY <4>1, <4>2
    <3>. DEFINE text == IF h.texts \in {<<>>, <<"">>} THEN Known(h.uri) ELSE h.texts[1]
    <3>4. LintDocument(h.uri, text) /\ \A t : Holds(documents, published, h.uri, t) => t = text
      BY <3>1, <3>3
    <3>. HIDE DEF text
    <3>5. \A v, t : v # h.uri /\ Holds(documents, published, v, t) => Holds(documents', published', v, t)
      BY <3>4, LintDocumentHolds
    <3>6. Holds(documents', published', h.uri, text)
      BY <3>4, LintDocumentHolds
    <3>. QED
      BY <3>2, <3>4, <3>5, <3>6, Zenon
  <2>. QED
    BY <2>1, <2>2, <2>3, <2>4, <2>5 DEF Ignored, Notified, Requested, Frame, h
<1>. QED
  BY <1>1, <1>2, <1>5, TakesKeep DEF h

-----------------------------------------------------------------------------
\* What the editor does, and what the other clients write.
LEMMA EditsKeep ==
  ASSUME RpcInv, endpoint = "lsp",
         NEW u \in Uris, NEW t \in Texts, Open(u, t) \/ Type(u, t) \/ NoChange(u) \/ SaveFile(u) \/ CloseFile(u)
  PROVE  ShownInv' /\ (serving => PipeInv')
<1>0. /\ shown \in [DOMAIN shown -> Texts] /\ DOMAIN shown \subseteq Uris /\ UNCHANGED <<endpoint, serving>>
      /\ serving => PipeInv
  BY DEF RpcInv, ShownInv, Open, Type, NoChange, SaveFile, CloseFile, Write
<1>1. ASSUME NEW method \in Methods, NEW id \in Nat, NEW texts \in Seq(Texts)
      PROVE  /\ Told(method, id, u, texts) \in MessageFrames \cup OtherFrames
             /\ Told(method, id, u, texts).frame = "message"
             /\ Told(method, id, u, texts).method = method
             /\ Told(method, id, u, texts).uri = u /\ Told(method, id, u, texts).texts = texts
  BY DEF Told, MessageFrames
<1>a. /\ None \in Nat
      /\ "textDocument/didOpen" \in Methods /\ "textDocument/didChange" \in Methods
      /\ "textDocument/didSave" \in Methods /\ "textDocument/didClose" \in Methods
  BY DEF None, Methods, Tellings
<1>2. ASSUME NEW x \in Texts
      PROVE  <<x>> \in Seq(Texts) /\ Len(<<x>>) = 1 /\ <<x>>[1] = x /\ Last(<<x>>) = x /\ <<x>> # <<>>
  BY DEF Last
<1>3. <<>> \in Seq(Texts)
  BY EmptySeq
<1>4. CASE Open(u, t)
  <2>. DEFINE m == Told("textDocument/didOpen", None, u, <<t>>)
  <2>1. Write(m) /\ shown' = Put(shown, u, t)
    BY <1>4 DEF Open
  <2>2. DOMAIN shown' = DOMAIN shown \cup {u} /\ shown'[u] = t
        /\ \A v \in DOMAIN shown : v # u => shown'[v] = shown[v]
    BY <2>1 DEF Put
  <2>3. ShownInv'
    <3>1. shown' \in [DOMAIN shown \cup {u} -> Texts]
      BY <1>0, <2>1 DEF Put
    <3>2. shown' \in [DOMAIN shown' -> Texts] /\ DOMAIN shown' \subseteq Uris
      BY <1>0, <2>2, <3>1, Zenon
    <3>3. endpoint' = "lsp"
      BY <1>0
    <3>. QED
      BY <3>2, <3>3 DEF ShownInv
  <2>4. /\ m \in MessageFrames \cup OtherFrames /\ m.frame = "message" /\ m.uri = u
        /\ m.method = "textDocument/didOpen" /\ m.texts = <<t>>
    <3>. DEFINE texts == <<t>>
    <3>1. texts \in Seq(Texts)
      BY <1>2
    <3>. HIDE DEF texts
    <3>2. Told("textDocument/didOpen", None, u, texts) \in MessageFrames \cup OtherFrames
      BY <1>1, <1>a, <3>1
    <3>. QED
      BY <3>2, Zenon DEF Told, texts
  <2>. HIDE DEF m
  <2>5. Tells(m, u) /\ \A v : v # u => ~Tells(m, v)
    BY <1>2, <2>4 DEF Tells, Tellings
  <2>6. ~Saves(m) /\ Len(m.texts) = 1 /\ Last(m.texts) = t
    BY <1>2, <2>4 DEF Saves
  <2>7. \A v \in DOMAIN shown' : \/ Tells(m, v) /\ Last(m.texts) = shown'[v]
                                 \/ ~Tells(m, v) /\ v \in DOMAIN shown /\ shown'[v] = shown[v]
    BY <2>2, <2>5, <2>6, Zenon
  <2>8. serving => PipeInv'
    BY <1>0, <2>1, <2>4, <2>6, <2>7, WritesKeep
  <2>. QED
    BY <2>3, <2>8
<1>5. CASE Type(u, t)
  <2>1. PICK earlier \in {<<>>, <<shown[u]>>} :
          Write(Told("textDocument/didChange", None, u, Append(earlier, t)))
    BY <1>5 DEF Type
  <2>. DEFINE texts == Append(earlier, t)
              m == Told("textDocument/didChange", None, u, texts)
  <2>2. texts \in Seq(Texts) /\ texts # <<>> /\ Last(texts) = t
    <3>1. shown[u] \in Texts
      BY <1>0, <1>5 DEF Type
    <3>2. earlier \in Seq(Texts)
      BY <1>2, <1>3, <2>1, <3>1
    <3>3. /\ texts \in Seq(Texts) /\ Len(texts) = Len(earlier) + 1
          /\ texts[Len(earlier) + 1] = t /\ Len(earlier) \in Nat
      BY <3>2, AppendProperties, LenProperties
    <3>. QED
      BY <3>3, EmptySeq DEF Last
  <2>3. /\ u \in DOMAIN shown /\ shown' = [shown EXCEPT ![u] = t] /\ Write(m)
    BY <1>5, <2>1 DEF Type
  <2>. HIDE DEF texts
  <2>4. /\ m \in MessageFrames \cup OtherFrames /\ m.frame = "message" /\ m.uri = u
        /\ m.method = "textDocument/didChange" /\ m.texts = texts
    BY <1>1, <1>a, <2>2
  <2>. HIDE DEF m
  <2>5. /\ DOMAIN shown' = DOMAIN shown /\ shown'[u] = t /\ shown' \in [DOMAIN shown -> Texts]
        /\ \A v \in DOMAIN shown : v # u => shown'[v] = shown[v]
    BY <1>0, <2>3
  <2>6. Tells(m, u) /\ (\A v : v # u => ~Tells(m, v)) /\ ~Saves(m)
        /\ m.method # "textDocument/didOpen"
    BY <2>2, <2>4 DEF Tells, Tellings, Saves
  <2>7. \A v \in DOMAIN shown' : \/ Tells(m, v) /\ Last(m.texts) = shown'[v]
                                 \/ ~Tells(m, v) /\ v \in DOMAIN shown /\ shown'[v] = shown[v]
    BY <2>2, <2>4, <2>5, <2>6, Zenon
  <2>8. serving => PipeInv'
    BY <1>0, <2>3, <2>4, <2>6, <2>7, WritesKeep
  <2>9. ShownInv'
    BY <1>0, <2>5 DEF RpcInv, ShownInv
  <2>. QED
    BY <2>8, <2>9
<1>6. ASSUME NEW m, Write(m), UNCHANGED shown, m \in MessageFrames \cup OtherFrames, \A v : ~Tells(m, v),
             m.frame = "message" => m.method # "textDocument/didOpen",
             Saves(m) /\ m.texts # <<>> => m.uri \in DOMAIN shown /\ m.texts[1] = shown[m.uri]
      PROVE  ShownInv' /\ (serving => PipeInv')
  <2>1. \A v \in DOMAIN shown' : \/ Tells(m, v) /\ Last(m.texts) = shown'[v]
                                 \/ ~Tells(m, v) /\ v \in DOMAIN shown /\ shown'[v] = shown[v]
    BY <1>6
  <2>2. serving => PipeInv'
    BY <1>0, <1>6, <2>1, WritesKeep
  <2>3. ShownInv'
    BY <1>0, <1>6 DEF RpcInv, ShownInv
  <2>. QED
    BY <2>2, <2>3
<1>7. CASE NoChange(u)
  <2>. DEFINE m == Told("textDocument/didChange", None, u, <<>>)
  <2>1. Write(m) /\ UNCHANGED shown
    BY <1>7 DEF NoChange
  <2>2. m \in MessageFrames \cup OtherFrames /\ m.texts = <<>> /\ m.method = "textDocument/didChange"
    <3>. DEFINE texts == <<>>
    <3>1. texts \in Seq(Texts)
      BY <1>3
    <3>. HIDE DEF texts
    <3>2. Told("textDocument/didChange", None, u, texts) \in MessageFrames \cup OtherFrames
      BY <1>1, <1>a, <3>1
    <3>. QED
      BY <3>2, Zenon DEF Told, texts
  <2>. HIDE DEF m
  <2>3. \A v : ~Tells(m, v)
    BY <2>2 DEF Tells
  <2>. QED
    BY <1>6, <2>1, <2>2, <2>3
<1>8. CASE SaveFile(u)
  <2>1. PICK text \in {<<>>, <<shown[u]>>} : Write(Told("textDocument/didSave", None, u, text))
    BY <1>8 DEF SaveFile
  <2>. DEFINE m == Told("textDocument/didSave", None, u, text)
  <2>2. u \in DOMAIN shown /\ UNCHANGED shown /\ Write(m)
    BY <1>8, <2>1 DEF SaveFile
  <2>3. text \in Seq(Texts) /\ (text # <<>> => text[1] = shown[u])
    BY <1>0, <1>2, <1>3, <2>1, <2>2
  <2>4. /\ m \in MessageFrames \cup OtherFrames /\ m.texts = text /\ m.uri = u
        /\ m.method = "textDocument/didSave"
    <3>1. Told("textDocument/didSave", None, u, text) \in MessageFrames \cup OtherFrames
      BY <1>1, <1>a, <2>3
    <3>. QED
      BY <3>1, Zenon DEF Told
  <2>. HIDE DEF m
  <2>5. \A v : ~Tells(m, v)
    BY <2>4 DEF Tells, Tellings
  <2>. QED
    BY <1>6, <2>2, <2>3, <2>4, <2>5
<1>9. CASE CloseFile(u)
  <2>. DEFINE m == Told("textDocument/didClose", None, u, <<>>)
  <2>1. Write(m) /\ shown' = Restrict(shown, DOMAIN shown \ {u})
    BY <1>9 DEF CloseFile
  <2>2. /\ DOMAIN shown' = DOMAIN shown \ {u} /\ shown' \in [DOMAIN shown' -> Texts]
        /\ \A v \in DOMAIN shown' : v \in DOMAIN shown /\ shown'[v] = shown[v]
    BY <1>0, <2>1 DEF Restrict
  <2>3. m \in MessageFrames \cup OtherFrames /\ m.texts = <<>> /\ m.method = "textDocument/didClose"
    <3>. DEFINE texts == <<>>
    <3>1. texts \in Seq(Texts)
      BY <1>3
    <3>. HIDE DEF texts
    <3>2. Told("textDocument/didClose", None, u, texts) \in MessageFrames \cup OtherFrames
      BY <1>1, <1>a, <3>1
    <3>. QED
      BY <3>2, Zenon DEF Told, texts
  <2>. HIDE DEF m
  <2>4. ~Saves(m) /\ \A v : ~Tells(m, v)
    BY <2>3 DEF Tells, Saves
  <2>5. \A v \in DOMAIN shown' : \/ Tells(m, v) /\ Last(m.texts) = shown'[v]
                                 \/ ~Tells(m, v) /\ v \in DOMAIN shown /\ shown'[v] = shown[v]
    BY <2>2, <2>4
  <2>6. serving => PipeInv'
    BY <1>0, <2>1, <2>3, <2>4, <2>5, WritesKeep
  <2>7. ShownInv'
    BY <1>0, <2>2 DEF RpcInv, ShownInv
  <2>. QED
    BY <2>6, <2>7
<1>. QED
  BY <1>4, <1>5, <1>7, <1>8, <1>9

LEMMA RequestsKeep ==
  ASSUME RpcInv, endpoint = "lsp", NEW m \in MessageFrames \cup OtherFrames, Write(m), UNCHANGED shown,
         m.frame = "message" => m.method \in Asked
  PROVE  ShownInv' /\ (serving => PipeInv')
<1>1. ~Saves(m) /\ (m.frame = "message" => m.method # "textDocument/didOpen") /\ \A v : ~Tells(m, v)
  BY DEF Tells, Saves, Tellings, Asked
<1>2. UNCHANGED <<endpoint, serving>> /\ (serving => PipeInv)
  BY DEF Write, RpcInv
<1>3. \A v \in DOMAIN shown' : ~Tells(m, v) /\ v \in DOMAIN shown /\ shown'[v] = shown[v]
  BY <1>1
<1>. QED
  BY <1>1, <1>2, <1>3, WritesKeep DEF RpcInv, ShownInv

LEMMA RpcStep ==
  ASSUME RpcInv, [PNext]_pvars
  PROVE  RpcInv'
<1>0. ShownInv /\ sent \in Nat /\ (endpoint = "lsp" /\ serving => PipeInv)
  BY DEF RpcInv
<1>1. sent' \in Nat
  <2>1. (\E m : Write(m)) \/ UNCHANGED sent
    BY Zenon DEF PNext, Open, Type, NoChange, SaveFile, CloseFile, Request, Speak, Line,
      Ends, Ignored, Notified, Requested, Reply, Take, ReadLine, pvars
  <2>. QED
    BY <1>0, <2>1 DEF Write
<1>2. ASSUME NEW u \in Uris, NEW t \in Texts,
             Open(u, t) \/ Type(u, t) \/ NoChange(u) \/ SaveFile(u) \/ CloseFile(u)
      PROVE  RpcInv'
  <2>1. UNCHANGED <<endpoint, serving>>
    BY <1>2 DEF Open, Type, NoChange, SaveFile, CloseFile, Write
  <2>2. endpoint = "lsp"
    BY <1>0, <1>2 DEF ShownInv, Open, Type, NoChange, SaveFile, CloseFile
  <2>. QED
    BY <1>1, <1>2, <2>1, <2>2, EditsKeep DEF RpcInv
<1>3. ASSUME NEW m \in MessageFrames \cup OtherFrames, endpoint = "lsp", Write(m), UNCHANGED shown,
             m.frame = "message" => m.method \in Asked
      PROVE  RpcInv'
  <2>1. ShownInv' /\ (serving => PipeInv') /\ UNCHANGED <<endpoint, serving>>
    BY <1>3, RequestsKeep DEF Write
  <2>. QED
    BY <1>1, <2>1 DEF RpcInv
<1>4. ASSUME NEW u \in Uris, NEW method \in Asked, Request(method, u)
      PROVE  RpcInv'
  <2>. DEFINE m == Told(method, sent + 1, u, <<>>)
  <2>1. m \in MessageFrames \cup OtherFrames /\ m.method = method
    <3>1. method \in Methods /\ sent + 1 \in Nat /\ <<>> \in Seq(Texts)
      BY <1>0, EmptySeq DEF Methods
    <3>. QED
      BY <3>1, Zenon DEF Told, MessageFrames
  <2>2. endpoint = "lsp" /\ Write(m) /\ UNCHANGED shown
    BY <1>4 DEF Request
  <2>. HIDE DEF m
  <2>. QED
    BY <1>3, <2>1, <2>2
<1>5. ASSUME NEW f \in {"corrupt", "not an object", "blank", "malformed"}, Speak(f)
      PROVE  RpcInv'
  <2>. DEFINE m == [frame |-> f]
  <2>1. m \in MessageFrames \cup OtherFrames /\ m.frame # "message"
    BY DEF OtherFrames
  <2>2. endpoint = "lsp" /\ Write(m) /\ UNCHANGED shown
    BY <1>5 DEF Speak
  <2>. HIDE DEF m
  <2>. QED
    BY <1>3, <2>1, <2>2
<1>6. CASE UNCHANGED <<endpoint, shown>> /\ (endpoint # "lsp" \/ ~serving')
  BY <1>0, <1>1, <1>6, Zenon DEF RpcInv, ShownInv
<1>7. CASE Line
  BY <1>6, <1>7 DEF Line, Write
<1>8. CASE Ends \/ ReadLine
  BY <1>6, <1>8 DEF Ends, ReadLine, Take
<1>9. CASE Ignored \/ Notified \/ Requested
  <2>1. PipeInv' /\ UNCHANGED <<endpoint, shown>>
    BY <1>9, ServedFramesKeep DEF Ignored, Notified, Requested, Reply, Take
  <2>. QED
    BY <1>0, <1>1, <2>1, Zenon DEF RpcInv, ShownInv
<1>10. CASE UNCHANGED pvars
  BY <1>10, Zenon DEF pvars, RpcInv, ShownInv, PipeInv, Now, Saves
<1>11. ASSUME NEW u \in Uris, NoChange(u) \/ SaveFile(u) \/ CloseFile(u) PROVE RpcInv'
  <2>1. "" \in Texts
    BY FixAssumption
  <2>. QED
    BY <1>2, <1>11, <2>1
<1>. QED
  BY <1>2, <1>4, <1>5, <1>7, <1>8, <1>9, <1>10, <1>11, Zenon DEF PNext, Asked

(* Once its pipe is empty the language server holds every open document as *)
(* the editor shows it and its diagnostics are for that text, whatever was *)
(* typed, saved, closed and reopened, for any documents and frames.        *)
THEOREM EditorAlwaysSeesItsText == PSpec => []EditorSeesItsText
<1>1. RpcInv => EditorSeesItsText
  <2>. SUFFICES ASSUME RpcInv, serving, pipe = <<>>, NEW u \in DOMAIN shown
                PROVE  published[u] = shown[u] /\ documents[u] = shown[u]
    BY DEF EditorSeesItsText
  <2>1. endpoint = "lsp" /\ PipeInv
    BY DEF RpcInv, ShownInv
  <2>2. Now(u, Len(pipe) + 1, shown[u])
    BY <2>1 DEF PipeInv
  <2>3. \A j \in 1 .. ((Len(pipe) + 1) - 1) : FALSE
    BY EmptySeq
  <2>. QED
    BY <2>2, <2>3, Zenon DEF Now, Before, Holds
<1>2. RpcInv /\ [PNext]_pvars => RpcInv'
  BY RpcStep
<1>. QED
  BY <1>1, <1>2, RpcInit, PTL DEF PSpec

-----------------------------------------------------------------------------
(***************************************************************************)
(* ScanSession, to the end.                                                *)
(*                                                                         *)
(* The places of a set of positions, counted from the first: the n-th one  *)
(* exists for every n up to their number, and later ones count for more.   *)
(***************************************************************************)
LEMMA Least ==
  ASSUME NEW T, T \subseteq Nat, T # {}
  PROVE  \E i \in T : \A j \in T : i <= j
<1>. DEFINE less == {p \in Nat \X Nat : p[1] < p[2]}
<1>1. IsWellFoundedOn(less, Nat)
  BY NatLessThanWellFounded DEF OpToRel
<1>2. \A i, j \in Nat : <<j, i>> \in less <=> j < i
  OBVIOUS
<1>. HIDE DEF less
<1>3. PICK i \in T : \A j \in T : ~(<<j, i>> \in less)
  BY <1>1, WFMin
<1>4. \A j \in T : ~(j < i)
  BY <1>2, <1>3
<1>5. \A j \in T : j \in Nat /\ i \in Nat
  OBVIOUS
<1>. QED
  BY <1>4, <1>5

UpTo(places, i) == {j \in places : j <= i}

LEMMA CountedPlaces ==
  ASSUME NEW n \in Nat, NEW places \in SUBSET (1 .. n)
  PROVE  /\ IsFiniteSet(places) /\ Cardinality(places) \in Nat
         /\ \A i \in Int : IsFiniteSet(UpTo(places, i)) /\ Cardinality(UpTo(places, i)) \in Nat
         /\ \A i \in places : Cardinality(UpTo(places, i)) \in 1 .. Cardinality(places)
         /\ \A i, j \in places : i < j => Cardinality(UpTo(places, i)) < Cardinality(UpTo(places, j))
         /\ \A k \in 1 .. Cardinality(places) : \E i \in places : Cardinality(UpTo(places, i)) = k
<1>0. \A j \in places : j \in Int /\ 1 <= j /\ j <= n
  OBVIOUS
<1>a. \A i, j : j \in UpTo(places, i) <=> j \in places /\ j <= i
  BY DEF UpTo
<1>1. IsFiniteSet(places) /\ Cardinality(places) \in Nat
  <2>1. IsFiniteSet(1 .. n)
    BY FS_Interval
  <2>. QED
    BY <2>1, FS_Subset, FS_CardinalityType
<1>2. ASSUME NEW i \in Int
      PROVE  /\ IsFiniteSet(UpTo(places, i)) /\ Cardinality(UpTo(places, i)) \in Nat
             /\ Cardinality(UpTo(places, i)) <= Cardinality(places)
  BY <1>1, FS_Subset, FS_CardinalityType DEF UpTo
<1>3. ASSUME NEW i \in places PROVE Cardinality(UpTo(places, i)) \in 1 .. Cardinality(places)
  <2>1. UpTo(places, i) # {} /\ i \in Int
    BY DEF UpTo
  <2>2. Cardinality(UpTo(places, i)) # 0
    BY <1>2, <2>1, FS_EmptySet
  <2>. QED
    BY <1>1, <1>2, <2>1, <2>2
<1>4. ASSUME NEW i \in places, NEW j \in places, i < j
      PROVE  Cardinality(UpTo(places, i)) < Cardinality(UpTo(places, j))
  <2>1. /\ UpTo(places, i) \subseteq UpTo(places, j) /\ i \in Int /\ j \in Int
        /\ j \in UpTo(places, j) /\ j \notin UpTo(places, i)
    <3>1. i \in Int /\ j \in Int /\ \A k \in places : k <= i => k <= j
      BY <1>0, <1>4
    <3>2. j <= j /\ ~(j <= i)
      BY <1>0, <1>4
    <3>. QED
      BY <1>a, <3>1, <3>2, Zenon
  <2>2. Cardinality(UpTo(places, i)) <= Cardinality(UpTo(places, j))
        /\ Cardinality(UpTo(places, i)) # Cardinality(UpTo(places, j))
    <3>1. IsFiniteSet(UpTo(places, j)) /\ UpTo(places, i) \in SUBSET UpTo(places, j)
      BY <1>2, <2>1
    <3>. QED
      BY <2>1, <3>1, FS_Subset
  <2>. QED
    BY <1>2, <2>1, <2>2
<1>5. ASSUME NEW k \in 1 .. Cardinality(places) PROVE \E i \in places : Cardinality(UpTo(places, i)) = k
  <2>. DEFINE T == {x \in 0 .. n : Cardinality(UpTo(places, x)) >= k}
  <2>1. UpTo(places, n) = places /\ n \in 0 .. n
    <3>1. UpTo(places, n) = places
      BY <1>0, <1>a, Zenon
    <3>. QED
      BY <3>1
  <2>2. T \subseteq Nat /\ n \in T
    BY <1>1, <2>1
  <2>3. PICK x \in T : \A y \in T : x <= y
    BY <2>2, Least
  <2>4. x \in 0 .. n /\ Cardinality(UpTo(places, x)) >= k
    BY <2>3
  <2>5. x # 0
    <3>1. UpTo(places, 0) = {}
      <4>1. \A j \in places : ~(j <= 0)
        BY <1>0
      <4>. QED
        BY <1>a, <4>1, Zenon
    <3>. QED
      BY <1>1, <2>4, <3>1, FS_EmptySet
  <2>6. x - 1 \in 0 .. n /\ x \in Int /\ x - 1 \in Int
    BY <2>4, <2>5
  <2>7. ~(Cardinality(UpTo(places, x - 1)) >= k)
    <3>1. x - 1 \notin T
      BY <2>3, <2>6
    <3>. QED
      BY <2>6, <3>1
  <2>. HIDE DEF T
  <2>8. CASE x \notin places
    <3>1. UpTo(places, x) = UpTo(places, x - 1)
      <4>1. \A j \in places : j <= x <=> j <= x - 1
        BY <1>0, <2>6, <2>8
      <4>2. \A j : j \in UpTo(places, x) <=> j \in UpTo(places, x - 1)
        BY <1>a, <4>1, Zenon
      <4>. QED
        BY <4>2, Zenon
    <3>. QED
      BY <2>4, <2>7, <3>1
  <2>9. CASE x \in places
    <3>1. UpTo(places, x) = UpTo(places, x - 1) \cup {x} /\ x \notin UpTo(places, x - 1)
      <4>1. /\ \A j \in places : j <= x <=> j <= x - 1 \/ j = x
            /\ ~(x <= x - 1) /\ x <= x
        BY <1>0, <2>6
      <4>2. /\ \A j : j \in UpTo(places, x) <=> j \in UpTo(places, x - 1) \/ j = x
            /\ x \notin UpTo(places, x - 1)
        BY <1>a, <2>9, <4>1, Zenon
      <4>. QED
        BY <4>2, Zenon
    <3>2. Cardinality(UpTo(places, x)) = Cardinality(UpTo(places, x - 1)) + 1
      BY <1>2, <2>6, <3>1, FS_AddElement
    <3>. QED
      BY <1>1, <1>2, <2>4, <2>6, <2>7, <2>9, <3>2
  <2>. QED
    BY <2>8, <2>9
<1>. QED
  BY <1>1, <1>2, <1>3, <1>4, <1>5

LEMMA NthPlaces ==
  ASSUME NEW n \in Nat, NEW places \in SUBSET (1 .. n)
  PROVE  /\ Cardinality(places) \in Nat /\ IsFiniteSet(places)
         /\ \A k \in 1 .. Cardinality(places) : Nth(places, k) \in places
         /\ \A k, l \in 1 .. Cardinality(places) : k < l => Nth(places, k) < Nth(places, l)
         /\ \A i \in places : \E k \in 1 .. Cardinality(places) : Nth(places, k) = i
<1>1. /\ Cardinality(places) \in Nat /\ IsFiniteSet(places)
      /\ \A i \in places : Cardinality(UpTo(places, i)) \in 1 .. Cardinality(places)
      /\ \A i, j \in places : i < j => Cardinality(UpTo(places, i)) < Cardinality(UpTo(places, j))
      /\ \A k \in 1 .. Cardinality(places) : \E i \in places : Cardinality(UpTo(places, i)) = k
  BY CountedPlaces
<1>2. \A k : Nth(places, k) = CHOOSE i \in places : Cardinality(UpTo(places, i)) = k
  BY DEF Nth, UpTo
<1>3. ASSUME NEW k \in 1 .. Cardinality(places)
      PROVE  Nth(places, k) \in places /\ Cardinality(UpTo(places, Nth(places, k))) = k
  BY <1>1, <1>2, Zenon
<1>4. ASSUME NEW k \in 1 .. Cardinality(places), NEW l \in 1 .. Cardinality(places), k < l
      PROVE  Nth(places, k) < Nth(places, l)
  <2>. DEFINE i == Nth(places, k)
              j == Nth(places, l)
  <2>1. i \in places /\ j \in places /\ Cardinality(UpTo(places, i)) = k /\ Cardinality(UpTo(places, j)) = l
    BY <1>3
  <2>. HIDE DEF i, j
  <2>2. i # j /\ ~(j < i)
    BY <1>1, <1>4, <2>1
  <2>3. i < j
    BY <2>1, <2>2
  <2>. QED
    BY <2>3 DEF i, j
<1>5. ASSUME NEW i \in places PROVE \E k \in 1 .. Cardinality(places) : Nth(places, k) = i
  <2>. DEFINE k == Cardinality(UpTo(places, i))
              j == Nth(places, k)
  <2>1. k \in 1 .. Cardinality(places)
    BY <1>1
  <2>2. j \in places /\ Cardinality(UpTo(places, j)) = k
    BY <1>3, <2>1
  <2>. HIDE DEF j
  <2>3. ~(i < j) /\ ~(j < i)
    BY <1>1, <2>1, <2>2
  <2>4. i = j
    BY <2>2, <2>3
  <2>. QED
    BY <2>1, <2>4 DEF j
<1>. QED
  BY <1>1, <1>3, <1>4, <1>5

-----------------------------------------------------------------------------
(***************************************************************************)
(* SessionTellsTheTruth is not inductive: that the list is right when the  *)
(* scan is done rests on how far the last worker has come and how many of  *)
(* its events have been shown, the rest being in the queue.                *)
(***************************************************************************)
Sources == Files \cup {Stdin}
Rows == [path : Sources, kind : {"issue", "error"}]
Events == [kind : Kinds, path : Sources] \cup {Event("done", NoFile)}
Workers == [todo : Seq(Sources \cup {"done"}), read : Kinds \cup {"nothing"}]

ScanTypes ==
  /\ content \in [Files -> Kinds]
  /\ listbox \in Seq(Files) /\ current \in Files \cup {NoFile} /\ tabs \subseteq Files
  /\ results \in Seq(Rows)
  /\ summary \in {"Ready", "Scanning", "Done"} /\ autofix \in BOOLEAN
  /\ queue \in Seq(Events) /\ worker \in Seq(Workers)
  /\ phase \in {"idle", "fixing", "dialog"} /\ fixing \in Seq(Files)
  /\ latest \in Seq(Sources)

OnlyTheHeadIsTorn ==
  \A f \in Files : content[f] = "torn" => phase = "fixing" /\ fixing # <<>> /\ f = Head(fixing)

\* A worker that has read has still that file to report.
ReadersHoldAFile ==
  \A w \in DOMAIN worker : worker[w].read # "nothing" =>
    worker[w].todo # <<>> /\ Head(worker[w].todo) # "done"

NoneRuns == \A w \in DOMAIN worker : ~Running(w)
ReadyInv == summary = "Ready" =>
  /\ latest = <<>> /\ listbox = <<>> /\ ~autofix
  /\ alone => results = <<>> /\ queue = <<>> /\ NoneRuns

\* What the last worker has to do, and the event it puts for each.
Task(i) == IF i <= Len(latest) THEN latest[i] ELSE "done"
EventOf(i) == IF i <= Len(latest) THEN Event(Outcome(latest[i]), latest[i]) ELSE Event("done", NoFile)
Owed(p) == {i \in DOMAIN latest : i <= p /\ Outcome(latest[i]) # "clean"}

\* The last worker has put k events, p of which have been shown.
Come(k, p) ==
  LET w == worker[Len(worker)]
  IN  /\ Len(w.todo) = Len(latest) + 1 - k
      /\ \A i \in 1 .. Len(w.todo) : w.todo[i] = Task(k + i)
      /\ w.read # "nothing" => k < Len(latest) /\ w.read = Outcome(latest[k + 1])
      /\ Len(queue) = k - p /\ \A i \in 1 .. Len(queue) : queue[i] = EventOf(p + i)

ListedUpTo(p) ==
  \E at \in [DOMAIN results -> Owed(p)] :
    Lists(results, Owed(p), at) /\ \A i \in DOMAIN results : results[i] = RowFor(latest[at[i]])

Underway ==
  /\ Len(worker) > 0 /\ \A w \in DOMAIN worker : w # Len(worker) => ~Running(w)
  /\ \E k \in 0 .. (Len(latest) + 1) : \E p \in 0 .. k :
       Come(k, p) /\ ListedUpTo(p) /\ (summary = "Done" <=> p = Len(latest) + 1)

ScanInv ==
  /\ ScanTypes /\ OnlyTheHeadIsTorn /\ ReadersHoldAFile /\ ReadyInv /\ AutofixOffersFindings
  /\ alone /\ phase = "idle" /\ summary # "Ready" => Underway

USE ScanAssumption

LEMMA ScanInit == Init => ScanInv
<1>. SUFFICES ASSUME Init PROVE ScanInv
  OBVIOUS
<1>1. /\ results = <<>> /\ queue = <<>> /\ worker = <<>> /\ listbox = <<>> /\ fixing = <<>>
      /\ latest = <<>> /\ current = NoFile /\ tabs = {} /\ summary = "Ready" /\ phase = "idle" /\ autofix = FALSE
      /\ content = FirstContent
  BY DEF Init
<1>2. \A S : <<>> \in Seq(S)
  BY EmptySeq
<1>3. content \in [Files -> Kinds] /\ \A f \in Files : content[f] # "torn"
  <2>1. \A f \in Files : content[f] \in {"clean", "issue", "broken"}
    BY <1>1
  <2>. QED
    BY <1>1, <2>1 DEF Kinds
<1>4. ScanTypes
  BY <1>1, <1>2, <1>3, Zenon DEF ScanTypes
<1>5. NoneRuns /\ ReadersHoldAFile
  BY <1>1, EmptySeq DEF NoneRuns, ReadersHoldAFile
<1>. QED
  BY <1>1, <1>3, <1>4, <1>5 DEF ScanInv, OnlyTheHeadIsTorn, ReadyInv, AutofixOffersFindings

LEMMA OutcomesAreKinds ==
  ASSUME ScanTypes, NEW f \in Sources
  PROVE  Outcome(f) \in Kinds /\ RowFor(f) \in Rows
BY DEF Outcome, Kinds, ScanTypes, Sources, RowFor, Row, Rows

\* The rows of a drained queue are those of its events, in order, each once.
LEMMA RowsOfEvents ==
  ASSUME NEW events \in Seq(Events)
  PROVE  LET rows == RowsOf(events)
             at == [n \in DOMAIN rows |-> Nth(Shown(events), n)]
         IN /\ rows \in Seq(Rows) /\ DOMAIN rows = 1 .. Cardinality(Shown(events)) /\ Cardinality(Shown(events)) \in Nat
            /\ Lists(rows, Shown(events), at)
            /\ \A n \in DOMAIN rows : rows[n] = RowOf(events[at[n]])
            /\ rows = <<>> <=> Shown(events) = {}
<1>. DEFINE n == Cardinality(Shown(events))
            rows == RowsOf(events)
            at == [i \in DOMAIN rows |-> Nth(Shown(events), i)]
<1>1. DOMAIN events = 1 .. Len(events) /\ Len(events) \in Nat
  BY LenProperties
<1>2. Shown(events) \in SUBSET (1 .. Len(events))
  BY <1>1 DEF Shown
<1>3. /\ n \in Nat /\ IsFiniteSet(Shown(events))
      /\ \A k \in 1 .. n : Nth(Shown(events), k) \in Shown(events)
      /\ \A k, l \in 1 .. n : k < l => Nth(Shown(events), k) < Nth(Shown(events), l)
      /\ \A i \in Shown(events) : \E k \in 1 .. n : Nth(Shown(events), k) = i
  BY <1>1, <1>2, NthPlaces
<1>4. rows = [k \in 1 .. n |-> RowOf(events[Nth(Shown(events), k)])]
  BY DEF RowsOf
<1>. HIDE DEF n
<1>5. \A i \in Shown(events) : RowOf(events[i]) \in Rows
  <2>1. ASSUME NEW i \in Shown(events) PROVE RowOf(events[i]) \in Rows
    <3>1. events[i] \in Events /\ events[i].kind \notin {"done", "clean"}
      BY <1>1, ElementOfSeq DEF Shown
    <3>2. events[i].path \in Sources
      BY <3>1 DEF Events, Event
    <3>. QED
      BY <3>1, <3>2 DEF RowOf, Row, Rows
  <2>. QED
    BY <2>1
<1>6. DOMAIN rows = 1 .. n /\ rows \in [1 .. n -> Rows]
  BY <1>3, <1>4, <1>5
<1>7. rows \in Seq(Rows)
  BY <1>3, <1>6, SeqDef
<1>8. at \in [DOMAIN rows -> Shown(events)] /\ \A i \in DOMAIN rows : at[i] = Nth(Shown(events), i)
  BY <1>3, <1>6
<1>9. \A i \in DOMAIN rows : rows[i] = RowOf(events[at[i]])
  BY <1>4, <1>6, <1>8
<1>. HIDE DEF rows, at
<1>10. Lists(rows, Shown(events), at)
  <2>1. \A i, j \in DOMAIN rows : i < j => at[i] < at[j]
    BY <1>3, <1>6, <1>8
  <2>2. \A k \in Shown(events) : \E i \in DOMAIN rows : at[i] = k
    BY <1>3, <1>6, <1>8
  <2>. QED
    BY <1>8, <2>1, <2>2, Zenon DEF Lists
<1>11. rows = <<>> <=> Shown(events) = {}
  <2>1. Len(rows) = n
    BY <1>3, <1>6, <1>7, LenProperties
  <2>2. rows = <<>> <=> n = 0
    BY <1>7, <2>1, EmptySeq
  <2>. QED
    BY <1>3, <2>2, FS_EmptySet DEF n
<1>. QED
  BY <1>3, <1>6, <1>7, <1>9, <1>10, <1>11, Zenon DEF rows, at, n

\* Nothing to do for a worker that is not running; a step is of one that is.
LEMMA WorkerChanged ==
  ASSUME worker \in Seq(Workers), NEW w \in DOMAIN worker, NEW x \in Workers,
         worker' = [worker EXCEPT ![w] = x]
  PROVE  /\ worker' \in Seq(Workers) /\ Len(worker') = Len(worker) /\ DOMAIN worker' = DOMAIN worker
         /\ worker'[w] = x /\ \A v \in DOMAIN worker : v # w => worker'[v] = worker[v]
         /\ DOMAIN worker = 1 .. Len(worker) /\ Len(worker) \in Nat
<1>1. DOMAIN worker = 1 .. Len(worker) /\ Len(worker) \in Nat
  BY LenProperties
<1>2. worker' \in Seq(Workers) /\ Len(worker') = Len(worker)
      /\ \A v \in 1 .. Len(worker) : worker'[v] = IF v = w THEN x ELSE worker[v]
  BY <1>1, ExceptSeq
<1>3. DOMAIN worker' = 1 .. Len(worker')
  BY <1>2, LenProperties
<1>. QED
  BY <1>1, <1>2, <1>3

LEMMA WorkerTodo ==
  ASSUME worker \in Seq(Workers), NEW w \in DOMAIN worker, Running(w)
  PROVE  LET todo == worker[w].todo
         IN /\ todo \in Seq(Sources \cup {"done"}) /\ Len(todo) \in Nat /\ Len(todo) > 0
            /\ Head(todo) = todo[1] /\ Head(todo) \in Sources \cup {"done"}
            /\ Tail(todo) \in Seq(Sources \cup {"done"}) /\ Len(Tail(todo)) = Len(todo) - 1
            /\ \A i \in 1 .. (Len(todo) - 1) : Tail(todo)[i] = todo[i + 1]
            /\ worker[w].read \in Kinds \cup {"nothing"}
<1>. DEFINE todo == worker[w].todo
<1>1. worker[w] \in Workers
  BY ElementOfSeq, LenProperties
<1>2. todo \in Seq(Sources \cup {"done"}) /\ worker[w].read \in Kinds \cup {"nothing"} /\ todo # <<>>
  BY <1>1 DEF Workers, Running
<1>. HIDE DEF todo
<1>3. Len(todo) \in Nat /\ Len(todo) # 0
  BY <1>2, EmptySeq
<1>4. /\ Head(todo) \in Sources \cup {"done"} /\ Tail(todo) \in Seq(Sources \cup {"done"})
      /\ Len(Tail(todo)) = Len(todo) - 1 /\ \A i \in 1 .. (Len(todo) - 1) : Tail(todo)[i] = todo[i + 1]
  BY <1>2, HeadTailProperties
<1>5. Head(todo) = todo[1]
  BY <1>2
<1>. QED
  BY <1>2, <1>3, <1>4, <1>5 DEF todo

\* A worker's step touches the worker, and at most appends one event.
LEMMA WorkerTypes ==
  ASSUME ScanInv, NEW w \in DOMAIN worker, WorkerStep(w)
  PROVE  /\ worker' \in Seq(Workers) /\ Len(worker') = Len(worker) /\ DOMAIN worker' = DOMAIN worker
         /\ \A v \in DOMAIN worker : v # w => worker'[v] = worker[v]
         /\ queue' \in Seq(Events) /\ Running(w) /\ ReadersHoldAFile'
         /\ UNCHANGED <<content, listbox, current, tabs, results, summary, autofix, fixVars, latest, alone>>
<1>. DEFINE todo == worker[w].todo
            read == worker[w].read
<1>0. /\ UNCHANGED <<content, listbox, current, tabs, results, summary, autofix, fixVars, latest, alone>> /\ Running(w)
      /\ worker \in Seq(Workers) /\ queue \in Seq(Events) /\ ScanTypes /\ ReadersHoldAFile
  BY DEF WorkerStep, WorkerRead, WorkerPut, WorkerDone, ScanInv, ScanTypes, viewVars
<1>1. /\ todo \in Seq(Sources \cup {"done"}) /\ Head(todo) \in Sources \cup {"done"}
      /\ Tail(todo) \in Seq(Sources \cup {"done"}) /\ read \in Kinds \cup {"nothing"}
      /\ todo # <<>>
  BY <1>0, WorkerTodo DEF Running
<1>2. CASE WorkerRead(w)
  <2>. DEFINE x == [worker[w] EXCEPT !.read = Outcome(Head(todo))]
  <2>1. worker' = [worker EXCEPT ![w] = x] /\ UNCHANGED queue /\ Head(todo) # "done"
    BY <1>2, Zenon DEF WorkerRead
  <2>2. Outcome(Head(todo)) \in Kinds
    BY <1>0, <1>1, <2>1, OutcomesAreKinds
  <2>3. worker[w] \in Workers
    BY <1>0, ElementOfSeq, LenProperties
  <2>4. x \in Workers /\ x.todo = todo
    BY <2>2, <2>3, Zenon DEF Workers
  <2>. HIDE DEF x
  <2>5. /\ worker' \in Seq(Workers) /\ Len(worker') = Len(worker) /\ DOMAIN worker' = DOMAIN worker
        /\ \A v \in DOMAIN worker : v # w => worker'[v] = worker[v]
        /\ worker'[w] = x
    BY <1>0, <2>1, <2>4, WorkerChanged
  <2>6. ReadersHoldAFile'
    BY <1>0, <1>1, <2>1, <2>4, <2>5 DEF ReadersHoldAFile
  <2>. QED
    BY <1>0, <2>1, <2>5, <2>6
<1>3. CASE WorkerPut(w)
  <2>. DEFINE x == [todo |-> Tail(todo), read |-> "nothing"]
              e == Event(read, Head(todo))
  <2>1. /\ worker' = [worker EXCEPT ![w] = x] /\ queue' = Append(queue, e) /\ read # "nothing"
    BY <1>3 DEF WorkerPut
  <2>2. x \in Workers /\ x.read = "nothing"
    BY <1>1 DEF Workers
  <2>3. e \in Events
    <3>1. Head(todo) # "done"
      BY <1>0, <2>1 DEF ReadersHoldAFile
    <3>. QED
      BY <1>1, <2>1, <3>1 DEF Events, Event
  <2>. HIDE DEF x, e
  <2>4. queue' \in Seq(Events)
    BY <1>0, <2>1, <2>3, AppendProperties
  <2>5. /\ worker' \in Seq(Workers) /\ Len(worker') = Len(worker) /\ DOMAIN worker' = DOMAIN worker
        /\ \A v \in DOMAIN worker : v # w => worker'[v] = worker[v]
        /\ worker'[w] = x
    BY <1>0, <2>1, <2>2, WorkerChanged
  <2>6. ReadersHoldAFile'
    BY <1>0, <2>2, <2>5 DEF ReadersHoldAFile
  <2>. QED
    BY <1>0, <2>4, <2>5, <2>6
<1>4. CASE WorkerDone(w)
  <2>. DEFINE x == [worker[w] EXCEPT !.todo = <<>>]
              e == Event("done", NoFile)
  <2>1. /\ worker' = [worker EXCEPT ![w] = x] /\ queue' = Append(queue, e) /\ Head(todo) = "done"
    BY <1>4, Zenon DEF WorkerDone
  <2>2. x \in Workers /\ x.read = read
    <3>1. worker[w] \in Workers /\ <<>> \in Seq(Sources \cup {"done"})
      BY <1>0, ElementOfSeq, LenProperties, EmptySeq
    <3>. QED
      BY <3>1, Zenon DEF Workers
  <2>3. e \in Events
    BY DEF Events
  <2>. HIDE DEF x, e
  <2>4. queue' \in Seq(Events)
    BY <1>0, <2>1, <2>3, AppendProperties
  <2>5. /\ worker' \in Seq(Workers) /\ Len(worker') = Len(worker) /\ DOMAIN worker' = DOMAIN worker
        /\ \A v \in DOMAIN worker : v # w => worker'[v] = worker[v]
        /\ worker'[w] = x
    BY <1>0, <2>1, <2>2, WorkerChanged
  <2>6. ReadersHoldAFile'
    BY <1>0, <2>1, <2>2, <2>5 DEF ReadersHoldAFile
  <2>. QED
    BY <1>0, <2>4, <2>5, <2>6
<1>. QED
  BY <1>2, <1>3, <1>4 DEF WorkerStep

\* What was typed before is typed after, when only the worker and the queue move.
LEMMA PlaceOfSources ==
  ASSUME ScanTypes
  PROVE  /\ DOMAIN latest = 1 .. Len(latest) /\ Len(latest) \in Nat
         /\ \A i \in 1 .. Len(latest) : latest[i] \in Sources /\ latest[i] # "done"
         /\ DOMAIN results = 1 .. Len(results) /\ Len(results) \in Nat
         /\ queue \in Seq(Events) /\ DOMAIN queue = 1 .. Len(queue) /\ Len(queue) \in Nat
         /\ DOMAIN worker = 1 .. Len(worker) /\ Len(worker) \in Nat
<1>1. /\ latest \in Seq(Sources) /\ results \in Seq(Rows) /\ queue \in Seq(Events) /\ worker \in Seq(Workers)
  BY DEF ScanTypes
<1>2. \A i \in 1 .. Len(latest) : latest[i] \in Sources
  BY <1>1, ElementOfSeq
<1>3. "done" \notin Sources
  BY DEF Sources
<1>. QED
  BY <1>1, <1>2, <1>3, LenProperties

\* The three steps of the last worker, while nothing else is under way.
LEMMA WorkerComes ==
  ASSUME ScanInv, Underway, NEW w \in DOMAIN worker, WorkerStep(w)
  PROVE  Underway'
<1>1. /\ worker' \in Seq(Workers) /\ Len(worker') = Len(worker) /\ DOMAIN worker' = DOMAIN worker
      /\ \A v \in DOMAIN worker : v # w => worker'[v] = worker[v]
      /\ Running(w)
      /\ UNCHANGED <<content, results, summary, latest>>
  BY WorkerTypes
<1>2. ScanTypes /\ ReadersHoldAFile
  BY DEF ScanInv
<1>3. /\ w = Len(worker) /\ Len(worker) \in Nat
      /\ Len(worker) > 0 /\ \A v \in DOMAIN worker : v # Len(worker) => ~Running(v)
  BY <1>1, <1>2, PlaceOfSources DEF Underway
<1>4. Len(worker') > 0 /\ \A v \in DOMAIN worker' : v # Len(worker') => ~Running(v)'
  BY <1>1, <1>3 DEF Running
<1>5. PICK k \in 0 .. (Len(latest) + 1) : \E p \in 0 .. k :
        Come(k, p) /\ ListedUpTo(p) /\ (summary = "Done" <=> p = Len(latest) + 1)
  BY DEF Underway
<1>6. PICK p \in 0 .. k : Come(k, p) /\ ListedUpTo(p) /\ (summary = "Done" <=> p = Len(latest) + 1)
  BY <1>5
<1>7. ListedUpTo(p)' /\ (summary' = "Done" <=> p = Len(latest') + 1)
  <2>1. ListedUpTo(p)'
    <3>1. Owed(p)' = Owed(p) /\ (\A f : RowFor(f)' = RowFor(f)) /\ results' = results /\ latest' = latest
      BY <1>1, Zenon DEF Owed, RowFor, Outcome
    <3>. QED
      BY <1>6, <3>1, Zenon DEF ListedUpTo
  <2>. QED
    BY <1>1, <1>6, <2>1
<1>. DEFINE todo == worker[w].todo
            read == worker[w].read
            n == Len(latest)
<1>8. /\ Len(todo) = n + 1 - k
      /\ \A i \in 1 .. Len(todo) : todo[i] = Task(k + i)
      /\ read # "nothing" => k < n /\ read = Outcome(latest[k + 1])
      /\ Len(queue) = k - p /\ \A i \in 1 .. Len(queue) : queue[i] = EventOf(p + i)
  BY <1>3, <1>6 DEF Come
<1>9. /\ n \in Nat /\ k \in Nat /\ p \in Nat /\ k <= n + 1 /\ p <= k
      /\ queue \in Seq(Events) /\ \A i \in 1 .. n : latest[i] # "done"
  BY <1>2, PlaceOfSources
<1>10. /\ Len(todo) > 0 /\ Head(todo) = todo[1] /\ Len(todo) \in Nat
       /\ Len(Tail(todo)) = Len(todo) - 1
       /\ \A i \in 1 .. (Len(todo) - 1) : Tail(todo)[i] = todo[i + 1]
  BY <1>1, <1>2, WorkerTodo DEF ScanTypes
<1>11. Head(todo) = Task(k + 1) /\ k < n + 1
  BY <1>8, <1>9, <1>10
<1>12. \A i : EventOf(i)' = EventOf(i) /\ Task(i)' = Task(i)
  BY <1>1, Zenon DEF EventOf, Task, Outcome
<1>13. worker[w] \in Workers
  BY <1>2, ElementOfSeq, PlaceOfSources DEF ScanTypes
<1>. HIDE DEF todo, read
<1>14. ASSUME NEW m \in 0 .. (n + 1), NEW q \in 0 .. m, Come(m, q)', q = p
       PROVE  Underway'
  BY <1>1, <1>4, <1>7, <1>14 DEF Underway
<1>15. CASE WorkerRead(w)
  <2>. DEFINE x == [worker[w] EXCEPT !.read = Outcome(Head(todo))]
  <2>1. worker' = [worker EXCEPT ![w] = x] /\ UNCHANGED queue /\ Head(todo) # "done"
    BY <1>15, Zenon DEF WorkerRead, todo
  <2>2. x.todo = todo /\ x.read = Outcome(Head(todo))
    BY <1>13, Zenon DEF Workers, todo
  <2>. HIDE DEF x
  <2>3. worker'[Len(worker')] = x
    BY <1>1, <1>3, <2>1
  <2>4. k < n /\ Head(todo) = latest[k + 1]
    BY <1>9, <1>11, <2>1 DEF Task
  <2>5. Come(k, p)'
    <3>1. /\ Len(x.todo) = Len(latest') + 1 - k
          /\ \A i \in 1 .. Len(x.todo) : x.todo[i] = Task(k + i)'
      BY <1>1, <1>8, <1>12, <2>2
    <3>2. x.read # "nothing" => k < Len(latest') /\ x.read = Outcome(latest[k + 1])'
      <4>1. Outcome(latest[k + 1])' = Outcome(latest[k + 1])
        BY <1>1, Zenon DEF Outcome
      <4>. QED
        BY <1>1, <2>2, <2>4, <4>1
    <3>3. Len(queue') = k - p /\ \A i \in 1 .. Len(queue') : queue'[i] = EventOf(p + i)'
      BY <1>8, <1>12, <2>1
    <3>. QED
      BY <2>3, <3>1, <3>2, <3>3, Zenon DEF Come
  <2>. QED
    BY <1>9, <1>14, <2>5
<1>. DEFINE e == EventOf(k + 1)
<1>16. ASSUME queue' = Append(queue, e)
       PROVE  Len(queue') = (k + 1) - p /\ \A i \in 1 .. Len(queue') : queue'[i] = EventOf(p + i)'
  <2>1. \A i \in 1 .. Len(queue) : queue'[i] = queue[i]
    BY <1>9, <1>16
  <2>2. /\ Len(queue') = Len(queue) + 1 /\ queue'[Len(queue) + 1] = e
    BY <1>9, <1>16
  <2>3. p + (Len(queue) + 1) = k + 1 /\ Len(queue) \in Nat
    BY <1>8, <1>9
  <2>. HIDE DEF e
  <2>4. \A i \in 1 .. Len(queue') : i \in 1 .. Len(queue) \/ i = Len(queue) + 1
    BY <2>2, <2>3
  <2>5. queue'[Len(queue) + 1] = EventOf(p + (Len(queue) + 1))
    BY <2>2, <2>3 DEF e
  <2>6. \A i \in 1 .. Len(queue') : queue'[i] = EventOf(p + i)
    BY <1>8, <2>1, <2>4, <2>5
  <2>. QED
    BY <1>8, <1>9, <1>12, <2>2, <2>6
<1>. HIDE DEF e
<1>17. CASE WorkerPut(w)
  <2>. DEFINE x == [todo |-> Tail(todo), read |-> "nothing"]
  <2>1. worker' = [worker EXCEPT ![w] = x] /\ queue' = Append(queue, Event(read, Head(todo))) /\ read # "nothing"
    BY <1>17 DEF WorkerPut, todo, read
  <2>2. x.todo = Tail(todo) /\ x.read = "nothing"
    OBVIOUS
  <2>. HIDE DEF x
  <2>3. worker'[Len(worker')] = x
    BY <1>1, <1>3, <2>1
  <2>4. k < n /\ Head(todo) = latest[k + 1] /\ read = Outcome(latest[k + 1])
    BY <1>8, <1>9, <1>11, <2>1 DEF Task
  <2>5. queue' = Append(queue, e)
    BY <1>9, <2>1, <2>4 DEF e, EventOf
  <2>6. Come(k + 1, p)'
    <3>1. /\ Len(x.todo) = Len(latest') + 1 - (k + 1)
          /\ \A i \in 1 .. Len(x.todo) : x.todo[i] = Task((k + 1) + i)'
      <4>1. Len(x.todo) = n + 1 - (k + 1)
        BY <1>8, <1>9, <1>10, <2>2
      <4>0. Len(x.todo) = Len(todo) - 1
        BY <1>10, <2>2
      <4>2. ASSUME NEW i \in 1 .. Len(x.todo) PROVE x.todo[i] = Task((k + 1) + i)
        <5>1. i \in 1 .. (Len(todo) - 1) /\ i + 1 \in 1 .. Len(todo) /\ k + (i + 1) = (k + 1) + i
          BY <1>9, <1>10, <4>0, <4>2
        <5>2. x.todo[i] = todo[i + 1] /\ todo[i + 1] = Task(k + (i + 1))
          BY <1>8, <1>10, <2>2, <5>1
        <5>. QED
          BY <5>1, <5>2
      <4>. QED
        BY <1>1, <1>12, <4>1, <4>2
    <3>2. x.read # "nothing" => k + 1 < Len(latest') /\ x.read = Outcome(latest[(k + 1) + 1])'
      BY <2>2
    <3>3. Len(queue') = (k + 1) - p /\ \A i \in 1 .. Len(queue') : queue'[i] = EventOf(p + i)'
      BY <1>16, <2>5
    <3>. QED
      BY <2>3, <3>1, <3>2, <3>3, Zenon DEF Come
  <2>. QED
    BY <1>9, <1>14, <2>4, <2>6
<1>18. CASE WorkerDone(w)
  <2>. DEFINE x == [worker[w] EXCEPT !.todo = <<>>]
  <2>1. worker' = [worker EXCEPT ![w] = x] /\ queue' = Append(queue, Event("done", NoFile)) /\ Head(todo) = "done"
    BY <1>18, Zenon DEF WorkerDone, todo
  <2>2. x.todo = <<>> /\ x.read = read
    BY <1>13, Zenon DEF Workers, read
  <2>. HIDE DEF x
  <2>3. worker'[Len(worker')] = x
    BY <1>1, <1>3, <2>1
  <2>4. k = n
    BY <1>9, <1>11, <2>1 DEF Task
  <2>5. queue' = Append(queue, e)
    BY <1>9, <2>1, <2>4 DEF e, EventOf
  <2>6. read = "nothing"
    BY <1>8, <1>9, <2>4
  <2>7. Come(k + 1, p)'
    <3>1. /\ Len(x.todo) = Len(latest') + 1 - (k + 1)
          /\ \A i \in 1 .. Len(x.todo) : x.todo[i] = Task((k + 1) + i)'
      <4>1. Len(x.todo) = 0
        BY <2>2, EmptySeq
      <4>. QED
        BY <1>1, <1>9, <2>4, <4>1
    <3>2. x.read # "nothing" => k + 1 < Len(latest') /\ x.read = Outcome(latest[(k + 1) + 1])'
      BY <2>2, <2>6
    <3>3. Len(queue') = (k + 1) - p /\ \A i \in 1 .. Len(queue') : queue'[i] = EventOf(p + i)'
      BY <1>16, <2>5
    <3>. QED
      BY <2>3, <3>1, <3>2, <3>3, Zenon DEF Come
  <2>. QED
    BY <1>9, <1>14, <2>4, <2>7
<1>. QED
  BY <1>15, <1>17, <1>18 DEF WorkerStep

\* Two lists, the second p places further on, are one list of both.
Follow(first, second, p, before, after, both, at1, at2) ==
  /\ first \in Seq(Rows) /\ second \in Seq(Rows) /\ p \in Nat
  /\ before \subseteq 1 .. p /\ after \subseteq Nat \ {0}
  /\ \A x : x \in both <=> x \in before \/ \E i \in after : x = p + i
  /\ Lists(first, before, at1) /\ Lists(second, after, at2)

Joined(first, second, p, both, at1, at2) ==
  \E at \in [DOMAIN (first \o second) -> both] :
    /\ Lists(first \o second, both, at)
    /\ \A i \in DOMAIN (first \o second) :
         \/ /\ i \in DOMAIN first /\ (first \o second)[i] = first[i] /\ at[i] = at1[i]
         \/ \E j \in DOMAIN second : (first \o second)[i] = second[j] /\ at[i] = p + at2[j]

LEMMA ListsJoin ==
  ASSUME NEW first, NEW second, NEW p, NEW before, NEW after, NEW both, NEW at1, NEW at2,
         Follow(first, second, p, before, after, both, at1, at2)
  PROVE  Joined(first, second, p, both, at1, at2)
<1>0. /\ first \in Seq(Rows) /\ second \in Seq(Rows) /\ p \in Nat
      /\ before \subseteq 1 .. p /\ after \subseteq Nat \ {0}
      /\ Lists(first, before, at1) /\ Lists(second, after, at2)
  BY DEF Follow
<1>. DEFINE m == Len(first)
            n == Len(second)
            rows == first \o second
            at == [i \in 1 .. (m + n) |-> IF i <= m THEN at1[i] ELSE p + at2[i - m]]
<1>1. /\ DOMAIN first = 1 .. m /\ m \in Nat /\ DOMAIN second = 1 .. n /\ n \in Nat
  BY <1>0, LenProperties
<1>2. /\ rows \in Seq(Rows) /\ Len(rows) = m + n
      /\ \A i \in 1 .. (m + n) : rows[i] = IF i <= m THEN first[i] ELSE second[i - m]
  BY <1>0, ConcatProperties
<1>3. DOMAIN rows = 1 .. (m + n)
  BY <1>2, LenProperties
<1>4. /\ \A i \in 1 .. m : at1[i] \in before /\ at1[i] \in 1 .. p
      /\ \A i, j \in 1 .. m : i < j => at1[i] < at1[j]
      /\ \A k \in before : \E i \in 1 .. m : at1[i] = k
  BY <1>0, <1>1 DEF Lists
<1>5. /\ \A i \in 1 .. n : at2[i] \in after /\ at2[i] \in Nat /\ at2[i] >= 1
      /\ \A i, j \in 1 .. n : i < j => at2[i] < at2[j]
      /\ \A k \in after : \E i \in 1 .. n : at2[i] = k
  <2>0. \A i \in after : i \in Nat /\ i >= 1
    BY <1>0
  <2>1. at2 \in [1 .. n -> after]
    BY <1>0, <1>1, Zenon DEF Lists
  <2>2. \A i \in 1 .. n : at2[i] \in after
    BY <2>1, Zenon
  <2>3. /\ \A i, j \in 1 .. n : i < j => at2[i] < at2[j]
        /\ \A k \in after : \E i \in 1 .. n : at2[i] = k
    BY <1>0, <1>1, Zenon DEF Lists
  <2>. QED
    BY <2>0, <2>2, <2>3
<1>. HIDE DEF m, n
<1>6. \A i \in 1 .. (m + n) : at[i] = IF i <= m THEN at1[i] ELSE p + at2[i - m]
  OBVIOUS
<1>7. DOMAIN at = 1 .. (m + n) /\ at = [i \in 1 .. (m + n) |-> at[i]]
  OBVIOUS
<1>. HIDE DEF at
<1>8. \A x : x \in both <=> x \in before \/ \E i \in after : x = p + i
  BY DEF Follow
<1>9. ASSUME NEW i \in 1 .. (m + n)
      PROVE  \/ /\ i \in 1 .. m /\ at[i] = at1[i] /\ rows[i] = first[i]
                /\ at[i] \in both /\ at[i] \in 1 .. p
             \/ /\ i - m \in 1 .. n /\ i > m /\ at[i] = p + at2[i - m] /\ rows[i] = second[i - m]
                /\ at[i] \in both /\ at[i] \in Nat /\ at[i] > p
  <2>1. CASE i <= m
    <3>1. i \in 1 .. m /\ at[i] = at1[i] /\ rows[i] = first[i]
      BY <1>1, <1>2, <1>6, <2>1
    <3>. QED
      BY <1>4, <1>8, <3>1
  <2>2. CASE ~(i <= m)
    <3>1. i - m \in 1 .. n /\ i > m /\ at[i] = p + at2[i - m] /\ rows[i] = second[i - m]
      BY <1>1, <1>2, <1>6, <2>2
    <3>2. at2[i - m] \in after /\ at2[i - m] \in Nat /\ at2[i - m] >= 1
      BY <1>5, <3>1
    <3>3. at[i] \in both
      BY <1>8, <3>1, <3>2, Zenon
    <3>. QED
      BY <1>0, <3>1, <3>2, <3>3
  <2>. QED
    BY <2>1, <2>2
<1>10. at \in [DOMAIN rows -> both]
  <2>1. \A i \in 1 .. (m + n) : at[i] \in both
    BY <1>9
  <2>. QED
    BY <1>3, <1>7, <2>1, Zenon
<1>11. \A i, j \in DOMAIN rows : i < j => at[i] < at[j]
  <2>1. ASSUME NEW i \in 1 .. (m + n), NEW j \in 1 .. (m + n), i < j
        PROVE  at[i] < at[j]
    <3>1. CASE j <= m
      <4>1. i \in 1 .. m /\ j \in 1 .. m /\ at[i] = at1[i] /\ at[j] = at1[j]
        BY <1>0, <1>1, <1>6, <2>1, <3>1
      <4>. QED
        BY <1>4, <2>1, <4>1
    <3>2. CASE i > m
      <4>1. /\ i - m \in 1 .. n /\ j - m \in 1 .. n /\ i - m < j - m
            /\ at[i] = p + at2[i - m] /\ at[j] = p + at2[j - m]
        BY <1>0, <1>1, <1>6, <2>1, <3>2
      <4>2. at2[i - m] < at2[j - m] /\ at2[i - m] \in Nat /\ at2[j - m] \in Nat
        BY <1>5, <4>1
      <4>. QED
        BY <1>0, <4>1, <4>2
    <3>3. CASE i <= m /\ j > m
      <4>1. at[i] \in 1 .. p /\ at[j] \in Nat /\ at[j] > p
        BY <1>1, <1>9, <3>3
      <4>. QED
        BY <1>0, <4>1
    <3>. QED
      BY <1>1, <2>1, <3>1, <3>2, <3>3
  <2>. QED
    BY <1>3, <2>1
<1>12. \A k \in both : \E i \in DOMAIN rows : at[i] = k
  <2>1. ASSUME NEW k \in before PROVE \E i \in 1 .. (m + n) : at[i] = k
    <3>1. PICK i \in 1 .. m : at1[i] = k
      BY <1>4
    <3>2. i \in 1 .. (m + n) /\ at[i] = at1[i]
      BY <1>1, <1>6
    <3>. QED
      BY <3>1, <3>2
  <2>2. ASSUME NEW l \in after PROVE \E i \in 1 .. (m + n) : at[i] = p + l
    <3>1. PICK i \in 1 .. n : at2[i] = l
      BY <1>5
    <3>2. m + i \in 1 .. (m + n) /\ ~(m + i <= m) /\ (m + i) - m = i
      BY <1>1
    <3>3. at[m + i] = p + at2[i]
      BY <1>6, <3>2
    <3>. QED
      BY <3>1, <3>2, <3>3
  <2>. QED
    BY <1>3, <1>8, <2>1, <2>2, Zenon
<1>13. Lists(rows, both, at)
  BY <1>10, <1>11, <1>12 DEF Lists
<1>14. \A i \in DOMAIN rows :
         \/ /\ i \in DOMAIN first /\ rows[i] = first[i] /\ at[i] = at1[i]
         \/ \E j \in DOMAIN second : rows[i] = second[j] /\ at[i] = p + at2[j]
  BY <1>1, <1>3, <1>9
<1>. QED
  BY <1>10, <1>13, <1>14, Zenon DEF Joined

\* The poll shows what has come so far; "Done" with the last of it.
LEMMA PollComes ==
  ASSUME ScanInv, Underway, PollQueue
  PROVE  Underway'
<1>1. /\ UNCHANGED <<content, worker, latest>> /\ queue # <<>> /\ queue' = <<>>
      /\ results' = results \o RowsOf(queue)
      /\ summary' = IF \E i \in DOMAIN queue : queue[i].kind = "done" THEN "Done" ELSE summary
  BY DEF PollQueue
<1>2. ScanTypes
  BY DEF ScanInv
<1>3. PICK k \in 0 .. (Len(latest) + 1) : \E p \in 0 .. k :
        Come(k, p) /\ ListedUpTo(p) /\ (summary = "Done" <=> p = Len(latest) + 1)
  BY DEF Underway
<1>4. PICK p \in 0 .. k : Come(k, p) /\ ListedUpTo(p) /\ (summary = "Done" <=> p = Len(latest) + 1)
  BY <1>3
<1>. DEFINE n == Len(latest)
<1>5. /\ n \in Nat /\ k \in Nat /\ p \in Nat /\ k <= n + 1 /\ p <= k
      /\ DOMAIN latest = 1 .. n /\ \A i \in 1 .. n : latest[i] \in Sources
      /\ queue \in Seq(Events) /\ DOMAIN queue = 1 .. Len(queue)
      /\ results \in Seq(Rows) /\ DOMAIN results = 1 .. Len(results)
  BY <1>2, PlaceOfSources DEF ScanTypes
<1>6. Len(queue) = k - p /\ \A i \in 1 .. Len(queue) : queue[i] = EventOf(p + i)
  BY <1>4 DEF Come
<1>7. Len(queue) # 0
  BY <1>1, <1>5, EmptySeq
<1>8. /\ \A i \in 1 .. n : EventOf(i).kind = Outcome(latest[i]) /\ EventOf(i).path = latest[i]
      /\ \A i \in 1 .. n : Outcome(latest[i]) # "done"
      /\ EventOf(n + 1).kind = "done"
  <2>1. \A i \in 1 .. n : Outcome(latest[i]) \in Kinds
    BY <1>2, <1>5, OutcomesAreKinds
  <2>2. \A i \in 1 .. n : EventOf(i) = Event(Outcome(latest[i]), latest[i])
    BY <1>5 DEF EventOf
  <2>3. EventOf(n + 1) = Event("done", NoFile)
    BY <1>5 DEF EventOf
  <2>4. "done" \notin Kinds
    BY DEF Kinds
  <2>. QED
    BY <2>1, <2>2, <2>3, <2>4 DEF Event
<1>9. summary' = "Done" <=> k = n + 1
  <2>1. ASSUME NEW i \in 1 .. Len(queue), queue[i].kind = "done" PROVE k = n + 1
    <3>1. p + i \in 1 .. (n + 1) /\ p + i <= k
      BY <1>5, <1>6
    <3>2. p + i \notin 1 .. n
      BY <1>6, <1>8, <2>1
    <3>. QED
      BY <1>5, <3>1, <3>2
  <2>2. ASSUME k = n + 1 PROVE queue[Len(queue)].kind = "done"
    <3>1. Len(queue) \in 1 .. Len(queue) /\ p + Len(queue) = n + 1
      BY <1>5, <1>6, <1>7, <2>2
    <3>. QED
      BY <1>6, <1>8, <3>1
  <2>3. Len(queue) \in 1 .. Len(queue) /\ p # n + 1
    BY <1>5, <1>6, <1>7
  <2>. QED
    BY <1>1, <1>4, <1>5, <2>1, <2>2, <2>3
<1>10. \A i : i \in Shown(queue) <=> i \in 1 .. Len(queue) /\ p + i \in Owed(k)
  <2>1. ASSUME NEW i \in 1 .. Len(queue)
        PROVE  queue[i].kind \notin {"done", "clean"} <=> p + i \in Owed(k)
    <3>1. queue[i] = EventOf(p + i) /\ p + i \in 1 .. (n + 1) /\ p + i <= k
      BY <1>5, <1>6
    <3>2. CASE p + i \in 1 .. n
      BY <1>5, <1>8, <3>1, <3>2 DEF Owed
    <3>3. CASE p + i = n + 1
      <4>1. p + i \notin DOMAIN latest
        BY <1>5, <3>3
      <4>. QED
        BY <1>8, <3>1, <3>3, <4>1 DEF Owed
    <3>. QED
      BY <1>5, <3>1, <3>2, <3>3
  <2>. QED
    BY <1>5, <2>1 DEF Shown
<1>11. Owed(k) = Owed(p) \cup {p + i : i \in Shown(queue)}
  <2>1. ASSUME NEW j \in Owed(k), j \notin Owed(p) PROVE \E i \in Shown(queue) : j = p + i
    <3>1. j \in 1 .. n /\ j <= k /\ ~(j <= p)
      BY <1>5, <2>1 DEF Owed
    <3>2. j - p \in 1 .. Len(queue) /\ p + (j - p) = j
      BY <1>5, <1>6, <3>1
    <3>. QED
      BY <1>10, <2>1, <3>2
  <2>2. \A j \in Owed(p) : j \in Owed(k)
    BY <1>5 DEF Owed
  <2>. QED
    BY <1>10, <2>1, <2>2
<1>12. PICK at1 \in [DOMAIN results -> Owed(p)] :
         Lists(results, Owed(p), at1) /\ \A i \in DOMAIN results : results[i] = RowFor(latest[at1[i]])
  BY <1>4 DEF ListedUpTo
<1>. DEFINE rows == RowsOf(queue)
            at2 == [i \in DOMAIN rows |-> Nth(Shown(queue), i)]
<1>13. /\ rows \in Seq(Rows) /\ Lists(rows, Shown(queue), at2)
       /\ \A i \in DOMAIN rows : rows[i] = RowOf(queue[at2[i]])
  BY <1>5, RowsOfEvents
<1>. HIDE DEF rows, at2
<1>14. Owed(p) \in SUBSET (1 .. p) /\ Shown(queue) \in SUBSET (Nat \ {0})
  BY <1>5, <1>10 DEF Owed
<1>15. PICK at \in [DOMAIN (results \o rows) -> Owed(k)] :
         /\ Lists(results \o rows, Owed(k), at)
         /\ \A i \in DOMAIN (results \o rows) :
              \/ /\ i \in DOMAIN results /\ (results \o rows)[i] = results[i] /\ at[i] = at1[i]
              \/ \E j \in DOMAIN rows : (results \o rows)[i] = rows[j] /\ at[i] = p + at2[j]
  <2>. DEFINE before == Owed(p)
              after == Shown(queue)
              both == Owed(k)
  <2>1. /\ before \subseteq 1 .. p /\ after \subseteq Nat \ {0}
        /\ \A x : x \in both <=> x \in before \/ \E i \in after : x = p + i
        /\ Lists(results, before, at1) /\ Lists(rows, after, at2)
    BY <1>11, <1>12, <1>13, <1>14
  <2>. HIDE DEF before, after, both
  <2>2. results \in Seq(Rows) /\ rows \in Seq(Rows) /\ p \in Nat
    BY <1>5, <1>13
  <2>3. Follow(results, rows, p, before, after, both, at1, at2)
    BY <2>1, <2>2, Zenon DEF Follow
  <2>4. Joined(results, rows, p, both, at1, at2)
    BY <2>3, ListsJoin, Zenon
  <2>. QED
    BY <2>4, Zenon DEF Joined, both
<1>16. \A j \in DOMAIN rows : rows[j] = RowFor(latest[p + at2[j]])
  <2>1. ASSUME NEW j \in DOMAIN rows PROVE rows[j] = RowFor(latest[p + at2[j]])
    <3>1. at2[j] \in Shown(queue)
      BY <1>13 DEF Lists
    <3>2. at2[j] \in 1 .. Len(queue) /\ p + at2[j] \in Owed(k)
      BY <1>10, <3>1
    <3>3. p + at2[j] \in 1 .. n /\ queue[at2[j]] = EventOf(p + at2[j])
      BY <1>5, <1>6, <3>2 DEF Owed
    <3>4. rows[j] = RowOf(EventOf(p + at2[j]))
      BY <1>13, <3>3
    <3>. QED
      BY <1>8, <3>3, <3>4 DEF RowOf, RowFor
  <2>. QED
    BY <2>1
<1>17. ListedUpTo(k)'
  <2>1. \A i \in DOMAIN (results \o rows) : (results \o rows)[i] = RowFor(latest[at[i]])
    BY <1>12, <1>15, <1>16
  <2>2. /\ Owed(k)' = Owed(k) /\ (\A f : RowFor(f)' = RowFor(f))
        /\ results' = results \o rows /\ latest' = latest
    BY <1>1, Zenon DEF Owed, RowFor, Outcome, rows
  <2>. QED
    BY <1>15, <2>1, <2>2, Zenon DEF ListedUpTo
<1>18. Come(k, k)'
  <2>1. /\ worker' = worker /\ latest' = latest /\ Len(queue') = k - k
        /\ \A i : Task(i)' = Task(i) /\ Outcome(latest[i])' = Outcome(latest[i])
    BY <1>1, <1>5, EmptySeq DEF Task, Outcome
  <2>2. \A i \in 1 .. Len(queue') : queue'[i] = EventOf(k + i)'
    BY <1>5, <2>1
  <2>. QED
    BY <1>4, <2>1, <2>2, Zenon DEF Come
<1>19. Len(worker') > 0 /\ \A v \in DOMAIN worker' : v # Len(worker') => ~Running(v)'
  BY <1>1 DEF Underway, Running
<1>20. k \in 0 .. k
  BY <1>5
<1>. QED
  BY <1>1, <1>9, <1>17, <1>18, <1>19, <1>20 DEF Underway

LEMMA EmptyLists ==
  ASSUME NEW both, both = {}
  PROVE  \E at \in [DOMAIN <<>> -> both] : Lists(<<>>, both, at)
<1>1. DOMAIN <<>> = {}
  OBVIOUS
<1>2. [i \in {} |-> i] \in [{} -> both]
  OBVIOUS
<1>3. Lists(<<>>, both, [i \in {} |-> i])
  BY <1>1, <1>2, Zenon DEF Lists
<1>. QED
  BY <1>1, <1>2, <1>3

\* A scan starts with an empty list; nothing in flight leaves it alone.
LEMMA ScanStarts ==
  ASSUME ScanInv, NEW files \in Seq(Sources), StartScan(files), UNCHANGED content
  PROVE  /\ results' \in Seq(Rows) /\ summary' = "Scanning" /\ autofix' = FALSE
         /\ worker' \in Seq(Workers) /\ latest' \in Seq(Sources) /\ queue' = queue
         /\ ReadersHoldAFile'
         /\ alone' => Underway'
<1>. DEFINE x == [todo |-> Append(files, "done"), read |-> "nothing"]
            n == Len(files)
            m == Len(worker)
<1>1. /\ results' = <<>> /\ summary' = "Scanning" /\ autofix' = FALSE
      /\ worker' = Append(worker, x) /\ latest' = files /\ alone' = ~InFlight /\ queue' = queue
  BY DEF StartScan
<1>2. ScanTypes /\ ReadersHoldAFile /\ worker \in Seq(Workers) /\ m \in Nat /\ DOMAIN worker = 1 .. m
  BY PlaceOfSources DEF ScanInv, ScanTypes
<1>3. n \in Nat /\ DOMAIN files = 1 .. n
  BY LenProperties
<1>4. /\ Append(files, "done") \in Seq(Sources \cup {"done"})
      /\ Len(Append(files, "done")) = n + 1
      /\ \A i \in 1 .. n : Append(files, "done")[i] = files[i]
      /\ Append(files, "done")[n + 1] = "done"
  <2>1. files \in Seq(Sources \cup {"done"})
    BY SeqMonotonic
  <2>. QED
    BY <2>1, AppendProperties
<1>5. x \in Workers /\ x.read = "nothing" /\ x.todo = Append(files, "done")
  BY <1>4 DEF Workers
<1>. HIDE DEF x
<1>6. /\ worker' \in Seq(Workers) /\ Len(worker') = m + 1
      /\ \A v \in 1 .. m : worker'[v] = worker[v]
      /\ worker'[m + 1] = x
  BY <1>1, <1>2, <1>5, AppendProperties
<1>7. DOMAIN worker' = 1 .. (m + 1)
  BY <1>6, LenProperties
<1>8. ReadersHoldAFile'
  <2>1. ASSUME NEW v \in 1 .. (m + 1), worker'[v].read # "nothing"
        PROVE  worker'[v].todo # <<>> /\ Head(worker'[v].todo) # "done"
    <3>1. v # m + 1
      BY <1>5, <1>6, <2>1
    <3>2. v \in DOMAIN worker /\ worker'[v] = worker[v]
      BY <1>2, <1>6, <3>1
    <3>. QED
      BY <1>2, <2>1, <3>2 DEF ReadersHoldAFile
  <2>. QED
    BY <1>7, <2>1 DEF ReadersHoldAFile
<1>9. ASSUME alone' PROVE Underway'
  <2>1. queue = <<>> /\ \A v \in DOMAIN worker : ~Running(v)
    BY <1>1, <1>9 DEF InFlight
  <2>2. Len(worker') > 0 /\ \A v \in DOMAIN worker' : v # Len(worker') => ~Running(v)'
    <3>1. ASSUME NEW v \in DOMAIN worker', v # Len(worker') PROVE worker'[v].todo = <<>>
      <4>1. v \in 1 .. m
        BY <1>2, <1>6, <1>7, <3>1
      <4>. QED
        BY <1>2, <1>6, <2>1, <4>1 DEF Running
    <3>. QED
      BY <1>2, <1>6, <3>1 DEF Running
  <2>3. Owed(0)' = {}
    <3>1. \A i \in DOMAIN latest' : ~(i <= 0)
      BY <1>1, <1>3
    <3>. QED
      BY <3>1 DEF Owed
  <2>4. ListedUpTo(0)'
    <3>1. results' = <<>> /\ \A i : ~(i \in DOMAIN <<>>)
      BY <1>1
    <3>2. PICK at \in [DOMAIN <<>> -> Owed(0)'] : Lists(<<>>, Owed(0)', at)
      BY <2>3, EmptyLists
    <3>. QED
      BY <3>1, <3>2, Zenon DEF ListedUpTo
  <2>5. Come(0, 0)'
    <3>1. Len(x.todo) = Len(latest') + 1 - 0
      BY <1>1, <1>3, <1>4, <1>5
    <3>2. ASSUME NEW i \in 1 .. Len(x.todo) PROVE x.todo[i] = Task(0 + i)'
      <4>1. i \in 1 .. (n + 1) /\ 0 + i = i
        BY <1>3, <1>4, <1>5
      <4>2. Task(0 + i)' = IF i <= n THEN files[i] ELSE "done"
        BY <1>1, <4>1 DEF Task
      <4>3. x.todo[i] = IF i <= n THEN files[i] ELSE "done"
        BY <1>3, <1>4, <1>5, <4>1
      <4>. QED
        BY <4>2, <4>3
    <3>3. Len(queue') = 0 - 0 /\ \A i \in 1 .. Len(queue') : queue'[i] = EventOf(0 + i)'
      BY <1>1, <2>1, EmptySeq
    <3>4. worker'[Len(worker')] = x
      BY <1>6
    <3>. QED
      BY <1>5, <3>1, <3>2, <3>3, <3>4, Zenon DEF Come
  <2>6. summary' = "Done" <=> 0 = Len(latest') + 1
    BY <1>1, <1>3
  <2>7. 0 \in 0 .. (Len(latest') + 1) /\ 0 \in 0 .. 0
    BY <1>1, <1>3
  <2>. QED
    BY <2>2, <2>4, <2>5, <2>6, <2>7 DEF Underway
<1>10. results' \in Seq(Rows)
  BY <1>1, EmptySeq
<1>. QED
  BY <1>1, <1>6, <1>8, <1>9, <1>10

LEMMA WorkerKeepsScanInv ==
  ASSUME ScanInv, NEW w \in DOMAIN worker, WorkerStep(w)
  PROVE  ScanInv'
<1>1. /\ worker' \in Seq(Workers) /\ queue' \in Seq(Events) /\ Running(w) /\ ReadersHoldAFile'
      /\ UNCHANGED <<content, listbox, current, tabs, results, summary, autofix, fixVars, latest, alone>>
  BY WorkerTypes
<1>2. ScanTypes'
  BY <1>1, Zenon DEF ScanInv, ScanTypes, fixVars
<1>3. OnlyTheHeadIsTorn' /\ AutofixOffersFindings'
  BY <1>1, Zenon DEF ScanInv, OnlyTheHeadIsTorn, AutofixOffersFindings, fixVars
<1>4. ReadyInv'
  BY <1>1 DEF ScanInv, ReadyInv, NoneRuns
<1>5. alone' /\ phase' = "idle" /\ summary' # "Ready" => Underway'
  BY <1>1, WorkerComes DEF ScanInv, fixVars
<1>. QED
  BY <1>1, <1>2, <1>3, <1>4, <1>5 DEF ScanInv

LEMMA PollKeepsScanInv ==
  ASSUME ScanInv, PollQueue
  PROVE  ScanInv'
<1>1. /\ UNCHANGED <<content, listbox, current, tabs, worker, phase, fixing, latest, alone>> /\ queue # <<>> /\ queue' = <<>>
      /\ results' = results \o RowsOf(queue)
      /\ IF \E i \in DOMAIN queue : queue[i].kind = "done"
         THEN summary' = "Done" /\ autofix' = (autofix \/ OffersFix(queue))
         ELSE UNCHANGED <<summary, autofix>>
  BY DEF PollQueue, fixVars, viewVars
<1>2. /\ ScanTypes /\ OnlyTheHeadIsTorn /\ ReadersHoldAFile /\ ReadyInv /\ AutofixOffersFindings
      /\ alone /\ phase = "idle" /\ summary # "Ready" => Underway
  BY DEF ScanInv
<1>3. /\ results \in Seq(Rows) /\ queue \in Seq(Events) /\ summary \in {"Ready", "Scanning", "Done"} /\ autofix \in BOOLEAN
  BY <1>2 DEF ScanTypes
<1>4. /\ RowsOf(queue) \in Seq(Rows)
      /\ RowsOf(queue) = <<>> <=> Shown(queue) = {}
  BY <1>3, RowsOfEvents
<1>5. /\ results' \in Seq(Rows) /\ queue' \in Seq(Events)
      /\ results' = <<>> <=> results = <<>> /\ RowsOf(queue) = <<>>
  BY <1>1, <1>3, <1>4, ConcatProperties, EmptySeq
<1>6. summary' \in {"Ready", "Scanning", "Done"} /\ autofix' \in BOOLEAN
  <2>1. CASE \E i \in DOMAIN queue : queue[i].kind = "done"
    <3>1. (autofix \/ OffersFix(queue)) \in BOOLEAN
      BY Zenon
    <3>. QED
      BY <1>1, <2>1, <3>1, Zenon
  <2>2. CASE ~(\E i \in DOMAIN queue : queue[i].kind = "done")
    BY <1>1, <1>3, <2>2, Zenon
  <2>. QED
    BY <2>1, <2>2
<1>7. ScanTypes'
  BY <1>1, <1>2, <1>5, <1>6, Zenon DEF ScanTypes
<1>8. OnlyTheHeadIsTorn' /\ ReadersHoldAFile'
  BY <1>1, <1>2, Zenon DEF OnlyTheHeadIsTorn, ReadersHoldAFile
<1>9. ASSUME autofix' PROVE summary' = "Done" /\ results' # <<>>
  <2>1. CASE \E i \in DOMAIN queue : queue[i].kind = "done"
    <3>1. summary' = "Done" /\ (autofix \/ OffersFix(queue))
      BY <1>1, <1>9, <2>1, Zenon
    <3>2. OffersFix(queue) => results # <<>> \/ Shown(queue) # {}
      BY Zenon DEF OffersFix
    <3>3. autofix => results # <<>>
      BY <1>2, Zenon DEF AutofixOffersFindings
    <3>4. results # <<>> \/ Shown(queue) # {}
      BY <3>1, <3>2, <3>3, Zenon
    <3>. QED
      BY <1>4, <1>5, <3>1, <3>4, Zenon
  <2>2. CASE ~(\E i \in DOMAIN queue : queue[i].kind = "done")
    <3>1. summary' = summary /\ autofix
      BY <1>1, <1>9, <2>2, Zenon
    <3>. QED
      BY <1>2, <1>5, <3>1, Zenon DEF AutofixOffersFindings
  <2>. QED
    BY <2>1, <2>2
<1>10. ReadyInv'
  <2>1. ASSUME summary' = "Ready"
        PROVE  /\ latest' = <<>> /\ listbox' = <<>> /\ ~autofix'
               /\ ~alone'
    <3>1. ~(\E i \in DOMAIN queue : queue[i].kind = "done")
      <4>1. "Ready" # "Done"
        OBVIOUS
      <4>. QED
        BY <1>1, <2>1, <4>1, Zenon
    <3>2. summary = "Ready" /\ autofix' = autofix
      BY <1>1, <2>1, <3>1, Zenon
    <3>. QED
      BY <1>1, <1>2, <3>2, Zenon DEF ReadyInv
  <2>. QED
    BY <2>1, Zenon DEF ReadyInv
<1>11. ASSUME alone', phase' = "idle", summary' # "Ready" PROVE Underway'
  <2>1. alone /\ phase = "idle"
    BY <1>1, <1>11
  <2>2. summary # "Ready"
    BY <1>1, <1>2, <2>1 DEF ReadyInv
  <2>. QED
    BY <1>2, <2>1, <2>2, PollComes
<1>. QED
  BY <1>7, <1>8, <1>9, <1>10, <1>11, Zenon DEF ScanInv, AutofixOffersFindings

\* A command that starts a scan.
LEMMA StartKeepsScanInv ==
  ASSUME ScanInv, NEW files \in Seq(Sources), StartScan(files), phase # "fixing", phase' = "idle",
         UNCHANGED <<content, fixing>>, listbox' \in Seq(Files), current' \in Files \cup {NoFile},
         tabs' \subseteq Files
  PROVE  ScanInv'
<1>1. /\ results' \in Seq(Rows) /\ summary' = "Scanning" /\ autofix' = FALSE
      /\ worker' \in Seq(Workers) /\ latest' \in Seq(Sources) /\ queue' = queue
      /\ ReadersHoldAFile'
      /\ alone' => Underway'
  BY ScanStarts
<1>2. ScanTypes'
  BY <1>1 DEF ScanInv, ScanTypes
<1>3. OnlyTheHeadIsTorn'
  BY DEF ScanInv, OnlyTheHeadIsTorn
<1>4. ReadyInv' /\ AutofixOffersFindings'
  BY <1>1 DEF ReadyInv, AutofixOffersFindings
<1>. QED
  BY <1>1, <1>2, <1>3, <1>4 DEF ScanInv

LEMMA ResetKeepsScanInv ==
  ASSUME ScanInv, ResetLists, UNCHANGED <<content, fixVars>>, current' \in Files \cup {NoFile}
  PROVE  ScanInv'
<1>1. /\ listbox' = <<>> /\ tabs' = {} /\ results' = <<>> /\ summary' = "Ready" /\ autofix' = FALSE
      /\ latest' = <<>> /\ alone' = ~InFlight /\ UNCHANGED <<queue, worker, content, phase, fixing>>
  BY DEF ResetLists, fixVars
<1>2. ScanTypes'
  <2>1. \A S : <<>> \in Seq(S)
    BY EmptySeq
  <2>. QED
    BY <1>1, <2>1, Zenon DEF ScanInv, ScanTypes
<1>3. OnlyTheHeadIsTorn' /\ ReadersHoldAFile' /\ AutofixOffersFindings'
  BY <1>1, Zenon DEF ScanInv, OnlyTheHeadIsTorn, ReadersHoldAFile, AutofixOffersFindings
<1>4. ReadyInv'
  BY <1>1 DEF ReadyInv, NoneRuns, InFlight, Running
<1>. QED
  BY <1>1, <1>2, <1>3, <1>4 DEF ScanInv

\* What auto-fix does to the files, before it scans them.
LEMMA FixKeepsScanInv ==
  ASSUME ScanInv, AutofixBegins \/ FixSkip \/ FixTruncate \/ FixWrite \/ FixReport
  PROVE  ScanInv'
<1>1. /\ UNCHANGED <<listbox, current, tabs, results, summary, autofix, queue, worker, latest, alone>>
      /\ phase' \in {"fixing", "dialog"}
  BY DEF AutofixBegins, FixSkip, FixTruncate, FixWrite, FixReport, fixVars, viewVars
<1>2. /\ ScanTypes /\ OnlyTheHeadIsTorn /\ ReadersHoldAFile /\ ReadyInv /\ AutofixOffersFindings
      /\ content \in [Files -> Kinds] /\ listbox \in Seq(Files) /\ fixing \in Seq(Files)
  BY DEF ScanInv, ScanTypes
<1>3. fixing # <<>> => Head(fixing) \in Files /\ Tail(fixing) \in Seq(Files)
  BY <1>2, HeadTailProperties
<1>4. content' \in [Files -> Kinds] /\ fixing' \in Seq(Files) /\ OnlyTheHeadIsTorn'
  <2>1. CASE AutofixBegins \/ FixSkip \/ FixReport
    BY <1>2, <1>3, <2>1 DEF AutofixBegins, FixSkip, FixReport, OnlyTheHeadIsTorn
  <2>2. CASE FixTruncate
    <3>1. /\ fixing # <<>> /\ phase' = "fixing" /\ fixing' = fixing
          /\ content' = [content EXCEPT ![Head(fixing)] = "torn"] /\ phase = "fixing"
      BY <2>2 DEF FixTruncate, fixVars
    <3>2. "torn" \in Kinds
      BY DEF Kinds
    <3>. QED
      BY <1>2, <1>3, <3>1, <3>2 DEF OnlyTheHeadIsTorn
  <2>3. CASE FixWrite
    <3>1. /\ fixing # <<>> /\ phase' = "fixing" /\ fixing' = Tail(fixing)
          /\ content' = [content EXCEPT ![Head(fixing)] = "clean"] /\ phase = "fixing"
      BY <2>3 DEF FixWrite
    <3>2. "clean" \in Kinds /\ "clean" # "torn"
      BY DEF Kinds
    <3>. QED
      BY <1>2, <1>3, <3>1, <3>2 DEF OnlyTheHeadIsTorn
  <2>. QED
    BY <2>1, <2>2, <2>3
<1>5. ScanTypes'
  <2>1. phase' \in {"idle", "fixing", "dialog"}
    BY <1>1
  <2>. QED
    BY <1>1, <1>2, <1>4, <2>1, Zenon DEF ScanTypes
<1>6. ReadersHoldAFile' /\ ReadyInv' /\ AutofixOffersFindings'
  BY <1>1, <1>2, Zenon DEF ReadersHoldAFile, ReadyInv, NoneRuns, Running, AutofixOffersFindings
<1>. QED
  BY <1>1, <1>4, <1>5, <1>6 DEF ScanInv

\* A step after which no file of the last scan reads otherwise, or its findings
\* are no longer claimed, leaves the scans as they are.
LEMMA StillScanning ==
  ASSUME ScanInv, UNCHANGED <<listbox, results, summary, autofix, queue, worker, phase, fixing, latest>>,
         content' \in [Files -> Kinds], current' \in Files \cup {NoFile}, tabs' \subseteq Files,
         \A f \in Files : content'[f] = "torn" => content[f] = "torn",
         alone' => alone /\ \A i \in DOMAIN latest : Outcome(latest[i])' = Outcome(latest[i])
  PROVE  ScanInv'
<1>1. ScanTypes'
  BY Zenon DEF ScanInv, ScanTypes
<1>2. OnlyTheHeadIsTorn'
  BY Zenon DEF ScanInv, OnlyTheHeadIsTorn
<1>3. ReadersHoldAFile' /\ ReadyInv' /\ AutofixOffersFindings'
  BY Zenon DEF ScanInv, ReadersHoldAFile, ReadyInv, NoneRuns, Running, AutofixOffersFindings
<1>4. ASSUME alone', phase' = "idle", summary' # "Ready" PROVE Underway'
  <2>1. Underway /\ latest \in Seq(Sources)
    BY <1>4, Zenon DEF ScanInv, ScanTypes
  <2>2. Len(latest) \in Nat /\ DOMAIN latest = 1 .. Len(latest)
    BY <2>1, LenProperties
  <2>3. \A i \in 1 .. Len(latest) : Outcome(latest[i])' = Outcome(latest[i]) /\ RowFor(latest[i])' = RowFor(latest[i])
    BY <1>4, <2>2, Zenon DEF RowFor
  <2>4. \A p : Owed(p)' = Owed(p)
    BY <2>2, <2>3 DEF Owed
  <2>5. PICK k \in 0 .. (Len(latest) + 1) : \E p \in 0 .. k :
          Come(k, p) /\ ListedUpTo(p) /\ (summary = "Done" <=> p = Len(latest) + 1)
    BY <2>1 DEF Underway
  <2>6. PICK p \in 0 .. k : Come(k, p) /\ ListedUpTo(p) /\ (summary = "Done" <=> p = Len(latest) + 1)
    BY <2>5
  <2>7. \A i : Task(i)' = Task(i)
    BY DEF Task
  <2>8. \A i \in Nat : i > 0 => EventOf(i)' = EventOf(i)
    BY <2>2, <2>3 DEF EventOf
  <2>9. Come(k, p)'
    <3>1. Len(queue) = k - p
      BY <2>6 DEF Come
    <3>2. \A i \in 1 .. Len(queue) : EventOf(p + i)' = EventOf(p + i)
      BY <2>6, <2>8, <3>1
    <3>3. k < Len(latest) => Outcome(latest[k + 1])' = Outcome(latest[k + 1])
      BY <2>2, <2>3
    <3>. QED
      BY <2>6, <2>7, <3>2, <3>3 DEF Come
  <2>10. ListedUpTo(p)'
    <3>1. PICK at \in [DOMAIN results -> Owed(p)] :
            Lists(results, Owed(p), at) /\ \A i \in DOMAIN results : results[i] = RowFor(latest[at[i]])
      BY <2>6, Zenon DEF ListedUpTo
    <3>2. \A i \in DOMAIN results : at[i] \in 1 .. Len(latest)
      BY <2>2, <3>1 DEF Owed
    <3>3. \A i \in DOMAIN results : results'[i] = RowFor(latest[at[i]])'
      BY <2>3, <3>1, <3>2
    <3>. QED
      BY <2>4, <3>1, <3>3, Zenon DEF ListedUpTo
  <2>. QED
    BY <2>1, <2>5, <2>6, <2>9, <2>10 DEF Underway, Running
<1>. QED
  BY <1>1, <1>2, <1>3, <1>4 DEF ScanInv

LEMMA ViewKeepsScanInv ==
  ASSUME ScanInv, View, UNCHANGED <<content, alone>>, current' \in Files \cup {NoFile}, tabs' \subseteq Files
  PROVE  ScanInv'
<1>1. /\ UNCHANGED <<listbox, results, summary, autofix, queue, worker, phase, fixing, latest>>
      /\ content \in [Files -> Kinds]
  BY DEF View, fixVars, ScanInv, ScanTypes
<1>2. \A i : Outcome(i)' = Outcome(i)
  BY DEF Outcome
<1>. QED
  BY <1>1, <1>2, StillScanning, Zenon

LEMMA SaveKeepsScanInv ==
  ASSUME ScanInv, NEW f \in Files, NEW draft \in Drafts, Save(f, draft)
  PROVE  ScanInv'
<1>1. /\ UNCHANGED <<listbox, results, summary, autofix, queue, worker, phase, fixing, latest>>
      /\ content' = [content EXCEPT ![f] = draft] /\ current' = f /\ tabs' = tabs \cup {f}
      /\ alone' => alone /\ \A i \in DOMAIN latest : latest[i] # f
      /\ content \in [Files -> Kinds] /\ tabs \subseteq Files /\ latest \in Seq(Sources)
  BY DEF Save, View, fixVars, ScanInv, ScanTypes
<1>2. draft \in Kinds /\ draft # "torn"
  BY DEF Kinds
<1>3. /\ content' \in [Files -> Kinds] /\ tabs' \subseteq Files
      /\ \A g \in Files : content'[g] = "torn" => content[g] = "torn"
      /\ \A g \in Files : g # f => content'[g] = content[g]
  BY <1>1, <1>2
<1>4. ASSUME alone' PROVE \A i \in DOMAIN latest : Outcome(latest[i])' = Outcome(latest[i])
  <2>1. ASSUME NEW i \in DOMAIN latest PROVE latest[i] \in Sources /\ latest[i] # f
    BY <1>1, <1>4, <2>1, ElementOfSeq, LenProperties
  <2>. QED
    BY <1>1, <1>3, <2>1 DEF Outcome, Sources
<1>5. current' \in Files \cup {NoFile}
  BY <1>1
<1>. QED
  BY <1>1, <1>3, <1>4, <1>5, StillScanning, Zenon

LEMMA ScanStep == ScanInv /\ [Next]_vars => ScanInv'
<1>. SUFFICES ASSUME ScanInv, [Next]_vars PROVE ScanInv'
  OBVIOUS
<1>1. /\ listbox \in Seq(Files) /\ current \in Files \cup {NoFile} /\ tabs \subseteq Files
      /\ Files \subseteq Sources
  BY DEF ScanInv, ScanTypes, Sources
<1>2. ASSUME NEW w \in DOMAIN worker, WorkerRead(w) \/ WorkerPut(w) \/ WorkerDone(w) PROVE ScanInv'
  BY <1>2, WorkerKeepsScanInv DEF WorkerStep
<1>3. ASSUME NEW files \in Intakes, AddPaths(files) PROVE ScanInv'
  <2>1. /\ phase = "idle" /\ listbox' = listbox \o files /\ StartScan(files)
        /\ UNCHANGED <<content, phase, fixing>>
        /\ \/ current' = files[1] /\ tabs' = tabs \cup {files[1]}
           \/ UNCHANGED <<current, tabs>>
    BY <1>3 DEF AddPaths, fixVars
  <2>2. files \in Seq(Files) /\ files # <<>>
    OBVIOUS
  <2>3. files \in Seq(Sources) /\ listbox' \in Seq(Files)
    BY <1>1, <2>1, <2>2, ConcatProperties, SeqMonotonic
  <2>4. current' \in Files \cup {NoFile} /\ tabs' \subseteq Files
    <3>1. Len(files) \in Nat /\ Len(files) # 0
      BY <2>2, EmptySeq
    <3>2. 1 \in 1 .. Len(files)
      BY <3>1
    <3>3. files[1] \in Files
      BY <2>2, <3>2, ElementOfSeq
    <3>. QED
      BY <1>1, <2>1, <3>3
  <2>. QED
    BY <2>1, <2>3, <2>4, StartKeepsScanInv
<1>4. CASE Clear
  <2>1. current' \in Files \cup {NoFile} /\ ResetLists /\ UNCHANGED <<content, fixVars>>
    BY <1>1, <1>4 DEF Clear, Left
  <2>. QED
    BY <2>1, ResetKeepsScanInv
<1>5. CASE ScanCurrentFile
  <2>1. current' \in Files \cup {NoFile} /\ phase = "idle" /\ UNCHANGED <<content, fixVars>>
    BY <1>1, <1>5 DEF ScanCurrentFile, Left
  <2>2. CASE current' = NoFile
    <3>1. ResetLists
      BY <1>5, <2>2 DEF ScanCurrentFile
    <3>. QED
      BY <2>1, <3>1, ResetKeepsScanInv
  <2>3. CASE current' # NoFile
    <3>. DEFINE files == <<current'>>
    <3>1. listbox' = files /\ tabs' = {current'} /\ StartScan(files)
      BY <1>5, <2>3 DEF ScanCurrentFile
    <3>2. current' \in Files /\ current' \in Sources
      BY <1>1, <2>1, <2>3
    <3>3. files \in Seq(Files) /\ files \in Seq(Sources)
      BY <3>2
    <3>. HIDE DEF files
    <3>4. phase # "fixing" /\ phase' = "idle" /\ UNCHANGED <<content, fixing>>
      BY <2>1 DEF fixVars
    <3>5. listbox' \in Seq(Files) /\ tabs' \subseteq Files
      BY <3>1, <3>2, <3>3
    <3>. QED
      BY <2>1, <3>1, <3>3, <3>4, <3>5, StartKeepsScanInv
  <2>. QED
    BY <2>2, <2>3
<1>6. ASSUME NEW f \in Files, Show(f) \/ CloseTab(f) PROVE ScanInv'
  <2>1. current' \in Files \cup {NoFile} /\ tabs' \subseteq Files /\ View /\ UNCHANGED <<content, alone>>
    BY <1>1, <1>6 DEF Show, CloseTab
  <2>. QED
    BY <2>1, ViewKeepsScanInv
<1>7. ASSUME NEW f \in Files, NEW draft \in Drafts, Save(f, draft) PROVE ScanInv'
  BY <1>7, SaveKeepsScanInv
<1>8. CASE NewTab
  <2>1. current' \in Files \cup {NoFile} /\ tabs' \subseteq Files /\ View /\ UNCHANGED <<content, alone>>
    BY <1>1, <1>8 DEF NewTab, Left
  <2>. QED
    BY <2>1, ViewKeepsScanInv
<1>9. CASE ScanStdin
  <2>1. /\ phase = "idle" /\ StartScan(<<Stdin>>) /\ UNCHANGED <<content, listbox, current, tabs, phase, fixing>>
    BY <1>9 DEF ScanStdin, fixVars, viewVars
  <2>. DEFINE files == <<Stdin>>
  <2>2. files \in Seq(Sources)
    <3>1. Stdin \in Sources
      BY DEF Sources
    <3>. QED
      BY <3>1
  <2>. HIDE DEF files
  <2>3. StartScan(files)
    BY <2>1 DEF files
  <2>. QED
    BY <1>1, <2>1, <2>2, <2>3, StartKeepsScanInv
<1>10. CASE DialogClosed
  <2>1. listbox \in Seq(Sources)
    BY <1>1, SeqMonotonic
  <2>. QED
    BY <1>1, <1>10, <2>1, StartKeepsScanInv DEF DialogClosed, viewVars
<1>11. CASE UNCHANGED vars
  <2>1. UNCHANGED <<content, listbox, current, tabs, results, summary, autofix, queue, worker, phase,
                    fixing, latest, alone>>
    BY <1>11 DEF vars, viewVars, fixVars
  <2>2. \A i : Outcome(i)' = Outcome(i)
    BY <2>1 DEF Outcome
  <2>3. content' \in [Files -> Kinds] /\ current' \in Files \cup {NoFile} /\ tabs' \subseteq Files
    BY <2>1 DEF ScanInv, ScanTypes
  <2>. QED
    BY <2>1, <2>2, <2>3, StillScanning, Zenon
<1>. QED
  BY <1>2, <1>3, <1>4, <1>5, <1>6, <1>7, <1>8, <1>9, <1>10, <1>11,
     PollKeepsScanInv, FixKeepsScanInv DEF Next

LEMMA ScanInvTellsTheTruth == ScanInv => SessionTellsTheTruth
<1>. SUFFICES ASSUME ScanInv PROVE SessionTellsTheTruth
  OBVIOUS
<1>1. /\ ScanTypes /\ OnlyTheHeadIsTorn /\ ReadyInv /\ AutofixOffersFindings
      /\ alone /\ phase = "idle" /\ summary # "Ready" => Underway
  BY DEF ScanInv
<1>2. TypeOK
  <2>1. queue \in Seq([kind : Kinds \cup {"done"}, path : Files \cup {Stdin, NoFile}])
    <3>. DEFINE all == [kind : Kinds \cup {"done"}, path : Files \cup {Stdin, NoFile}]
    <3>1. Events \subseteq all
      BY DEF Events, Event, Sources
    <3>. HIDE DEF all
    <3>2. Seq(Events) \subseteq Seq(all)
      BY <3>1, SeqMonotonic
    <3>. QED
      BY <1>1, <3>2, Zenon DEF ScanTypes, all
  <2>2. results \in Seq([path : Files \cup {Stdin}, kind : {"issue", "error"}])
    BY <1>1, Zenon DEF ScanTypes, Rows, Sources
  <2>. QED
    BY <1>1, <2>1, <2>2, Zenon DEF TypeOK, ScanTypes, OnlyTheHeadIsTorn
<1>3. ASSUME alone, summary = "Done", phase = "idle"
      PROVE  LET owed == {i \in DOMAIN latest : Outcome(latest[i]) # "clean"}
             IN  \E at \in [DOMAIN results -> owed] :
                   /\ Lists(results, owed, at)
                   /\ \A i \in DOMAIN results : results[i] = RowFor(latest[at[i]])
  <2>1. Underway
    BY <1>1, <1>3
  <2>2. PICK k \in 0 .. (Len(latest) + 1) : \E p \in 0 .. k :
          Come(k, p) /\ ListedUpTo(p) /\ (summary = "Done" <=> p = Len(latest) + 1)
    BY <2>1 DEF Underway
  <2>3. ListedUpTo(Len(latest) + 1)
    BY <1>3, <2>2
  <2>4. Owed(Len(latest) + 1) = {i \in DOMAIN latest : Outcome(latest[i]) # "clean"}
    <3>1. \A i \in DOMAIN latest : i <= Len(latest) + 1
      BY <1>1, PlaceOfSources
    <3>. QED
      BY <3>1, Zenon DEF Owed
  <2>. QED
    BY <2>3, <2>4, Zenon DEF ListedUpTo
<1>4. DoneTellsTheTruth
  BY <1>3, Zenon DEF DoneTellsTheTruth
<1>5. ReadyStaysEmpty
  BY <1>1, Zenon DEF ReadyInv, ReadyStaysEmpty
<1>. QED
  BY <1>1, <1>2, <1>4, <1>5 DEF SessionTellsTheTruth

\* What the dashboard says of a scan is what the scan found, whatever files the
\* user scans, fixes and clears (gui.py, 2773-2841): the summary "Done", the
\* cleared list and the Auto-Fix button, for every set of files and any number
\* of overlapping scans.
THEOREM SessionAlwaysTellsTheTruth == Spec => []SessionTellsTheTruth
<1>1. Spec => []ScanInv
  BY ScanInit, ScanStep, PTL DEF Spec
<1>. QED
  BY <1>1, ScanInvTellsTheTruth, PTL
-----------------------------------------------------------------------------
(***************************************************************************)
(* RpcServers: the answers.  The n-th answer with an id is the answer to   *)
(* the n-th request that awaits one; an entry of a batch and a message of  *)
(* an editor each add a request, and an answer, or neither, to the end.    *)
(***************************************************************************)
Entries == [method : STRING, id : Nat]
Calls == MessageFrames \cup Entries
Edits == [id : Nat, holds : {"params"}, edit : Seq(Texts)]
Replies == [id : Nat, holds : {"params", "error", "result"}] \cup Edits
Sensible(e) == e.method = "not an object" => e.id = None
SensibleLines == {line \in [entries : Seq(Entries)] :
                    \A i \in DOMAIN line.entries : Sensible(line.entries[i])}
\* Only what asks is numbered, and what opens a document holds its text.
EditorFrames == {m \in MessageFrames \cup OtherFrames : m.frame = "message" =>
                   /\ m.method \notin Asked => m.id = None
                   /\ m.method = "textDocument/didOpen" => m.texts # <<>>}
Wire == IF endpoint = "lsp" THEN EditorFrames ELSE SensibleLines

Own(said) == {i \in DOMAIN said : said[i].id # None}
Waiting(who, heard) == {i \in DOMAIN heard : Awaited(who, heard[i])}

\* What a call is answered with, if it awaits an answer, and if it does not.
Answers(who, e, r) == /\ r \in Seq(Replies)
                      /\ Awaited(who, e) => Len(r) = 1 /\ r[1].id = e.id
                      /\ ~Awaited(who, e) => r = <<>> \/ (Len(r) = 1 /\ r[1].id = None)

AnswerInv == /\ endpoint \in {"lsp", "mcp"}
             /\ answers \in Seq(Replies) /\ served \in Seq(Calls) /\ pipe \in Seq(Wire)
             /\ documents \in [DOMAIN documents -> Texts]
             /\ AnsweredInOrder

\* A place added at the end is counted last and moves no other.
LEMMA OneMorePlace ==
  ASSUME NEW n \in Nat, NEW places \in SUBSET (1 .. n), NEW m \in Nat, m = n + 1
  PROVE  /\ Cardinality(places) \in Nat /\ Cardinality(places \cup {m}) = Cardinality(places) + 1
         /\ \A i \in places : Nr(places \cup {m}, i) = Nr(places, i) /\ Nr(places, i) \in 1 .. Cardinality(places)
         /\ Nr(places \cup {m}, m) = Cardinality(places) + 1
<1>1. /\ IsFiniteSet(places) /\ Cardinality(places) \in Nat
      /\ \A i \in places : Cardinality(UpTo(places, i)) \in 1 .. Cardinality(places)
  BY CountedPlaces
<1>2. m \notin places /\ \A i \in places : i <= m /\ ~(m <= i)
  OBVIOUS
<1>3. Cardinality(places \cup {m}) = Cardinality(places) + 1
  BY <1>1, <1>2, FS_AddElement
<1>4. ASSUME NEW i \in places
      PROVE  Nr(places \cup {m}, i) = Nr(places, i) /\ Nr(places, i) \in 1 .. Cardinality(places)
  <2>1. {j \in places \cup {m} : j <= i} = {j \in places : j <= i}
    BY <1>2, Zenon
  <2>. QED
    BY <1>1, <2>1 DEF Nr, UpTo
<1>5. {j \in places \cup {m} : j <= m} = places \cup {m}
  <2>1. m <= m
    OBVIOUS
  <2>. QED
    BY <1>2, <2>1, Zenon
<1>. QED
  BY <1>1, <1>3, <1>4, <1>5 DEF Nr

\* One more call, and what it is answered with, keep the order.
LEMMA OneMoreAnswer ==
  ASSUME NEW who, NEW said \in Seq(Replies), NEW heard \in Seq(Calls), InOrder(who, said, heard),
         NEW e \in Calls, NEW r, Answers(who, e, r)
  PROVE  /\ said \o r \in Seq(Replies) /\ Append(heard, e) \in Seq(Calls)
         /\ InOrder(who, said \o r, Append(heard, e))
<1>. DEFINE n == Len(said)
            k == Len(heard)
            more == Append(heard, e)
            longer == said \o r
<1>1. /\ more \in Seq(Calls) /\ k \in Nat /\ DOMAIN heard = 1 .. k /\ DOMAIN more = 1 .. (k + 1)
      /\ (\A i \in 1 .. k : more[i] = heard[i]) /\ more[k + 1] = e
  <2>1. more \in Seq(Calls) /\ Len(more) = k + 1
        /\ (\A i \in 1 .. k : more[i] = heard[i]) /\ more[k + 1] = e
    BY AppendProperties
  <2>2. k \in Nat /\ DOMAIN heard = 1 .. k
    BY LenProperties
  <2>3. DOMAIN more = 1 .. (k + 1)
    BY <2>1, LenProperties, Zenon
  <2>. QED
    BY <2>1, <2>2, <2>3
<1>2. /\ longer \in Seq(Replies) /\ n \in Nat /\ DOMAIN said = 1 .. n
      /\ Len(r) = 0 => longer = said
      /\ Len(r) = 1 => /\ DOMAIN longer = 1 .. (n + 1) /\ longer[n + 1] = r[1]
                       /\ \A i \in 1 .. n : longer[i] = said[i]
  <2>1. r \in Seq(Replies) /\ n \in Nat /\ DOMAIN said = 1 .. n
    BY LenProperties DEF Answers
  <2>2. /\ longer \in Seq(Replies) /\ Len(longer) = n + Len(r)
        /\ \A i \in 1 .. (n + Len(r)) : longer[i] = IF i <= n THEN said[i] ELSE r[i - n]
    BY <2>1, ConcatProperties
  <2>3. DOMAIN longer = 1 .. (n + Len(r))
    BY <2>2, LenProperties, Zenon
  <2>4. ASSUME Len(r) = 0 PROVE longer = said
    <3>1. r = <<>>
      BY <2>1, <2>4, EmptySeq
    <3>. QED
      BY <3>1, ConcatEmptySeq
  <2>5. ASSUME Len(r) = 1
        PROVE  /\ DOMAIN longer = 1 .. (n + 1) /\ longer[n + 1] = r[1]
               /\ \A i \in 1 .. n : longer[i] = said[i]
    <3>. HIDE DEF longer, n
    <3>1. DOMAIN longer = 1 .. (n + 1)
      BY <2>3, <2>5
    <3>2. n + 1 \in 1 .. (n + Len(r)) /\ ~(n + 1 <= n) /\ (n + 1) - n = 1
          /\ \A i \in 1 .. n : i \in 1 .. (n + Len(r)) /\ i <= n
      BY <2>1, <2>5
    <3>3. longer[n + 1] = r[1]
      BY <2>2, <3>2
    <3>4. \A i \in 1 .. n : longer[i] = said[i]
      BY <2>2, <3>2
    <3>. QED
      BY <3>1, <3>3, <3>4
  <2>. QED
    BY <2>1, <2>2, <2>4, <2>5
<1>. DEFINE own == Own(said)
            due == Waiting(who, heard)
<1>3. /\ Cardinality(own) = Cardinality(due)
      /\ \A i \in own, j \in due : Nr(own, i) = Nr(due, j) => said[i].id = heard[j].id
  BY Zenon DEF InOrder, Own, Waiting
<1>4. own \in SUBSET (1 .. n) /\ due \in SUBSET (1 .. k)
  BY <1>1, <1>2 DEF Own, Waiting
<1>5. SUFFICES /\ Cardinality(Own(longer)) = Cardinality(Waiting(who, more))
               /\ \A i \in Own(longer), j \in Waiting(who, more) :
                    Nr(Own(longer), i) = Nr(Waiting(who, more), j) => longer[i].id = more[j].id
  <2>1. InOrder(who, longer, more)
    BY <1>5, Zenon DEF InOrder, Own, Waiting
  <2>. QED
    BY <1>1, <1>2, <2>1
<1>. HIDE DEF own, due, longer, more, n, k
<1>6. /\ \A i \in 1 .. n : i \in 1 .. (n + 1)
      /\ \A i \in 1 .. (n + 1) : i \in 1 .. n \/ i = n + 1
      /\ \A i \in 1 .. k : i \in 1 .. (k + 1)
      /\ \A i \in 1 .. (k + 1) : i \in 1 .. k \/ i = k + 1
      /\ n + 1 \in 1 .. (n + 1) /\ k + 1 \in 1 .. (k + 1)
      /\ n + 1 \notin 1 .. n /\ k + 1 \notin 1 .. k
  BY <1>1, <1>2
<1>7. CASE Awaited(who, e)
  <2>1. Len(r) = 1 /\ r[1].id = e.id /\ e.id # None
    BY <1>7, Zenon DEF Answers, Awaited
  <2>2. Own(longer) = own \cup {n + 1}
    <3>1. \A i : i \in Own(longer) <=> i \in own \/ i = n + 1
      BY <1>2, <1>6, <2>1, Zenon DEF Own, own
    <3>. QED
      BY <3>1, Zenon
  <2>3. Waiting(who, more) = due \cup {k + 1}
    <3>1. \A i : i \in Waiting(who, more) <=> i \in due \/ i = k + 1
      BY <1>1, <1>6, <1>7, Zenon DEF Waiting, due
    <3>. QED
      BY <3>1, Zenon
  <2>4. /\ Cardinality(own) \in Nat /\ Cardinality(own \cup {n + 1}) = Cardinality(own) + 1
        /\ \A i \in own : Nr(own \cup {n + 1}, i) = Nr(own, i) /\ Nr(own, i) \in 1 .. Cardinality(own)
        /\ Nr(own \cup {n + 1}, n + 1) = Cardinality(own) + 1
    <3>1. n \in Nat /\ n + 1 \in Nat
      BY <1>2
    <3>. QED
      BY <1>4, <3>1, OneMorePlace, Zenon
  <2>5. /\ Cardinality(due) \in Nat /\ Cardinality(due \cup {k + 1}) = Cardinality(due) + 1
        /\ \A i \in due : Nr(due \cup {k + 1}, i) = Nr(due, i) /\ Nr(due, i) \in 1 .. Cardinality(due)
        /\ Nr(due \cup {k + 1}, k + 1) = Cardinality(due) + 1
    <3>1. k \in Nat /\ k + 1 \in Nat
      BY <1>1
    <3>. QED
      BY <1>4, <3>1, OneMorePlace, Zenon
  <2>6. ASSUME NEW i \in own \cup {n + 1}, NEW j \in due \cup {k + 1},
               Nr(own \cup {n + 1}, i) = Nr(due \cup {k + 1}, j)
        PROVE  longer[i].id = more[j].id
    <3>1. CASE i \in own /\ j \in due
      <4>1. said[i].id = heard[j].id
        BY <1>3, <2>4, <2>5, <2>6, <3>1
      <4>. QED
        BY <1>1, <1>2, <1>4, <2>1, <3>1, <4>1
    <3>2. CASE i = n + 1 /\ j = k + 1
      BY <1>1, <1>2, <2>1, <3>2
    <3>3. ASSUME i \in own, j = k + 1 PROVE FALSE
      <4>1. Nr(own, i) = Cardinality(own) + 1 /\ Nr(own, i) \in 1 .. Cardinality(own)
        BY <1>3, <2>4, <2>5, <2>6, <3>3, Zenon
      <4>. QED
        BY <2>4, <4>1
    <3>4. ASSUME j \in due, i = n + 1 PROVE FALSE
      <4>1. Nr(due, j) = Cardinality(due) + 1 /\ Nr(due, j) \in 1 .. Cardinality(due)
        BY <1>3, <2>4, <2>5, <2>6, <3>4, Zenon
      <4>. QED
        BY <2>5, <4>1
    <3>. QED
      BY <3>1, <3>2, <3>3, <3>4
  <2>. QED
    BY <1>3, <2>2, <2>3, <2>4, <2>5, <2>6
<1>8. CASE ~Awaited(who, e)
  <2>1. Waiting(who, more) = due
    <3>1. \A i : i \in Waiting(who, more) <=> i \in due
      BY <1>1, <1>6, <1>8, Zenon DEF Waiting, due
    <3>. QED
      BY <3>1, Zenon
  <2>2. Len(r) = 0 \/ (Len(r) = 1 /\ r[1].id = None)
    BY <1>8, EmptySeq DEF Answers
  <2>3. Own(longer) = own /\ \A i \in own : longer[i].id = said[i].id
    <3>1. CASE Len(r) = 0
      BY <1>2, <3>1, Zenon DEF own
    <3>2. CASE Len(r) = 1 /\ r[1].id = None
      <4>1. \A i : i \in Own(longer) <=> i \in own
        BY <1>2, <1>6, <3>2, Zenon DEF Own, own
      <4>2. \A i \in own : longer[i] = said[i]
        BY <1>2, <1>4, <3>2
      <4>. QED
        BY <4>1, <4>2, Zenon
    <3>. QED
      BY <2>2, <3>1, <3>2
  <2>4. \A j \in due : more[j] = heard[j]
    BY <1>1, <1>4
  <2>5. \A i \in own, j \in due : Nr(own, i) = Nr(due, j) => longer[i].id = more[j].id
    BY <1>3, <2>3, <2>4
  <2>. QED
    BY <1>3, <2>1, <2>3, <2>5
<1>. QED
  BY <1>7, <1>8


\* A batch up to its k-th entry.
Course(was, es, m, now) == now = [k \in 0 .. m |-> IF k = 0 THEN was ELSE Entered(now[k - 1], es[k])]

LEMMA CourseExists ==
  ASSUME NEW was, NEW es, NEW m \in Nat
  PROVE  \E now : Course(was, es, m, now)
<1>. DEFINE T == {k \in Nat : ~ \E now : Course(was, es, k, now)}
<1>1. SUFFICES ASSUME m \in T PROVE FALSE
  BY Zenon
<1>2. PICK k \in T : \A t \in T : k <= t
  <2>1. T \subseteq Nat /\ T # {}
    BY <1>1
  <2>. HIDE DEF T
  <2>. QED
    BY <2>1, Least
<1>3. k \in Nat /\ ~ \E now : Course(was, es, k, now)
  BY Zenon
<1>4. k # 0
  <2>. DEFINE now == [j \in 0 .. 0 |-> was]
  <2>1. \A j \in 0 .. 0 : j = 0
    OBVIOUS
  <2>2. now = [j \in 0 .. 0 |-> IF j = 0 THEN was ELSE Entered(now[j - 1], es[j])]
    BY <2>1, Zenon
  <2>. QED
    BY <1>3, <2>2, Zenon DEF Course
<1>5. k - 1 \in Nat /\ ~(k <= k - 1)
  BY <1>3, <1>4
<1>6. k - 1 \notin T
  <2>. HIDE DEF T
  <2>. QED
    BY <1>2, <1>5
<1>7. PICK now : Course(was, es, k - 1, now)
  BY <1>5, <1>6, Zenon
<1>. DEFINE F(j) == IF j = k THEN Entered(now[k - 1], es[k]) ELSE now[j]
            more == [j \in 0 .. k |-> F(j)]
            E(j) == IF j = 0 THEN was ELSE Entered(more[j - 1], es[j])
<1>8. \A j \in 0 .. k : F(j) = E(j)
  <2>. TAKE j \in 0 .. k
  <2>1. /\ j = k => j # 0
        /\ j # k => j \in 0 .. (k - 1)
        /\ j # 0 => j - 1 \in 0 .. k /\ j - 1 # k
    BY <1>3, <1>4
  <2>2. j # k => now[j] = IF j = 0 THEN was ELSE Entered(now[j - 1], es[j])
    BY <1>7, <2>1, Zenon DEF Course
  <2>3. j # 0 => more[j - 1] = now[j - 1]
    BY <2>1, Zenon
  <2>. HIDE DEF more
  <2>. QED
    BY <2>1, <2>2, <2>3, Zenon
<1>9. more = [j \in 0 .. k |-> E(j)]
  <2>. HIDE DEF F, E
  <2>. QED
    BY <1>8, Zenon
<1>10. Course(was, es, k, more)
  BY <1>9, Zenon DEF Course
<1>. QED
  BY <1>3, <1>10, Zenon

\* Every entry of a batch is answered as it awaits, and so the batch keeps the order.
LEMMA BatchKeepsOrder ==
  ASSUME NEW who, NEW said \in Seq(Replies), NEW heard \in Seq(Calls), InOrder(who, said, heard),
         NEW es \in Seq(Calls), \A i \in 1 .. Len(es) : Answers(who, es[i], Handle(es[i])),
         NEW after, after = Taken([served |-> heard, answers |-> said], es)
  PROVE  /\ after.answers \in Seq(Replies) /\ after.served \in Seq(Calls)
         /\ InOrder(who, after.answers, after.served)
<1>. DEFINE was == [served |-> heard, answers |-> said]
            m == Len(es)
            now == CHOOSE f : Course(was, es, m, f)
            Good(d) == d.answers \in Seq(Replies) /\ d.served \in Seq(Calls) /\ InOrder(who, d.answers, d.served)
<1>0. m \in Nat /\ \A i \in 1 .. m : es[i] \in Calls
  BY LenProperties, ElementOfSeq
<1>1. Course(was, es, m, now)
  BY <1>0, CourseExists, Zenon
<1>2. after = now[m]
  BY Zenon DEF Taken, Course
<1>. HIDE DEF now
<1>3. now[0] = was /\ \A k \in 1 .. m : now[k] = Entered(now[k - 1], es[k])
  <2>. HIDE DEF was, m
  <2>1. 0 \in 0 .. m /\ \A k \in 1 .. m : k \in 0 .. m /\ k # 0
    BY <1>0
  <2>. QED
    BY <1>1, <2>1, Zenon DEF Course
<1>4. Good(was)
  <2>1. was.answers = said /\ was.served = heard
    OBVIOUS
  <2>. HIDE DEF was
  <2>. QED
    BY <2>1
<1>5. ASSUME NEW k \in 1 .. m, Good(now[k - 1]) PROVE Good(now[k])
  <2>. DEFINE d == now[k - 1]
              e == es[k]
  <2>1. now[k].answers = d.answers \o Handle(e) /\ now[k].served = Append(d.served, e)
    <3>1. now[k] = [served |-> Append(d.served, e), answers |-> d.answers \o Handle(e)]
      BY <1>3, Zenon DEF Entered
    <3>. DEFINE r == d.answers \o Handle(e)
                a == Append(d.served, e)
    <3>2. now[k] = [served |-> a, answers |-> r]
      BY <3>1
    <3>. HIDE DEF r, a, d, e
    <3>3. now[k].answers = r /\ now[k].served = a
      BY <3>2
    <3>. QED
      BY <3>3 DEF r, a
  <2>2. e \in Calls /\ Answers(who, e, Handle(e))
    BY <1>0
  <2>3. d.answers \in Seq(Replies) /\ d.served \in Seq(Calls) /\ InOrder(who, d.answers, d.served)
    BY <1>5, Zenon
  <2>. HIDE DEF d, e
  <2>4. /\ d.answers \o Handle(e) \in Seq(Replies) /\ Append(d.served, e) \in Seq(Calls)
        /\ InOrder(who, d.answers \o Handle(e), Append(d.served, e))
    BY <2>2, <2>3, OneMoreAnswer
  <2>. QED
    BY <2>1, <2>4, Zenon
<1>. HIDE DEF Good, was, m
<1>6. Good(now[m])
  <2>. DEFINE T == {k \in 0 .. m : ~Good(now[k])}
  <2>1. SUFFICES ASSUME T # {} PROVE FALSE
    <3>1. m \in 0 .. m
      BY <1>0
    <3>. QED
      BY <2>1, <3>1
  <2>2. T \subseteq Nat
    BY <1>0
  <2>3. PICK k \in T : \A t \in T : k <= t
    <3>. HIDE DEF T
    <3>. QED
      BY <2>1, <2>2, Least
  <2>4. k \in 0 .. m /\ ~Good(now[k])
    BY Zenon
  <2>5. k # 0
    BY <1>3, <1>4, <2>4
  <2>6. k \in 1 .. m /\ k - 1 \in 0 .. m /\ ~(k <= k - 1)
    BY <1>0, <2>4, <2>5
  <2>7. Good(now[k - 1])
    BY <2>3, <2>6, Zenon
  <2>. QED
    BY <1>5, <2>4, <2>6, <2>7
<1>. QED
  BY <1>2, <1>6, Zenon DEF Good

LEMMA AnswerInit == PInit => AnswerInv
<1>. SUFFICES ASSUME PInit PROVE AnswerInv
  OBVIOUS
<1>. USE DEF PInit
<1>1. \A S : <<>> \in Seq(S) /\ DOMAIN <<>> = {}
  BY EmptySeq
<1>2. answers \in Seq(Replies) /\ served \in Seq(Calls) /\ pipe \in Seq(Wire)
  BY <1>1
<1>3. documents \in [DOMAIN documents -> Texts]
  BY <1>1
<1>4. AnsweredInOrder
  <2>1. {i \in DOMAIN answers : answers[i].id # None} = {}
        /\ {i \in DOMAIN served : Awaited(endpoint, served[i])} = {}
    BY <1>1
  <2>. QED
    BY <2>1, Zenon DEF AnsweredInOrder, InOrder
<1>. QED
  BY <1>2, <1>3, <1>4 DEF AnswerInv

\* What is written changes nothing that has been answered.
LEMMA WritesKeepAnswers ==
  ASSUME AnswerInv, NEW m \in Wire, Write(m)
  PROVE  AnswerInv'
<1>1. pipe' \in Seq(Wire) /\ UNCHANGED <<endpoint, answers, served, documents>>
  BY AppendProperties DEF AnswerInv, Write
<1>2. Wire' = Wire
  BY <1>1 DEF Wire
<1>3. AnsweredInOrder' <=> AnsweredInOrder
  BY <1>1, Zenon DEF AnsweredInOrder
<1>. QED
  BY <1>1, <1>2, <1>3 DEF AnswerInv

LEMMA ToldFrames ==
  ASSUME NEW method \in Methods, NEW id \in Nat, NEW u \in Uris, NEW texts \in Seq(Texts),
         method \notin Asked => id = None, method = "textDocument/didOpen" => texts # <<>>
  PROVE  Told(method, id, u, texts) \in EditorFrames
<1>. DEFINE m == Told(method, id, u, texts)
<1>1. m \in MessageFrames /\ m.method = method /\ m.id = id /\ m.texts = texts
  BY DEF MessageFrames, Told
<1>. QED
  BY <1>1, Zenon DEF EditorFrames

EditorActs(u, t) ==
  \/ Open(u, t) \/ Type(u, t) \/ NoChange(u) \/ SaveFile(u) \/ CloseFile(u)
  \/ \E m \in Asked : Request(m, u)

LEMMA EditorKeepsAnswers ==
  ASSUME RpcInv, AnswerInv, NEW u \in Uris, NEW t \in Texts, EditorActs(u, t)
  PROVE  AnswerInv'
<1>0. /\ \A v \in DOMAIN shown : endpoint = "lsp" /\ shown[v] \in Texts
      /\ sent \in Nat /\ sent + 1 \in Nat
  <2>1. shown \in [DOMAIN shown -> Texts] /\ sent \in Nat
        /\ (endpoint = "lsp" \/ DOMAIN shown = {})
    BY DEF RpcInv, ShownInv
  <2>2. \A v \in DOMAIN shown : shown[v] \in Texts
    BY <2>1, Zenon
  <2>3. sent + 1 \in Nat
    BY <2>1
  <2>. QED
    BY <2>1, <2>2, <2>3, Zenon
<1>1. /\ <<>> \in Seq(Texts) /\ \A w \in Texts : <<w>> \in Seq(Texts) /\ <<w>> # <<>>
      /\ \A s \in Seq(Texts), w \in Texts : Append(s, w) \in Seq(Texts)
  <2>1. <<>> \in Seq(Texts) /\ \A w \in Texts : <<w>> \in Seq(Texts) /\ <<w>> # <<>>
    BY EmptySeq
  <2>2. \A s \in Seq(Texts), w \in Texts : Append(s, w) \in Seq(Texts)
    BY AppendProperties, Zenon
  <2>. QED
    BY <2>1, <2>2
<1>2. /\ None \in Nat
      /\ {"textDocument/didOpen", "textDocument/didChange", "textDocument/didSave",
          "textDocument/didClose"} \subseteq Methods \ Asked
      /\ Asked \subseteq Methods \ {"textDocument/didOpen"}
  BY DEF None, Methods, Tellings, Asked
<1>3. SUFFICES \E m \in EditorFrames : endpoint = "lsp" /\ Write(m)
  BY <1>3, WritesKeepAnswers DEF Wire
<1>4. CASE Open(u, t)
  <2>1. Told("textDocument/didOpen", None, u, <<t>>) \in EditorFrames
    BY <1>1, <1>2, ToldFrames
  <2>. QED
    BY <1>4, <2>1, Zenon DEF Open
<1>5. CASE Type(u, t)
  <2>1. PICK earlier \in {<<>>, <<shown[u]>>} : Write(Told("textDocument/didChange", None, u, Append(earlier, t)))
    BY <1>5, Zenon DEF Type
  <2>2. endpoint = "lsp" /\ earlier \in Seq(Texts)
    BY <1>0, <1>1, <1>5 DEF Type
  <2>3. Append(earlier, t) \in Seq(Texts)
    BY <1>1, <2>2
  <2>4. Told("textDocument/didChange", None, u, Append(earlier, t)) \in EditorFrames
    BY <1>2, <2>3, ToldFrames
  <2>. QED
    BY <2>1, <2>2, <2>4, Zenon
<1>6. CASE NoChange(u)
  <2>1. Told("textDocument/didChange", None, u, <<>>) \in EditorFrames
    BY <1>1, <1>2, ToldFrames
  <2>. QED
    BY <1>0, <1>6, <2>1, Zenon DEF NoChange
<1>7. CASE SaveFile(u)
  <2>1. PICK text \in {<<>>, <<shown[u]>>} : Write(Told("textDocument/didSave", None, u, text))
    BY <1>7, Zenon DEF SaveFile
  <2>2. endpoint = "lsp" /\ text \in Seq(Texts)
    BY <1>0, <1>1, <1>7 DEF SaveFile
  <2>3. Told("textDocument/didSave", None, u, text) \in EditorFrames
    BY <1>2, <2>2, ToldFrames
  <2>. QED
    BY <2>1, <2>2, <2>3, Zenon
<1>8. CASE CloseFile(u)
  <2>1. Told("textDocument/didClose", None, u, <<>>) \in EditorFrames
    BY <1>1, <1>2, ToldFrames
  <2>. QED
    BY <1>0, <1>8, <2>1, Zenon DEF CloseFile
<1>9. ASSUME NEW m \in Asked, Request(m, u)
      PROVE  \E f \in EditorFrames : endpoint = "lsp" /\ Write(f)
  <2>1. Told(m, sent + 1, u, <<>>) \in EditorFrames
    BY <1>0, <1>1, <1>2, ToldFrames
  <2>. QED
    BY <1>9, <2>1, Zenon DEF Request
<1>. QED
  BY <1>4, <1>5, <1>6, <1>7, <1>8, <1>9, Zenon DEF EditorActs

LEMMA LineKeepsAnswers ==
  ASSUME RpcInv, AnswerInv, Line
  PROVE  AnswerInv'
<1>1. PICK line \in Lines :
        Write([entries |-> [i \in DOMAIN line.entries |-> Numbered(line.entries[i], 10 * sent + i)]])
  BY Zenon DEF Line
<1>. DEFINE es == line.entries
            numbered == [i \in DOMAIN es |-> Numbered(es[i], 10 * sent + i)]
<1>2. endpoint = "mcp" /\ sent \in Nat
  BY Zenon DEF Line, RpcInv
<1>3. /\ line \in [entries : Seq(Entries)]
      /\ \A i \in DOMAIN es : es[i].method = "not an object" => es[i].id = None
  BY LinesAssumption DEF Entries, None
<1>4. es \in Seq(Entries)
  BY <1>3
<1>5. Len(es) \in Nat /\ DOMAIN es = 1 .. Len(es) /\ \A i \in DOMAIN es : es[i] \in Entries
  BY <1>4, LenProperties, ElementOfSeq
<1>6. \A i \in DOMAIN es : numbered[i] \in Entries /\ Sensible(numbered[i])
  <2>. TAKE i \in DOMAIN es
  <2>. DEFINE c == IF es[i].id = None THEN None ELSE 10 * sent + i
  <2>1. es[i] \in Entries /\ c \in Nat /\ numbered[i] = [es[i] EXCEPT !.id = c]
    BY <1>2, <1>5 DEF None, Entries, Numbered
  <2>2. es[i].id = None => c = None
    OBVIOUS
  <2>. HIDE DEF c, numbered
  <2>. QED
    BY <1>3, <2>1, <2>2 DEF Entries, Sensible
<1>7. numbered \in Seq(Entries) /\ DOMAIN numbered = DOMAIN es
  <2>1. numbered \in [1 .. Len(es) -> Entries]
    BY <1>5, <1>6
  <2>. HIDE DEF numbered
  <2>. QED
    BY <1>5, <2>1
<1>8. Write([entries |-> numbered])
  BY <1>1
<1>. HIDE DEF numbered
<1>9. [entries |-> numbered] \in SensibleLines
  BY <1>6, <1>7 DEF SensibleLines
<1>. QED
  BY <1>2, <1>8, <1>9, WritesKeepAnswers DEF Wire
\* The loop takes the head of the pipe.
LEMMA HeadTaken ==
  ASSUME NEW S, pipe \in Seq(S), pipe # <<>>
  PROVE  Frame \in S /\ Tail(pipe) \in Seq(S)
  BY HeadTailProperties DEF Frame

\* What was stored stays a text.
LEMMA StoredTexts ==
  ASSUME documents \in [DOMAIN documents -> Texts], NEW u, NEW t \in Texts, NEW d, d = Put(documents, u, t)
  PROVE  d \in [DOMAIN d -> Texts]
<1>1. DOMAIN d = DOMAIN documents \cup {u}
      /\ \A v \in DOMAIN d : d[v] = IF v = u THEN t ELSE documents[v]
  BY DEF Put
<1>2. d = [v \in DOMAIN d |-> d[v]]
  BY DEF Put
<1>3. \A v \in DOMAIN d : d[v] \in Texts
  BY <1>1
<1>. QED
  BY <1>2, <1>3

LEMMA KnownText ==
  ASSUME documents \in [DOMAIN documents -> Texts]
  PROVE  \A u : Known(u) \in Texts
  BY FixAssumption DEF Known

\* A message to the language server is answered as it awaits.
LEMMA RepliesAnswer ==
  ASSUME AnswerInv, NEW m \in EditorFrames, m.frame = "message", m.method # "exit"
  PROVE  /\ m.method \notin Asked => Answers("lsp", m, <<>>)
         /\ Answers("lsp", m, IF m.id = None THEN <<>> ELSE Answered(m))
<1>0. /\ m \in MessageFrames /\ m.id \in Nat /\ m.method \in Methods
      /\ (m.method \notin Asked => m.id = None) /\ <<>> \in Seq(Replies)
  <2>1. m \in MessageFrames
    BY DEF EditorFrames, OtherFrames
  <2>. QED
    BY <2>1, EmptySeq DEF MessageFrames, EditorFrames
<1>1. m.id = None => Answers("lsp", m, <<>>)
  BY <1>0 DEF Answers, Awaited
<1>2. ASSUME m.id # None PROVE Answers("lsp", m, Answered(m))
  <2>1. m.method \in Asked \ {"exit"}
    BY <1>0, <1>2
  <2>2. CASE m.method = "initialize"
    <3>1. Answered(m) = <<[id |-> m.id, holds |-> "params"]>>
      BY <2>2 DEF Answered, Answer
    <3>2. [id |-> m.id, holds |-> "params"] \in Replies
      BY <1>0 DEF Replies
    <3>. QED
      BY <2>2, <3>1, <3>2 DEF Answers, Awaited
  <2>3. CASE m.method = "initialized"
    <3>1. Answered(m) = <<>>
      BY <2>3 DEF Answered
    <3>. QED
      BY <1>0, <2>3, <3>1 DEF Answers, Awaited
  <2>4. CASE m.method = "textDocument/codeAction"
    <3>. DEFINE e == Quickfix(Known(m.uri))
    <3>1. Answered(m) = <<[id |-> m.id, holds |-> "params", edit |-> e]>>
      BY <2>4 DEF Answered
    <3>2. e \in Seq(Texts)
      <4>1. Known(m.uri) \in Texts
        BY KnownText DEF AnswerInv
      <4>. DEFINE text == Known(m.uri)
                  fixed == Fix[text]
      <4>2. fixed \in Texts
        BY <4>1, FixAssumption
      <4>3. e = (IF text # "" /\ fixed # text THEN <<fixed>> ELSE <<>>)
        BY Zenon DEF Quickfix
      <4>. HIDE DEF text, fixed, e
      <4>4. <<fixed>> \in Seq(Texts) /\ <<>> \in Seq(Texts)
        BY <4>2, EmptySeq
      <4>. QED
        BY <4>3, <4>4, Zenon
    <3>. HIDE DEF e
    <3>3. [id |-> m.id, holds |-> "params", edit |-> e] \in Replies
      BY <1>0, <3>2 DEF Replies, Edits
    <3>. QED
      BY <2>4, <3>1, <3>3 DEF Answers, Awaited
  <2>5. CASE m.method = "shutdown"
    <3>1. Answered(m) = <<[id |-> m.id, holds |-> "error"]>>
      BY <2>5 DEF Answered, Answer
    <3>2. [id |-> m.id, holds |-> "error"] \in Replies
      BY <1>0 DEF Replies
    <3>. QED
      BY <2>5, <3>1, <3>2 DEF Answers, Awaited
  <2>. QED
    BY <2>1, <2>2, <2>3, <2>4, <2>5 DEF Asked
<1>3. m.method \notin Asked => Answers("lsp", m, <<>>)
  BY <1>0, <1>1
<1>. QED
  BY <1>1, <1>2, <1>3

\* One entry of a batch is answered as it awaits, if what is no object has no id.
LEMMA EntriesAnswer ==
  ASSUME NEW e \in Entries, Sensible(e)
  PROVE  Answers("mcp", e, Handle(e))
<1>0. e.id \in Nat /\ e.method \in STRING /\ None \in Nat /\ <<>> \in Seq(Replies)
  BY EmptySeq DEF Entries, None
<1>1. ASSUME NEW id \in Nat, NEW holds \in {"result", "error"}, NEW r, r = <<Answer(id, holds)>>
      PROVE  r \in Seq(Replies) /\ Len(r) = 1 /\ r[1].id = id
  <2>1. Answer(id, holds) \in Replies /\ Answer(id, holds).id = id
    BY DEF Answer, Replies
  <2>. QED
    BY <1>1, <2>1
<1>2. CASE e.method \in Named
  <2>1. e.method # "notifications/cancelled" /\ e.method # "not an object"
    BY <1>2 DEF Named
  <2>2. Handle(e) = <<Answer(e.id, "result")>>
    BY <1>2, <2>1, Zenon DEF Handle
  <2>3. Handle(e) \in Seq(Replies) /\ Len(Handle(e)) = 1 /\ Handle(e)[1].id = e.id
    BY <1>0, <1>1, <2>2
  <2>. QED
    BY <2>1, <2>3, Zenon DEF Answers, Awaited
<1>3. CASE e.method = "not an object"
  <2>1. Handle(e) = <<Answer(None, "error")>>
    BY <1>3, Zenon DEF Handle
  <2>2. Handle(e) \in Seq(Replies) /\ Len(Handle(e)) = 1 /\ Handle(e)[1].id = None
    BY <1>0, <1>1, <2>1
  <2>3. e.id = None
    BY <1>3 DEF Sensible
  <2>. QED
    BY <2>2, <2>3, Zenon DEF Answers, Awaited
<1>4. CASE e.method \notin Named /\ e.method # "not an object"
  <2>1. CASE e.method = "notifications/cancelled" \/ e.id = None
    <3>1. Handle(e) = <<>>
      BY <1>4, <2>1, Zenon DEF Handle
    <3>. QED
      BY <1>0, <2>1, <3>1, Zenon DEF Answers, Awaited
  <2>2. CASE ~(e.method = "notifications/cancelled" \/ e.id = None)
    <3>1. Handle(e) = <<Answer(e.id, "error")>>
      BY <1>4, <2>2, Zenon DEF Handle
    <3>2. Handle(e) \in Seq(Replies) /\ Len(Handle(e)) = 1 /\ Handle(e)[1].id = e.id
      BY <1>0, <1>1, <3>1
    <3>. QED
      BY <2>2, <3>2, Zenon DEF Answers, Awaited
  <2>. QED
    BY <2>1, <2>2
<1>. QED
  BY <1>2, <1>3, <1>4
LEMMA EditorIsAnswered ==
  ASSUME AnswerInv, Ends \/ Ignored \/ Notified \/ Requested
  PROVE  AnswerInv'
<1>1. /\ endpoint = "lsp" /\ pipe # <<>> /\ pipe' = Tail(pipe) /\ UNCHANGED endpoint
      /\ Frame \in EditorFrames /\ pipe' \in Seq(EditorFrames) /\ Wire' = EditorFrames
  <2>1. endpoint = "lsp" /\ pipe # <<>> /\ pipe' = Tail(pipe) /\ UNCHANGED endpoint
    BY Zenon DEF Ends, Ignored, Notified, Requested, Reply, Lsp, Take
  <2>2. pipe \in Seq(EditorFrames) /\ Wire' = EditorFrames
    BY <2>1 DEF AnswerInv, Wire
  <2>. QED
    BY <2>1, <2>2, HeadTaken
<1>2. CASE Ends \/ Ignored
  <2>1. UNCHANGED <<documents, served, answers>>
    BY <1>2 DEF Ends, Ignored
  <2>2. AnsweredInOrder'
    BY <1>1, <2>1, Zenon DEF AnswerInv, AnsweredInOrder
  <2>. QED
    BY <1>1, <2>1, <2>2 DEF AnswerInv
<1>3. ASSUME Frame.frame = "message", NEW r, Answers("lsp", Frame, r),
             served' = Append(served, Frame), answers' = answers \o r,
             documents' \in [DOMAIN documents' -> Texts]
      PROVE  AnswerInv'
  <2>1. Frame \in Calls
    BY <1>1, <1>3 DEF Calls, EditorFrames, OtherFrames
  <2>2. answers \in Seq(Replies) /\ served \in Seq(Calls) /\ InOrder("lsp", answers, served)
    BY <1>1, Zenon DEF AnswerInv, AnsweredInOrder
  <2>3. answers' \in Seq(Replies) /\ served' \in Seq(Calls) /\ InOrder("lsp", answers', served')
    BY <1>3, <2>1, <2>2, OneMoreAnswer
  <2>4. AnsweredInOrder'
    BY <1>1, <2>3, Zenon DEF AnsweredInOrder
  <2>. QED
    BY <1>1, <1>3, <2>3, <2>4 DEF AnswerInv
<1>4. documents \in [DOMAIN documents -> Texts]
  BY DEF AnswerInv
<1>5. CASE Notified
  <2>1. /\ Frame.frame = "message" /\ served' = Append(served, Frame)
        /\ answers' = answers \o (IF Frame.id = None THEN <<>> ELSE <<>>)
        /\ DidOpen(Frame) \/ DidChange(Frame) \/ DidSave(Frame)
    BY <1>5, Zenon DEF Notified, Reply
  <2>2. answers' = answers \o <<>>
    BY <2>1, Zenon
  <2>3. Frame.method \in Methods \ Asked /\ Frame.method # "exit"
    BY <2>1 DEF DidOpen, DidChange, DidSave, Methods, Tellings, Asked
  <2>4. Answers("lsp", Frame, <<>>)
    BY <1>1, <2>1, <2>3, RepliesAnswer
  <2>5. /\ Frame.texts \in Seq(Texts) /\ Known(Frame.uri) \in Texts
        /\ Frame.method = "textDocument/didOpen" => Frame.texts # <<>>
    <3>1. Frame \in MessageFrames
      BY <1>1, <2>1 DEF EditorFrames, OtherFrames
    <3>. QED
      BY <1>1, <1>4, <2>1, <3>1, KnownText DEF MessageFrames, EditorFrames
  <2>6. Frame.texts # <<>> => Frame.texts[1] \in Texts /\ Last(Frame.texts) \in Texts
    <3>1. ASSUME Frame.texts # <<>> PROVE Len(Frame.texts) \in Nat /\ Len(Frame.texts) >= 1
      BY <2>5, <3>1, LenProperties, EmptySeq
    <3>2. ASSUME Frame.texts # <<>> PROVE 1 \in 1 .. Len(Frame.texts) /\ Len(Frame.texts) \in 1 .. Len(Frame.texts)
      BY <3>1, <3>2
    <3>. QED
      BY <2>5, <3>2, ElementOfSeq DEF Last
  <2>7. PICK t \in Texts : documents' = Put(documents, Frame.uri, t)
    <3>1. ASSUME DidOpen(Frame) PROVE \E t \in Texts : documents' = Put(documents, Frame.uri, t)
      BY <2>5, <2>6, <3>1, Zenon DEF DidOpen, LintDocument
    <3>2. ASSUME DidChange(Frame) PROVE \E t \in Texts : documents' = Put(documents, Frame.uri, t)
      BY <2>5, <2>6, <3>2, Zenon DEF DidChange, LintDocument
    <3>3. ASSUME DidSave(Frame) PROVE \E t \in Texts : documents' = Put(documents, Frame.uri, t)
      BY <2>5, <2>6, <3>3, Zenon DEF DidSave, LintDocument
    <3>. QED
      BY <2>1, <3>1, <3>2, <3>3
  <2>8. documents' \in [DOMAIN documents' -> Texts]
    BY <1>4, <2>7, StoredTexts
  <2>. QED
    BY <1>3, <2>1, <2>2, <2>4, <2>8
<1>6. CASE Requested
  <2>. DEFINE r == IF Frame.id = None THEN <<>> ELSE Answered(Frame)
  <2>1. /\ Frame.frame = "message" /\ Frame.method # "exit" /\ served' = Append(served, Frame)
        /\ answers' = answers \o r /\ documents' = documents
    <3>1. Frame.method # "exit"
      BY <1>6 DEF Requested
    <3>. QED
      BY <1>6, <3>1, Zenon DEF Requested, Reply
  <2>2. Answers("lsp", Frame, r)
    BY <1>1, <2>1, RepliesAnswer
  <2>. HIDE DEF r
  <2>. QED
    BY <1>3, <1>4, <2>1, <2>2
<1>. QED
  BY <1>2, <1>5, <1>6

LEMMA BatchIsAnswered ==
  ASSUME AnswerInv, ReadLine
  PROVE  AnswerInv'
<1>. DEFINE es == Frame.entries
            broken == \E i \in DOMAIN es : Breaks(es[i])
            good == IF broken THEN SubSeq(es, 1, SelectInSeq(es, Breaks) - 1) ELSE es
            after == Taken([served |-> served, answers |-> answers], good)
<1>1. /\ endpoint = "mcp" /\ pipe # <<>> /\ pipe' = Tail(pipe)
      /\ UNCHANGED <<endpoint, documents>>
      /\ served' = after.served /\ answers' = after.answers
  BY Zenon DEF ReadLine, Take
<1>2. pipe \in Seq(SensibleLines) /\ Wire' = SensibleLines
  BY <1>1 DEF AnswerInv, Wire
<1>3. Frame \in SensibleLines /\ pipe' \in Seq(SensibleLines)
  BY <1>1, <1>2, HeadTaken
<1>4. es \in Seq(Entries) /\ \A i \in DOMAIN es : Sensible(es[i])
  BY <1>3 DEF SensibleLines
<1>5. Len(es) \in Nat /\ DOMAIN es = 1 .. Len(es) /\ \A i \in DOMAIN es : es[i] \in Entries
  BY <1>4, LenProperties, ElementOfSeq
<1>. HIDE DEF es
<1>6. good \in Seq(Entries) /\ \A i \in 1 .. Len(good) : Sensible(good[i])
  <2>1. CASE ~broken
    BY <1>4, <1>5, <2>1
  <2>2. CASE broken
    <3>. DEFINE I == {i \in 1 .. Len(es) : Breaks(es[i])}
                first == SelectInSeq(es, Breaks)
                top == first - 1
    <3>1. I \subseteq Nat /\ I # {}
      BY <1>5, <2>2
    <3>2. first = Min(I)
      BY <3>1, Zenon DEF SelectInSeq
    <3>3. first \in I
      <4>1. \E x \in I : \A y \in I : x <= y
        <5>. HIDE DEF I
        <5>. QED
          BY <3>1, Least
      <4>. QED
        BY <3>2, <4>1, Zenon DEF Min
    <3>4. top \in Nat /\ top <= Len(es)
      <4>1. first \in Nat /\ first >= 1 /\ first <= Len(es)
        BY <1>5, <3>3
      <4>. HIDE DEF first
      <4>. QED
        BY <1>5, <4>1
    <3>5. good = SubSeq(es, 1, top)
      BY <2>2
    <3>. HIDE DEF top, first, I, good
    <3>6. \A i \in 1 .. top : i \in 1 .. Len(es)
      BY <1>5, <3>4
    <3>7. \A i \in 1 .. top : es[i] \in Entries /\ Sensible(es[i])
      BY <1>4, <1>5, <3>6
    <3>8. /\ good \in Seq(Entries) /\ Len(good) = (IF 1 <= top THEN top - 1 + 1 ELSE 0)
          /\ \A i \in 1 .. (top - 1 + 1) : good[i] = es[1 + i - 1]
      BY <3>4, <3>5, <3>7, SubSeqProperties
    <3>9. Len(good) = top /\ top - 1 + 1 = top /\ \A i \in 1 .. top : 1 + i - 1 = i
      BY <3>4, <3>8
    <3>10. \A i \in 1 .. Len(good) : good[i] = es[i]
      BY <3>8, <3>9
    <3>. QED
      BY <3>7, <3>8, <3>9, <3>10
  <2>. QED
    BY <2>1, <2>2
<1>. HIDE DEF good
<1>7. /\ good \in Seq(Calls)
      /\ \A i \in 1 .. Len(good) : Answers("mcp", good[i], Handle(good[i]))
  <2>1. Entries \subseteq Calls
    BY DEF Calls
  <2>2. \A i \in 1 .. Len(good) : good[i] \in Entries
    BY <1>6, ElementOfSeq
  <2>3. good \in Seq(Calls)
    BY <1>6, <2>1
  <2>. QED
    BY <1>6, <2>2, <2>3, EntriesAnswer
<1>8. answers \in Seq(Replies) /\ served \in Seq(Calls) /\ InOrder("mcp", answers, served)
  BY <1>1, Zenon DEF AnswerInv, AnsweredInOrder
<1>9. /\ after.answers \in Seq(Replies) /\ after.served \in Seq(Calls)
      /\ InOrder("mcp", after.answers, after.served)
  BY <1>7, <1>8, BatchKeepsOrder
<1>. HIDE DEF after
<1>10. AnsweredInOrder'
  BY <1>1, <1>9, Zenon DEF AnsweredInOrder
<1>. QED
  BY <1>1, <1>2, <1>3, <1>9, <1>10 DEF AnswerInv

LEMMA AnswerStep ==
  ASSUME RpcInv, AnswerInv, [PNext]_pvars
  PROVE  AnswerInv'
<1>1. CASE UNCHANGED pvars
  <2>1. AnsweredInOrder' <=> AnsweredInOrder
    BY <1>1, Zenon DEF pvars, AnsweredInOrder
  <2>. QED
    BY <1>1, <2>1 DEF pvars, AnswerInv, Wire
<1>2. "" \in Texts
  BY FixAssumption
<1>3. ASSUME NEW u \in Uris, NEW t \in Texts, EditorActs(u, t) PROVE AnswerInv'
  BY <1>3, EditorKeepsAnswers
<1>4. CASE PNext
  <2>1. \/ \E u \in Uris, t \in Texts : EditorActs(u, t)
        \/ Line \/ Ends \/ Ignored \/ Notified \/ Requested \/ ReadLine
        \/ \E f \in {"corrupt", "not an object", "blank", "malformed"} : Speak(f)
    BY <1>2, <1>4, Zenon DEF PNext, EditorActs, Asked
  <2>2. ASSUME NEW f \in {"corrupt", "not an object", "blank", "malformed"}, Speak(f) PROVE AnswerInv'
    <3>1. [frame |-> f] \in EditorFrames
      BY DEF EditorFrames, OtherFrames
    <3>2. endpoint = "lsp" /\ Write([frame |-> f])
      BY <2>2, Zenon DEF Speak
    <3>. QED
      BY <3>1, <3>2, WritesKeepAnswers DEF Wire
  <2>. QED
    BY <1>3, <2>1, <2>2, LineKeepsAnswers, EditorIsAnswered, BatchIsAnswered
<1>. QED
  BY <1>1, <1>4

(* Every request a handler took is answered once, in order, with its own   *)
(* id: requests of an editor, and the entries of any batch, up to the one  *)
(* that ends the process (lsp_server.py:231-251, mcp_server.py:153-239).   *)
THEOREM AlwaysAnsweredInOrder == PSpec => []AnsweredInOrder
<1>1. PInit => RpcInv /\ AnswerInv
  BY RpcInit, AnswerInit
<1>2. RpcInv /\ AnswerInv /\ [PNext]_pvars => (RpcInv /\ AnswerInv)'
  BY RpcStep, AnswerStep
<1>3. RpcInv /\ AnswerInv => AnsweredInOrder
  BY DEF AnswerInv
<1>. QED
  BY <1>1, <1>2, <1>3, PTL DEF PSpec

=============================================================================
