---------------------------- MODULE NestedWrites ----------------------------
(***************************************************************************)
(* What a connection with nested transactions promises its clients: a      *)
(* write outside a transaction is durable at once; one inside is held back *)
(* until every transaction around it is committed, and then the writes of  *)
(* the outermost become durable together; an abort drops them.  Misuse may *)
(* spoil the promise for good; what is durable stays so even then.         *)
(***************************************************************************)
EXTENDS Integers, Sequences

CONSTANTS Clients

VARIABLES
  open,     \* of each client: the writes of its transactions, outermost first
  durable,  \* the writes that last
  count,    \* writes so far; each is known by its number
  spoilt    \* the connection was misused

nvars == <<open, durable, count, spoilt>>

Init ==
  /\ open = [c \in Clients |-> <<>>]
  /\ durable = {} /\ count = 0 /\ spoilt = FALSE

Begin(c) ==
  /\ open' = [open EXCEPT ![c] = Append(@, {})]
  /\ UNCHANGED <<durable, count, spoilt>>

PutOutside(c) ==
  /\ open[c] = <<>>
  /\ durable' = durable \cup {count}
  /\ count' = count + 1
  /\ UNCHANGED <<open, spoilt>>

PutInside(c) ==
  /\ open[c] # <<>>
  /\ open' = [open EXCEPT ![c][Len(open[c])] = @ \cup {count}]
  /\ count' = count + 1
  /\ UNCHANGED <<durable, spoilt>>

Inmost(c) == open[c][Len(open[c])]
Others(c) == SubSeq(open[c], 1, Len(open[c]) - 1)

\* The outermost transaction: its writes become durable, all at once.
CommitOutermost(c) ==
  /\ Len(open[c]) = 1
  /\ durable' = durable \cup Inmost(c)
  /\ open' = [open EXCEPT ![c] = <<>>]
  /\ UNCHANGED <<count, spoilt>>

\* A nested one: its writes are now those of the transaction around it.
CommitNested(c) ==
  /\ Len(open[c]) > 1
  /\ open' = [open EXCEPT ![c] = [Others(c) EXCEPT ![Len(open[c]) - 1] = @ \cup Inmost(c)]]
  /\ UNCHANGED <<durable, count, spoilt>>

Abort(c) ==
  /\ open[c] # <<>>
  /\ open' = [open EXCEPT ![c] = Others(c)]
  /\ UNCHANGED <<durable, count, spoilt>>

\* A failure takes all transactions of a client away, a disconnection those of all.
AbortAll(cs) ==
  /\ open' = [c \in Clients |-> IF c \in cs THEN <<>> ELSE open[c]]
  /\ UNCHANGED <<durable, count, spoilt>>

\* A misuse, and whatever is done after one.
Spoil ==
  /\ spoilt' = TRUE
  /\ count' \in {count, count + 1}
  /\ durable \subseteq durable'
  /\ durable' \subseteq durable \cup 0 .. count' - 1

Work ==
  \/ \E c \in Clients :
       \/ Begin(c) \/ PutOutside(c) \/ PutInside(c)
       \/ CommitOutermost(c) \/ CommitNested(c) \/ Abort(c)
  \/ \E cs \in SUBSET Clients : AbortAll(cs)

Next == (~spoilt /\ Work) \/ Spoil

Spec == Init /\ [][Next]_nvars

\* What the promise amounts to: what is durable was written; and until it is
\* spoilt nothing of an open transaction is durable, and no write is in two.
Isolated ==
  /\ durable \subseteq 0 .. count - 1
  /\ ~spoilt =>
       \A c \in Clients : \A i \in DOMAIN open[c] :
         /\ open[c][i] \cap durable = {}
         /\ \A d \in Clients : \A j \in DOMAIN open[d] :
              open[c][i] \cap open[d][j] # {} => c = d /\ i = j
=============================================================================
