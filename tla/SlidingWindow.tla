---------------------------- MODULE SlidingWindow ----------------------------
(***************************************************************************)
(* What a sliding-window rate limiter promises its caller: per key, a      *)
(* request is admitted exactly when fewer than the key's limit were        *)
(* admitted in the window that ends with it ("Max requests per window per  *)
(* API key", api/server.py:315).  A key may leave the promise for good; an *)
(* implementation says when.                                               *)
(***************************************************************************)
EXTENDS Integers, Sequences, FiniteSets

CONSTANTS
  Keys,     \* API keys
  LimitOf,  \* requests per window, for each key
  Window,   \* length of the window
  Times     \* instants at which requests may arrive

VARIABLES
  admitted,  \* for each key, the times of its admitted requests, in order
  spoiled    \* the keys the promise no longer covers

\* The requests of key k admitted in the window that ends at time t.
InWindow(k, t) == {i \in DOMAIN admitted[k] : admitted[k][i] > t - Window}

Init ==
  /\ admitted = [k \in Keys |-> <<>>]
  /\ spoiled = {}

Admit(k) ==
  /\ \E t \in Times :
       /\ k \notin spoiled =>
            /\ Cardinality(InWindow(k, t)) < LimitOf[k]
            /\ \A i \in DOMAIN admitted[k] : admitted[k][i] <= t
       /\ admitted' = [admitted EXCEPT ![k] = Append(@, t)]
  /\ UNCHANGED spoiled

Spoil(k) ==
  /\ spoiled' = spoiled \cup {k}
  /\ UNCHANGED admitted

Next == \E k \in Keys : Admit(k) \/ Spoil(k)

Spec == Init /\ [][Next]_<<admitted, spoiled>>

\* What the promise amounts to: no window that ends with a request of a covered
\* key holds more of its requests than the limit (Lint_proofs).
WindowEnding(k, i) ==
  {j \in 1 .. i : admitted[k][j] > admitted[k][i] - Window}

WindowsWithinLimit ==
  \A k \in Keys \ spoiled : \A i \in 1 .. Len(admitted[k]) :
    Cardinality(WindowEnding(k, i)) <= LimitOf[k]
=============================================================================
