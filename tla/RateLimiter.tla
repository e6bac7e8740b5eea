----------------------------- MODULE RateLimiter -----------------------------
(***************************************************************************)
(* The in-memory rate limiter of the REST service                          *)
(* (sqlean_lint/api/server.py, _RateLimiter and RateLimitInfo).            *)
(*                                                                         *)
(* _check_rate_limit is a synchronous dependency, which the web framework  *)
(* runs in a pool of threads: several checks, also of one key, are in      *)
(* progress at a time, and nothing locks the tables they share.  Each      *)
(* action is one attribute access or call of check() and is_allowed().     *)
(*                                                                         *)
(* Two checks that find a key missing both create its RateLimitInfo; the   *)
(* objects of one key are numbered, and self._keys holds one of them.      *)
(*                                                                         *)
(* Nothing in the code depends on the order of request_times, only on how  *)
(* many of its entries are recent: it is the set of the requests it        *)
(* remembers, each named by its number among the admitted ones of the key. *)
(***************************************************************************)
EXTENDS Integers, Sequences, FiniteSets

CONSTANTS
  Workers,     \* threads of the pool
  Keys,        \* API keys
  LimitOf,     \* the limit of each key: its override or the default
  Window,      \* self._window_s
  MaxTime,     \* bound: clock ticks in a behaviour
  MaxRequests  \* bound: requests in a behaviour

ASSUME LimiterAssumption ==
  /\ IsFiniteSet(Workers) /\ Keys # {}
  /\ LimitOf \in [Keys -> Nat]
  /\ Window \in Nat \ {0}
  /\ MaxTime \in Nat /\ MaxRequests \in Nat

Objects == 1 .. Cardinality(Workers)

VARIABLES
  now,       \* time.time()
  info,      \* self._keys: the object of each key (0: not there)
  times,     \* request_times of each object of each key: numbers of requests
  pc,        \* where each worker is in check()
  key,       \* the key it checks
  obj,       \* the local info
  at,        \* the local now
  kept,      \* the list is_allowed is about to assign
  requests,  \* requests begun (history, for the bound)
  admitted,  \* times at which requests of each key were allowed (history)
  raced      \* two checks of this key have been in progress at once (history)

vars == <<now, info, times, pc, key, obj, at, kept, requests, admitted, raced>>
locals == <<key, obj, at, kept>>

Goto(w, l) == pc' = [pc EXCEPT ![w] = l]

Init ==
  /\ now = 0
  /\ info = [k \in Keys |-> 0]
  /\ times = [k \in Keys |-> [o \in Objects |-> {}]]
  /\ pc = [w \in Workers |-> "idle"]
  /\ key \in [Workers -> {CHOOSE k \in Keys : TRUE}]
  /\ obj = [w \in Workers |-> 0]
  /\ at = [w \in Workers |-> 0]
  /\ kept = [w \in Workers |-> {}]
  /\ requests = 0
  /\ admitted = [k \in Keys |-> <<>>]
  /\ raced = [k \in Keys |-> FALSE]

-----------------------------------------------------------------------------

\* if key not in self._keys
Begin(w, k) ==
  /\ pc[w] = "idle"
  /\ requests < MaxRequests
  /\ requests' = requests + 1
  /\ key' = [key EXCEPT ![w] = k]
  /\ raced' = [raced EXCEPT ![k] = @ \/ \E v \in Workers : pc[v] # "idle" /\ key[v] = k]
  /\ Goto(w, IF info[k] = 0 THEN "create" ELSE "fetch")
  /\ UNCHANGED <<now, info, times, obj, at, kept, admitted>>

\* self._keys[key] = RateLimitInfo(...)
Create(w) ==
  /\ pc[w] = "create"
  /\ info' = [info EXCEPT ![key[w]] = @ + 1]
  /\ Goto(w, "fetch")
  /\ UNCHANGED <<now, times, locals, requests, admitted, raced>>

\* info = self._keys[key]; now = time.time()
Fetch(w) ==
  /\ pc[w] = "fetch"
  /\ obj' = [obj EXCEPT ![w] = info[key[w]]]
  /\ at' = [at EXCEPT ![w] = now]
  /\ Goto(w, "prune")
  /\ UNCHANGED <<now, info, times, key, kept, requests, admitted, raced>>

RequestTimes(w) == times[key[w]][obj[w]]

\* [t for t in self.request_times if t > cutoff]
LiveAt(k, s, t) == {i \in s : admitted[k][i] > t - Window}

Prune(w) ==
  /\ pc[w] = "prune"
  /\ kept' = [kept EXCEPT ![w] = LiveAt(key[w], RequestTimes(w), at[w])]
  /\ Goto(w, "assign")
  /\ UNCHANGED <<now, info, times, key, obj, at, requests, admitted, raced>>

\* self.request_times = ...
Assign(w) ==
  /\ pc[w] = "assign"
  /\ times' = [times EXCEPT ![key[w]][obj[w]] = kept[w]]
  /\ kept' = [kept EXCEPT ![w] = {}]
  /\ Goto(w, "test")
  /\ UNCHANGED <<now, info, key, obj, at, requests, admitted, raced>>

\* Mutant: len(self.request_times) > limit.
FullOffByOne(w) == Cardinality(RequestTimes(w)) > LimitOf[key[w]]

\* len(self.request_times) >= limit
Full(w) == Cardinality(RequestTimes(w)) >= LimitOf[key[w]]

Return(w) ==
  /\ Goto(w, "idle")
  /\ obj' = [obj EXCEPT ![w] = 0]
  /\ at' = [at EXCEPT ![w] = 0]

\* The request is answered with 429.
Refuse(w) ==
  /\ pc[w] = "test"
  /\ Full(w)
  /\ Return(w)
  /\ UNCHANGED <<now, info, times, key, kept, requests, admitted, raced>>

Test(w) ==
  /\ pc[w] = "test"
  /\ ~Full(w)
  /\ Goto(w, "append")
  /\ UNCHANGED <<now, info, times, locals, requests, admitted, raced>>

\* Mutant: the admitted request is not remembered.
AdmitForgotten(w) ==
  /\ pc[w] = "append"
  /\ admitted' = [admitted EXCEPT ![key[w]] = Append(@, at[w])]
  /\ Return(w)
  /\ UNCHANGED <<now, info, times, key, kept, requests, raced>>

\* self.request_times.append(now); return True
Admit(w) ==
  /\ pc[w] = "append"
  /\ times' = [times EXCEPT ![key[w]][obj[w]] = @ \cup {Len(admitted[key[w]]) + 1}]
  /\ admitted' = [admitted EXCEPT ![key[w]] = Append(@, at[w])]
  /\ Return(w)
  /\ UNCHANGED <<now, info, key, kept, requests, raced>>

Tick ==
  /\ now < MaxTime
  /\ now' = now + 1
  /\ UNCHANGED <<info, times, pc, locals, requests, admitted, raced>>

Next ==
  \/ \E w \in Workers :
       \/ \E k \in Keys : Begin(w, k)
       \/ Create(w) \/ Fetch(w) \/ Prune(w) \/ Assign(w)
       \/ Test(w) \/ Refuse(w) \/ Admit(w)
  \/ Tick

Spec == Init /\ [][Next]_vars

\* remaining(): what /rate-limit/status reports.
Remaining(k) ==
  LET live == IF info[k] = 0 THEN 0 ELSE Cardinality(LiveAt(k, times[k][info[k]], now))
  IN IF live > LimitOf[k] THEN 0 ELSE LimitOf[k] - live

-----------------------------------------------------------------------------
(***************************************************************************)
(* Properties.                                                             *)
(***************************************************************************)
\* Types; an object is reached only once it is in the table.
TypeOK ==
  /\ now \in 0 .. MaxTime
  /\ info \in [Keys -> Objects \cup {0}]
  /\ times \in [Keys -> [Objects -> SUBSET Nat]]
  /\ pc \in [Workers -> {"idle", "create", "fetch", "prune", "assign", "test", "append"}]
  /\ key \in [Workers -> Keys]
  /\ obj \in [Workers -> Objects \cup {0}]
  /\ at \in [Workers -> 0 .. MaxTime]
  /\ kept \in [Workers -> SUBSET Nat]
  /\ requests \in 0 .. MaxRequests
  /\ admitted \in [Keys -> Seq(0 .. MaxTime)]
  /\ raced \in [Keys -> BOOLEAN]
  /\ \A w \in Workers : pc[w] \in {"prune", "assign", "test", "append"} => obj[w] # 0
  /\ \A k \in Keys, o \in Objects : times[k][o] \subseteq DOMAIN admitted[k]

\* The limiter implements the sliding window, key by key, until a key is raced.
RacedKeys == {k \in Keys : raced[k]}
Promise == INSTANCE SlidingWindow WITH spoiled <- RacedKeys, Times <- 0 .. MaxTime
ImplementsWindow == Promise!Spec

\* As long as no two checks of a key have been in progress at once, no window
\* of that key ever holds more admissions than its limit, whatever happens on
\* the other keys (Lint_proofs: the promise implies it).
WithinLimitUnlessRaced == Promise!WindowsWithinLimit

\* With the same proviso, a request is turned away only when its window is full:
\* expired entries and other keys never cost a caller a request.
RefusedOnlyWhenFull ==
  [][\A w \in Workers :
       (Refuse(w) /\ ~raced[key[w]]) =>
         Cardinality({j \in DOMAIN admitted[key[w]] :
                        admitted[key[w]][j] > at[w] - Window}) >= LimitOf[key[w]]]_vars

\* With the same proviso, between checks the status route reports exactly the
\* requests the window still has room for.
RemainingExact ==
  \A k \in Keys : ~raced[k] /\ (\A w \in Workers : pc[w] = "idle" \/ key[w] # k) =>
    Remaining(k) = LimitOf[k] - Cardinality({j \in DOMAIN admitted[k] :
                                               admitted[k][j] > now - Window})

\* Windows are within their limits and the status route counts them (the two
\* above, with the types).
WindowIsKept == TypeOK /\ WithinLimitUnlessRaced /\ RemainingExact

\* The limiter implements the sliding window, refusals included (the two above).
LimiterKeepsItsPromise == ImplementsWindow /\ RefusedOnlyWhenFull

\* "Max requests per window per API key" (api/server.py:315), with no proviso.
WithinLimit ==
  \A k \in Keys : \A i \in DOMAIN admitted[k] :
    Cardinality(Promise!WindowEnding(k, i)) <= LimitOf[k]
=============================================================================
