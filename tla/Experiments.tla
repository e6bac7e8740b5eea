------------------------------ MODULE Experiments ------------------------------
(***************************************************************************)
(* Feature flags and product analytics of growth/experimentation.py: one   *)
(* flag, evaluated by hashing the user into a bucket or by a cloud         *)
(* service, and the two sinks, GA4 and PostHog, that are told what users   *)
(* do.  The program is restarted, the flag is switched and registered      *)
(* anew, the service goes away, and a user may come without an id: then    *)
(* each use draws one of its own, unless SQLEAN_LINT_ANON_ID gives it.     *)
(***************************************************************************)
EXTENDS Naturals, Sequences, FiniteSets, Functions

CONSTANTS Users, Unset,          \* ids; no id, and no SQLEAN_LINT_ANON_ID
          Experiments, Defaults, \* lists of variants and defaults a flag is registered with
          Bucket, Remote         \* user -> a hash of the id; what the cloud decides

ASSUME ExperimentAssumption ==
  /\ Unset \notin Users /\ Users # {}
  /\ Experiments \subseteq Seq(STRING) /\ Defaults \subseteq STRING
  /\ Bucket \in [Users -> Nat]

VARIABLES provider,              \* "local" or "cloud"
          variants, default, flagOn,   \* the FeatureFlag
          switchedOn,            \* FlagEngine._enabled
          client, cloudUp,       \* the adapter's client; the service answers
          seed,                  \* of Python's own hash(), new in every process
          anonId, clientId,      \* SQLEAN_LINT_ANON_ID; GA4Client._client_id
          analytics,             \* SQLEAN_LINT_GROWTH = 1
          reached,               \* history: a connect() of this process succeeded
          told,                  \* history: caller -> variants told while the flag was in force
          strays,                \* history: variants told otherwise
          ids                    \* history: sink -> ids its events bore

flag == <<variants, default, flagOn, switchedOn>>
people == <<anonId, clientId, analytics, ids>>
xvars == <<provider, flag, client, cloudUp, seed, people, reached, told, strays>>
Sinks == {"ga4", "posthog"}
Callers == Users \cup {Unset}

(* _anonymous_id(): a new one for every use.                               *)
AnonymousIds == IF anonId = Unset THEN Users ELSE {anonId}

(* FeatureFlag: a default that is no variant becomes the first.            *)
Variants(vs, d) == IF d \in Range(vs) THEN vs ELSE <<d>> \o vs
Untold == [u \in Callers |-> {}]
XInit == /\ provider \in {"local", "cloud"} /\ seed \in {0, 1}
         /\ \E vs \in Experiments : default \in Defaults /\ variants = Variants(vs, default)
         /\ flagOn = TRUE /\ switchedOn = TRUE /\ told = Untold /\ strays = {}
         /\ client = FALSE /\ reached = FALSE /\ cloudUp = TRUE
         /\ anonId \in Callers /\ clientId \in AnonymousIds
         /\ analytics = FALSE /\ ids = [s \in Sinks |-> {}]

(* _resolve_variant and _stable_bucket, a SHA-256 of the id.               *)
(* Mutant: Python's hash(), which is salted anew in every process.         *)
ResolveSeeded(u) == variants[((Bucket[u] + seed) % Len(variants)) + 1]
Resolve(u) == variants[(Bucket[u] % Len(variants)) + 1]
On == flagOn /\ switchedOn
(* What u, under this id, is answered with the client c.                   *)
Answer(u, c) == IF ~On THEN default
                ELSE IF provider = "local" THEN Resolve(u)
                ELSE IF c /\ cloudUp THEN Remote[u] ELSE "control"
(* connect() before every evaluation in the cloud; a failure keeps the     *)
(* client there is.                                                        *)
Connects == IF On /\ provider = "cloud" THEN BOOLEAN ELSE {FALSE}
InForce == On /\ (provider = "local" \/ (reached' /\ cloudUp))
Evaluate(caller) ==
    /\ \E connected \in Connects, u \in (IF caller = Unset THEN AnonymousIds ELSE {caller}) :
         /\ client' = (client \/ connected) /\ reached' = (reached \/ connected)
         /\ LET answer == Answer(u, client')
            IN /\ told' = [told EXCEPT ![caller] = @ \cup IF InForce THEN {answer} ELSE {}]
               /\ strays' = strays \cup IF InForce THEN {} ELSE {answer}
    /\ UNCHANGED <<provider, flag, cloudUp, seed, people>>

SetEnabled(on) == /\ switchedOn' = on
                  /\ UNCHANGED <<provider, variants, default, flagOn, client, cloudUp, seed, people,
                                 reached, told, strays>>
(* register_flag replaces the flag and switches it on; one that was made   *)
(* with enabled=False stays off all the same.                              *)
Register(vs, d, on) == /\ variants' = Variants(vs, d) /\ default' = d
                       /\ flagOn' = on /\ switchedOn' = TRUE
                       /\ told' = Untold /\ strays' = {}
                       /\ UNCHANGED <<provider, client, cloudUp, seed, people, reached>>
CloudChanges == /\ cloudUp' = ~cloudUp
                /\ UNCHANGED <<provider, flag, client, seed, people, reached, told, strays>>

(* ConversionPipeline.track: opted in, and each sink for itself; GA4 has   *)
(* the id of its client, PostHog one for each event.                       *)
Track(s) == /\ analytics
            /\ \E id \in (IF s = "ga4" THEN {clientId} ELSE AnonymousIds) :
                 ids' = [ids EXCEPT ![s] = @ \cup {id}]
            /\ UNCHANGED <<provider, flag, client, cloudUp, seed, anonId, clientId, analytics,
                           reached, told, strays>>
OptIn == /\ analytics' = ~analytics
         /\ UNCHANGED <<provider, flag, client, cloudUp, seed, anonId, clientId, ids, reached, told, strays>>

(* A new process, with another SQLEAN_LINT_ANON_ID or the same, registers  *)
(* the flag again: it is switched on and there is no client yet.           *)
NewProcess == /\ seed' \in {0, 1} /\ anonId' \in Callers /\ clientId' \in AnonymousIds'
           /\ switchedOn' = TRUE /\ client' = FALSE /\ reached' = FALSE
           /\ \/ anonId' = anonId /\ anonId # Unset /\ UNCHANGED <<told, ids>>
              \/ /\ anonId' # anonId \/ anonId = Unset
                 /\ told' = [told EXCEPT ![Unset] = {}] /\ ids' = [s \in Sinks |-> {}]
           /\ UNCHANGED <<provider, variants, default, flagOn, cloudUp, analytics, strays>>

FlagNext == \/ \E u \in Callers : Evaluate(u)
            \/ \E on \in BOOLEAN : SetEnabled(on)
            \/ \E vs \in Experiments, d \in Defaults, on \in BOOLEAN : Register(vs, d, on)
            \/ CloudChanges
TrackNext == OptIn \/ \E s \in Sinks : Track(s)
XSpec == XInit /\ [][FlagNext \/ TrackNext \/ NewProcess]_xvars

-----------------------------------------------------------------------------
(* Whatever the flag and its service go through, restarts, failed connects *)
(* and hours out of force included, a user with an id is in one cohort     *)
(* whenever the flag is in force, until it is registered anew; so is one   *)
(* without, if SQLEAN_LINT_ANON_ID is set, who is then one user to the     *)
(* flag and to both sinks, and otherwise to GA4 only; and what is told out *)
(* of force puts nobody into an experiment: it is the default or "control" *)
(* (experimentation.py:82-332, 479-514).                                   *)
CohortsHold ==
    /\ \A u \in Users : Cardinality(told[u]) <= 1
    /\ anonId # Unset => /\ Cardinality(told[Unset] \cup told[anonId]) <= 1
                         /\ ids["ga4"] \cup ids["posthog"] \subseteq {anonId}
    /\ Cardinality(ids["ga4"]) <= 1
    /\ strays \subseteq {default, "control"}
=============================================================================
