---------------------------- MODULE Observability ----------------------------
(***************************************************************************)
(* observability.py with SQLEAN_LINT_OTEL=1: the OpenTelemetry SDK is set  *)
(* up on first use, under a lock; setup_telemetry gives the API a log      *)
(* handler and an interceptor that alerts PagerDuty; metrics, the handler  *)
(* and the interceptor all come back to init_otel while the SDK is not up. *)
(***************************************************************************)
EXTENDS Naturals, Sequences

CONSTANTS Workers,   \* threads that serve requests
          Nobody,
          MaxSetups, MaxRequests   \* bounds: calls of setup_telemetry, requests

ASSUME ObservabilityAssumption == {MaxSetups, MaxRequests} \subseteq Nat /\ Nobody \notin Workers

VARIABLES sdk,           \* "works", or "fails": missing, or an exporter raises
          initialized, meter,
          initializing,  \* holder of the lock, which is not reentrant
          frames,        \* thread -> its calls of init_otel, innermost last
          interceptors,  \* installed, each with its log handler
          task,          \* thread -> what it is doing
          built,         \* history: meters set
          served         \* history: requests begun

ovars == <<sdk, initialized, meter, initializing, frames, interceptors, task, built, served>>
sdkVars == <<sdk, initialized, meter, initializing, built>>

Free == [kind |-> "none"]
OInit == /\ sdk \in {"works", "fails"} /\ initialized = FALSE /\ meter = FALSE
         /\ initializing = Nobody /\ frames = [w \in Workers |-> <<>>]
         /\ interceptors = 0 /\ task = [w \in Workers |-> Free]
         /\ built = 0 /\ served = 0

Ready(w) == frames[w] = <<>>
Top(w) == frames[w][Len(frames[w])]
Push(w) == frames' = [frames EXCEPT ![w] = Append(@, "waiting")]
Pop(w) == frames' = [frames EXCEPT ![w] = SubSeq(@, 1, Len(@) - 1)]
(* get_meter: init_otel unless it has succeeded.                           *)
Meter(w) == IF initialized THEN UNCHANGED frames ELSE Push(w)

(* Mutant: not tested again.                                               *)
TakeLockBlindly(w) == /\ ~Ready(w) /\ Top(w) = "waiting" /\ initializing = Nobody
                      /\ initializing' = w
                      /\ frames' = [frames EXCEPT ![w][Len(frames[w])] = "building"]
                      /\ UNCHANGED <<sdk, initialized, meter, built, interceptors, task, served>>
(* init_otel: tested again under the lock.                                 *)
TakeLock(w) == /\ ~Ready(w) /\ Top(w) = "waiting" /\ initializing = Nobody
               /\ IF initialized THEN Pop(w) /\ UNCHANGED initializing
                  ELSE /\ initializing' = w
                       /\ frames' = [frames EXCEPT ![w][Len(frames[w])] = "building"]
               /\ UNCHANGED <<sdk, initialized, meter, built, interceptors, task, served>>
Build(w) == /\ ~Ready(w) /\ Top(w) = "building" /\ sdk = "works"
            /\ initialized' = TRUE /\ meter' = TRUE /\ built' = built + 1
            /\ initializing' = Nobody /\ Pop(w)
            /\ UNCHANGED <<sdk, interceptors, task, served>>
(* A failure is logged with the lock held; a log handler that is attached  *)
(* counts the record, and so calls init_otel again.                        *)
BuildFails(w) == /\ ~Ready(w) /\ Top(w) = "building" /\ sdk = "fails"
                 /\ IF interceptors > 0 THEN Push(w) /\ UNCHANGED initializing
                    ELSE Pop(w) /\ initializing' = Nobody
                 /\ UNCHANGED <<sdk, initialized, meter, built, interceptors, task, served>>

Goes(w, t) == task' = [task EXCEPT ![w] = t]
(* setup_telemetry: init_otel, then the handler and the middleware.        *)
Setup(w) == /\ Ready(w) /\ task[w] = Free /\ interceptors < MaxSetups
            /\ \A v \in Workers : task[v].kind # "setup"
            /\ Goes(w, [kind |-> "setup"]) /\ Meter(w)
            /\ UNCHANGED <<sdkVars, interceptors, served>>
Attach(w) == /\ Ready(w) /\ task[w].kind = "setup"
             /\ interceptors' = interceptors + 1 /\ Goes(w, Free)
             /\ UNCHANGED <<sdkVars, frames, served>>
(* record_latency, increment_counter and trace_operation: errors of the    *)
(* SDK are swallowed.                                                      *)
Measure(w) == /\ Ready(w) /\ task[w] = Free /\ ~initialized /\ Push(w)
              /\ UNCHANGED <<sdkVars, interceptors, task, served>>

Request(w, outcome) ==
    /\ Ready(w) /\ task[w] = Free /\ served < MaxRequests
    /\ Goes(w, [kind |-> outcome, at |-> "count", left |-> interceptors, due |-> interceptors, alerts |-> 0])
    /\ served' = served + 1
    /\ UNCHANGED <<sdkVars, frames, interceptors>>
(* _pagerduty_500_interceptor, the innermost first: count, then alert,     *)
(* report_api_500 only a status of 500 itself.                             *)
InRequest(w) == Ready(w) /\ task[w].kind \in {"ok", "500", "503", "raised"}
CountError(w) == /\ InRequest(w) /\ task[w].left > 0 /\ task[w].at = "count" /\ task[w].kind # "ok"
                 /\ Goes(w, [task[w] EXCEPT !.at = "alert"]) /\ Meter(w)
                 /\ UNCHANGED <<sdkVars, interceptors, served>>
Alert(w) == /\ InRequest(w) /\ task[w].left > 0
            /\ \/ task[w].at = "alert"
               \/ task[w].kind = "ok"
            /\ Goes(w, [task[w] EXCEPT !.at = "count", !.left = @ - 1,
                                       !.alerts = IF task[w].kind \in {"500", "raised"} THEN @ + 1 ELSE @])
            /\ UNCHANGED <<sdkVars, frames, interceptors, served>>
Respond(w) == /\ InRequest(w) /\ task[w].left = 0 /\ Goes(w, Free)
              /\ UNCHANGED <<sdkVars, frames, interceptors, served>>

Serve(w) == TakeLock(w) \/ Build(w) \/ BuildFails(w) \/ Attach(w) \/ CountError(w) \/ Alert(w) \/ Respond(w)
ONext == \E w \in Workers : \/ Serve(w) \/ Setup(w) \/ Measure(w)
                            \/ \E o \in {"ok", "500", "503", "raised"} : Request(w, o)
OSpec == OInit /\ [][ONext]_ovars

-----------------------------------------------------------------------------
(* The SDK is built once, by whichever thread comes first, and only a      *)
(* failing SDK whose warning meets a log handler makes a thread wait for   *)
(* the lock it holds; and a request that failed leaves only when every     *)
(* interceptor it met has alerted (observability.py:70-131, 300-343,       *)
(* 469-492).                                                               *)
BuiltOnce ==
    /\ built <= 1 /\ (initialized => meter)
    /\ \A w \in Workers : Len(frames[w]) > 1 => initializing = w /\ sdk = "fails" /\ interceptors > 0
    /\ \A w \in Workers : task[w].kind \in {"500", "raised"} /\ task[w].left = 0 => task[w].alerts = task[w].due
=============================================================================
