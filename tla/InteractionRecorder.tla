------------------------- MODULE InteractionRecorder -------------------------
(***************************************************************************)
(* The in-process interaction recorder (sqlean_lint/telemetry.py, class    *)
(* InteractionRecorder): a bounded buffer behind a mutex, emptied by       *)
(* flush(), and a background thread that flushes it periodically.          *)
(*                                                                         *)
(* Any number of threads record; one application thread starts and stops   *)
(* the background flush and calls flush() itself.  All generations of the  *)
(* background thread share one stop event.  The on_flush callback is the   *)
(* user's: it may be slow, and it may raise.                               *)
(***************************************************************************)
EXTENDS Integers, FiniteSets

CONSTANTS
  Flushers,     \* thread objects start_background_flush may create
  App,          \* the application thread
  Nobody,       \* no thread: the mutex is free, _flush_thread is None
  BufferSize,   \* maxlen of the deque (_DEFAULT_BUFFER_SIZE = 50)
  MaxEvents     \* bound: events recorded in a behaviour

ASSUME RecorderAssumption ==
  /\ App \notin Flushers
  /\ Nobody \notin Flushers \cup {App}
  /\ BufferSize \in Nat
  /\ MaxEvents \in Nat

Threads == Flushers \cup {App}

VARIABLES
  buffered,     \* len(self._buffer)
  lock,         \* holder of self._lock
  flushThread,  \* self._flush_thread
  stopEvent,    \* self._stop_event
  onFlush,      \* a callback is registered
  pc,           \* where each thread is
  n,            \* the local n of each thread's flush()
  recorded,     \* events recorded so far (history)
  dropped,      \* events pushed out of the full deque (history)
  taken,        \* events removed by flush() (history)
  atStop,       \* recorded when the current stop began (history)
  timedOut,     \* a join(timeout=5) has expired (history)
  raised        \* a callback has raised (history)

vars == <<buffered, lock, flushThread, stopEvent, onFlush, pc, n,
          recorded, dropped, taken, atStop, timedOut, raised>>

counts  == <<recorded, dropped>>
control == <<flushThread, stopEvent, onFlush>>
marks   == <<atStop, timedOut, raised>>

Goto(t, l) == pc' = [pc EXCEPT ![t] = l]

Alive(t) == t \in Flushers /\ pc[t] \notin {"unborn", "dead"}
Live == {t \in Flushers : Alive(t)}

Init ==
  /\ buffered = 0
  /\ lock = Nobody
  /\ flushThread = Nobody
  /\ stopEvent = FALSE
  /\ onFlush = FALSE
  /\ pc = [t \in Threads |-> IF t = App THEN "idle" ELSE "unborn"]
  /\ n = [t \in Threads |-> 0]
  /\ recorded = 0 /\ dropped = 0 /\ taken = 0
  /\ atStop = 0
  /\ timedOut = FALSE
  /\ raised = FALSE

-----------------------------------------------------------------------------
(***************************************************************************)
(* record(): one append under the mutex; a full deque drops its oldest     *)
(* entry.  If telemetry is enabled the event is then posted to the         *)
(* analytics providers; that touches nothing kept here and is left out.    *)
(***************************************************************************)

Record ==
  /\ recorded < MaxEvents
  /\ lock = Nobody
  /\ recorded' = recorded + 1
  /\ IF buffered < BufferSize
     THEN buffered' = buffered + 1 /\ UNCHANGED dropped
     ELSE dropped' = dropped + 1 /\ UNCHANGED buffered
  /\ UNCHANGED <<lock, control, pc, n, taken, marks>>

\* on_flush(): registers the callback.
OnFlush ==
  /\ pc[App] = "idle"
  /\ ~onFlush
  /\ onFlush' = TRUE
  /\ UNCHANGED <<buffered, lock, flushThread, stopEvent, pc, n, taken, counts, marks>>

(***************************************************************************)
(* flush(): read the length, empty the deque, release, call back.          *)
(* AfterFlush is where the thread continues: the application returns, a    *)
(* background thread goes round its loop.                                  *)
(***************************************************************************)
AfterFlush(t) == IF t = App THEN "idle" ELSE "check"

\* Mutant: the length is read before the mutex is taken.
FlushLenUnlocked(t) ==
  /\ pc[t] = "flush"
  /\ n' = [n EXCEPT ![t] = buffered]
  /\ Goto(t, "clear")
  /\ UNCHANGED <<buffered, lock, control, taken, counts, marks>>

FlushLen(t) ==
  /\ pc[t] = "flush"
  /\ lock = Nobody
  /\ lock' = t
  /\ n' = [n EXCEPT ![t] = buffered]
  /\ Goto(t, "clear")
  /\ UNCHANGED <<buffered, control, taken, counts, marks>>

FlushClear(t) ==
  /\ pc[t] = "clear"
  /\ buffered' = 0
  /\ taken' = taken + n[t]
  /\ lock' = Nobody
  /\ IF onFlush
     THEN Goto(t, "callback") /\ UNCHANGED n
     ELSE Goto(t, AfterFlush(t)) /\ n' = [n EXCEPT ![t] = 0]
  /\ UNCHANGED <<control, counts, marks>>

CallbackReturns(t) ==
  /\ pc[t] = "callback"
  /\ n' = [n EXCEPT ![t] = 0]
  /\ Goto(t, AfterFlush(t))
  /\ UNCHANGED <<buffered, lock, control, taken, counts, marks>>

\* Nothing catches what the callback raises: a background thread dies, the
\* application sees the exception.
CallbackRaises(t) ==
  /\ pc[t] = "callback"
  /\ n' = [n EXCEPT ![t] = 0]
  /\ Goto(t, IF t = App THEN "idle" ELSE "dead")
  /\ raised' = TRUE
  /\ UNCHANGED <<buffered, lock, control, taken, counts, atStop, timedOut>>

\* The application's own flush().
AppFlush ==
  /\ pc[App] = "idle"
  /\ Goto(App, "flush")
  /\ UNCHANGED <<buffered, lock, control, n, taken, counts, marks>>

(***************************************************************************)
(* start_background_flush(): nothing if the current thread is alive, else  *)
(* clear the event and start a thread.                                     *)
(***************************************************************************)

StartClear ==
  /\ pc[App] = "idle"
  /\ ~Alive(flushThread)
  /\ stopEvent' = FALSE
  /\ Goto(App, "spawn")
  /\ UNCHANGED <<buffered, lock, flushThread, onFlush, n, taken, counts, marks>>

StartSpawn ==
  /\ pc[App] = "spawn"
  /\ \E t \in Flushers :
       /\ pc[t] \in {"unborn", "dead"}
       /\ flushThread' = t
       /\ pc' = [pc EXCEPT ![App] = "idle", ![t] = "check"]
  /\ UNCHANGED <<buffered, lock, stopEvent, onFlush, n, taken, counts, marks>>

(***************************************************************************)
(* stop_background_flush(): set the event, join the current thread for     *)
(* five seconds at most, forget it, flush.                                 *)
(***************************************************************************)
StopSet ==
  /\ pc[App] = "idle"
  /\ stopEvent' = TRUE
  /\ atStop' = recorded
  /\ Goto(App, "join")
  /\ UNCHANGED <<buffered, lock, flushThread, onFlush, n, taken, counts, timedOut, raised>>

\* Mutant: stop returns without the join.
StopNoJoin ==
  /\ pc[App] = "join"
  /\ flushThread' = Nobody
  /\ Goto(App, "flush")
  /\ UNCHANGED <<buffered, lock, stopEvent, onFlush, n, taken, counts, marks>>

StopJoined ==
  /\ pc[App] = "join"
  /\ ~Alive(flushThread)
  /\ flushThread' = Nobody
  /\ Goto(App, "flush")
  /\ UNCHANGED <<buffered, lock, stopEvent, onFlush, n, taken, counts, marks>>

\* Only the user's callback can hold a thread for five seconds.
StopJoinTimeout ==
  /\ pc[App] = "join"
  /\ Alive(flushThread)
  /\ pc[flushThread] = "callback"
  /\ timedOut' = TRUE
  /\ flushThread' = Nobody
  /\ Goto(App, "flush")
  /\ UNCHANGED <<buffered, lock, stopEvent, onFlush, n, taken, counts, atStop, raised>>

(***************************************************************************)
(* _loop of a background thread.                                           *)
(***************************************************************************)

LoopCheck(t) ==
  /\ t \in Flushers
  /\ pc[t] = "check"
  /\ Goto(t, IF stopEvent THEN "dead" ELSE "wait")
  /\ UNCHANGED <<buffered, lock, control, n, taken, counts, marks>>

\* wait(timeout=interval_s) ends, and the event is tested again.
\* Mutant: it flushes only if the event is set.
LoopWakeInverted(t) ==
  /\ pc[t] = "wait"
  /\ Goto(t, IF stopEvent THEN "flush" ELSE "check")
  /\ UNCHANGED <<buffered, lock, control, n, taken, counts, marks>>

LoopWake(t) ==
  /\ pc[t] = "wait"
  /\ Goto(t, IF stopEvent THEN "check" ELSE "flush")
  /\ UNCHANGED <<buffered, lock, control, n, taken, counts, marks>>

-----------------------------------------------------------------------------
Flush(t) ==
  FlushLen(t) \/ FlushClear(t) \/ CallbackReturns(t) \/ CallbackRaises(t)

Loop(t) == LoopCheck(t) \/ LoopWake(t)

Stopping == StopJoined \/ StopJoinTimeout

Next ==
  \/ Record \/ OnFlush \/ AppFlush
  \/ StartClear \/ StartSpawn
  \/ StopSet \/ Stopping
  \/ \E t \in Threads : Flush(t) \/ Loop(t)

Spec == Init /\ [][Next]_vars

\* Threads keep running and a wait with a timeout ends.  A mutex wait is weakly
\* fair too: no thread holds it across anything but two statements, but other
\* threads may take it in between, so the length step asks for strong fairness.
FairSpec ==
  /\ Spec
  /\ \A t \in Threads : SF_vars(FlushLen(t)) /\ WF_vars(Flush(t)) /\ WF_vars(Loop(t))
  /\ WF_vars(StartSpawn) /\ WF_vars(Stopping)

-----------------------------------------------------------------------------
(***************************************************************************)
(* Properties.                                                             *)
(***************************************************************************)
\* Types; whoever holds the mutex is between the length and the clear of a flush.
TypeOK ==
  /\ buffered \in 0 .. BufferSize
  /\ lock \in Threads \cup {Nobody}
  /\ flushThread \in Flushers \cup {Nobody}
  /\ stopEvent \in BOOLEAN /\ onFlush \in BOOLEAN
  /\ pc \in [Threads -> {"unborn", "dead", "idle", "spawn", "join", "check",
                         "wait", "flush", "clear", "callback"}]
  /\ n \in [Threads -> Nat]
  /\ recorded \in Nat /\ dropped \in Nat /\ taken \in Nat
  /\ atStop \in Nat
  /\ timedOut \in BOOLEAN /\ raised \in BOOLEAN
  /\ \A t \in Threads : pc[t] = "clear" <=> lock = t

\* Every recorded event is in the buffer, was pushed out by a newer one, or is
\* in exactly one flush count: concurrent flushes never count an event twice and
\* never lose one, in any interleaving with record().
NothingLostOrCountedTwice == recorded = buffered + dropped + taken

\* As long as no join has timed out, at most one background thread exists, over
\* any sequence of starts, stops and dying callbacks.
OneFlusher == ~timedOut => Cardinality(Live) <= 1

\* stop_background_flush "performs a final flush" (telemetry.py:295): when it
\* returns, every event recorded before it was called has left the buffer, even
\* if the join timed out.
FinalFlush ==
  [][pc[App] # "idle" /\ pc'[App] = "idle"
       => atStop <= dropped' + taken']_vars

\* Without a timed-out join, stop_background_flush returns only when no
\* background thread is left.
StopMeansStopped ==
  ~timedOut /\ pc[App] = "idle" /\ stopEvent => Live = {}

\* The recorder's events are conserved, and its mutex is held only between the
\* length and the clear of a flush (TypeOK and the first above, telemetry.py:249-267).
EventsAreKept == TypeOK /\ NothingLostOrCountedTwice

\* At most one background thread, and none after a stop, until a join times out
\* (the two above, telemetry.py:273-300).
FlusherIsControlled == OneFlusher /\ StopMeansStopped

\* "Stop the background flush thread" (telemetry.py:295): when the application
\* is not inside a call and has stopped the flush, no background thread is left.
StoppedForGood == pc[App] = "idle" /\ stopEvent => Live = {}

\* Even a thread that outlived its join ends, unless the event is cleared by a
\* new start before it looks.
StopEventuallyStops == stopEvent ~> Live = {} \/ ~stopEvent

\* While a background thread runs, a recorded event does not stay in the buffer
\* for ever, unless a callback raised or the flush was stopped.
EventuallyFlushed ==
  buffered > 0 /\ Live # {} ~> buffered = 0 \/ stopEvent \/ raised

\* What must happen to events and threads does: the final flush, the end of every
\* stopped thread, the flush of what was recorded (the three above).
FlushesHappen == FinalFlush /\ StopEventuallyStops /\ EventuallyFlushed
=============================================================================
