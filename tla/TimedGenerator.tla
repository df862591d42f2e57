--------------------------- MODULE TimedGenerator ---------------------------
(***************************************************************************)
(* utils/timed_generator.py: a consumer that calls next() under an overall *)
(* and an inactivity deadline, a worker thread that advances the provider's*)
(* iterator ahead of it through a queue of one result, and the two timer   *)
(* threads.  Every step is what one thread does between two points where   *)
(* another may run: a lock's critical section, an event test, a queue call,*)
(* a call into the source.                                                 *)
(*                                                                         *)
(* The source is the provider iterator: it may return an item, end, raise, *)
(* unwind with _PollingCancelled once the worker is stopped, or never come *)
(* back.  One interrupt (the first Ctrl-C, cli.py) may hit the consumer    *)
(* anywhere inside __next__; Chat.__next__ then calls close().             *)
(***************************************************************************)
EXTENDS Integers, Sequences

CONSTANTS
    Timeouts,      \* the overall timeouts an instance may be built with
    Inactivities,  \* the inactivity timeouts an instance may be built with
    None,          \* no deadline, no result, no reason
    MaxItems,      \* bound: items the source returns
    Horizon        \* bound: the clock

ASSUME BoundsAssumption == MaxItems \in Nat /\ Horizon \in Nat
ASSUME TimeoutsAssumption ==
    /\ Timeouts \subseteq Nat \cup {None}
    /\ Inactivities \subseteq Nat \cup {None}
    /\ None \notin Int
    /\ None \notin {"timeout", "inactivity"}

VARIABLES
    now,                 \* time.monotonic()
    timeoutDeadline,     \* _timeout_deadline
    inactivity,          \* inactivity_timeout
    inactivityDeadline,  \* _inactivity_deadline
    timeoutTimer,        \* `timer` is armed
    inactivityTimerAt,   \* when `inactivity_timer` runs its callback
    timeoutExpired,      \* _timeout_expired
    inactivityExpired,   \* _inactivity_expired
    queue,               \* _result_queue
    wpc, hand,           \* the worker: where it is, and the result it holds
    advancing,           \* _worker_advancing
    stopRequested,       \* _stop_requested
    generatorClosed,     \* _generator_closed
    source,              \* the provider iterator: open, done or closed
    outstanding,         \* _outstanding_prefetched_item_count
    cpc, held,           \* the consumer: where it is, and the result it took
    getUntil,            \* when its queue.get() gives up
    closed,              \* _closed
    finishReason,        \* _finish_reason
    consumerFinished,    \* _consumer_finished
    interrupted,         \* the one interrupt has been delivered
    summary,             \* what deadline_prefetch_summary() told the run
    emitted, delivered   \* history: items the source returned, the last delivered

clockVars == <<now, timeoutDeadline, inactivity>>
timerVars == <<timeoutTimer, inactivityTimerAt, timeoutExpired, inactivityExpired>>
workerVars == <<wpc, hand, advancing, outstanding, emitted>>
finishVars == <<finishReason, consumerFinished>>
consumerVars == <<cpc, held, getUntil, closed, finishReason, consumerFinished,
                  interrupted, summary, delivered>>
sourceVars == <<generatorClosed, source>>

vars == <<now, timeoutDeadline, inactivity, inactivityDeadline, timeoutTimer,
          inactivityTimerAt, timeoutExpired, inactivityExpired, queue, wpc, hand,
          advancing, stopRequested, generatorClosed, source, outstanding, cpc,
          held, getUntil, closed, finishReason, consumerFinished, interrupted,
          summary, emitted, delivered>>

Deadlines == {"timeout", "inactivity"}
Result(kind, value, at) == [kind |-> kind, value |-> value, at |-> at]
Results == [kind : {"item", "stop", "error", "interrupt", "cancelled"},
            value : 0 .. MaxItems, at : 0 .. Horizon]

ASSUME NoneAssumption == None \notin Results

-----------------------------------------------------------------------------
(* Construction: both deadlines run from the same instant.                 *)

Init ==
    /\ now = 0
    /\ timeoutDeadline \in Timeouts
    /\ inactivity \in Inactivities
    /\ inactivityDeadline = inactivity
    /\ timeoutTimer = (timeoutDeadline # None)
    /\ inactivityTimerAt = inactivity
    /\ timeoutExpired = FALSE /\ inactivityExpired = FALSE
    /\ queue = <<>>
    /\ wpc = "loop" /\ hand = None
    /\ advancing = FALSE /\ stopRequested = FALSE
    /\ generatorClosed = FALSE /\ source = "open"
    /\ outstanding = 0
    /\ cpc = "idle" /\ held = None /\ getUntil = None
    /\ closed = FALSE /\ finishReason = None /\ consumerFinished = FALSE
    /\ interrupted = FALSE /\ summary = None
    /\ emitted = 0 /\ delivered = 0

Tick ==
    /\ now < Horizon
    /\ now' = now + 1
    /\ UNCHANGED <<timeoutDeadline, inactivity, inactivityDeadline, timerVars, queue,
                   workerVars, stopRequested, sourceVars, consumerVars>>

-----------------------------------------------------------------------------
(* Timer threads.                                                          *)

TimeoutFires ==
    /\ timeoutTimer /\ now >= timeoutDeadline
    /\ timeoutTimer' = FALSE
    /\ timeoutExpired' = TRUE
    /\ UNCHANGED <<clockVars, inactivityDeadline, inactivityTimerAt, inactivityExpired,
                   queue, workerVars, stopRequested, sourceVars, consumerVars>>

\* on_inactivity_timeout, under _inactivity_lock: follow the current deadline.
InactivityFires ==
    /\ inactivityTimerAt # None /\ now >= inactivityTimerAt
    /\ \/ /\ closed
          /\ inactivityTimerAt' = None
          /\ UNCHANGED inactivityExpired
       \/ /\ ~closed /\ now >= inactivityDeadline
          /\ inactivityExpired' = TRUE
          /\ inactivityTimerAt' = None
       \/ /\ ~closed /\ now < inactivityDeadline
          /\ inactivityTimerAt' = inactivityDeadline
          /\ UNCHANGED inactivityExpired
    /\ UNCHANGED <<clockVars, inactivityDeadline, timeoutTimer, timeoutExpired, queue,
                   workerVars, stopRequested, sourceVars, consumerVars>>

-----------------------------------------------------------------------------
(* _close_generator, under _generator_close_lock.  A source that is still  *)
(* executing refuses (ValueError "generator already executing"), and the   *)
(* flag is put back.                                                       *)

CloseGenerator ==
    IF generatorClosed \/ wpc = "next"
    THEN UNCHANGED sourceVars
    ELSE generatorClosed' = TRUE /\ source' = "closed"

-----------------------------------------------------------------------------
(* The worker thread (_worker_loop, _publish_result).                      *)

WorkerCheck ==
    /\ wpc = "loop"
    /\ wpc' = IF stopRequested THEN "exit" ELSE "lock"
    /\ UNCHANGED <<clockVars, inactivityDeadline, timerVars, queue, hand, advancing,
                   outstanding, emitted, stopRequested, sourceVars, consumerVars>>

\* The stop request is not looked at again under the lock.
WorkerBegin_NoRecheck ==
    /\ wpc = "lock"
    /\ advancing' = TRUE /\ wpc' = "next"
    /\ UNCHANGED <<clockVars, inactivityDeadline, timerVars, queue, hand, outstanding,
                   emitted, stopRequested, sourceVars, consumerVars>>

\* Under _worker_state_lock: a stop seen here means next() is never called.
WorkerBegin ==
    /\ wpc = "lock"
    /\ IF stopRequested
       THEN wpc' = "exit" /\ UNCHANGED advancing
       ELSE wpc' = "next" /\ advancing' = TRUE
    /\ UNCHANGED <<clockVars, inactivityDeadline, timerVars, queue, hand, outstanding,
                   emitted, stopRequested, sourceVars, consumerVars>>

SourceYields ==
    /\ wpc = "next" /\ source = "open" /\ emitted < MaxItems
    /\ emitted' = emitted + 1
    /\ hand' = Result("item", emitted + 1, 0)
    /\ wpc' = "returned"
    /\ UNCHANGED <<clockVars, inactivityDeadline, timerVars, queue, advancing,
                   outstanding, stopRequested, sourceVars, consumerVars>>

\* StopIteration, a failure, or KeyboardInterrupt raised by the source; a
\* waiting provider is unwound by _PollingCancelled only after a stop.
SourceEnds ==
    /\ wpc = "next"
    /\ \E kind \in {"stop", "error", "interrupt", "cancelled"} :
        /\ kind = "cancelled" => stopRequested
        /\ hand' = Result(kind, 0, 0)
    /\ source' = IF source = "open" THEN "done" ELSE source
    /\ wpc' = "returned"
    /\ UNCHANGED <<clockVars, inactivityDeadline, timerVars, queue, advancing,
                   outstanding, emitted, stopRequested, generatorClosed, consumerVars>>

\* The finally of the advance, under _worker_state_lock.
WorkerReturns ==
    /\ wpc = "returned"
    /\ advancing' = FALSE
    /\ wpc' = IF hand.kind = "item" THEN "count"
              ELSE IF hand.kind = "cancelled" THEN "exit" ELSE "stamp"
    /\ UNCHANGED <<clockVars, inactivityDeadline, timerVars, queue, hand, outstanding,
                   emitted, stopRequested, sourceVars, consumerVars>>

\* _record_prefetched_item: before the stop test, so that an item returned
\* during shutdown is still counted.
WorkerCount ==
    /\ wpc = "count"
    /\ outstanding' = outstanding + 1
    /\ wpc' = "stamp"
    /\ UNCHANGED <<clockVars, inactivityDeadline, timerVars, queue, hand, advancing,
                   emitted, stopRequested, sourceVars, consumerVars>>

WorkerStamp ==
    /\ wpc = "stamp"
    /\ IF stopRequested /\ hand.kind = "item"
       THEN wpc' = "exit" /\ UNCHANGED hand
       ELSE wpc' = "publish" /\ hand' = [hand EXCEPT !.at = now]
    /\ UNCHANGED <<clockVars, inactivityDeadline, timerVars, queue, advancing,
                   outstanding, emitted, stopRequested, sourceVars, consumerVars>>

WorkerPublish ==
    /\ wpc = "publish"
    /\ wpc' = IF stopRequested THEN "exit" ELSE "put"
    /\ UNCHANGED <<clockVars, inactivityDeadline, timerVars, queue, hand, advancing,
                   outstanding, emitted, stopRequested, sourceVars, consumerVars>>

\* A full queue drops the result instead of trying again.
WorkerPut_DropsWhenFull ==
    /\ wpc = "put"
    /\ queue' = IF queue = <<>> THEN <<hand>> ELSE queue
    /\ wpc' = IF hand.kind = "item" THEN "loop" ELSE "exit"
    /\ hand' = None
    /\ UNCHANGED <<clockVars, inactivityDeadline, timerVars, advancing, outstanding,
                   emitted, stopRequested, sourceVars, consumerVars>>

\* queue.put: room, or Full after POLLING_TIME and the stop is tested again.
WorkerPut ==
    /\ wpc = "put"
    /\ \/ /\ queue = <<>>
          /\ queue' = <<hand>>
          /\ wpc' = IF hand.kind = "item" THEN "loop" ELSE "exit"
          /\ hand' = None
       \/ /\ queue # <<>>
          /\ wpc' = "publish"
          /\ UNCHANGED <<queue, hand>>
    /\ UNCHANGED <<clockVars, inactivityDeadline, timerVars, advancing, outstanding,
                   emitted, stopRequested, sourceVars, consumerVars>>

\* The worker leaves and never closes the source.
WorkerExit_NoClose ==
    /\ wpc = "exit"
    /\ wpc' = "done"
    /\ UNCHANGED <<clockVars, inactivityDeadline, timerVars, queue, hand, advancing,
                   outstanding, emitted, stopRequested, sourceVars, consumerVars>>

\* The outer finally: a stopped worker closes the source itself.
WorkerExit ==
    /\ wpc = "exit"
    /\ wpc' = "done"
    /\ IF stopRequested THEN CloseGenerator ELSE UNCHANGED sourceVars
    /\ UNCHANGED <<clockVars, inactivityDeadline, timerVars, queue, hand, advancing,
                   outstanding, emitted, stopRequested, consumerVars>>

-----------------------------------------------------------------------------
(* The consumer: __next__.                                                 *)

Passed(deadline, at) == deadline # None /\ at >= deadline

\* _timeout_reason(at): a result is judged by the time it was completed.
ReasonAt(at) ==
    IF Passed(timeoutDeadline, at) THEN "timeout"
    ELSE IF Passed(inactivityDeadline, at) THEN "inactivity" ELSE None

\* _timeout_reason(): an empty queue is judged by the timers, then the clock.
ReasonNow ==
    IF timeoutExpired THEN "timeout"
    ELSE IF inactivityExpired THEN "inactivity" ELSE ReasonAt(now)

\* A result judged by the timers' state, not by its own time stamp.
ReasonOfResult_ByTimers(result) == ReasonNow
ReasonOfResult(result) == ReasonAt(result.at)

\* get() waits for a result however long the deadlines are past.
DeadlineWait_Forever == None

\* _deadline_wait as an absolute time.
DeadlineWait ==
    LET deadlines == {timeoutDeadline, inactivityDeadline} \ {None} IN
    IF deadlines = {} THEN None
    ELSE LET first == CHOOSE d \in deadlines : \A e \in deadlines : d <= e IN
         IF first > now THEN first ELSE now

ConsumerNext ==
    /\ cpc = "idle" /\ ~closed
    /\ cpc' = "get"
    /\ getUntil' = DeadlineWait
    /\ UNCHANGED <<clockVars, inactivityDeadline, timerVars, queue, workerVars,
                   stopRequested, sourceVars, held, closed, finishVars, interrupted,
                   summary, delivered>>

ConsumerGet ==
    /\ cpc = "get" /\ queue # <<>>
    /\ held' = Head(queue)
    /\ queue' = Tail(queue)
    /\ cpc' = "have"
    /\ getUntil' = None
    /\ UNCHANGED <<clockVars, inactivityDeadline, timerVars, workerVars, stopRequested,
                   sourceVars, closed, finishVars, interrupted, summary,
                   delivered>>

\* _finish(reason), up to its close().
Finish(reason) ==
    /\ finishReason' = reason
    /\ consumerFinished' = TRUE
    /\ cpc' = "close"

\* queue.Empty; a wait that ended without any reason blames a configured timer.
ConsumerEmpty ==
    /\ cpc = "get" /\ queue = <<>>
    /\ getUntil # None /\ now >= getUntil
    /\ Finish(IF ReasonNow # None THEN ReasonNow
              ELSE IF timeoutDeadline # None THEN "timeout" ELSE "inactivity")
    /\ getUntil' = None
    /\ UNCHANGED <<clockVars, inactivityDeadline, timerVars, queue, workerVars,
                   stopRequested, sourceVars, held, closed, interrupted, summary,
                   delivered>>

\* An error result is raised after close(); only an interrupt that the source
\* raised past a deadline becomes a normal finish.
ConsumerError ==
    /\ cpc = "have" /\ held.kind \in {"error", "interrupt"}
    /\ IF held.kind = "interrupt" /\ ReasonOfResult(held) # None
       THEN Finish(ReasonOfResult(held))
       ELSE cpc' = "close" /\ UNCHANGED finishVars
    /\ UNCHANGED <<clockVars, inactivityDeadline, timerVars, queue, workerVars,
                   stopRequested, sourceVars, held, getUntil, closed, interrupted,
                   summary, delivered>>

ConsumerExhausted ==
    /\ cpc = "have" /\ held.kind = "stop"
    /\ Finish(None)
    /\ UNCHANGED <<clockVars, inactivityDeadline, timerVars, queue, workerVars,
                   stopRequested, sourceVars, held, getUntil, closed, interrupted,
                   summary, delivered>>

\* _handle_item_result up to the deadline test.
ConsumerItem ==
    /\ cpc = "have" /\ held.kind = "item"
    /\ IF ReasonOfResult(held) # None
       THEN Finish(ReasonOfResult(held))
       ELSE cpc' = "reset" /\ UNCHANGED finishVars
    /\ UNCHANGED <<clockVars, inactivityDeadline, timerVars, queue, workerVars,
                   stopRequested, sourceVars, held, getUntil, closed, interrupted,
                   summary, delivered>>

ResetInactivity ==
    inactivityDeadline' = now + inactivity /\ inactivityExpired' = FALSE

\* reset_inactivity_timer, under _inactivity_lock.
ConsumerReset ==
    /\ cpc = "reset"
    /\ cpc' = "deliver"
    /\ IF inactivity = None
       THEN UNCHANGED <<inactivityDeadline, inactivityExpired>>
       ELSE ResetInactivity
    /\ UNCHANGED <<clockVars, timeoutTimer, inactivityTimerAt, timeoutExpired, queue,
                   workerVars, stopRequested, sourceVars, held, getUntil, closed,
                   finishVars, interrupted, summary, delivered>>

\* _record_delivered_item and the return to the caller.
ConsumerDeliver ==
    /\ cpc = "deliver"
    /\ outstanding' = outstanding - 1
    /\ delivered' = held.value
    /\ held' = None
    /\ cpc' = "idle"
    /\ UNCHANGED <<clockVars, inactivityDeadline, timerVars, queue, wpc, hand, advancing,
                   emitted, stopRequested, sourceVars, getUntil, closed, finishVars,
                   interrupted, summary>>

-----------------------------------------------------------------------------
(* close(), called by _finish, after an error, after an interrupt, or by   *)
(* the run when it abandons the chat between two items.                    *)

ConsumerAbandons ==
    /\ cpc = "idle" /\ ~closed
    /\ cpc' = "close"
    /\ UNCHANGED <<clockVars, inactivityDeadline, timerVars, queue, workerVars,
                   stopRequested, sourceVars, held, getUntil, closed, finishVars,
                   interrupted, summary, delivered>>

CloseBegins ==
    /\ cpc = "close"
    /\ closed' = TRUE
    /\ cpc' = IF closed THEN "ended" ELSE "stop"
    /\ UNCHANGED <<clockVars, inactivityDeadline, timerVars, queue, workerVars,
                   stopRequested, sourceVars, held, getUntil, finishVars, interrupted,
                   summary, delivered>>

CloseStops ==
    /\ cpc = "stop"
    /\ stopRequested' = TRUE
    /\ cpc' = "cancel"
    /\ UNCHANGED <<clockVars, inactivityDeadline, timerVars, queue, workerVars,
                   sourceVars, held, getUntil, closed, finishVars, interrupted, summary,
                   delivered>>

\* The source's request_stop() (best effort, its errors suppressed), then the
\* timers.
CloseCancelsTimers ==
    /\ cpc = "cancel"
    /\ timeoutTimer' = FALSE /\ inactivityTimerAt' = None
    /\ cpc' = "look"
    /\ UNCHANGED <<clockVars, inactivityDeadline, timeoutExpired, inactivityExpired,
                   queue, workerVars, stopRequested, sourceVars, held, getUntil, closed,
                   finishVars, interrupted, summary, delivered>>

\* Under _worker_state_lock: an advancing worker is left to close the source.
CloseLooks ==
    /\ cpc = "look"
    /\ cpc' = IF advancing THEN "join" ELSE "closeSource"
    /\ UNCHANGED <<clockVars, inactivityDeadline, timerVars, queue, workerVars,
                   stopRequested, sourceVars, held, getUntil, closed, finishVars,
                   interrupted, summary, delivered>>

CloseClosesSource ==
    /\ cpc = "closeSource"
    /\ CloseGenerator
    /\ cpc' = "join"
    /\ UNCHANGED <<clockVars, inactivityDeadline, timerVars, queue, workerVars,
                   stopRequested, held, getUntil, closed, finishVars, interrupted,
                   summary, delivered>>

\* worker.join(0.2): returns with the worker finished or not; a deadline's
\* callback runs, and __next__ raises StopIteration or the source's error.
CloseJoins ==
    /\ cpc = "join"
    /\ cpc' = "ended"
    /\ UNCHANGED <<clockVars, inactivityDeadline, timerVars, queue, workerVars,
                   stopRequested, sourceVars, held, getUntil, closed, finishVars,
                   interrupted, summary, delivered>>

CloseSteps == {"stop", "cancel", "look", "closeSource", "join"}

\* KeyboardInterrupt inside __next__.  Chat.__next__ then calls close(): from
\* within a close() that has begun, that second call finds _closed and returns.
ConsumerInterrupted ==
    /\ ~interrupted
    /\ cpc \in {"get", "have", "reset", "deliver", "close"} \cup CloseSteps
    /\ interrupted' = TRUE
    /\ cpc' = IF cpc \in CloseSteps THEN "ended" ELSE "close"
    /\ getUntil' = None
    /\ UNCHANGED <<clockVars, inactivityDeadline, timerVars, queue, workerVars,
                   stopRequested, sourceVars, held, closed, finishVars, summary,
                   delivered>>

\* deadline_prefetch_summary() with the worker's liveness taken as settled.
Summary_WorkerAssumedDone ==
    [count |-> IF finishReason \in Deadlines THEN outstanding ELSE 0,
     complete |-> consumerFinished]

\* deadline_prefetch_summary(), under _prefetch_accounting_lock.
Summary ==
    [count |-> IF finishReason \in Deadlines THEN outstanding ELSE 0,
     complete |-> consumerFinished /\ wpc = "done"]

\* The run reads the summary once, after close().
ObserveShutdown ==
    /\ cpc = "ended" /\ summary = None
    /\ summary' = Summary
    /\ UNCHANGED <<clockVars, inactivityDeadline, timerVars, queue, workerVars,
                   stopRequested, sourceVars, cpc, held, getUntil, closed, finishVars,
                   interrupted, delivered>>

-----------------------------------------------------------------------------
WorkerStep ==
    \/ WorkerCheck \/ WorkerBegin \/ WorkerReturns \/ WorkerCount \/ WorkerStamp
    \/ WorkerPublish \/ WorkerPut \/ WorkerExit

SourceStep == SourceYields \/ SourceEnds

TimerStep == TimeoutFires \/ InactivityFires

ReadStep ==
    \/ ConsumerGet \/ ConsumerEmpty \/ ConsumerError \/ ConsumerExhausted
    \/ ConsumerItem \/ ConsumerReset \/ ConsumerDeliver

CloseStep ==
    \/ CloseBegins \/ CloseStops \/ CloseCancelsTimers \/ CloseLooks
    \/ CloseClosesSource \/ CloseJoins

ConsumerStep ==
    \/ ConsumerNext \/ ConsumerAbandons \/ ReadStep \/ CloseStep
    \/ ConsumerInterrupted \/ ObserveShutdown

Next == Tick \/ TimerStep \/ WorkerStep \/ SourceStep \/ ConsumerStep

\* The threads that can run do run, and time passes.  Nothing is assumed of the
\* source (it may hang), of the caller (it may stop calling) or of the user.
Fairness ==
    /\ WF_vars(Tick)
    /\ WF_vars(TimerStep)
    /\ WF_vars(WorkerStep)
    /\ WF_vars(ReadStep)
    /\ WF_vars(CloseStep)

Spec == Init /\ [][Next]_vars /\ Fairness

-----------------------------------------------------------------------------
TypeOK ==
    /\ now \in 0 .. Horizon
    /\ timeoutDeadline \in Timeouts /\ inactivity \in Inactivities
    /\ inactivityDeadline \in Nat \cup {None}
    /\ (inactivityDeadline = None) <=> (inactivity = None)
    /\ timeoutTimer \in BOOLEAN /\ inactivityTimerAt \in Nat \cup {None}
    /\ timeoutTimer => timeoutDeadline # None
    /\ inactivityTimerAt # None => inactivity # None
    /\ timeoutExpired \in BOOLEAN /\ inactivityExpired \in BOOLEAN
    /\ queue = <<>> \/ \E r \in Results : queue = <<r>>
    /\ wpc \in {"loop", "lock", "next", "returned", "count", "stamp", "publish",
                "put", "exit", "done"}
    /\ hand \in Results \cup {None}
    /\ wpc \in {"returned", "count", "stamp", "publish", "put"} => hand \in Results
    /\ advancing \in BOOLEAN /\ stopRequested \in BOOLEAN
    /\ generatorClosed \in BOOLEAN /\ source \in {"open", "done", "closed"}
    /\ outstanding \in Int
    /\ cpc \in {"idle", "get", "have", "reset", "deliver", "close", "ended"}
                 \cup CloseSteps
    /\ held \in Results \cup {None}
    /\ cpc \in {"have", "reset", "deliver"} => held \in Results
    /\ getUntil \in Nat \cup {None}
    /\ closed \in BOOLEAN /\ consumerFinished \in BOOLEAN /\ interrupted \in BOOLEAN
    /\ finishReason \in Deadlines \cup {None}
    /\ summary = None \/ summary \in [count : Int, complete : BOOLEAN]
    /\ emitted \in 0 .. MaxItems /\ delivered \in 0 .. MaxItems

\* The consumer never calls the source's close() while the worker is inside its
\* next(): the request is set before the flag is read, and the flag is set only
\* after the request has been tested (_cancel_timers against _worker_loop).
NoConcurrentClose == cpc = "closeSource" => wpc # "next"

\* An expiry event, and a finish that blames a deadline, are always true of the
\* deadline as it now stands: a timer started for an earlier inactivity deadline
\* never ends the capture, and a result that was completed before the deadline
\* is never thrown away because the timer fired while it waited in the queue.
DeadlineOf(reason) == IF reason = "timeout" THEN timeoutDeadline ELSE inactivityDeadline
DeadlineIsReal ==
    /\ timeoutExpired => Passed(timeoutDeadline, now)
    /\ inactivityExpired => Passed(inactivityDeadline, now)
    /\ finishReason \in Deadlines =>
         Passed(DeadlineOf(finishReason), IF held = None THEN now ELSE held.at)

\* What the run reports as prefetched after the deadline is never more than the
\* items the source returned and the caller did not get, and when it is said to
\* be final it is exactly that and stays so, whatever the worker was doing.
SummarySound ==
    summary # None /\ finishReason \in Deadlines =>
        /\ summary.count <= emitted - delivered
        /\ summary.complete => summary.count = emitted - delivered

\* The timed iterator is a bounded stream: in order, nothing lost before the
\* end, at most three items ahead of the caller (the caller's, the queue's and
\* the worker's), at most the fetch in flight after a stop.
Stream == INSTANCE BoundedStream WITH
    Lookahead <- 3, fetching <- wpc = "next", stopped <- stopRequested,
    released <- source = "closed"
StreamSpec == Stream!Spec

\* With an overall timeout, a call of __next__ returns or raises even if the
\* source hangs for good.
ReadReturns == (cpc = "get" /\ timeoutDeadline # None) ~> cpc \in {"idle", "ended"}

\* If every advance of the source comes back, a stopped source is closed, by the
\* consumer or by the worker, unless it had already ended by itself.
SourceReleased == []<>(wpc # "next") => (stopRequested ~> source # "open")

\* close() requests the worker's shutdown (its docstring): once the object is
\* closed, the worker is told to stop.
CloseStopsWorker == closed ~> stopRequested
=============================================================================
