------------------------------ MODULE KickLive ------------------------------
(***************************************************************************)
(* sites/kick/live_service.py with live_iterator.py: one thread that loads *)
(* recent history, opens a transport, reads its frames, reconnects when it *)
(* fails and recovers from the message history what was said meanwhile;    *)
(* another thread that may stop it at any moment; and the provider.        *)
(*                                                                         *)
(* The transport hands over every frame it accepted before it fails, which *)
(* KickPublicTransport shows of the one used here.                         *)
(***************************************************************************)
EXTENDS Integers, Sequences, FiniteSetsExt

CONSTANTS
    PublicEvents,   \* the filter admits more than text messages
    Skew,           \* the provider's clock minus the local one, in seconds
    Window,         \* _RECONNECT_BACKFILL_MICROSECONDS, in seconds
    MaxAttempts,    \* request.max_attempts
    MaxMessages, MaxEvents, MaxDrops, Horizon,   \* bounds
    None

ASSUME BoundsAssumption ==
    /\ PublicEvents \in BOOLEAN /\ Skew \in Int /\ Window \in Nat
    /\ MaxAttempts \in Nat \ {0} /\ None \notin Int
    /\ {MaxMessages, MaxEvents, MaxDrops, Horizon} \subseteq Nat

VARIABLES
    \* the provider
    now,           \* the local clock, in seconds
    said,          \* the chat: the provider's timestamp of each text message
    link,          \* "down", "up" (connected) or "chat" (chat feed subscribed)
    channel,       \* the channel feed's subscription was acknowledged on this link
    fault,         \* why a lost link is lost, or "none"
    frames,        \* frames accepted and not yet read
    events, drops, \* events sent, failures so far
    \* _iter_chat_messages and _open_subscribed_transport
    pc,
    attempt,       \* attempt_number
    lastProvider,  \* last_provider_timestamp
    lastReceived,  \* last_message_received_timestamp
    offset,        \* provider_clock_offset
    startup,       \* startup_checkpoint
    pendingStartup, pendingReconnect,
    failures,      \* consecutive_connection_failures
    recoveries,    \* pusher_error_recoveries
    emitted,       \* text messages emit() has registered and yielded
    gaps, incomplete,  \* reconnect_backfill_truncated_, history_recovery_failure_count
    open,          \* the transport is open (has not been closed)
    \* KickLiveIterator
    stopped, stopper,
    owned,         \* control.transport is the current transport
    woken          \* the current transport was asked to stop

providerVars == <<now, said, link, channel, fault, frames, events, drops>>
clockVars == <<lastProvider, lastReceived, offset, startup>>
countVars == <<attempt, failures, recoveries>>
outVars == <<emitted, gaps, incomplete, pendingStartup, pendingReconnect>>
stopVars == <<stopped, stopper>>

vars == <<now, said, link, channel, fault, frames, events, drops, pc, attempt, lastProvider,
          lastReceived, offset, startup, pendingStartup, pendingReconnect, failures,
          recoveries, emitted, gaps, incomplete, open, stopped, stopper, owned, woken>>

Ended == {"finished", "exceeded", "rejected"}

Init ==
    /\ now = 0 /\ said = <<>> /\ link = "down" /\ channel = FALSE /\ fault = "none" /\ frames = <<>>
    /\ events = 0 /\ drops = 0
    /\ pc = "preload" /\ attempt = 1
    /\ lastProvider = None /\ lastReceived = None /\ offset = 0 /\ startup = None
    /\ pendingStartup = TRUE /\ pendingReconnect = FALSE
    /\ failures = 0 /\ recoveries = 0
    /\ emitted = {} /\ gaps = 0 /\ incomplete = 0
    /\ open = FALSE /\ stopped = FALSE /\ stopper = 1
    /\ owned = FALSE /\ woken = FALSE

Least(a, b) == IF a <= b THEN a ELSE b
Greatest(a, b) == IF a >= b THEN a ELSE b

\* _newest_provider_timestamp()
Newest(current, time) == IF current = None THEN time ELSE Greatest(current, time)

-----------------------------------------------------------------------------
(* The provider.                                                           *)

\* The steps at "create", "check" and "opened" neither read nor write what the
\* provider's steps do, so these may as well come after them; and what the
\* provider does once the capture has ended is nobody's concern.
Attended == pc \in {"preload", "dial", "stream"}

Tick ==
    /\ Attended
    /\ now < Horizon
    /\ now' = now + 1
    /\ UNCHANGED <<said, link, channel, fault, frames, events, drops, pc, clockVars, countVars,
                   outVars, open, stopVars, owned, woken>>

Say ==
    /\ Attended
    /\ Len(said) < MaxMessages
    /\ said' = Append(said, now + Skew)
    /\ frames' = IF link = "chat" THEN Append(frames, [kind |-> "text", id |-> Len(said) + 1])
                 ELSE frames
    /\ UNCHANGED <<now, link, channel, fault, events, drops, pc, clockVars, countVars, outVars,
                   open, stopVars, owned, woken>>

\* The chat feed's subscription is confirmed; from now on it is delivered.
Acknowledge ==
    /\ Attended
    /\ link = "up" /\ fault = "none"
    /\ link' = "chat"
    /\ frames' = Append(frames, [kind |-> "ack", id |-> 0])
    /\ UNCHANGED <<now, said, channel, fault, events, drops, pc, clockVars, countVars, outVars,
                   open, stopVars, owned, woken>>

\* The channel connection delivers an event with the provider's timestamp, such
\* as a subscription, or a poll of the REST snapshots one without.
ChannelFrame ==
    /\ Attended
    /\ PublicEvents /\ link # "down" /\ fault = "none" /\ events < MaxEvents
    /\ \E kind \in {"event", "rest"} : frames' = Append(frames, [kind |-> kind, id |-> now + Skew])
    /\ events' = events + 1
    /\ UNCHANGED <<now, said, link, channel, fault, drops, pc, clockVars, countVars, outVars,
                   open, stopVars, owned, woken>>

\* The channel feed's subscription is confirmed, before or after the chat's.
AcknowledgeChannel ==
    /\ Attended
    /\ PublicEvents /\ link # "down" /\ fault = "none" /\ ~channel
    /\ channel' = TRUE
    /\ frames' = Append(frames, [kind |-> "channelAck", id |-> 0])
    /\ UNCHANGED <<now, said, link, fault, events, drops, pc, clockVars, countVars, outVars,
                   open, stopVars, owned, woken>>

\* The connection is lost, answers with a protocol error, or is refused for good.
Drop ==
    /\ Attended
    /\ link # "down" /\ fault = "none" /\ drops < MaxDrops
    /\ fault' \in {"connection", "kick", "rejected"}
    /\ link' = "down" /\ channel' = FALSE
    /\ drops' = drops + 1
    /\ UNCHANGED <<now, said, frames, events, pc, clockVars, countVars, outVars, open,
                   stopVars, owned, woken>>

-----------------------------------------------------------------------------
(* _iter_preloaded_chat and the startup checkpoint.                        *)

StartupCheckpoint(newest) ==
    Greatest(IF newest = None THEN now ELSE Least(newest, now), now - Window)

\* The snapshot may be stale, or its request may fail.
Preload ==
    /\ pc = "preload"
    /\ \E shown \in 0..Len(said) :
         /\ emitted' = 1..shown
         /\ lastProvider' = IF shown = 0 THEN None ELSE said[shown]
    /\ startup' = StartupCheckpoint(lastProvider')
    /\ pc' = IF stopped THEN "finished" ELSE "create"
    /\ UNCHANGED <<providerVars, countVars, lastReceived, offset, pendingStartup,
                   pendingReconnect, gaps, incomplete, open, stopVars, owned, woken>>

-----------------------------------------------------------------------------
(* _open_subscribed_transport.                                             *)

\* control.transport is set before control.stopped is looked at.
Create ==
    /\ pc = "create"
    /\ owned' = TRUE /\ woken' = FALSE /\ open' = TRUE
    /\ pc' = "check"
    /\ UNCHANGED <<providerVars, clockVars, countVars, outVars, stopVars>>

CheckStopped ==
    /\ pc = "check"
    /\ pc' = IF stopped THEN "opened" ELSE "dial"
    /\ open' = (open /\ ~stopped)
    /\ UNCHANGED <<providerVars, clockVars, countVars, outVars, stopVars, owned, woken>>

\* connect(), subscribe() and set_timeout().  A stop seen after one of them closes
\* the transport, which the receive loop is then handed all the same.
Dial ==
    /\ pc = "dial" /\ ~woken
    /\ link' = "up" /\ channel' = FALSE /\ fault' = "none" /\ frames' = <<>>
    /\ open' = ~stopped
    /\ attempt' = 1
    /\ pc' = "opened"
    /\ UNCHANGED <<now, said, events, drops, failures, recoveries, clockVars, outVars,
                   stopVars, owned, woken>>

\* downloader.retry(): another attempt, or RetriesExceeded.
DialFails ==
    /\ pc = "dial" /\ (woken \/ drops < MaxDrops)
    /\ drops' = IF woken THEN drops ELSE drops + 1
    /\ open' = FALSE
    /\ attempt' = IF attempt < MaxAttempts THEN attempt + 1 ELSE attempt
    /\ pc' = IF stopped THEN "opened" ELSE IF attempt < MaxAttempts THEN "create" ELSE "exceeded"
    /\ UNCHANGED <<now, said, link, channel, fault, frames, events, failures, recoveries,
                   clockVars, outVars, stopVars, owned, woken>>

\* Any other error ends the capture.
DialRejected ==
    /\ pc = "dial" /\ drops < MaxDrops
    /\ drops' = drops + 1
    /\ open' = FALSE
    /\ pc' = "rejected"
    /\ UNCHANGED <<now, said, link, channel, fault, frames, events, countVars, clockVars,
                   outVars, stopVars, owned, woken>>

\* The transport is published again, and the loop looks at control.stopped.
Opened ==
    /\ pc = "opened"
    /\ owned' = TRUE
    /\ pc' = IF stopped THEN "finished" ELSE "stream"
    /\ open' = (open /\ ~stopped)
    /\ UNCHANGED <<providerVars, clockVars, countVars, outVars, stopVars, woken>>

-----------------------------------------------------------------------------
(* The receive loop.                                                       *)

\* While it waits in a receive the loop does not see the flag: only the next
\* frame, or an error, ends the wait.
StreamStopped ==
    /\ pc = "stream" /\ stopped /\ frames # <<>>
    /\ pc' = "finished"
    /\ open' = FALSE
    /\ UNCHANGED <<providerVars, clockVars, countVars, outVars, stopVars, owned, woken>>

Confirms(frame) == frame.kind \in {"ack", "text"}

\* dispatch_event() returns a message.
IsMessage(frame) == frame.kind \in {"text", "event", "rest"}

HasTime(frame) == frame.kind \in {"text", "event"}
TimeOf(frame) == IF frame.kind = "text" THEN said[frame.id] ELSE frame.id

\* An application frame that shows progress on this connection.
Progress(frame) == frame.kind \in {"text", "event"}

\* provider_clock_offset after this frame.
OffsetAfter(frame) ==
    IF ~HasTime(frame) THEN offset
    ELSE LET observed == TimeOf(frame) - now IN
         IF observed \in -Window..Window THEN observed ELSE 0

WindowEnd(off) == Least(now, now + off)
QueryEnd(off) == Greatest(now, now + off)

\* A checkpoint in the future of the local clock cannot be compared with it.
\* (record_frame() makes every receive time later than the one before it.)
Checkpoint ==
    IF lastProvider # None THEN (IF lastProvider >= now THEN None ELSE lastProvider)
    ELSE lastReceived

\* The window's floor is taken on the local clock alone.
BackfillStart_LocalFloor(off) ==
    IF pendingStartup THEN startup
    ELSE IF Checkpoint = None THEN now - Window ELSE Greatest(Checkpoint, now - Window)

\* _bounded_reconnect_start(), and startup's own start.
BackfillStart(off) ==
    IF pendingStartup THEN startup
    ELSE IF Checkpoint = None \/ (Checkpoint # None /\ Checkpoint >= WindowEnd(off))
    THEN WindowEnd(off) - Window
    ELSE Greatest(Checkpoint, WindowEnd(off) - Window)

\* record_backfill_gap(): part of the outage is before the recovery floor.
Truncated(off) ==
    ~pendingStartup /\ Checkpoint # None /\ Checkpoint < WindowEnd(off) - Window

\* _iter_reconnect_backfill(): the history between two times, or, when it fails
\* on the way, the newest part of it.  The preload it is reconciled with shows
\* nothing that a complete history does not.
History(first, last) == {m \in DOMAIN said : said[m] \in first..last}

Found(off) == History(BackfillStart(off), QueryEnd(off))

\* The messages a frame itself carries.
Carried(frame) == IF frame.kind = "text" THEN {frame.id} ELSE {}

\* The recovery a confirming frame starts, and what it finds.
Due(frame) == (pendingStartup \/ pendingReconnect) /\ Confirms(frame)

Recover(frame, found) ==
    IF ~Due(frame) THEN found = {} /\ UNCHANGED incomplete
    ELSE \/ found = Found(OffsetAfter(frame)) /\ UNCHANGED incomplete
         \/ found \in SUBSET Found(OffsetAfter(frame)) /\ incomplete' = incomplete + 1

\* One frame: recovery if it is due and this frame confirms it, then the
\* message the frame carries.
ReadFrame ==
    /\ pc = "stream" /\ ~stopped /\ frames # <<>>
    /\ LET frame == Head(frames) IN
       /\ frames' = Tail(frames)
       /\ failures' = IF Progress(frame) THEN 0 ELSE failures
       /\ recoveries' = IF Progress(frame) THEN 0 ELSE recoveries
       /\ offset' = OffsetAfter(frame)
       /\ \E found \in SUBSET DOMAIN said :
            /\ Recover(frame, found)
            /\ emitted' = emitted \cup found \cup Carried(frame)
            /\ LET times == {said[m] : m \in found}
                              \cup (IF HasTime(frame) THEN {TimeOf(frame)} ELSE {}) IN
               lastProvider' = IF times = {} THEN lastProvider
                               ELSE Newest(lastProvider, Max(times))
       /\ gaps' = IF Due(frame) /\ Truncated(OffsetAfter(frame)) THEN gaps + 1 ELSE gaps
       /\ pendingStartup' = (pendingStartup /\ ~Due(frame))
       /\ pendingReconnect' = (pendingReconnect /\ ~Due(frame))
       /\ lastReceived' = IF IsMessage(frame) THEN now ELSE lastReceived
    /\ UNCHANGED <<now, said, link, channel, fault, events, drops, pc, attempt, startup, open,
                   stopVars, owned, woken>>

\* The error a transport raises once its frames are read, or when it was woken.
Failure == IF woken THEN "connection" ELSE fault

ReadFails ==
    /\ pc = "stream" /\ (woken \/ (frames = <<>> /\ fault # "none"))
    /\ open' = FALSE
    /\ link' = "down" /\ channel' = FALSE /\ fault' = "none" /\ frames' = <<>>
    /\ IF stopped THEN pc' = "finished" /\ UNCHANGED <<countVars, pendingReconnect>>
       ELSE CASE Failure = "rejected" ->
                   pc' = "rejected" /\ UNCHANGED <<countVars, pendingReconnect>>
              [] Failure = "kick" ->
                   /\ recoveries' = recoveries + 1
                   /\ pc' = IF recoveries' > 1 \/ recoveries' >= MaxAttempts
                            THEN "exceeded" ELSE "create"
                   /\ pendingReconnect' = TRUE /\ attempt' = 1
                   /\ UNCHANGED failures
              [] OTHER ->
                   /\ failures' = failures + 1
                   /\ pc' = IF failures' >= MaxAttempts THEN "exceeded" ELSE "create"
                   /\ pendingReconnect' = TRUE /\ attempt' = 1
                   /\ UNCHANGED recoveries
    /\ UNCHANGED <<now, said, events, drops, clockVars, emitted, gaps, incomplete,
                   pendingStartup, stopVars, owned, woken>>

-----------------------------------------------------------------------------
(* KickLiveIterator.request_stop, from another thread.                     *)

\* The transport is woken before the flag is set.
StopOrder_TransportFirst == <<"transport", "flag">>

StopOrder == <<"flag", "transport">>

RequestStop ==
    /\ stopper \in DOMAIN StopOrder
    /\ stopped' = (stopped \/ StopOrder[stopper] = "flag")
    /\ woken' = (woken \/ (StopOrder[stopper] = "transport" /\ owned))
    /\ stopper' = stopper + 1
    /\ UNCHANGED <<providerVars, pc, clockVars, countVars, outVars, open, owned>>

Consumer ==
    \/ Preload \/ Create \/ CheckStopped \/ Dial \/ DialFails \/ DialRejected \/ Opened
    \/ StreamStopped \/ ReadFrame \/ ReadFails

Provider == Tick \/ Say \/ Acknowledge \/ AcknowledgeChannel \/ ChannelFrame \/ Drop

Done == pc \in Ended /\ UNCHANGED vars

Next == Provider \/ Consumer \/ RequestStop \/ Done

\* The capture's thread runs on, and network calls return or time out; a stop
\* that was begun goes on to its second step.  Nobody has to ask for a stop, and
\* the provider has to do nothing.
Fairness == WF_vars(Consumer) /\ WF_vars(stopper > 1 /\ RequestStop)

Spec == Init /\ [][Next]_vars /\ Fairness

-----------------------------------------------------------------------------
(* Properties.                                                             *)

Span == Window + Horizon + Greatest(Skew, -Skew) + 1
Times == -Span..Span
Frame == [kind : {"text", "event", "rest", "ack", "channelAck"}, id : Int]

TypeOK ==
    /\ now \in 0..Horizon /\ said \in Seq(Times)
    /\ link \in {"down", "up", "chat"} /\ channel \in BOOLEAN
    /\ fault \in {"none", "connection", "kick", "rejected"}
    /\ frames \in Seq(Frame)
    /\ pc \in {"preload", "create", "check", "dial", "opened", "stream"} \cup Ended
    /\ attempt \in 1..MaxAttempts
    /\ failures \in 0..MaxAttempts /\ recoveries \in 0..2
    /\ {lastProvider, lastReceived, startup} \subseteq Times \cup {None}
    /\ (startup = None <=> pc = "preload")
    /\ offset \in -Window..Window
    /\ emitted \subseteq DOMAIN said
    /\ gaps + incomplete \in Nat
    /\ {pendingStartup, pendingReconnect, open, stopped, owned, woken} \subseteq BOOLEAN

\* What the capture has seen last: a provider's time, or failing that the time
\* it received a message.
Seen == IF pendingStartup THEN startup
        ELSE IF lastProvider # None THEN lastProvider ELSE lastReceived

\* When the chat feed's acknowledgement is read, everything said since the newest
\* message seen has been emitted: before that acknowledgement messages may still
\* be missed.  What was not is counted: an incomplete history, or an
\* outage that reaches beyond the window (which can only be told when something
\* was seen before it).
RecoversFromSeen ==
    [][\A m \in DOMAIN said :
         ( /\ frames # <<>> /\ Head(frames).kind = "ack" /\ frames' = Tail(frames)
           /\ pc = "stream" /\ pc' = pc
           /\ (Seen # None => said[m] >= Seen) )
         => \/ m \in emitted'
            \/ incomplete' > incomplete
            \/ said[m] < now - Window /\ (Seen = None \/ gaps' > gaps)]_vars

\* A stop ends the capture with its transport closed, wherever it was, although
\* the provider may stay silent for ever: a receive in progress is woken, and a
\* transport opened while the stop was being made is seen to be stopped.
StopEnds == stopped ~> (pc \in Ended /\ ~open)

\* The capture reads the chat and has read all of it.
CaughtUp ==
    pc = "stream" /\ link = "chat" /\ frames = <<>> /\ ~pendingStartup /\ ~pendingReconnect

\* docs/kick-integration-guide.md: reconnects are backfilled with a ten-second
\* baseline, and "Outages extending beyond the bounded recovery window" are
\* counted.  So a capture that has caught up, with no failed recovery and no
\* outage counted, has emitted everything said since it started.
OutagesRecoveredOrCounted ==
    CaughtUp /\ gaps = 0 /\ incomplete = 0
    => \A m \in DOMAIN said : said[m] >= startup => m \in emitted
=============================================================================
