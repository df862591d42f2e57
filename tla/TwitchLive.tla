----------------------------- MODULE TwitchLive -----------------------------
(***************************************************************************)
(* sites/twitch/live_service.py over irc_transport.py: one thread that     *)
(* looks the channel up, opens an IRC connection and joins, reads its      *)
(* lines, answers and sends PINGs, gives an idle connection up and         *)
(* reconnects; another thread that may stop it at any moment; Twitch and   *)
(* the network.                                                            *)
(*                                                                         *)
(* A connection delivers whole lines here, any number of them in one       *)
(* receive: IrcBuffer shows that it does not matter where chunks are cut.  *)
(*                                                                         *)
(* Time is kept as the age of what the code keeps as a monotonic time, up  *)
(* to the age at which it stops to matter.                                 *)
(***************************************************************************)
EXTENDS SeenCache, Integers

CONSTANTS
    Ids, NoId,     \* message IDs, and a message without one
    Wanted,        \* the IDs of the messages the filters let through
    SeenLimit,     \* _LIVE_SEEN_MESSAGE_LIMIT
    MaxAttempts,   \* request.max_attempts
    PingEvery, Idle,   \* _PING_INTERVAL_SECONDS, _IDLE_WATCHDOG_SECONDS
    ReceiveTimeout,    \* request.message_receive_timeout, at least one second
    Answer,            \* Twitch answers a PING within this time
    MaxLines, MaxDrops \* bounds

ASSUME TwitchAssumption ==
    /\ NoId \notin Ids /\ Wanted \subseteq Ids \cup {NoId}
    /\ SeenLimit \in Nat \ {0} /\ MaxAttempts \in Nat \ {0}
    /\ PingEvery \in Nat \ {0} /\ Idle \in Nat \ {0} /\ ReceiveTimeout \in Nat \ {0}
    /\ Answer \in Nat /\ MaxLines \in Nat /\ MaxDrops \in Nat

\* A PING that is sent one receive timeout after it became due is answered before
\* the watchdog's time is up: 60 s and 180 s leave two minutes for both.
ASSUME TimelyAnswer == PingEvery + ReceiveTimeout + Answer < Idle

VARIABLES
    \* Twitch and the network, as seen by the newest connection
    link,          \* "none", "up", "dead" (nothing arrives any more) or "reset"
    inbox,         \* lines that have arrived and were not received
    asked,         \* the age of our unanswered PING, or -1
    lines, drops,  \* lines sent, failures so far
    \* get_chat_messages_by_stream_id
    sinceReceive,  \* age of last_receive_time
    sincePing,     \* age of last_ping_time
    waited,        \* how long this receive has waited
    items,         \* the lines of the chunk that were not yet consumed
    \* get_chat_by_stream_id, iter_stream_chat_messages and create_connection
    pc,
    attempt,       \* attempt_number
    failures,      \* consecutive_connection_failures
    current,       \* twitch_chat_irc is open
    fresh,         \* the connection create_connection() works on is open
    seen,          \* seen_message_cache
    registered,    \* every identity it took for new, in order (for properties only)
    \* _TwitchLiveIterator
    stopped, stopper,
    owned,         \* control.irc is the newest connection
    woken          \* its socket was shut down by request_stop

linkVars == <<link, inbox, asked, lines, drops>>
timeVars == <<sinceReceive, sincePing, waited>>
cacheVars == <<seen, registered>>
socketVars == <<current, fresh, owned, woken>>
stopVars == <<stopped, stopper>>

vars == <<link, inbox, asked, lines, drops, sinceReceive, sincePing, waited, items, pc, attempt,
          failures, current, fresh, seen, registered, stopped, stopper, owned, woken>>

Ended == {"finished", "exceeded", "unknown"}

Init ==
    /\ link = "none" /\ inbox = <<>> /\ asked = -1 /\ lines = 0 /\ drops = 0
    /\ sinceReceive = 0 /\ sincePing = 0 /\ waited = 0 /\ items = <<>>
    /\ pc = "lookup" /\ attempt = 1 /\ failures = 0
    /\ current = FALSE /\ fresh = FALSE /\ seen = <<>> /\ registered = <<>>
    /\ stopped = FALSE /\ stopper = 1 /\ owned = FALSE /\ woken = FALSE

-----------------------------------------------------------------------------
(* Twitch and the network.                                                 *)

Message(id) == [kind |-> "message", id |-> id]
Control(kind) == [kind |-> kind, id |-> NoId]

\* Nobody but a receive looks at the connection's lines: what arrives earlier may
\* as well arrive then.
Deliver ==
    /\ pc = "recv" /\ link = "up" /\ lines < MaxLines
    /\ \E line \in {Message(id) : id \in Ids \cup {NoId}} \cup {Control("reconnect"), Control("ping")} :
         inbox' = Append(inbox, line)
    /\ lines' = lines + 1
    /\ UNCHANGED <<link, asked, drops, timeVars, items, pc, attempt, failures, socketVars,
                   cacheVars, stopVars>>

\* Only a receive, or the clock, is concerned with the state of the connection.
Attended == pc \in {"recv", "emit"} /\ link = "up"

AnswerPing ==
    /\ Attended /\ asked >= 0
    /\ inbox' = Append(inbox, Control("pong"))
    /\ asked' = -1
    /\ UNCHANGED <<link, lines, drops, timeVars, items, pc, attempt, failures, socketVars,
                   cacheVars, stopVars>>

\* The connection is reset, or the path to Twitch is lost without a word.
Break ==
    /\ Attended /\ drops < MaxDrops
    /\ link' \in {"dead", "reset"} /\ asked' = -1
    /\ drops' = drops + 1
    /\ UNCHANGED <<inbox, lines, timeVars, items, pc, attempt, failures, socketVars, cacheVars,
                   stopVars>>

Aged(age, limit) == IF age < limit THEN age + 1 ELSE age

\* Time passes while a receive waits and while the caller holds an item; the
\* program's own steps take none.
Tick ==
    /\ \/ pc = "recv" /\ inbox = <<>> /\ waited < ReceiveTimeout /\ ~woken /\ link # "reset"
       \/ pc = "emit"
    /\ asked < Answer
    /\ waited' = IF pc = "recv" THEN waited + 1 ELSE waited
    /\ sinceReceive' = Aged(sinceReceive, Idle)
    /\ sincePing' = Aged(sincePing, PingEvery + 1)
    /\ asked' = IF asked >= 0 THEN asked + 1 ELSE asked
    /\ UNCHANGED <<link, inbox, lines, drops, items, pc, attempt, failures, socketVars,
                   cacheVars, stopVars>>

-----------------------------------------------------------------------------
(* get_chat_by_stream_id: the channel's metadata, before anything live.    *)

\* No user: UserNotFound.
Lookup ==
    /\ pc = "lookup"
    /\ pc' \in {"connect", "unknown"}
    /\ attempt' = 1
    /\ UNCHANGED <<linkVars, timeVars, items, failures, socketVars, cacheVars, stopVars>>

LookupFails ==
    /\ pc = "lookup" /\ drops < MaxDrops
    /\ drops' = drops + 1
    /\ attempt' = IF attempt < MaxAttempts THEN attempt + 1 ELSE attempt
    /\ pc' = IF attempt < MaxAttempts THEN "lookup" ELSE "exceeded"
    /\ UNCHANGED <<link, inbox, asked, lines, timeVars, items, failures, socketVars, cacheVars,
                   stopVars>>

-----------------------------------------------------------------------------
(* create_connection.                                                      *)

\* irc_factory() connects and registers; nobody but this thread knows the new
\* connection yet.
Connect ==
    /\ pc = "connect" /\ ~stopped
    /\ link' = "up" /\ inbox' = <<>> /\ asked' = -1
    /\ fresh' = TRUE /\ owned' = FALSE /\ woken' = FALSE
    /\ pc' = "own"
    /\ UNCHANGED <<lines, drops, timeVars, items, attempt, failures, current, cacheVars, stopVars>>

ConnectStopped ==
    /\ pc = "connect" /\ stopped
    /\ pc' = "finished"
    /\ UNCHANGED <<linkVars, timeVars, items, attempt, failures, socketVars, cacheVars, stopVars>>

\* After an OSError: stopped, another attempt, or RetriesExceeded.
Retry ==
    /\ attempt' = IF attempt < MaxAttempts THEN attempt + 1 ELSE attempt
    /\ pc' = IF stopped THEN "finished" ELSE IF attempt < MaxAttempts THEN "connect" ELSE "exceeded"

\* The constructor closes its own socket.
ConnectFails ==
    /\ pc = "connect" /\ drops < MaxDrops
    /\ drops' = drops + 1
    /\ Retry
    /\ UNCHANGED <<link, inbox, asked, lines, timeVars, items, failures, socketVars, cacheVars,
                   stopVars>>

\* control.irc = irc.
Own ==
    /\ pc = "own"
    /\ owned' = TRUE
    /\ pc' = "check"
    /\ UNCHANGED <<linkVars, timeVars, items, attempt, failures, current, fresh, woken, cacheVars,
                   stopVars>>

\* check_stopped(): whoever stops sets the flag before it looks at control.irc.
CheckStopped ==
    /\ pc = "check"
    /\ pc' = IF stopped THEN "finished" ELSE "join"
    /\ fresh' = ~stopped
    /\ link' = IF stopped THEN "none" ELSE link
    /\ UNCHANGED <<inbox, asked, lines, drops, timeVars, items, attempt, failures, current, owned,
                   woken, cacheVars, stopVars>>

\* set_timeout(), join_channel() and check_stopped(); then the connection is
\* current and a new generator reads it.
Join ==
    /\ pc = "join" /\ ~woken
    /\ fresh' = FALSE /\ current' = ~stopped
    /\ pc' = IF stopped THEN "finished" ELSE "recv"
    /\ link' = IF stopped THEN "none" ELSE link
    /\ sinceReceive' = 0 /\ sincePing' = 0 /\ waited' = 0 /\ items' = <<>>
    /\ UNCHANGED <<inbox, asked, lines, drops, attempt, failures, owned, woken, cacheVars, stopVars>>

\* A JOIN that fails leaves the new connection open.
JoinFails_StaysOpen ==
    /\ pc = "join" /\ (woken \/ drops < MaxDrops)
    /\ drops' = IF woken THEN drops ELSE drops + 1
    /\ Retry
    /\ link' = "none"
    /\ UNCHANGED <<inbox, asked, lines, timeVars, items, failures, fresh, current, owned, woken,
                   cacheVars, stopVars>>

JoinFails ==
    /\ pc = "join" /\ (woken \/ drops < MaxDrops)
    /\ drops' = IF woken THEN drops ELSE drops + 1
    /\ fresh' = FALSE /\ link' = "none"
    /\ Retry
    /\ UNCHANGED <<inbox, asked, lines, timeVars, items, failures, current, owned, woken,
                   cacheVars, stopVars>>

-----------------------------------------------------------------------------
(* get_chat_messages_by_stream_id, and the loop over what it yields.       *)

\* Whether sending may succeed, or fail.
Sends(ok) == IF ok THEN ~woken ELSE woken \/ link = "reset"

\* One receive returns what has arrived; what a receive leaves behind may as well
\* arrive later.  Every PING in it is answered before anything in it is parsed.
Receive ==
    /\ pc = "recv" /\ inbox # <<>>
    /\ \E ok \in BOOLEAN :
         /\ IF \E k \in DOMAIN inbox : inbox[k].kind = "ping" THEN Sends(ok) ELSE ok
         /\ items' = IF ok THEN inbox ELSE <<>>
         /\ pc' = IF ok THEN "items" ELSE "lost"
    /\ inbox' = <<>>
    /\ UNCHANGED <<link, asked, lines, drops, timeVars, attempt, failures, socketVars, cacheVars,
                   stopVars>>

\* End of file, or an error, at once or after what had arrived.
ReceiveFails ==
    /\ pc = "recv" /\ (woken \/ link = "reset")
    /\ pc' = "lost" /\ inbox' = <<>>
    /\ UNCHANGED <<link, asked, lines, drops, timeVars, items, attempt, failures, socketVars, cacheVars, stopVars>>

\* A chunk with nothing but a part of a multi-byte character in it decodes to the
\* empty text, as the end of the file does.
ReceivePartial ==
    /\ pc = "recv" /\ inbox = <<>> /\ link = "up" /\ ~woken /\ lines < MaxLines
    /\ lines' = lines + 1
    /\ pc' = "lost"
    /\ UNCHANGED <<link, inbox, asked, drops, timeVars, items, attempt, failures, socketVars,
                   cacheVars, stopVars>>

\* The two intervals are mixed up.
KeepaliveDue_Idle == sincePing >= Idle

\* _should_send_keepalive()
KeepaliveDue == sincePing > PingEvery

\* _maybe_send_keepalive(): whether it went well.
Keepalive(ok) ==
    /\ IF KeepaliveDue THEN Sends(ok) ELSE ok
    /\ sincePing' = IF KeepaliveDue /\ ok THEN 0 ELSE sincePing
    /\ asked' = IF KeepaliveDue /\ ok /\ link = "up" /\ asked < 0 THEN 0 ELSE asked

\* The watchdog measures from the last PING.
Expired_SincePing == sincePing >= Idle

Expired == sinceReceive >= Idle

\* A receive that times out: keepalive, then the watchdog.
ReceiveTimesOut ==
    /\ pc = "recv" /\ inbox = <<>> /\ waited = ReceiveTimeout /\ ~woken /\ link # "reset"
    /\ waited' = 0
    /\ \E ok \in BOOLEAN :
         /\ Keepalive(ok)
         /\ pc' = IF ok /\ ~Expired THEN "recv" ELSE "lost"
    /\ UNCHANGED <<link, inbox, lines, drops, sinceReceive, items, attempt, failures, socketVars,
                   cacheVars, stopVars>>

\* All items of the chunk have been consumed.
ChunkEnds ==
    /\ pc = "items" /\ items = <<>>
    /\ sinceReceive' = 0 /\ waited' = 0
    /\ \E ok \in BOOLEAN :
         /\ Keepalive(ok)
         /\ pc' = IF ok THEN "recv" ELSE "lost"
    /\ UNCHANGED <<link, inbox, lines, drops, items, attempt, failures, socketVars, cacheVars,
                   stopVars>>

\* The generator that reads the connection is gone with its local variables, and
\* the connection closed.
Forget ==
    /\ current' = FALSE /\ items' = <<>>
    /\ sinceReceive' = 0 /\ sincePing' = 0 /\ waited' = 0
    /\ link' = "none" /\ inbox' = <<>> /\ asked' = -1

\* The outer generator is closed: its finally closes the current connection.
Finish ==
    /\ pc' = "finished"
    /\ Forget
    /\ UNCHANGED <<lines, drops, attempt, failures, fresh, owned, woken, cacheVars, stopVars>>

\* MESSAGE_REGEX does not match a PING or a PONG: no item.
PassOver ==
    /\ pc = "items" /\ items # <<>>
    /\ Head(items).kind \in {"ping", "pong"}
    /\ items' = Tail(items)
    /\ UNCHANGED <<linkVars, timeVars, pc, attempt, failures, socketVars, cacheVars, stopVars>>

\* check_stopped() at the head of the loop over the items.
ItemStopped ==
    /\ pc = "items" /\ items # <<>> /\ stopped
    /\ Head(items).kind \in {"message", "reconnect"}
    /\ Finish

\* The server asks for a reconnect; what follows in the chunk is dropped.
ReconnectRequested ==
    /\ pc = "items" /\ items # <<>> /\ ~stopped
    /\ Head(items).kind = "reconnect"
    /\ pc' = "lost"
    /\ UNCHANGED <<linkVars, timeVars, items, attempt, failures, socketVars, cacheVars, stopVars>>

\* _is_duplicate_live_message()
Duplicate(id) == id # NoId /\ Known(seen, id)

\* Any other item shows progress: a new failure streak begins.  A duplicate or a
\* message the filters refuse is passed over, another one yielded.
ReadItem ==
    /\ pc = "items" /\ items # <<>> /\ ~stopped
    /\ Head(items).kind = "message"
    /\ failures' = 0
    /\ LET id == Head(items).id IN
       /\ seen' = IF id = NoId THEN seen ELSE Registered(seen, id, SeenLimit)
       /\ registered' = IF id = NoId \/ Duplicate(id) THEN registered ELSE Append(registered, id)
       /\ pc' = IF id \in Wanted /\ ~Duplicate(id) THEN "emit" ELSE "items"
    /\ items' = Tail(items)
    /\ UNCHANGED <<linkVars, timeVars, attempt, socketVars, stopVars>>

\* The caller asks for the next item.
Resume ==
    /\ pc = "emit" /\ ~stopped
    /\ pc' = "items"
    /\ UNCHANGED <<linkVars, timeVars, items, attempt, failures, socketVars, cacheVars, stopVars>>

\* After a stop __next__ raises StopIteration and the idle generator is closed.
CloseIdle ==
    /\ pc = "emit" /\ stopped
    /\ Finish

\* wait_for_reconnect(): no more reconnects.
StreakSpent(n) == n >= MaxAttempts

\* The connection is closed; then check_stopped() and wait_for_reconnect().
Lost ==
    /\ pc = "lost"
    /\ Forget
    /\ failures' = IF stopped THEN failures ELSE failures + 1
    /\ attempt' = 1
    /\ pc' = IF stopped THEN "finished" ELSE IF StreakSpent(failures + 1) THEN "exceeded" ELSE "connect"
    /\ UNCHANGED <<lines, drops, fresh, owned, woken, cacheVars, stopVars>>

-----------------------------------------------------------------------------
(* _TwitchLiveIterator.request_stop, from another thread.                  *)

\* The socket is shut down before the flag is set.
StopOrder_SocketFirst == <<"socket", "flag">>

StopOrder == <<"flag", "socket">>

\* There is an iterator to stop once the metadata is there.
RequestStop ==
    /\ pc # "lookup" /\ stopper \in DOMAIN StopOrder
    /\ stopped' = (stopped \/ StopOrder[stopper] = "flag")
    /\ woken' = (woken \/ (StopOrder[stopper] = "socket" /\ owned /\ (fresh \/ current)))
    /\ stopper' = stopper + 1
    /\ UNCHANGED <<linkVars, timeVars, items, pc, attempt, failures, current, fresh, owned, cacheVars>>

\* A partial character is received when Twitch sends one.
Provider == Deliver \/ ReceivePartial \/ AnswerPing \/ Break

Reader ==
    \/ Lookup \/ LookupFails \/ Connect \/ ConnectStopped \/ ConnectFails \/ Own \/ CheckStopped
    \/ Join \/ JoinFails \/ Receive \/ ReceiveFails \/ ReceiveTimesOut \/ ChunkEnds \/ PassOver
    \/ ItemStopped \/ ReconnectRequested \/ ReadItem \/ CloseIdle \/ Lost

Done == pc \in Ended /\ UNCHANGED vars

Next == Provider \/ Tick \/ Reader \/ Resume \/ RequestStop \/ Done

\* The thread runs on, time passes, and a stop that was begun goes on to its
\* second step.  Nobody has to ask for a stop, or for the next item; Twitch does
\* not have to send anything.
Fairness == WF_vars(Reader) /\ WF_vars(Tick) /\ WF_vars(stopper > 1 /\ RequestStop)

Spec == Init /\ [][Next]_vars /\ Fairness

-----------------------------------------------------------------------------
(* Properties.                                                             *)

Line == [kind : {"message", "reconnect", "ping", "pong"}, id : Ids \cup {NoId}]

TypeOK ==
    /\ link \in {"none", "up", "dead", "reset"} /\ inbox \in Seq(Line) /\ items \in Seq(Line)
    /\ asked \in -1..Answer /\ lines \in 0..MaxLines /\ drops \in 0..MaxDrops
    /\ sinceReceive \in 0..Idle /\ sincePing \in 0..(PingEvery + 1) /\ waited \in 0..ReceiveTimeout
    /\ pc \in {"lookup", "connect", "own", "check", "join", "recv", "items", "emit", "lost"} \cup Ended
    /\ attempt \in 1..MaxAttempts /\ failures \in 0..MaxAttempts
    /\ current \in BOOLEAN /\ fresh \in BOOLEAN /\ owned \in BOOLEAN /\ woken \in BOOLEAN
    /\ stopped \in BOOLEAN /\ stopper \in 1..3
    /\ seen \in Seq(Ids) /\ Len(seen) <= SeenLimit /\ registered \in Seq(Ids)

\* A message ID is taken for new a second time only after as many other IDs were
\* registered as the cache remembers, also across reconnects: the provider's
\* repetitions within that distance are suppressed.
NoEarlyRepeat ==
    \A i, j \in DOMAIN registered :
        i < j /\ registered[i] = registered[j] => j - i > SeenLimit

\* A receive that gets nothing gives the connection up only if nothing can arrive
\* on it any more: when Twitch is merely quiet, the answer to our own PING is there
\* before the watchdog's time is up.
IdleMeansDead == [][pc = "recv" /\ pc' = "lost" /\ lines' = lines => woken \/ link # "up"]_vars

\* "Preserve valid multibyte characters across chunks" (recv()): no receive gives a
\* living connection up, wherever the chunks are cut.
LivingKept == [][pc = "recv" /\ pc' = "lost" => woken \/ link # "up"]_vars

\* A new connection is opened only after the one before it was closed, and no
\* connection is left open when the capture has ended, whatever failed or stopped it.
OneSocket == ~(current /\ fresh) /\ (pc \in Ended \cup {"connect", "lookup"} => ~current /\ ~fresh)

\* A stop ends the capture although Twitch may stay silent for ever: a receive in
\* progress is woken, and a connection made meanwhile is seen to be stopped.
StopEnds == stopped ~> pc \in Ended

\* A connection that has died without a word is given up, unless the caller
\* keeps an item for ever.
DeadLinkLeft == []<>(link # "dead" \/ pc = "emit")
=============================================================================
