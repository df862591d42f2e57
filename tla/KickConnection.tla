---------------------------- MODULE KickConnection ----------------------------
(***************************************************************************)
(* sites/kick/realtime_connection.py, centrifugo_transport.py, the framing *)
(* of websocket_transport.py and _NegotiatedPusherTransport: one anonymous *)
(* connection to Kick's realtime feed, from its negotiation to its end,    *)
(* read by one thread.  Time is counted in ticks; a deadline is what is    *)
(* left of it, and Never for infinity.                                     *)
(***************************************************************************)
EXTENDS KickClient, Sequences, FiniteSets, SequencesExt

CONSTANTS
    Offers,        \* lists of descriptors: "pusher", "centrifugo" or "unusable"
    Feeds,         \* the feeds to subscribe to
    Terms,         \* how long the provider's tokens last (0: not at all; NoLease: for ever), and
                   \* whether it wants its pings answered
    NoLease,
    AckTimeout,    \* _ack_timeout, and the 10 s of a Pusher subscription
    DefaultBeat,   \* the 180 s of _heartbeat_seconds
    Grace,         \* the 10 s that are added to the ping interval
    PingEvery,     \* ping: what the provider announces
    IdleTimeout,   \* _IDLE_WATCHDOG_SECONDS
    Latency,       \* the provider's, for an answer
    TokenTime,     \* the most a token request takes
    MaxHolds,      \* bound: how often a full queue holds the reader back, for a tick, before
                   \* it has caught up with the provider again
    MaxWire,       \* bound: lines under way
    MaxFaults      \* bound: faults of the provider's

ASSUME LinkAssumption ==
    /\ \A offer \in Offers : offer \in Seq({"pusher", "centrifugo", "unusable"})
    /\ {"connect", "refresh", "unknown"} \cap Feeds = {}
    /\ NoLease \in Int /\ NoLease < 0
    /\ Terms \subseteq [ttl : Nat \cup {NoLease}, pong : BOOLEAN]
    /\ {AckTimeout, DefaultBeat, Grace, PingEvery, IdleTimeout, Latency, TokenTime, MaxHolds} \subseteq Nat

VARIABLES
    at,         \* where the reader is
    ending,     \* how it ended: ConnectionError ("lost"), another error ("refused"), a timeout of its own
    kind,       \* the provider that was selected
    commands,   \* _commands, _pending_subscriptions: what is left of each deadline
    frames,     \* _frames, and the frame that recv() is about to return
    timers,     \* _refresh_at, _heartbeat_at and last_activity
    lease,      \* _heartbeat_seconds, _pong_required
    spent,      \* ticks in the present wait
    wire,       \* lines the provider sent that are not read
    server,     \* the provider's side
    taken,      \* history: the publication that was handed over last
    since,      \* history: ticks since anything was read, and since a frame was handed over
    holds

linkVars == <<at, ending, kind, commands, frames, timers, lease, spent, wire, server, taken, since, holds>>

Never == -1
Round == 3      \* publications are numbered in a circle that is longer than what is under way
NoCommands == [c \in {} |-> 0]
Without(f, c) == [d \in DOMAIN f \ {c} |-> f[d]]
With(f, cs, v) == [d \in DOMAIN f \cup cs |-> IF d \in cs THEN v ELSE f[d]]
Less(t) == IF t > 0 THEN t - 1 ELSE t
Due(t) == t = 0

\* How many of the first k lines are publications.
Upto(lines, k) == Cardinality({j \in 1..k : lines[j].what = "pub"})

Line(what, of) == [what |-> what, of |-> of]

LinkInit ==
    /\ at = "negotiating" /\ ending = "" /\ kind = "" /\ commands = NoCommands /\ frames = <<>>
    /\ timers = [refresh |-> Never, beat |-> Never, idle |-> IdleTimeout]
    /\ lease = [beat |-> DefaultBeat, pong |-> FALSE]
    /\ spent = 0 /\ wire = <<>> /\ taken = 0 /\ since = [read |-> 0, frame |-> 0] /\ holds = 0
    /\ server = [mode |-> "well", asked |-> NoCommands, ttl |-> NoLease, pong |-> TRUE, lease |-> Never, ping |-> Never,
                 owed |-> FALSE, said |-> 0, faults |-> 0, live |-> FALSE, threwOut |-> FALSE]

Leave(how) ==
    /\ at' = "ended" /\ ending' = how
    /\ UNCHANGED <<kind, commands, frames, timers, lease, spent, wire, server, taken, since, holds>>

\* What a failed request means to the reader: KickServerError becomes a
\* ConnectionError, any other refusal is passed on.
Refused(outcome) == Leave(IF outcome = "retry" THEN "lost" ELSE "refused")

-----------------------------------------------------------------------------
(* Negotiation and set-up, by the owner.                                   *)

\* parse_connection(): the first connection of a public provider whose address is usable.
Usable(offer) == {n \in DOMAIN offer : offer[n] # "unusable"}

Selected(offer) == offer[Min(Usable(offer))]

Negotiate ==
    /\ at = "negotiating"
    /\ \E outcome \in Outcomes("realtime"), offer \in Offers :
         IF outcome # "ok" \/ Usable(offer) = {}
         THEN Refused(IF outcome = "ok" THEN "refused" ELSE outcome)
         ELSE /\ kind' = Selected(offer) /\ at' = "opening"
              /\ UNCHANGED <<ending, commands, frames, timers, lease, spent, wire, server, taken, since, holds>>

\* connect(): a Pusher connection needs no token; on a Centrifugo connection the
\* heartbeat runs from here, also while the token is asked for.
OpenSocket ==
    /\ at = "opening"
    /\ \/ Leave("lost")
       \/ /\ at' = IF kind = "pusher" THEN "subscribing" ELSE "connecting"
          /\ timers' = IF kind = "pusher" THEN timers ELSE [timers EXCEPT !.beat = DefaultBeat]
          /\ IF kind = "pusher" THEN server' = [server EXCEPT !.ping = PingEvery]
             ELSE \E terms \in Terms : server' = [server EXCEPT !.ttl = terms.ttl, !.pong = terms.pong]
          /\ spent' = 0
          /\ UNCHANGED <<ending, kind, commands, frames, lease, wire, taken, since, holds>>

\* _command(): the deadline runs before the command is sent.  The provider takes a
\* token when it arrives, and answers later.
Sent(cs) ==
    /\ commands' = With(commands, cs, AckTimeout)
    /\ server' = IF server.mode # "well" THEN server
                 ELSE [server EXCEPT !.asked = With(@, cs, Latency),
                                     !.lease = IF cs = Feeds THEN @ ELSE server.ttl]

\* connection_token() for connect().
Connect ==
    /\ at = "connecting"
    /\ \E outcome \in Outcomes("realtime") :
         IF outcome # "ok" THEN Refused(outcome)
         ELSE /\ Sent({"connect"})
              /\ at' = "subscribing" /\ spent' = 0
              /\ UNCHANGED <<ending, kind, frames, timers, lease, wire, taken, since, holds>>

\* subscribe_channels() and settimeout(); then the reader starts, and its idle time.
Subscribe ==
    /\ at = "subscribing"
    /\ Sent(Feeds)
    /\ at' = "receiving"
    /\ timers' = [timers EXCEPT !.idle = IdleTimeout]
    /\ since' = [read |-> 0, frame |-> 0]
    /\ UNCHANGED <<ending, kind, frames, lease, spent, wire, taken, holds>>

-----------------------------------------------------------------------------
(* The reader: read_frames() over recv().                                  *)

\* A ping is answered before it is handed over, on a Centrifugo connection if the
\* provider wants it answered.  The queue may be full then.
HandOver ==
    /\ at = "receiving" /\ frames # <<>>
    /\ frames' = Tail(frames)
    /\ LET frame == Head(frames)
       IN  /\ taken' = IF frame.what = "pub" THEN frame.of ELSE taken
           /\ server' = IF frame.what = "ping" /\ (kind = "pusher" \/ lease.pong)
                        THEN [server EXCEPT !.owed = FALSE] ELSE server
    /\ timers' = [timers EXCEPT !.idle = IdleTimeout]
    /\ since' = [since EXCEPT !.frame = 0]
    /\ spent' = 0
    /\ \/ at' = "receiving" /\ UNCHANGED holds
       \/ holds < MaxHolds /\ holds' = holds + 1 /\ at' = "held"
    /\ UNCHANGED <<ending, kind, commands, lease, wire>>

Released ==
    /\ at = "held" /\ spent = 1
    /\ at' = "receiving"
    /\ UNCHANGED <<ending, kind, commands, frames, timers, lease, spent, wire, server, taken, since, holds>>

Overdue == (kind = "centrifugo" /\ Due(timers.beat)) \/ \E c \in DOMAIN commands : Due(commands[c])

TimesOut ==
    /\ at = "receiving" /\ frames = <<>> /\ Overdue
    /\ Leave("silent")

StartRead ==
    /\ at = "receiving" /\ frames = <<>> /\ ~Overdue
    /\ at' = IF Due(timers.refresh) THEN "renewing" ELSE "reading"
    /\ timers' = IF Due(timers.refresh) THEN [timers EXCEPT !.refresh = Never] ELSE timers
    /\ spent' = 0
    /\ UNCHANGED <<ending, kind, commands, frames, lease, wire, server, taken, since, holds>>

\* The reader goes on to read, without another look at the deadlines.
Renew ==
    /\ at = "renewing"
    /\ \E outcome \in Outcomes("realtime") :
         IF outcome # "ok" THEN Refused(outcome)
         ELSE /\ Sent({"refresh"})
              /\ at' = "reading" /\ spent' = 0
              /\ UNCHANGED <<ending, kind, frames, timers, lease, wire, taken, since, holds>>

\* recv() returned nothing: the idle watchdog.
NoFrame(idle) == IF Due(idle) THEN at' = "ended" /\ ending' = "silent" ELSE at' = "receiving" /\ UNCHANGED ending

ReadNothing ==
    /\ at = "reading" /\ wire = <<>> /\ spent = 1
    /\ NoFrame(timers.idle)
    /\ UNCHANGED <<kind, commands, frames, timers, lease, spent, wire, server, taken, since, holds>>

\* The connection was closed: what was read before it is not lost.
ReadClosed ==
    /\ at = "reading" /\ wire # <<>> /\ Head(wire).what = "eof"
    /\ Leave("lost")

\* _lease(): renewed when four fifths of it have passed.
Refresh_Late(old) == IF server.ttl = NoLease THEN old ELSE server.ttl
Refresh(old) == IF server.ttl = NoLease THEN old ELSE (server.ttl * 4) \div 5

Fails(st, line) == [st EXCEPT !.end = IF line.what \in {"denied", "closedForGood"} THEN "refused" ELSE "lost"]

\* _reply(): an answer to a command that waits for one.
Reply(st, line) ==
    LET over == [st EXCEPT !.commands = Without(@, line.of)]
        shown == [over EXCEPT !.frames = Append(@, line)]
    IN  IF line.of \notin DOMAIN st.commands \/ line.what # "ack" THEN Fails(st, line)
        ELSE CASE line.of \in Feeds -> shown
          [] line.of \notin Feeds /\ server.ttl = 0 -> Fails(st, line)
          [] line.of = "connect" /\ server.ttl # 0 ->
               [shown EXCEPT !.timers.refresh = Refresh(@), !.timers.beat = PingEvery + Grace,
                             !.lease = [beat |-> PingEvery + Grace, pong |-> server.pong]]
          [] line.of = "refresh" /\ server.ttl # 0 -> [over EXCEPT !.timers.refresh = Refresh(@)]

Answers == {"ack", "temporary", "denied", "empty"}

\* _decode(): a line at a time, up to the first that ends the connection.
Decoded(st, line) ==
    CASE st.end # "" -> st
      [] st.end = "" /\ line.what = "bad" -> st
      [] st.end = "" /\ line.what \in {"ping", "pub"} -> [st EXCEPT !.frames = Append(@, line)]
      [] st.end = "" /\ line.what \in Answers -> Reply(st, line)
      [] st.end = "" /\ line.what \in {"closed", "closedForGood"} -> Fails(st, line)

\* A Pusher frame is one line; its answers are handed over, whatever they answer.
DecodedPusher(st, line) ==
    IF line.what = "bad" THEN st
    ELSE [st EXCEPT !.frames = Append(@, line),
                    !.commands = IF line.what = "ack" THEN Without(@, line.of) ELSE @]

\* Anything that is read restarts the heartbeat.
Batch(n) ==
    LET st == [commands |-> commands, frames |-> <<>>, end |-> "", lease |-> lease,
               timers |-> IF kind = "centrifugo" THEN [timers EXCEPT !.beat = lease.beat] ELSE timers]
    IN  IF kind = "centrifugo" THEN FoldLeft(Decoded, st, SubSeq(wire, 1, n)) ELSE DecodedPusher(st, wire[1])

Read ==
    /\ at = "reading"
    /\ \E n \in 1..(IF kind = "centrifugo" THEN Len(wire) ELSE Min({1, Len(wire)})) :
         /\ \A k \in 1..n : wire[k].what # "eof"
         /\ LET st == Batch(n)
            IN  IF st.end # "" THEN Leave(st.end)
                ELSE /\ commands' = st.commands /\ frames' = st.frames
                     /\ timers' = st.timers /\ lease' = st.lease
                     /\ wire' = SubSeq(wire, n + 1, Len(wire))
                     /\ since' = [since EXCEPT !.read = 0]
                     /\ IF st.frames = <<>> THEN NoFrame(timers.idle)
                        ELSE at' = "receiving" /\ UNCHANGED ending
                     /\ UNCHANGED <<kind, spent, server, taken, holds>>

-----------------------------------------------------------------------------
(* Time and the provider.                                                  *)

Waits ==
    \/ at = "reading" /\ wire = <<>> /\ spent = 0
    \/ at \in {"connecting", "renewing"} /\ spent < TokenTime
    \/ at = "held" /\ spent = 0

Prompt == server.mode = "well" => /\ ~Due(server.ping) /\ ~Due(server.lease)
                                  /\ \A c \in DOMAIN server.asked : ~Due(server.asked[c])

Most == 2 * IdleTimeout    \* the history counts no further

TimePasses ==
    /\ Waits /\ Prompt
    /\ spent' = spent + 1
    /\ timers' = [t \in DOMAIN timers |-> Less(timers[t])]
    /\ commands' = [c \in DOMAIN commands |-> Less(commands[c])]
    /\ server' = [server EXCEPT !.ping = Less(@), !.lease = Less(@),
                                !.asked = [c \in DOMAIN @ |-> Less(@[c])]]
    /\ since' = [s \in DOMAIN since |-> Min({since[s] + 1, Most})]
    /\ holds' = IF at = "reading" THEN 0 ELSE holds
    /\ UNCHANGED <<at, ending, kind, frames, lease, wire, taken>>

Sends(line) ==
    /\ at \notin {"negotiating", "opening", "ended"} /\ server.mode = "well" /\ Len(wire) < MaxWire
    /\ wire' = Append(wire, line)
    /\ UNCHANGED <<at, ending, kind, commands, frames, timers, lease, spent, taken, since, holds>>

\* Centrifugo connects before it does anything else.
Answer ==
    \E c \in DOMAIN server.asked :
      /\ c # "connect" => "connect" \notin DOMAIN server.asked
      /\ Sends(Line("ack", c))
      /\ server' = [server EXCEPT !.asked = Without(@, c), !.live = @ \/ c \in Feeds,
                                  !.ping = IF c = "connect" THEN PingEvery ELSE @]

Publish ==
    /\ server.live /\ Upto(frames \o wire, Len(frames \o wire)) < Round - 1
    /\ LET n == (server.said + 1) % Round
       IN  Sends(Line("pub", n)) /\ server' = [server EXCEPT !.said = n]

\* Who has not answered the last ping by the next is thrown out.
Ping ==
    /\ Due(server.ping)
    /\ IF server.pong /\ server.owed
       THEN Sends(Line("closed", 0)) /\ server' = [server EXCEPT !.mode = "silent", !.threwOut = TRUE]
       ELSE Sends(Line("ping", 0)) /\ server' = [server EXCEPT !.ping = PingEvery, !.owed = TRUE]

Expire ==
    /\ Due(server.lease) /\ server.ttl > 0
    /\ Sends(Line("closed", 0))
    /\ server' = [server EXCEPT !.mode = "silent", !.threwOut = TRUE]

\* Lines that nothing asked for or that cannot be read; answers that refuse; the end
\* of the connection, with and without words; a provider that goes still, or talks
\* rubbish and nothing else.
Misbehave ==
    /\ server.faults < MaxFaults
    /\ \/ Sends(Line("bad", 0)) /\ server' = [server EXCEPT !.faults = @ + 1]
       \/ Sends(Line("ack", "unknown")) /\ server' = [server EXCEPT !.faults = @ + 1]
       \/ /\ kind = "centrifugo"
          /\ \E c \in DOMAIN server.asked, what \in Answers \ {"ack"} :
               /\ Sends(Line(what, c))
               /\ server' = [server EXCEPT !.faults = @ + 1, !.asked = Without(@, c)]
       \/ /\ kind = "centrifugo"
          /\ \E what \in {"closed", "closedForGood"} : Sends(Line(what, 0))
          /\ server' = [server EXCEPT !.faults = @ + 1, !.mode = "silent"]
       \/ Sends(Line("eof", 0)) /\ server' = [server EXCEPT !.faults = @ + 1, !.mode = "silent"]
       \/ /\ server.mode = "well" /\ at \notin {"negotiating", "ended"}
          /\ \E mode \in {"silent", "babbling"} : server' = [server EXCEPT !.faults = @ + 1, !.mode = mode]
          /\ UNCHANGED <<at, ending, kind, commands, frames, timers, lease, spent, wire, taken, since, holds>>

Babble ==
    /\ server.mode = "babbling" /\ wire = <<>> /\ at = "reading" /\ spent = 1
    /\ wire' = <<Line("bad", 0)>>
    /\ UNCHANGED <<at, ending, kind, commands, frames, timers, lease, spent, server, taken, since, holds>>

LinkNext ==
    \/ Negotiate \/ OpenSocket \/ Connect \/ Subscribe \/ HandOver \/ Released \/ TimesOut \/ StartRead
    \/ Renew \/ ReadNothing \/ ReadClosed \/ Read
    \/ TimePasses \/ Answer \/ Publish \/ Ping \/ Expire \/ Misbehave \/ Babble

LinkSpec == LinkInit /\ [][LinkNext]_linkVars

-----------------------------------------------------------------------------
(* Properties.                                                             *)

\* However lines are batched, what is handed over is what was said, in order, and
\* while the connection lasts the rest of it is still to come.
HandedOverInOrder ==
    LET coming == frames \o wire
    IN  /\ \A k \in DOMAIN coming :
             coming[k].what = "pub" => coming[k].of = (taken + Upto(coming, k)) % Round
        /\ at # "ended" => (taken + Upto(coming, Len(coming))) % Round = server.said

\* A provider that answers and pings in time is not given up for its silence, though
\* the reader is held back or waits for a token in between.
PunctualKept == ending = "silent" => server.mode # "well"

\* The provider does not throw the reader out: pings are answered, and the token is
\* renewed while the old one lasts, if a fifth of it is time enough.
NeverThrownOut ==
    server.threwOut =>
        server.ttl > 0 /\ server.ttl \div 5 < 1 + 2 * MaxHolds + Latency + TokenTime

\* A provider that is still is given up when the heartbeat is over, and one that
\* sends nothing but rubbish by the idle watchdog, as is a still Pusher connection.
DeadLeft ==
    at \in {"receiving", "reading", "held", "renewing"} =>
        /\ since.read <= 1 + TokenTime + IF kind = "centrifugo" THEN lease.beat ELSE IdleTimeout
        /\ since.frame <= 1 + TokenTime + IdleTimeout

\* What a realtime connection owes its reader.
LinkSound == HandedOverInOrder /\ PunctualKept /\ NeverThrownOut /\ DeadLeft
=============================================================================
