------------------------- MODULE KickConnectionProofs -------------------------
(***************************************************************************)
(* TLAPS proofs about KickConnection, for any cadences, lifetimes and      *)
(* bounds: a realtime connection hands over in order all that is said,     *)
(* gives up the dead and only the dead, and renews its token in time.      *)
(***************************************************************************)
EXTENDS KickConnection, Induction, SequenceTheorems, FiniteSetTheorems

-----------------------------------------------------------------------------
(* A realtime connection: its types, and where its reader is.              *)

\* The times that the code leaves room for: an answer comes well before the reader gives
\* it up, and the queue and a token request hold the reader back for less than a ping.
Margins ==
    /\ Latency + TokenTime + MaxHolds < AckTimeout
    /\ Latency + TokenTime < DefaultBeat /\ MaxHolds < DefaultBeat
    /\ MaxHolds + TokenTime < PingEvery /\ 0 < Grace
    /\ PingEvery + MaxHolds + TokenTime < IdleTimeout /\ Latency + MaxHolds + TokenTime < IdleTimeout

Tokens == {"connect", "refresh"}
Named == Feeds \cup Tokens
WireLines ==
    [what : {"pub"}, of : 0..2] \cup [what : Answers, of : Named \cup {"unknown"}]
    \cup [what : {"bad", "ping", "closed", "closedForGood", "eof"}, of : {0}]
Timings == [refresh : Nat \cup {Never}, beat : Nat \cup {Never}, idle : Nat]
Leases == [beat : Nat, pong : BOOLEAN]
Deadlines == UNION {[cs -> Nat] : cs \in SUBSET Named}
Providers ==
    [mode : {"well", "silent", "babbling"}, asked : Deadlines, ttl : Nat \cup {NoLease}, pong : BOOLEAN,
     lease : Int, ping : Nat \cup {Never}, owed : BOOLEAN, said : 0..2, faults : Int, live : BOOLEAN,
     threwOut : BOOLEAN]

LinkTyped ==
    /\ at \in {"negotiating", "opening", "connecting", "subscribing", "receiving", "reading", "held", "renewing", "ended"}
    /\ kind \in {"", "pusher", "centrifugo"}
    /\ commands \in Deadlines
    /\ frames \in Seq(WireLines) /\ wire \in Seq(WireLines)
    /\ timers \in Timings
    /\ lease \in Leases
    /\ ending \in {"", "lost", "refused", "silent"}
    /\ spent \in Nat /\ taken \in 0..2 /\ since \in [read : Nat, frame : Nat] /\ holds \in 0..MaxHolds
    /\ server \in Providers

Running == at \in {"receiving", "reading", "held", "renewing"}
Up == at \in {"connecting", "subscribing"} \/ Running
Well == server.mode = "well"
Central == kind = "centrifugo"
IsAnswer(line, c) == line.what \in Answers /\ line.of = c
Framed(line) == line.what \in {"pub", "ping"} \/ (line.what = "ack" /\ line.of \in Feeds)
OfToken(line) == line.what \in Answers /\ line.of \in Tokens

Fresh ==
    /\ commands = NoCommands /\ frames = <<>> /\ server.asked = NoCommands
    /\ timers.refresh = Never /\ lease = [beat |-> DefaultBeat, pong |-> FALSE]
    /\ server.lease = Never /\ ~server.owed /\ ~server.live /\ ~server.threwOut
    /\ server.ping = Never /\ holds = 0

\* What is known of a connection by where its reader is, ...
Beginning ==
    /\ at \in {"negotiating", "opening"} => Fresh /\ wire = <<>> /\ server.ttl = NoLease
    /\ at = "connecting" => Central /\ Fresh
    /\ at = "subscribing" =>
         frames = <<>> /\ timers.refresh = Never /\ DOMAIN commands = IF Central THEN {"connect"} ELSE {}
    /\ at # "negotiating" => kind # ""

Places ==
    /\ frames # <<>> => at \in {"receiving", "held"}
    /\ at \in {"held", "reading"} => spent \in {0, 1}
    /\ at \in {"connecting", "renewing"} => spent <= TokenTime
    /\ at = "reading" /\ spent = 0 => timers.refresh # 0
    /\ at = "held" => holds > 0
    /\ server.ttl = NoLease => timers.refresh = Never /\ server.lease < 0

\* ... and by its provider.
PusherOnly ==
    kind = "pusher" =>
        /\ at \notin {"connecting", "renewing"} /\ timers.refresh = Never
        /\ server.ttl = NoLease /\ DOMAIN commands \subseteq Feeds
        /\ Up => server.ping # Never
        /\ Len(frames) <= 1 /\ (at = "held" => frames = <<>>)
        /\ \A k \in DOMAIN wire : wire[k].what \notin {"temporary", "denied", "empty"}

\* One token at a time: asked for, on its way, or waiting to be renewed.
OneToken ==
    /\ "connect" \notin DOMAIN commands \/ "refresh" \notin DOMAIN commands
    /\ timers.refresh # Never \/ at = "renewing" =>
         DOMAIN commands \cap Tokens = {} /\ (at = "renewing" => timers.refresh = Never)

\* A command is answered once.
AnswersOnce ==
    /\ DOMAIN server.asked \subseteq DOMAIN commands
    /\ \A k \in DOMAIN wire, c \in Named : IsAnswer(wire[k], c) =>
         /\ c \in DOMAIN commands /\ c \notin DOMAIN server.asked
         /\ \A j \in DOMAIN wire : IsAnswer(wire[j], c) => j = k

Standing == Beginning /\ Places /\ PusherOnly /\ OneToken /\ AnswersOnce

-----------------------------------------------------------------------------
(* What is on time while the provider is in order.                         *)

\* The ticks that may pass before the reader has read what precedes the k-th line.
Pending == IF at = "held" /\ spent = 0 THEN 1 ELSE 0
Holding == MaxHolds - holds + Pending
Renewing(k) ==
    IF at = "renewing" THEN TokenTime - spent
    ELSE IF timers.refresh # Never \/ \E j \in DOMAIN wire : j < k /\ OfToken(wire[j]) THEN TokenTime ELSE 0
Delay(k) == Holding + Renewing(k)

Met == Central => "connect" \notin DOMAIN commands
Event(line) ==
    IF Central THEN line.what \in {"pub", "ping"} \/ (line.what \in Answers /\ line.of # "refresh")
    ELSE line.what # "bad"

CommandsInTime ==
    \A c \in DOMAIN commands :
        \/ c \in DOMAIN server.asked /\ server.asked[c] <= Latency
           /\ commands[c] >= server.asked[c] + (AckTimeout - Latency)
        \/ \E k \in DOMAIN wire : IsAnswer(wire[k], c) /\ commands[c] > Delay(k)

\* Nothing is framed before the connection is accepted, and then its terms are known.
Connected ==
    /\ server.ping <= PingEvery
    /\ Central =>
         /\ server.ping # Never => "connect" \notin DOMAIN server.asked
         /\ \A k \in DOMAIN wire : wire[k].what = "ack" /\ wire[k].of = "connect" => server.ping # Never
         /\ server.owed => server.ping # Never
         /\ Met /\ at # "connecting" =>
              server.ping # Never /\ lease = [beat |-> PingEvery + Grace, pong |-> server.pong]
         /\ ~Met => lease.beat = DefaultBeat /\ frames = <<>>
         /\ server.live => "connect" \notin DOMAIN server.asked
         /\ \A k \in DOMAIN wire : Framed(wire[k]) /\ (~Met \/ at = "connecting") =>
              \E j \in DOMAIN wire : j < k /\ IsAnswer(wire[j], "connect")

BeatInTime ==
    Central =>
        /\ at = "connecting" => timers.beat + spent >= DefaultBeat
        /\ at = "subscribing" => timers.beat + TokenTime >= DefaultBeat
        /\ "connect" \in DOMAIN server.asked => timers.beat > server.asked["connect"]
        /\ wire = <<>> /\ Met /\ Running => timers.beat > server.ping
        /\ at = "receiving" /\ frames = <<>> => timers.beat > 0
        /\ at = "held" \/ frames # <<>> => timers.beat + holds >= lease.beat + Pending

\* Whenever the reader has nothing to hand over, something comes before it stops waiting.
IdleInTime ==
    Running /\ frames = <<>> =>
        \/ \E k \in DOMAIN wire : Event(wire[k]) /\ timers.idle > Delay(k)
        \/ Met /\ timers.idle > server.ping + MaxHolds + TokenTime
        \/ "connect" \in DOMAIN server.asked /\ timers.idle > server.asked["connect"] + MaxHolds + TokenTime

Long == server.ttl > 0 /\ server.ttl \div 5 >= 1 + 2 * MaxHolds + Latency + TokenTime
Renewal == (server.ttl * 4) \div 5

\* From the request of a token to its renewal, the provider's lease lasts.
LeaseInTime ==
    Long =>
        /\ \A c \in Tokens \cap DOMAIN server.asked : server.lease >= server.asked[c] + (server.ttl - Latency)
        /\ \A k \in DOMAIN wire : OfToken(wire[k]) => server.lease > Delay(k) + Renewal + MaxHolds + TokenTime
        /\ timers.refresh # Never =>
             server.lease > timers.refresh + TokenTime
                              + (IF timers.refresh > 0 \/ at = "reading" THEN MaxHolds
                                 ELSE IF at = "held" \/ frames # <<>> THEN Holding ELSE 0)
        /\ at = "renewing" => server.lease > TokenTime - spent
        /\ Central /\ Up /\ at # "connecting" =>
             timers.refresh # Never \/ at = "renewing" \/ DOMAIN commands \cap Tokens # {}

PongInTime ==
    server.owed /\ server.pong =>
        \/ \E k \in DOMAIN frames : frames[k].what = "ping" /\ server.ping > Holding
        \/ \E k \in DOMAIN wire : wire[k].what = "ping" /\ server.ping > Delay(k)

OnTime == CommandsInTime /\ Connected /\ BeatInTime /\ IdleInTime /\ LeaseInTime /\ PongInTime
InTime == Up /\ Well => OnTime

-----------------------------------------------------------------------------
(* How long a provider is listened to, in order or not.                    *)

Timed ==
    /\ timers.idle <= IdleTimeout
    /\ Central => lease.beat \in {DefaultBeat, PingEvery + Grace}
    /\ Central /\ Up => timers.beat \in 0..lease.beat

FrameAwaited ==
    Running =>
        /\ timers.idle > 0 => since.frame + timers.idle <= IdleTimeout
        /\ at = "held" => timers.idle + spent >= IdleTimeout
        /\ at = "receiving" /\ frames = <<>> => timers.idle > 0
        /\ at = "renewing" => since.frame < IdleTimeout + spent
        /\ at = "reading" => since.frame < IdleTimeout + TokenTime + spent
        /\ since.frame <= IdleTimeout + TokenTime

LineAwaited ==
    Running /\ Central =>
        /\ timers.beat > 0 => since.read + timers.beat <= lease.beat
        /\ at = "held" \/ frames # <<>> => since.read + Pending <= holds
        /\ at = "renewing" => since.read < lease.beat + spent
        /\ at = "reading" => since.read < lease.beat + TokenTime + spent
        /\ since.read <= lease.beat + TokenTime

PusherAwaited ==
    Running /\ kind = "pusher" => since.read <= since.frame /\ (frames # <<>> => since.read = 0)

Patience == Timed /\ FrameAwaited /\ LineAwaited /\ PusherAwaited

LinkInv ==
    /\ LinkTyped /\ HandedOverInOrder /\ PunctualKept /\ NeverThrownOut
    /\ at # "ended" => ending = "" /\ Standing /\ InTime /\ Patience

-----------------------------------------------------------------------------
(* Deadlines.                                                              *)

LEMMA DeadlinesMean ==
    /\ \A f : f \in Deadlines <=> DOMAIN f \subseteq Named /\ f \in [DOMAIN f -> Nat]
    /\ NoCommands \in Deadlines /\ DOMAIN NoCommands = {}
<1>1. ASSUME NEW f, f \in Deadlines PROVE DOMAIN f \subseteq Named /\ f \in [DOMAIN f -> Nat]
  BY <1>1 DEF Deadlines
<1>2. ASSUME NEW f, DOMAIN f \subseteq Named, f \in [DOMAIN f -> Nat] PROVE f \in Deadlines
  BY <1>2 DEF Deadlines
<1>3. DOMAIN NoCommands = {} /\ NoCommands \in [DOMAIN NoCommands -> Nat]
  BY DEF NoCommands
<1> QED BY <1>1, <1>2, <1>3

LEMMA WithMeans ==
    ASSUME NEW f \in Deadlines, NEW cs \in SUBSET Named, NEW v \in Nat
    PROVE  /\ With(f, cs, v) \in Deadlines /\ DOMAIN With(f, cs, v) = DOMAIN f \cup cs
           /\ \A c \in DOMAIN f \cup cs : With(f, cs, v)[c] = IF c \in cs THEN v ELSE f[c]
<1>1. DOMAIN f \subseteq Named /\ \A c \in DOMAIN f : f[c] \in Nat
  BY DeadlinesMean
<1>2. /\ DOMAIN With(f, cs, v) = DOMAIN f \cup cs
      /\ \A c \in DOMAIN f \cup cs : With(f, cs, v)[c] = IF c \in cs THEN v ELSE f[c]
      /\ With(f, cs, v) \in [DOMAIN f \cup cs -> Nat]
  BY <1>1 DEF With
<1> QED BY <1>1, <1>2, DeadlinesMean

LEMMA WithoutMeans ==
    ASSUME NEW f \in Deadlines, NEW c
    PROVE  /\ Without(f, c) \in Deadlines /\ DOMAIN Without(f, c) = DOMAIN f \ {c}
           /\ \A d \in DOMAIN f \ {c} : Without(f, c)[d] = f[d]
<1>1. DOMAIN f \subseteq Named /\ \A d \in DOMAIN f : f[d] \in Nat
  BY DeadlinesMean
<1>2. /\ DOMAIN Without(f, c) = DOMAIN f \ {c}
      /\ \A d \in DOMAIN f \ {c} : Without(f, c)[d] = f[d]
      /\ Without(f, c) \in [DOMAIN f \ {c} -> Nat]
  BY <1>1 DEF Without
<1> QED BY <1>1, <1>2, DeadlinesMean

LEMMA LessMeans == \A t \in Int : Less(t) \in Int /\ Less(t) = (IF t > 0 THEN t - 1 ELSE t)
  BY DEF Less

LEMMA TickedDeadlines ==
    ASSUME NEW f \in Deadlines
    PROVE  LET g == [c \in DOMAIN f |-> Less(f[c])]
           IN  /\ g \in Deadlines /\ DOMAIN g = DOMAIN f
               /\ \A c \in DOMAIN f : f[c] \in Nat /\ g[c] = Less(f[c]) /\ g[c] \in Nat
<1> DEFINE g == [c \in DOMAIN f |-> Less(f[c])]
<1>1. DOMAIN f \subseteq Named /\ \A c \in DOMAIN f : f[c] \in Nat
  BY DeadlinesMean
<1>2. DOMAIN g = DOMAIN f /\ \A c \in DOMAIN f : g[c] = Less(f[c])
  OBVIOUS
<1>3. \A c \in DOMAIN f : Less(f[c]) \in Nat
  BY <1>1 DEF Less
<1>4. g \in [DOMAIN g -> Nat]
  BY <1>2, <1>3
<1>5. g \in Deadlines
  BY <1>1, <1>2, <1>4, DeadlinesMean
<1> QED BY <1>1, <1>2, <1>3, <1>5

-----------------------------------------------------------------------------
(* Lines, and the publications among them.                                 *)

LEMMA LineMeans ==
    /\ \A line \in WireLines : line.what \in {"pub"} \cup Answers \cup {"bad", "ping", "closed", "closedForGood", "eof"}
    /\ \A line \in WireLines : line.what = "pub" => line.of \in 0..2
    /\ \A line \in WireLines : line.what \in Answers => line.of \in Named \cup {"unknown"}
    /\ \A n \in 0..2 : Line("pub", n) \in WireLines
    /\ \A what \in Answers, c \in Named \cup {"unknown"} : Line(what, c) \in WireLines
    /\ \A what \in {"bad", "ping", "closed", "closedForGood", "eof"} : Line(what, 0) \in WireLines
    /\ \A what, of : Line(what, of).what = what /\ Line(what, of).of = of
  BY DEF WireLines, Line, Answers

\* One more line is one more publication, if it is one.
LEMMA UptoNext ==
    ASSUME NEW s \in Seq(WireLines), NEW k \in 0..Len(s)
    PROVE  /\ Upto(s, k) \in Nat /\ Upto(s, 0) = 0
           /\ k < Len(s) => Upto(s, k + 1) = Upto(s, k) + (IF s[k + 1].what = "pub" THEN 1 ELSE 0)
<1> DEFINE P(m) == {j \in 1..m : s[j].what = "pub"}
<1>1. \A m \in 0..Len(s) : IsFiniteSet(P(m))
  <2> SUFFICES ASSUME NEW m \in 0..Len(s) PROVE IsFiniteSet(P(m))
    OBVIOUS
  <2>1. IsFiniteSet(1..m)
    BY FS_Interval
  <2> QED BY <2>1, FS_Subset
<1>2. \A m \in 0..Len(s) : Cardinality(P(m)) \in Nat
  <2> HIDE DEF P
  <2> QED BY <1>1, FS_CardinalityType
<1>3. Cardinality(P(0)) = 0
  <2>1. P(0) = {}
    OBVIOUS
  <2> HIDE DEF P
  <2> QED BY <2>1, FS_EmptySet
<1>4. ASSUME k < Len(s)
      PROVE  Cardinality(P(k + 1)) = Cardinality(P(k)) + (IF s[k + 1].what = "pub" THEN 1 ELSE 0)
  <2>0. k \in Nat /\ k + 1 \in Nat
    OBVIOUS
  <2>1. CASE s[k + 1].what = "pub"
    <3>1. P(k + 1) = P(k) \cup {k + 1} /\ k + 1 \notin P(k)
      BY <2>1
    <3>2. IsFiniteSet(P(k))
      BY <1>1
    <3> HIDE DEF P
    <3>3. Cardinality(P(k) \cup {k + 1}) = Cardinality(P(k)) + 1
      BY <3>1, <3>2, FS_AddElement
    <3> QED BY <2>1, <3>1, <3>3
  <2>2. CASE s[k + 1].what # "pub"
    <3>1. P(k + 1) = P(k)
      BY <2>2
    <3> HIDE DEF P
    <3>2. k \in 0..Len(s)
      OBVIOUS
    <3> QED BY <1>2, <2>2, <3>1, <3>2
  <2> QED BY <2>1, <2>2
<1>5. Upto(s, k) = Cardinality(P(k)) /\ Upto(s, 0) = Cardinality(P(0)) /\ Upto(s, k + 1) = Cardinality(P(k + 1))
  BY DEF Upto
<1> HIDE DEF P
<1> QED BY <1>2, <1>3, <1>4, <1>5

LEMMA UptoSame ==
    ASSUME NEW s \in Seq(WireLines), NEW t \in Seq(WireLines), NEW k \in Nat, k <= Len(s), k <= Len(t),
           \A j \in 1..k : s[j] = t[j]
    PROVE  Upto(s, k) = Upto(t, k)
<1>1. {j \in 1..k : s[j].what = "pub"} = {j \in 1..k : t[j].what = "pub"}
  OBVIOUS
<1> QED BY <1>1 DEF Upto

LEMMA UptoJoined ==
    ASSUME NEW s \in Seq(WireLines), NEW t \in Seq(WireLines)
    PROVE  /\ \A k \in 0..Len(s) : Upto(s \o t, k) = Upto(s, k)
           /\ \A k \in 0..Len(t) : Upto(s \o t, Len(s) + k) = Upto(s, Len(s)) + Upto(t, k)
<1> DEFINE st == s \o t
           m == Len(s)
           n == Len(t)
<1>1. /\ st \in Seq(WireLines) /\ Len(st) = m + n /\ m \in Nat /\ n \in Nat
      /\ \A j \in 1..m : st[j] = s[j]
      /\ \A j \in 1..n : st[m + j] = t[j]
  OBVIOUS
<1> HIDE DEF st
<1>2. \A k \in 0..m : Upto(st, k) = Upto(s, k)
  <2> SUFFICES ASSUME NEW k \in 0..m PROVE Upto(st, k) = Upto(s, k)
    OBVIOUS
  <2>1. k \in Nat /\ k <= Len(st) /\ k <= Len(s) /\ \A j \in 1..k : st[j] = s[j]
    BY <1>1
  <2> QED BY <1>1, <2>1, UptoSame
<1>3. \A k \in 0..n : Upto(st, m + k) = Upto(s, m) + Upto(t, k)
  <2> DEFINE T == {k \in 0..n : Upto(st, m + k) = Upto(s, m) + Upto(t, k)}
  <2>0. Upto(s, m) \in Nat
    BY <1>1, UptoNext
  <2>1. 0 \in T
    <3>1. Upto(t, 0) = 0 /\ Upto(st, m) = Upto(s, m)
      BY <1>1, <1>2, UptoNext
    <3>2. m + 0 = m /\ 0 \in 0..n
      BY <1>1
    <3> QED BY <2>0, <3>1, <3>2
  <2>2. ASSUME NEW k \in 0..(n - 1), k \in T PROVE k + 1 \in T
    <3>1. k \in 0..n /\ k + 1 \in 0..n /\ k < n /\ m + k \in 0..Len(st) /\ m + k < Len(st) /\ m + (k + 1) = (m + k) + 1
      BY <1>1
    <3>2. st[(m + k) + 1] = t[k + 1]
      BY <1>1, <3>1
    <3>3. Upto(t, k + 1) = Upto(t, k) + (IF t[k + 1].what = "pub" THEN 1 ELSE 0) /\ Upto(t, k) \in Nat
      BY <3>1, UptoNext
    <3>4. Upto(st, (m + k) + 1) = Upto(st, m + k) + (IF st[(m + k) + 1].what = "pub" THEN 1 ELSE 0)
      BY <1>1, <3>1, UptoNext
    <3>5. Upto(st, m + k) = Upto(s, m) + Upto(t, k)
      BY <2>2
    <3> HIDE DEF m, n
    <3> QED BY <2>0, <3>1, <3>2, <3>3, <3>4, <3>5
  <2> HIDE DEF T
  <2>3. \A k \in 0..n : k \in T
    BY <1>1, <2>1, <2>2, NatInductTo
  <2> QED BY <2>3 DEF T
<1> QED BY <1>2, <1>3 DEF st

\* Publications that go on from the a-th, without a gap.
Numbered(s, a) == \A k \in DOMAIN s : s[k].what = "pub" => s[k].of = (a + Upto(s, k)) % 3
Total(s) == Upto(s, Len(s))

LEMMA TotalTyped == \A s \in Seq(WireLines) : Total(s) \in Nat
  BY UptoNext DEF Total

LEMMA NumberedJoined ==
    ASSUME NEW s \in Seq(WireLines), NEW t \in Seq(WireLines), NEW a \in Nat
    PROVE  /\ Total(s \o t) = Total(s) + Total(t)
           /\ Numbered(s \o t, a) <=> Numbered(s, a) /\ Numbered(t, a + Total(s))
<1> DEFINE st == s \o t
           m == Len(s)
           n == Len(t)
<1>1. /\ st \in Seq(WireLines) /\ Len(st) = m + n /\ m \in Nat /\ n \in Nat
      /\ \A j \in 1..m : st[j] = s[j]
      /\ \A j \in 1..n : st[m + j] = t[j]
      /\ DOMAIN st = 1..(m + n) /\ DOMAIN s = 1..m /\ DOMAIN t = 1..n
  OBVIOUS
<1>2. /\ \A k \in 0..m : Upto(st, k) = Upto(s, k)
      /\ \A k \in 0..n : Upto(st, m + k) = Upto(s, m) + Upto(t, k)
  BY UptoJoined
<1>3. Upto(s, m) \in Nat /\ \A k \in 0..n : Upto(t, k) \in Nat
  BY UptoNext
<1> HIDE DEF st, m, n
<1>4. Upto(st, m + n) = Upto(s, m) + Upto(t, n)
  BY <1>1, <1>2
<1>5. \A k \in 1..n : Upto(st, m + k) = Upto(s, m) + Upto(t, k) /\ a + Upto(st, m + k) = (a + Upto(s, m)) + Upto(t, k)
  <2> SUFFICES ASSUME NEW k \in 1..n
               PROVE  Upto(st, m + k) = Upto(s, m) + Upto(t, k) /\ a + Upto(st, m + k) = (a + Upto(s, m)) + Upto(t, k)
    OBVIOUS
  <2>1. k \in 0..n
    OBVIOUS
  <2>2. Upto(st, m + k) = Upto(s, m) + Upto(t, k) /\ Upto(t, k) \in Nat
    BY <1>2, <1>3, <2>1
  <2> QED BY <1>3, <2>2
<1>6. ASSUME Numbered(st, a) PROVE Numbered(s, a) /\ Numbered(t, a + Upto(s, m))
  <2>1. Numbered(s, a)
    <3> SUFFICES ASSUME NEW k \in 1..m, s[k].what = "pub" PROVE s[k].of = (a + Upto(s, k)) % 3
      BY <1>1 DEF Numbered
    <3>1. k \in 1..(m + n) /\ k \in 0..m
      BY <1>1
    <3>2. st[k] = s[k] /\ Upto(st, k) = Upto(s, k)
      BY <1>1, <1>2, <3>1
    <3> QED BY <1>1, <1>6, <3>1, <3>2 DEF Numbered
  <2>2. Numbered(t, a + Upto(s, m))
    <3> SUFFICES ASSUME NEW k \in 1..n, t[k].what = "pub" PROVE t[k].of = ((a + Upto(s, m)) + Upto(t, k)) % 3
      BY <1>1 DEF Numbered
    <3>1. m + k \in 1..(m + n)
      BY <1>1
    <3>2. st[m + k] = t[k] /\ a + Upto(st, m + k) = (a + Upto(s, m)) + Upto(t, k)
      BY <1>1, <1>5
    <3>3. st[m + k].of = (a + Upto(st, m + k)) % 3
      BY <1>1, <1>6, <3>1, <3>2 DEF Numbered
    <3> QED BY <3>2, <3>3
  <2> QED BY <2>1, <2>2
<1>7. ASSUME Numbered(s, a), Numbered(t, a + Upto(s, m)) PROVE Numbered(st, a)
  <2> SUFFICES ASSUME NEW k \in 1..(m + n), st[k].what = "pub" PROVE st[k].of = (a + Upto(st, k)) % 3
    BY <1>1 DEF Numbered
  <2>1. CASE k <= m
    <3>1. k \in 1..m /\ k \in 0..m
      BY <1>1, <2>1
    <3>2. st[k] = s[k] /\ Upto(st, k) = Upto(s, k)
      BY <1>1, <1>2, <3>1
    <3> QED BY <1>1, <1>7, <3>1, <3>2 DEF Numbered
  <2>2. CASE k > m
    <3>1. k - m \in 1..n /\ m + (k - m) = k
      BY <1>1, <2>2
    <3>2. st[m + (k - m)] = t[k - m] /\ a + Upto(st, m + (k - m)) = (a + Upto(s, m)) + Upto(t, k - m)
      BY <1>1, <1>5, <3>1
    <3>3. t[k - m].of = ((a + Upto(s, m)) + Upto(t, k - m)) % 3
      BY <1>1, <1>7, <3>1, <3>2 DEF Numbered
    <3> QED BY <3>1, <3>2, <3>3
  <2>3. k \in Int /\ m \in Int
    BY <1>1
  <2> QED BY <2>1, <2>2, <2>3
<1>8. Total(s \o t) = Upto(st, m + n) /\ Total(s) = Upto(s, m) /\ Total(t) = Upto(t, n)
  BY <1>1 DEF Total, m, n, st
<1> QED BY <1>4, <1>6, <1>7, <1>8 DEF st

LEMMA TotalJoined == \A s, t \in Seq(WireLines) : Total(s \o t) = Total(s) + Total(t)
<1>1. 0 \in Nat
  OBVIOUS
<1> QED BY <1>1, NumberedJoined

LEMMA NumberedNone == Total(<<>>) = 0 /\ \A a : Numbered(<<>>, a)
<1>1. <<>> \in Seq(WireLines) /\ Len(<<>>) = 0 /\ DOMAIN <<>> = {} /\ 0 \in 0..0
  OBVIOUS
<1> QED BY <1>1, UptoNext DEF Total, Numbered

LEMMA NumberedOne ==
    ASSUME NEW line \in WireLines, NEW a \in Nat
    PROVE  /\ Total(<<line>>) = (IF line.what = "pub" THEN 1 ELSE 0)
           /\ Numbered(<<line>>, a) <=> (line.what = "pub" => line.of = (a + 1) % 3)
<1> DEFINE s == <<line>>
<1>1. s \in Seq(WireLines) /\ Len(s) = 1 /\ s[1] = line /\ DOMAIN s = 1..1 /\ 0 \in 0..Len(s) /\ 0 < Len(s)
  OBVIOUS
<1> HIDE DEF s
<1>3. Upto(s, 0 + 1) = Upto(s, 0) + (IF s[0 + 1].what = "pub" THEN 1 ELSE 0) /\ Upto(s, 0) = 0
  BY <1>1, UptoNext
<1>4. Upto(s, 1) = IF line.what = "pub" THEN 1 ELSE 0
  BY <1>1, <1>3
<1>5. Numbered(s, a) <=> (line.what = "pub" => line.of = (a + 1) % 3)
  <2>1. Numbered(s, a) <=> (s[1].what = "pub" => s[1].of = (a + Upto(s, 1)) % 3)
    BY <1>1 DEF Numbered
  <2> QED BY <1>1, <1>4, <2>1
<1>8. Total(s) = Upto(s, 1)
  BY <1>1 DEF Total
<1> QED BY <1>4, <1>5, <1>8 DEF s

\* The number of the first only matters in the circle.
LEMMA NumberedRound ==
    ASSUME NEW s \in Seq(WireLines), NEW a \in Nat, NEW b \in Nat, a % 3 = b % 3
    PROVE  Numbered(s, a) <=> Numbered(s, b)
<1>1. \A u \in Nat : (a + u) % 3 = (b + u) % 3
  OBVIOUS
<1>2. \A k \in DOMAIN s : Upto(s, k) \in Nat
  BY UptoNext
<1> QED BY <1>1, <1>2 DEF Numbered

-----------------------------------------------------------------------------
(* A batch: what is known after each line, as long as none of them ends the *)
(* connection.                                                             *)

LEMMA ConstantsMean ==
    /\ AckTimeout \in Nat /\ DefaultBeat \in Nat /\ Grace \in Nat /\ PingEvery \in Nat /\ IdleTimeout \in Nat
    /\ Latency \in Nat /\ TokenTime \in Nat /\ MaxHolds \in Nat
    /\ NoLease \in Int /\ NoLease < 0 /\ PingEvery + Grace \in Nat
    /\ "connect" \notin Feeds /\ "refresh" \notin Feeds /\ "unknown" \notin Feeds
<1>1. "connect" \notin Feeds /\ "refresh" \notin Feeds /\ "unknown" \notin Feeds
  BY LinkAssumption
<1>2. /\ AckTimeout \in Nat /\ DefaultBeat \in Nat /\ Grace \in Nat /\ PingEvery \in Nat /\ IdleTimeout \in Nat
      /\ Latency \in Nat /\ TokenTime \in Nat /\ MaxHolds \in Nat /\ NoLease \in Int /\ NoLease < 0
  BY LinkAssumption
<1> QED BY <1>1, <1>2

Readable == {line \in WireLines : line.what # "eof"}
Decodings ==
    [commands : Deadlines, frames : Seq(WireLines), end : {"", "lost", "refused"}, lease : Leases, timers : Timings]
Begun == [commands |-> commands, frames |-> <<>>, end |-> "", lease |-> lease, timers |-> [timers EXCEPT !.beat = lease.beat]]
Granted == [beat |-> PingEvery + Grace, pong |-> server.pong]

LEMMA RefreshMeans ==
    ASSUME server \in Providers, NEW old \in Nat \cup {Never}
    PROVE  /\ Refresh(old) \in Nat \cup {Never}
           /\ server.ttl = NoLease => Refresh(old) = old
           /\ server.ttl # NoLease => Refresh(old) = Renewal /\ Renewal \in Nat
<1>1. server.ttl \in Nat \cup {NoLease}
  BY DEF Providers
<1>2. ASSUME server.ttl # NoLease PROVE Renewal \in Nat
  <2> DEFINE t == server.ttl
  <2>1. t \in Nat
    BY <1>1, <1>2
  <2> HIDE DEF t
  <2>2. (t * 4) \div 5 \in Nat
    BY <2>1
  <2> QED BY <2>2 DEF Renewal, t
<1> QED BY <1>2 DEF Refresh, Renewal

\* What becomes of a decoding that does not end.
LEMMA DecodedMeans ==
    ASSUME server \in Providers, NEW st \in Decodings, NEW line \in Readable
    PROVE  /\ Decoded(st, line) \in Decodings
           /\ st.end # "" => Decoded(st, line) = st
           /\ st.end = "" /\ Decoded(st, line).end = "" =>
                LET d == Decoded(st, line)
                IN  /\ line.what \in {"bad", "ping", "pub", "ack"}
                    /\ line.what = "ack" => line.of \in DOMAIN st.commands /\ d.commands = Without(st.commands, line.of)
                    /\ line.what # "ack" => d.commands = st.commands
                    /\ d.frames = IF line.what \in {"ping", "pub"} \/ (line.what = "ack" /\ line.of # "refresh")
                                  THEN Append(st.frames, line) ELSE st.frames
                    /\ IF line.what = "ack" /\ line.of \in Tokens
                       THEN server.ttl # 0 /\ d.timers.refresh = Refresh(st.timers.refresh)
                       ELSE d.timers.refresh = st.timers.refresh
                    /\ IF line.what = "ack" /\ line.of = "connect"
                       THEN d.lease = Granted /\ d.timers.beat = PingEvery + Grace
                       ELSE d.lease = st.lease /\ d.timers.beat = st.timers.beat
                    /\ d.timers.idle = st.timers.idle
<1> DEFINE d == Decoded(st, line)
<1>1. /\ line \in WireLines /\ line.what \in {"pub", "bad", "ping", "closed", "closedForGood"} \cup Answers
      /\ line.what \in Answers => line.of \in Named \cup {"unknown"}
  BY LineMeans DEF Readable
<1>2. /\ st.commands \in Deadlines /\ st.frames \in Seq(WireLines) /\ st.end \in {"", "lost", "refused"}
      /\ st.lease \in Leases /\ st.timers \in Timings
      /\ DOMAIN st.commands \subseteq Named
  BY DeadlinesMean DEF Decodings
<1>3. /\ Fails(st, line) \in Decodings /\ Fails(st, line).end # ""
  <2>1. Fails(st, line) = [st EXCEPT !.end = IF line.what \in {"denied", "closedForGood"} THEN "refused" ELSE "lost"]
    BY DEF Fails
  <2>2. PICK end \in {"refused", "lost"} : Fails(st, line) = [st EXCEPT !.end = end]
    BY <2>1
  <2>3. [st EXCEPT !.end = end] \in Decodings /\ [st EXCEPT !.end = end].end = end
    BY <2>2 DEF Decodings
  <2> QED BY <2>2, <2>3
<1>4. Append(st.frames, line) \in Seq(WireLines)
  <2>1. \A s \in Seq(WireLines), x \in WireLines : Append(s, x) \in Seq(WireLines)
    OBVIOUS
  <2> QED BY <1>1, <1>2, <2>1
<1>5. Without(st.commands, line.of) \in Deadlines
  BY <1>2, WithoutMeans
<1>6. CASE st.end # ""
  <2>1. d = st
    BY <1>6 DEF Decoded
  <2> QED BY <1>6, <2>1
<1>7. CASE st.end = "" /\ line.what = "bad"
  <2>1. d = st
    BY <1>7 DEF Decoded, Answers
  <2> QED BY <1>7, <2>1
<1>8. CASE st.end = "" /\ line.what \in {"ping", "pub"}
  <2>1. d = [st EXCEPT !.frames = Append(@, line)]
    BY <1>8 DEF Decoded, Answers
  <2>2. /\ d \in Decodings /\ d.commands = st.commands /\ d.frames = Append(st.frames, line)
        /\ d.timers = st.timers /\ d.lease = st.lease
    BY <1>4, <2>1 DEF Decodings
  <2>3. line.what # "ack"
    BY <1>8
  <2> HIDE DEF d
  <2> QED BY <1>8, <2>2, <2>3 DEF d
<1>9. CASE st.end = "" /\ line.what \in {"closed", "closedForGood"}
  <2>1. d = Fails(st, line)
    BY <1>9 DEF Decoded, Answers
  <2> QED BY <1>3, <1>9, <2>1
<1>10. CASE st.end = "" /\ line.what \in Answers
  <2>1. d = Reply(st, line)
    BY <1>10 DEF Decoded, Answers
  <2> DEFINE over == [st EXCEPT !.commands = Without(@, line.of)]
             shown == [over EXCEPT !.frames = Append(@, line)]
  <2>2. /\ over \in Decodings /\ over.commands = Without(st.commands, line.of) /\ over.frames = st.frames
        /\ over.timers = st.timers /\ over.lease = st.lease /\ over.end = ""
    BY <1>5, <1>10 DEF Decodings
  <2>3. /\ shown \in Decodings /\ shown.commands = Without(st.commands, line.of)
        /\ shown.frames = Append(st.frames, line) /\ shown.timers = st.timers /\ shown.lease = st.lease
        /\ shown.end = ""
    <3> HIDE DEF over
    <3> QED BY <1>4, <2>2 DEF Decodings
  <2>4. CASE line.of \notin DOMAIN st.commands \/ line.what # "ack"
    <3>1. d = Fails(st, line)
      BY <2>1, <2>4 DEF Reply
    <3> QED BY <1>3, <1>10, <3>1
  <2>5. CASE ~(line.of \notin DOMAIN st.commands \/ line.what # "ack")
    <3>0. line.of \in Feeds \/ line.of = "connect" \/ line.of = "refresh"
      BY <1>2, <2>5 DEF Named, Tokens
    <3>1. d = CASE line.of \in Feeds -> shown
                [] line.of \notin Feeds /\ server.ttl = 0 -> Fails(st, line)
                [] line.of = "connect" /\ server.ttl # 0 ->
                     [shown EXCEPT !.timers.refresh = Refresh(@), !.timers.beat = PingEvery + Grace,
                                   !.lease = Granted]
                [] line.of = "refresh" /\ server.ttl # 0 -> [over EXCEPT !.timers.refresh = Refresh(@)]
      BY <2>1, <2>5 DEF Reply, Granted
    <3> HIDE DEF over, shown, d
    <3>2. CASE line.of \in Feeds
      <4>1. d = shown
        BY <3>1, <3>2, ConstantsMean
      <4>2. line.of \notin Tokens
        BY <3>2, ConstantsMean DEF Tokens
      <4> QED BY <1>10, <2>3, <2>5, <4>1, <4>2 DEF d, Tokens
    <3>3. CASE line.of \notin Feeds /\ server.ttl = 0
      <4>1. d = Fails(st, line)
        BY <3>1, <3>3
      <4> QED BY <1>3, <1>10, <4>1 DEF d
    <3>4. CASE line.of = "connect" /\ server.ttl # 0
      <4>1. d = [shown EXCEPT !.timers.refresh = Refresh(@), !.timers.beat = PingEvery + Grace, !.lease = Granted]
        BY <3>1, <3>4, ConstantsMean
      <4>2. Refresh(st.timers.refresh) \in Nat \cup {Never} /\ PingEvery + Grace \in Nat /\ Granted \in Leases
        BY <1>2, RefreshMeans, ConstantsMean DEF Granted, Leases, Providers, Timings
      <4>3. /\ d \in Decodings /\ d.commands = shown.commands /\ d.frames = shown.frames /\ d.lease = Granted
            /\ d.timers.refresh = Refresh(st.timers.refresh) /\ d.timers.beat = PingEvery + Grace
            /\ d.timers.idle = st.timers.idle
        BY <1>2, <2>3, <4>1, <4>2 DEF Decodings, Timings
      <4> QED BY <1>10, <2>3, <2>5, <3>4, <4>3 DEF d, Tokens
    <3>5. CASE line.of = "refresh" /\ server.ttl # 0
      <4>1. d = [over EXCEPT !.timers.refresh = Refresh(@)]
        BY <3>1, <3>5, ConstantsMean
      <4>2. Refresh(st.timers.refresh) \in Nat \cup {Never}
        BY <1>2, RefreshMeans DEF Timings
      <4>3. /\ d \in Decodings /\ d.commands = over.commands /\ d.frames = over.frames /\ d.lease = over.lease
            /\ d.timers.refresh = Refresh(st.timers.refresh) /\ d.timers.beat = st.timers.beat
            /\ d.timers.idle = st.timers.idle
        BY <1>2, <2>2, <4>1, <4>2 DEF Decodings, Timings
      <4> QED BY <1>10, <2>2, <2>5, <3>5, <4>3 DEF d, Tokens
    <3> QED BY <3>0, <3>2, <3>3, <3>4, <3>5
  <2> QED BY <2>4, <2>5
<1> QED BY <1>1, <1>2, <1>6, <1>7, <1>8, <1>9, <1>10

AllDecoded(base, s) == FoldLeft(Decoded, base, s)

LEMMA DecodedOneByOne ==
    ASSUME server \in Providers, NEW s \in Seq(Readable), NEW base \in Decodings
    PROVE  \E F : /\ F[0] = base
                  /\ \A k \in 1..Len(s) : F[k] = Decoded(F[k - 1], s[k])
                  /\ \A k \in 0..Len(s) : F[k] \in Decodings
                  /\ AllDecoded(base, s) = F[Len(s)]
<1> DEFINE n == Len(s)
           Step == [p \in Decodings \X Readable |-> Decoded(p[1], p[2])]
           G == CHOOSE f : f = [t \in SUBSET (1..n) |->
                                  IF t = {} THEN base ELSE Decoded(f[t \ {Max(t)}], s[Max(t)])]
           F == [k \in 0..n |-> G[1..k]]
<1>1. n \in Nat /\ DOMAIN s = 1..n /\ n \in 0..n /\ \A k \in 1..n : s[k] \in Readable
  OBVIOUS
<1>2. AllDecoded(base, s) = G[1..n]
  BY <1>1 DEF AllDecoded, FoldLeft, MapThenFoldSet
<1>3. \A a \in Decodings, x \in Readable : Decoded(a, x) \in Decodings
  BY DecodedMeans
<1>4. Step \in [Decodings \X Readable -> Decodings]
  BY <1>3
<1>5. PICK f : Iterates(f, Decodings, base, s, Step)
  <2> HIDE DEF Step, G, F
  <2> QED BY <1>4, IterationExists
<1>6. f = [t \in SUBSET (1..n) |-> IF t = {} THEN base ELSE Decoded(f[t \ {Max(t)}], s[Max(t)])]
  <2>1. ASSUME NEW t \in SUBSET (1..n), t # {}
        PROVE  Step[<<f[t \ {Max(t)}], s[Max(t)]>>] = Decoded(f[t \ {Max(t)}], s[Max(t)])
    <3>1. Max(t) \in 1..n /\ t \ {Max(t)} \in SUBSET (1..n)
      <4> HIDE DEF n, G, F
      <4> QED BY <1>1, <2>1, MaxAmong
    <3>2. s[Max(t)] \in Readable /\ f[t \ {Max(t)}] \in Decodings
      BY <1>1, <1>5, <3>1 DEF Iterates
    <3> QED BY <3>2
  <2> HIDE DEF Step
  <2> QED BY <1>5, <2>1 DEF Iterates
<1>7. G = [t \in SUBSET (1..n) |-> IF t = {} THEN base ELSE Decoded(G[t \ {Max(t)}], s[Max(t)])]
  BY <1>6
<1> HIDE DEF G
<1>8. F[0] = base
  BY <1>1, <1>7
<1>9. ASSUME NEW k \in 1..n PROVE F[k] = Decoded(F[k - 1], s[k])
  <2>1. 1..k \in SUBSET (1..n) /\ 1..k # {} /\ (1..k) \ {k} = 1..(k - 1) /\ Max(1..k) = k
    BY <1>1, Peeled
  <2>2. k \in 0..n /\ k - 1 \in 0..n
    BY <1>1
  <2> QED BY <1>7, <2>1, <2>2
<1> HIDE DEF F, Step
<1>10. \A k \in 0..n : F[k] \in Decodings
  <2> DEFINE T == {k \in 0..n : F[k] \in Decodings}
  <2>1. 0 \in T
    BY <1>1, <1>8
  <2>2. ASSUME NEW k \in 0..(n - 1), k \in T PROVE k + 1 \in T
    <3>1. k + 1 \in 1..n /\ (k + 1) - 1 = k /\ k + 1 \in 0..n
      BY <1>1
    <3>2. F[k + 1] = Decoded(F[k], s[k + 1])
      BY <1>9, <3>1
    <3> QED BY <1>1, <1>3, <2>2, <3>1, <3>2
  <2> HIDE DEF T
  <2>3. \A k \in 0..n : k \in T
    BY <1>1, <2>1, <2>2, NatInductTo
  <2> QED BY <2>3 DEF T
<1> QED BY <1>1, <1>2, <1>8, <1>9, <1>10 DEF F

Goes(st) == st.end = ""
Shown(line) == line.what \in {"ping", "pub"} \/ (line.what = "ack" /\ line.of # "refresh")
Grants(line) == line.what = "ack" /\ line.of \in Tokens
Connects(line) == line.what = "ack" /\ line.of = "connect"

\* What has been read of the first m lines: the commands they answer, ...
CommandsRead(st, m) ==
    /\ \A j \in 1..m : wire[j].what \in {"bad", "ping", "pub", "ack"}
    /\ \A j \in 1..m : wire[j].what = "ack" => wire[j].of \in DOMAIN commands /\ wire[j].of \notin DOMAIN st.commands
    /\ DOMAIN st.commands \subseteq DOMAIN commands
    /\ \A c \in DOMAIN commands : c \in DOMAIN st.commands \/ \E j \in 1..m : wire[j].what = "ack" /\ wire[j].of = c
    /\ \A c \in DOMAIN st.commands : st.commands[c] = commands[c]

\* ... the frames they come to, in their order, ...
OrderRead(st, m) ==
    /\ Total(st.frames) = Upto(wire, m)
    /\ \A a \in Nat : (\A j \in 1..m : wire[j].what = "pub" => wire[j].of = (a + Upto(wire, j)) % 3)
                        => Numbered(st.frames, a)

FramesRead(st, m) ==
    /\ \A j \in 1..m : Shown(wire[j]) => \E i \in DOMAIN st.frames : st.frames[i] = wire[j]
    /\ \A i \in DOMAIN st.frames : \E j \in 1..m : Shown(wire[j]) /\ st.frames[i] = wire[j]
    /\ OrderRead(st, m)

\* ... and the terms they set.
TermsRead(st, m) ==
    /\ IF \E j \in 1..m : Grants(wire[j])
       THEN /\ server.ttl # 0
            /\ st.timers.refresh = IF server.ttl = NoLease THEN timers.refresh ELSE Renewal
       ELSE st.timers.refresh = timers.refresh
    /\ IF \E j \in 1..m : Connects(wire[j])
       THEN st.lease = Granted /\ st.timers.beat = PingEvery + Grace
       ELSE st.lease = lease /\ st.timers.beat = lease.beat
    /\ st.timers.idle = timers.idle

BatchRead(st, m) == CommandsRead(st, m) /\ FramesRead(st, m) /\ TermsRead(st, m)

LEMMA CommandsReadNext ==
    ASSUME server \in Providers, commands \in Deadlines, wire \in Seq(WireLines),
           NEW m \in 0..Len(wire), m < Len(wire), wire[m + 1] \in Readable,
           NEW st \in Decodings, Goes(st), Goes(Decoded(st, wire[m + 1])), CommandsRead(st, m)
    PROVE  CommandsRead(Decoded(st, wire[m + 1]), m + 1)
<1> DEFINE line == wire[m + 1]
           d == Decoded(st, line)
<1>1. /\ line.what \in {"bad", "ping", "pub", "ack"}
      /\ line.what = "ack" => line.of \in DOMAIN st.commands /\ d.commands = Without(st.commands, line.of)
      /\ line.what # "ack" => d.commands = st.commands
  BY DecodedMeans DEF Goes
<1>2. \A j \in 1..(m + 1) : j \in 1..m \/ j = m + 1
  OBVIOUS
<1>3. 1..m \subseteq 1..(m + 1) /\ m + 1 \in 1..(m + 1)
  OBVIOUS
<1>4. st.commands \in Deadlines
  BY DEF Decodings
<1>5. /\ DOMAIN d.commands = (IF line.what = "ack" THEN DOMAIN st.commands \ {line.of} ELSE DOMAIN st.commands)
      /\ \A c \in DOMAIN d.commands : d.commands[c] = st.commands[c]
  <2>1. CASE line.what = "ack"
    <3>1. d.commands = Without(st.commands, line.of)
      BY <1>1, <2>1
    <3>2. /\ DOMAIN Without(st.commands, line.of) = DOMAIN st.commands \ {line.of}
          /\ \A c \in DOMAIN st.commands \ {line.of} : Without(st.commands, line.of)[c] = st.commands[c]
      BY <1>4, WithoutMeans
    <3> HIDE DEF d, line
    <3> QED BY <2>1, <3>1, <3>2
  <2>2. CASE line.what # "ack"
    BY <1>1, <2>2
  <2> QED BY <2>1, <2>2
<1> HIDE DEF d
<1>6. CommandsRead(d, m + 1)
  BY <1>1, <1>2, <1>3, <1>5 DEF CommandsRead
<1> QED BY <1>6 DEF d

LEMMA FramesReadNext ==
    ASSUME server \in Providers, wire \in Seq(WireLines),
           NEW m \in 0..Len(wire), m < Len(wire), wire[m + 1] \in Readable,
           NEW st \in Decodings, Goes(st), Goes(Decoded(st, wire[m + 1])), FramesRead(st, m)
    PROVE  FramesRead(Decoded(st, wire[m + 1]), m + 1)
<1> DEFINE line == wire[m + 1]
           d == Decoded(st, line)
           fs == st.frames
           gs == d.frames
<1>1. gs = IF Shown(line) THEN Append(fs, line) ELSE fs
  BY DecodedMeans DEF Shown, Goes
<1>2. (\A j \in 1..(m + 1) : j \in 1..m \/ j = m + 1) /\ 1..m \subseteq 1..(m + 1) /\ m + 1 \in 1..(m + 1)
  OBVIOUS
<1>3. fs \in Seq(WireLines) /\ line \in WireLines
  BY DEF Decodings, Readable
<1>4. Upto(wire, m + 1) = Upto(wire, m) + (IF line.what = "pub" THEN 1 ELSE 0) /\ Upto(wire, m) \in Nat
  BY UptoNext
<1>5. line.what = "pub" => Shown(line)
  BY DEF Shown
<1> HIDE DEF d, line
<1>6. CASE ~Shown(line)
  <2>1. gs = fs /\ Upto(wire, m + 1) = Upto(wire, m)
    BY <1>1, <1>4, <1>5, <1>6
  <2>2. wire[m + 1] = line
    BY DEF line
  <2> HIDE DEF gs
  <2>3. FramesRead(d, m + 1) <=>
          /\ \A j \in 1..(m + 1) : Shown(wire[j]) => \E i \in DOMAIN gs : gs[i] = wire[j]
          /\ \A i \in DOMAIN gs : \E j \in 1..(m + 1) : Shown(wire[j]) /\ gs[i] = wire[j]
          /\ Total(gs) = Upto(wire, m + 1)
          /\ \A a \in Nat : (\A j \in 1..(m + 1) : wire[j].what = "pub" => wire[j].of = (a + Upto(wire, j)) % 3)
                              => Numbered(gs, a)
    BY DEF FramesRead, OrderRead, gs
  <2> QED BY <1>2, <1>6, <2>1, <2>2, <2>3 DEF FramesRead, OrderRead, d, line
<1>7. CASE Shown(line)
  <2>1. gs = Append(fs, line) /\ Append(fs, line) = fs \o <<line>> /\ <<line>> \in Seq(WireLines)
    BY <1>1, <1>3, <1>7
  <2>2. /\ DOMAIN gs = 1..(Len(fs) + 1) /\ DOMAIN fs = 1..Len(fs) /\ Len(fs) \in Nat
        /\ \A i \in DOMAIN fs : i \in DOMAIN gs /\ gs[i] = fs[i]
        /\ gs[Len(fs) + 1] = line /\ Len(fs) + 1 \in DOMAIN gs
        /\ \A i \in DOMAIN gs : i \in DOMAIN fs \/ i = Len(fs) + 1
    BY <1>3, <2>1
  <2>3. Total(gs) = Upto(wire, m + 1)
    <3>1. Total(gs) = Total(fs) + (IF line.what = "pub" THEN 1 ELSE 0)
      <4>1. Total(fs \o <<line>>) = Total(fs) + Total(<<line>>)
        BY <1>3, <2>1, TotalJoined
      <4>2. Total(<<line>>) = IF line.what = "pub" THEN 1 ELSE 0
        BY <1>3, NumberedOne
      <4> QED BY <2>1, <4>1, <4>2
    <3>2. Total(fs) = Upto(wire, m)
      BY DEF FramesRead, OrderRead
    <3> QED BY <1>4, <3>1, <3>2
  <2>4. ASSUME NEW a \in Nat, \A j \in 1..(m + 1) : wire[j].what = "pub" => wire[j].of = (a + Upto(wire, j)) % 3
        PROVE  Numbered(gs, a)
    <3>1. Numbered(fs, a)
      BY <1>2, <2>4 DEF FramesRead, OrderRead
    <3>2. Total(fs) = Upto(wire, m) /\ Total(fs) \in Nat
      BY <1>4 DEF FramesRead, OrderRead
    <3>3. line.what = "pub" => line.of = (a + Upto(wire, m + 1)) % 3
      BY <1>2, <2>4 DEF line
    <3>4. line.what = "pub" => line.of = ((a + Total(fs)) + 1) % 3
      <4>1. ASSUME line.what = "pub" PROVE a + Upto(wire, m + 1) = (a + Total(fs)) + 1
        BY <1>4, <3>2, <4>1
      <4> QED BY <3>3, <4>1
    <3>5. a + Total(fs) \in Nat
      BY <3>2
    <3>6. Numbered(<<line>>, a + Total(fs))
      BY <1>3, <3>4, <3>5, NumberedOne
    <3>7. Numbered(fs \o <<line>>, a)
      BY <1>3, <2>1, <3>1, <3>6, NumberedJoined
    <3> QED BY <2>1, <3>7
  <2>5. \A j \in 1..(m + 1) : Shown(wire[j]) => \E i \in DOMAIN gs : gs[i] = wire[j]
    <3> HIDE DEF gs, fs
    <3>1. \A j \in 1..m : Shown(wire[j]) => \E i \in DOMAIN fs : fs[i] = wire[j]
      BY DEF FramesRead, OrderRead, fs
    <3> QED BY <1>2, <2>2, <3>1 DEF line
  <2>6. \A i \in DOMAIN gs : \E j \in 1..(m + 1) : Shown(wire[j]) /\ gs[i] = wire[j]
    <3> HIDE DEF gs, fs
    <3>1. \A i \in DOMAIN fs : \E j \in 1..m : Shown(wire[j]) /\ fs[i] = wire[j]
      BY DEF FramesRead, OrderRead, fs
    <3> QED BY <1>2, <1>7, <2>2, <3>1 DEF line
  <2> QED BY <2>3, <2>4, <2>5, <2>6 DEF FramesRead, OrderRead, d, line
<1> QED BY <1>6, <1>7

LEMMA TermsReadNext ==
    ASSUME server \in Providers, timers \in Timings, wire \in Seq(WireLines),
           NEW m \in 0..Len(wire), m < Len(wire), wire[m + 1] \in Readable,
           NEW st \in Decodings, Goes(st), Goes(Decoded(st, wire[m + 1])), TermsRead(st, m)
    PROVE  TermsRead(Decoded(st, wire[m + 1]), m + 1)
<1> DEFINE line == wire[m + 1]
           d == Decoded(st, line)
<1>1. /\ IF Grants(line) THEN server.ttl # 0 /\ d.timers.refresh = Refresh(st.timers.refresh)
         ELSE d.timers.refresh = st.timers.refresh
      /\ IF Connects(line) THEN d.lease = Granted /\ d.timers.beat = PingEvery + Grace
         ELSE d.lease = st.lease /\ d.timers.beat = st.timers.beat
      /\ d.timers.idle = st.timers.idle
  BY DecodedMeans DEF Goes, Grants, Connects
<1>2. \A j \in 1..(m + 1) : j \in 1..m \/ j = m + 1
  OBVIOUS
<1>3. 1..m \subseteq 1..(m + 1) /\ m + 1 \in 1..(m + 1)
  OBVIOUS
<1>4. st.timers.refresh \in Nat \cup {Never}
  BY DEF Decodings, Timings
<1>5. Refresh(st.timers.refresh) = IF server.ttl = NoLease THEN st.timers.refresh ELSE Renewal
  BY <1>4, RefreshMeans
<1>6. /\ (\E j \in 1..(m + 1) : Grants(wire[j])) <=> (\E j \in 1..m : Grants(wire[j])) \/ Grants(line)
      /\ (\E j \in 1..(m + 1) : Connects(wire[j])) <=> (\E j \in 1..m : Connects(wire[j])) \/ Connects(line)
  BY <1>2, <1>3
<1> HIDE DEF d, line
<1>7. TermsRead(d, m + 1)
  BY <1>1, <1>5, <1>6 DEF TermsRead
<1> QED BY <1>7 DEF d, line

LEMMA BatchTyped ==
    ASSUME server \in Providers, commands \in Deadlines, timers \in Timings, lease \in Leases,
           wire \in Seq(WireLines), Central, NEW n \in 1..Len(wire), \A k \in 1..n : wire[k].what # "eof"
    PROVE  Begun \in Decodings /\ SubSeq(wire, 1, n) \in Seq(Readable) /\ Batch(n) \in Decodings
<1> DEFINE s == SubSeq(wire, 1, n)
<1>1. Begun \in Decodings
  <2>1. [timers EXCEPT !.beat = lease.beat] \in Timings
    BY DEF Timings, Leases
  <2>2. NoCommands \in Deadlines /\ <<>> \in Seq(WireLines)
    BY DeadlinesMean
  <2> QED BY <2>1, <2>2 DEF Begun, Decodings
<1>2. Batch(n) = AllDecoded(Begun, s)
  BY DEF Batch, Begun, Central, AllDecoded
<1>4. n \in Nat /\ Len(wire) \in Nat /\ n <= Len(wire) /\ \A k \in 1..n : wire[k] \in WireLines
  OBVIOUS
<1>5. s \in Seq(Readable)
  <2>1. \A k \in 1..n : wire[k] \in Readable
    BY <1>4 DEF Readable
  <2>2. s = [k \in 1..n |-> wire[k]]
    BY <1>4
  <2> HIDE DEF s
  <2> QED BY <1>4, <2>1, <2>2
<1> HIDE DEF s
<1>6. Batch(n) \in Decodings
  <2>1. Len(s) \in Nat /\ Len(s) \in 0..Len(s)
    BY <1>5
  <2>2. \E F : (\A k \in 0..Len(s) : F[k] \in Decodings) /\ AllDecoded(Begun, s) = F[Len(s)]
    BY <1>1, <1>5, DecodedOneByOne
  <2> QED BY <1>2, <2>1, <2>2
<1> QED BY <1>1, <1>5, <1>6 DEF s

LEMMA BatchMeans ==
    ASSUME server \in Providers, commands \in Deadlines, timers \in Timings, lease \in Leases,
           wire \in Seq(WireLines), Central,
           NEW n \in 1..Len(wire), \A k \in 1..n : wire[k].what # "eof", Goes(Batch(n))
    PROVE  Batch(n) \in Decodings /\ BatchRead(Batch(n), n)
<1> DEFINE s == SubSeq(wire, 1, n)
<1>1. Begun \in Decodings /\ s \in Seq(Readable)
  BY BatchTyped
<1>2. Batch(n) = AllDecoded(Begun, s)
  BY DEF Batch, Begun, Central, AllDecoded
<1>3. Len(s) = n /\ s \in Seq(WireLines) /\ \A k \in 1..n : s[k] = wire[k]
  OBVIOUS
<1>4. n \in Nat /\ Len(wire) \in Nat /\ n <= Len(wire) /\ \A k \in 1..n : wire[k] \in WireLines
  OBVIOUS
<1> HIDE DEF s
<1>6. PICK F : /\ F[0] = Begun
               /\ \A k \in 1..n : F[k] = Decoded(F[k - 1], s[k])
               /\ \A k \in 0..n : F[k] \in Decodings
               /\ Batch(n) = F[n]
  <2>1. \E F : /\ F[0] = Begun
               /\ \A k \in 1..Len(s) : F[k] = Decoded(F[k - 1], s[k])
               /\ \A k \in 0..Len(s) : F[k] \in Decodings
               /\ AllDecoded(Begun, s) = F[Len(s)]
    BY <1>1, DecodedOneByOne
  <2> QED BY <1>2, <1>3, <2>1
<1> DEFINE T == {k \in 0..n : Goes(F[k]) => BatchRead(F[k], k)}
<1>7. 0 \in T
  <2>1. \A j \in 1..0 : FALSE
    OBVIOUS
  <2>2. CommandsRead(Begun, 0)
    BY <2>1 DEF CommandsRead, Begun
  <2>3. FramesRead(Begun, 0)
    <3>1. 0 \in 0..Len(wire)
      BY <1>4
    <3>2. Upto(wire, 0) = 0 /\ Total(<<>>) = 0 /\ \A a \in Nat : Numbered(<<>>, a)
      BY <3>1, UptoNext, NumberedNone
    <3>3. Begun.frames = <<>> /\ DOMAIN <<>> = {}
      BY DEF Begun
    <3> QED BY <2>1, <3>2, <3>3 DEF FramesRead, OrderRead
  <2>4. TermsRead(Begun, 0)
    <3>1. Begun.timers.refresh = timers.refresh /\ Begun.timers.beat = lease.beat /\ Begun.timers.idle = timers.idle
      BY DEF Begun, Timings
    <3>2. Begun.lease = lease
      BY DEF Begun
    <3> QED BY <2>1, <3>1, <3>2 DEF TermsRead
  <2> QED BY <1>4, <1>6, <2>2, <2>3, <2>4 DEF BatchRead
<1>8. ASSUME NEW k \in 0..(n - 1), k \in T PROVE k + 1 \in T
  <2>1. k + 1 \in 1..n /\ (k + 1) - 1 = k /\ k + 1 \in 0..n /\ k \in 0..n /\ k \in 0..Len(wire) /\ k < Len(wire)
    BY <1>4
  <2>2. F[k + 1] = Decoded(F[k], wire[k + 1]) /\ F[k] \in Decodings /\ wire[k + 1] \in Readable
    BY <1>3, <1>4, <1>6, <2>1 DEF Readable
  <2>3. ASSUME Goes(F[k + 1]) PROVE BatchRead(F[k + 1], k + 1)
    <3>1. Goes(F[k])
      BY <2>2, <2>3, DecodedMeans DEF Goes
    <3>2. BatchRead(F[k], k)
      BY <1>8, <3>1
    <3> QED BY <2>1, <2>2, <2>3, <3>1, <3>2, CommandsReadNext, FramesReadNext, TermsReadNext DEF BatchRead
  <2> QED BY <2>1, <2>3
<1> HIDE DEF T
<1>9. n \in T
  <2>1. \A k \in 0..n : k \in T
    BY <1>4, <1>7, <1>8, NatInductTo
  <2> QED BY <1>4, <2>1
<1> QED BY <1>4, <1>6, <1>9 DEF T

-----------------------------------------------------------------------------
(* What the actions do to the connection's state, and that it keeps its    *)
(* type.                                                                   *)

LEMMA TypedMeans ==
    ASSUME LinkTyped
    PROVE  /\ timers.refresh \in Int /\ timers.refresh >= -1 /\ timers.beat \in Int /\ timers.beat >= -1
           /\ timers.idle \in Nat /\ lease.beat \in Nat /\ lease.pong \in BOOLEAN
           /\ server.ping \in Int /\ server.ping >= -1 /\ server.lease \in Int /\ server.ttl \in Nat \cup {NoLease}
           /\ server.asked \in Deadlines /\ server.pong \in BOOLEAN /\ server.said \in 0..2
           /\ since.read \in Nat /\ since.frame \in Nat /\ spent \in Nat /\ holds \in Nat /\ holds <= MaxHolds
           /\ Never = -1 /\ DOMAIN commands \subseteq Named /\ DOMAIN server.asked \subseteq Named
           /\ \A c \in DOMAIN commands : commands[c] \in Nat
           /\ \A c \in DOMAIN server.asked : server.asked[c] \in Nat
           /\ Len(wire) \in Nat /\ DOMAIN wire = 1..Len(wire) /\ Len(frames) \in Nat /\ DOMAIN frames = 1..Len(frames)
           /\ \A k \in DOMAIN wire : wire[k] \in WireLines
           /\ \A k \in DOMAIN frames : frames[k] \in WireLines
<1>1. timers.refresh \in Nat \cup {-1} /\ timers.beat \in Nat \cup {-1} /\ timers.idle \in Nat
  BY DEF LinkTyped, Timings, Never
<1>2. lease.beat \in Nat /\ lease.pong \in BOOLEAN
  BY DEF LinkTyped, Leases
<1>3. /\ server.ping \in Nat \cup {-1} /\ server.lease \in Int /\ server.ttl \in Nat \cup {NoLease}
      /\ server.asked \in Deadlines /\ server.pong \in BOOLEAN /\ server.said \in 0..2
  BY DEF LinkTyped, Providers, Never
<1>4. since.read \in Nat /\ since.frame \in Nat /\ spent \in Nat /\ holds \in 0..MaxHolds
  BY DEF LinkTyped
<1>5. DOMAIN commands \subseteq Named /\ \A c \in DOMAIN commands : commands[c] \in Nat
  BY DeadlinesMean DEF LinkTyped
<1>6. DOMAIN server.asked \subseteq Named /\ \A c \in DOMAIN server.asked : server.asked[c] \in Nat
  BY <1>3, DeadlinesMean
<1>7. /\ Len(wire) \in Nat /\ DOMAIN wire = 1..Len(wire) /\ \A k \in DOMAIN wire : wire[k] \in WireLines
      /\ Len(frames) \in Nat /\ DOMAIN frames = 1..Len(frames) /\ \A k \in DOMAIN frames : frames[k] \in WireLines
  <2>1. wire \in Seq(WireLines) /\ frames \in Seq(WireLines)
    BY DEF LinkTyped
  <2>2. \A s \in Seq(WireLines) : Len(s) \in Nat /\ DOMAIN s = 1..Len(s) /\ \A k \in DOMAIN s : s[k] \in WireLines
    OBVIOUS
  <2> QED BY <2>1, <2>2
<1>8. Never = -1
  BY DEF Never
<1>9. MaxHolds \in Nat
  BY ConstantsMean
<1> QED BY <1>1, <1>2, <1>3, <1>4, <1>5, <1>6, <1>7, <1>8, <1>9

\* What stays as it is when only the requests, the lease and the pings change.
SameProvider ==
    /\ server'.mode = server.mode /\ server'.ttl = server.ttl /\ server'.pong = server.pong
    /\ server'.said = server.said /\ server'.threwOut = server.threwOut

LEMMA SentMeans ==
    ASSUME LinkTyped, NEW cs \in SUBSET Named, Sent(cs)
    PROVE  /\ commands' \in Deadlines /\ DOMAIN commands' = DOMAIN commands \cup cs
           /\ \A c \in DOMAIN commands \cup cs : commands'[c] = IF c \in cs THEN AckTimeout ELSE commands[c]
           /\ server' \in Providers /\ SameProvider
           /\ server'.ping = server.ping /\ server'.owed = server.owed /\ server'.live = server.live
           /\ ~Well => server' = server
           /\ Well => /\ DOMAIN server'.asked = DOMAIN server.asked \cup cs
                      /\ \A c \in DOMAIN server.asked \cup cs :
                           server'.asked[c] = IF c \in cs THEN Latency ELSE server.asked[c]
                      /\ server'.lease = IF cs = Feeds THEN server.lease ELSE server.ttl
<1>1. commands \in Deadlines /\ server.asked \in Deadlines /\ server \in Providers
  BY TypedMeans DEF LinkTyped
<1>2. AckTimeout \in Nat /\ Latency \in Nat
  BY ConstantsMean
<1>3. commands' = With(commands, cs, AckTimeout)
  BY DEF Sent
<1>4. /\ commands' \in Deadlines /\ DOMAIN commands' = DOMAIN commands \cup cs
      /\ \A c \in DOMAIN commands \cup cs : commands'[c] = IF c \in cs THEN AckTimeout ELSE commands[c]
  BY <1>1, <1>2, <1>3, WithMeans
<1>5. CASE ~Well
  <2>1. server' = server
    BY <1>5 DEF Sent, Well
  <2> QED BY <1>1, <1>4, <1>5, <2>1 DEF SameProvider
<1>6. CASE Well
  <2> DEFINE asked == With(server.asked, cs, Latency)
             until == IF cs = Feeds THEN server.lease ELSE server.ttl
  <2>1. server' = [server EXCEPT !.asked = asked, !.lease = until]
    BY <1>6 DEF Sent, Well
  <2>2. /\ asked \in Deadlines /\ DOMAIN asked = DOMAIN server.asked \cup cs
        /\ \A c \in DOMAIN server.asked \cup cs : asked[c] = IF c \in cs THEN Latency ELSE server.asked[c]
    BY <1>1, <1>2, WithMeans
  <2>3. until \in Int
    BY TypedMeans, ConstantsMean
  <2> HIDE DEF asked, until
  <2>4. /\ server' \in Providers /\ server'.asked = asked /\ server'.lease = until /\ SameProvider
        /\ server'.ping = server.ping /\ server'.owed = server.owed /\ server'.live = server.live
    BY <1>1, <2>1, <2>2, <2>3 DEF Providers, SameProvider
  <2> QED BY <1>4, <1>6, <2>2, <2>4 DEF until
<1> QED BY <1>5, <1>6

LEMMA NegotiateTyped == LinkTyped /\ Negotiate /\ at' # "ended" => LinkTyped' /\ kind' \in {"pusher", "centrifugo"}
<1> SUFFICES ASSUME LinkTyped, Negotiate, at' # "ended" PROVE LinkTyped' /\ kind' \in {"pusher", "centrifugo"}
  OBVIOUS
<1>1. PICK offer \in Offers : /\ Usable(offer) # {} /\ kind' = Selected(offer) /\ at' = "opening"
                              /\ UNCHANGED <<ending, commands, frames, timers, lease, spent, wire, server, taken, since, holds>>
  BY DEF Negotiate, Refused, Leave
<1>2. offer \in Seq({"pusher", "centrifugo", "unusable"})
  BY LinkAssumption
<1>3. Usable(offer) \subseteq Nat /\ \A n \in Usable(offer) : offer[n] \in {"pusher", "centrifugo"}
  BY <1>2 DEF Usable
<1>4. PICK n \in Usable(offer) : \A m \in Usable(offer) : n <= m
  BY <1>1, <1>3, LeastMember
<1>5. Min(Usable(offer)) \in Usable(offer)
  BY <1>4 DEF Min
<1>6. kind' \in {"pusher", "centrifugo"}
  BY <1>1, <1>3, <1>5 DEF Selected
<1> QED BY <1>1, <1>6 DEF LinkTyped

LEMMA OpenSocketMeans ==
    ASSUME LinkTyped, OpenSocket, at' # "ended", kind \in {"pusher", "centrifugo"}
    PROVE  /\ LinkTyped' /\ UNCHANGED <<ending, kind, commands, frames, lease, wire, taken, since, holds>>
           /\ spent' = 0 /\ timers'.refresh = timers.refresh /\ timers'.idle = timers.idle
           /\ server'.mode = server.mode /\ server'.asked = server.asked /\ server'.lease = server.lease
           /\ server'.said = server.said /\ server'.owed = server.owed /\ server'.live = server.live
           /\ server'.threwOut = server.threwOut
           /\ kind = "pusher" => at' = "subscribing" /\ server'.ping = PingEvery /\ server'.ttl = server.ttl
           /\ kind = "centrifugo" => at' = "connecting" /\ timers'.beat = DefaultBeat /\ server'.ping = server.ping
<1>1. /\ at' = IF kind = "pusher" THEN "subscribing" ELSE "connecting"
      /\ timers' = IF kind = "pusher" THEN timers ELSE [timers EXCEPT !.beat = DefaultBeat]
      /\ IF kind = "pusher" THEN server' = [server EXCEPT !.ping = PingEvery]
         ELSE \E terms \in Terms : server' = [server EXCEPT !.ttl = terms.ttl, !.pong = terms.pong]
      /\ spent' = 0
      /\ UNCHANGED <<ending, kind, commands, frames, lease, wire, taken, since, holds>>
  BY DEF OpenSocket, Leave
<1>2. PingEvery \in Nat /\ DefaultBeat \in Nat
  BY ConstantsMean
<1>3. timers \in Timings /\ server \in Providers
  BY DEF LinkTyped
<1>4. CASE kind = "pusher"
  <2>1. server' = [server EXCEPT !.ping = PingEvery] /\ timers' = timers /\ at' = "subscribing"
    BY <1>1, <1>4
  <2>2. server' \in Providers /\ server'.ping = PingEvery /\ server'.ttl = server.ttl
        /\ server'.mode = server.mode /\ server'.asked = server.asked /\ server'.lease = server.lease
        /\ server'.said = server.said /\ server'.owed = server.owed /\ server'.live = server.live
        /\ server'.threwOut = server.threwOut
    BY <1>2, <1>3, <2>1 DEF Providers
  <2> QED BY <1>1, <1>4, <2>1, <2>2 DEF LinkTyped
<1>5. CASE kind = "centrifugo"
  <2>1. timers' = [timers EXCEPT !.beat = DefaultBeat] /\ at' = "connecting"
    BY <1>1, <1>5
  <2>2. PICK terms \in Terms : server' = [server EXCEPT !.ttl = terms.ttl, !.pong = terms.pong]
    BY <1>1, <1>5
  <2>3. terms.ttl \in Nat \cup {NoLease} /\ terms.pong \in BOOLEAN
    BY LinkAssumption
  <2>4. server' \in Providers /\ server'.ping = server.ping
        /\ server'.mode = server.mode /\ server'.asked = server.asked /\ server'.lease = server.lease
        /\ server'.said = server.said /\ server'.owed = server.owed /\ server'.live = server.live
        /\ server'.threwOut = server.threwOut
    BY <1>3, <2>2, <2>3 DEF Providers
  <2>5. timers' \in Timings /\ timers'.refresh = timers.refresh /\ timers'.idle = timers.idle /\ timers'.beat = DefaultBeat
    BY <1>2, <1>3, <2>1 DEF Timings
  <2> QED BY <1>1, <1>5, <2>1, <2>4, <2>5 DEF LinkTyped
<1> QED BY <1>4, <1>5

LEMMA SettingUpTyped ==
    ASSUME LinkTyped, NEW cs \in SUBSET Named, Sent(cs),
           at' \in {"subscribing", "receiving", "reading"}, spent' \in Nat, timers' \in Timings,
           since' \in [read : Nat, frame : Nat], UNCHANGED <<ending, kind, frames, lease, wire, taken, holds>>
    PROVE  LinkTyped'
  BY SentMeans DEF LinkTyped

LEMMA HandOverMeans ==
    ASSUME LinkTyped, HandOver
    PROVE  /\ LinkTyped' /\ UNCHANGED <<ending, kind, commands, lease, wire>>
           /\ at = "receiving" /\ frames # <<>> /\ frames' = Tail(frames)
           /\ taken' = IF Head(frames).what = "pub" THEN Head(frames).of ELSE taken
           /\ SameProvider /\ server'.asked = server.asked /\ server'.lease = server.lease
           /\ server'.ping = server.ping /\ server'.live = server.live
           /\ server'.owed => server.owed
           /\ Head(frames).what = "ping" /\ (kind = "pusher" \/ lease.pong) => ~server'.owed
           /\ timers'.idle = IdleTimeout /\ timers'.refresh = timers.refresh /\ timers'.beat = timers.beat
           /\ since'.frame = 0 /\ since'.read = since.read /\ spent' = 0
           /\ \/ at' = "receiving" /\ holds' = holds
              \/ at' = "held" /\ holds' = holds + 1 /\ holds < MaxHolds
<1> DEFINE frame == Head(frames)
<1>1. /\ at = "receiving" /\ frames # <<>> /\ frames' = Tail(frames) /\ spent' = 0
      /\ taken' = IF frame.what = "pub" THEN frame.of ELSE taken
      /\ server' = IF frame.what = "ping" /\ (kind = "pusher" \/ lease.pong) THEN [server EXCEPT !.owed = FALSE] ELSE server
      /\ timers' = [timers EXCEPT !.idle = IdleTimeout]
      /\ since' = [since EXCEPT !.frame = 0]
      /\ \/ at' = "receiving" /\ holds' = holds
         \/ at' = "held" /\ holds' = holds + 1 /\ holds < MaxHolds
      /\ UNCHANGED <<ending, kind, commands, lease, wire>>
  BY DEF HandOver
<1>2. frames \in Seq(WireLines) /\ server \in Providers /\ timers \in Timings /\ since \in [read : Nat, frame : Nat]
      /\ taken \in 0..2 /\ holds \in 0..MaxHolds
  BY DEF LinkTyped
<1>3. frame \in WireLines /\ Tail(frames) \in Seq(WireLines)
  BY <1>1, <1>2
<1>4. taken' \in 0..2
  BY <1>1, <1>2, <1>3, LineMeans
<1> HIDE DEF frame
<1>5. /\ server' \in Providers /\ SameProvider /\ server'.asked = server.asked /\ server'.lease = server.lease
      /\ server'.ping = server.ping /\ server'.live = server.live
      /\ server'.owed => server.owed
      /\ frame.what = "ping" /\ (kind = "pusher" \/ lease.pong) => ~server'.owed
  <2>1. CASE frame.what = "ping" /\ (kind = "pusher" \/ lease.pong)
    <3>1. server' = [server EXCEPT !.owed = FALSE]
      BY <1>1, <2>1
    <3>2. /\ server' \in Providers /\ SameProvider /\ server'.asked = server.asked /\ server'.lease = server.lease
          /\ server'.ping = server.ping /\ server'.live = server.live /\ server'.owed = FALSE
      BY <1>2, <3>1 DEF Providers, SameProvider
    <3> QED BY <3>2
  <2>2. CASE ~(frame.what = "ping" /\ (kind = "pusher" \/ lease.pong))
    <3>1. server' = server
      BY <1>1, <2>2
    <3> QED BY <1>2, <2>2, <3>1 DEF SameProvider
  <2> QED BY <2>1, <2>2
<1>6. timers' \in Timings /\ timers'.idle = IdleTimeout /\ timers'.refresh = timers.refresh /\ timers'.beat = timers.beat
  <2>1. IdleTimeout \in Nat
    BY ConstantsMean
  <2> QED BY <1>1, <1>2, <2>1 DEF Timings
<1>7. since' \in [read : Nat, frame : Nat] /\ since'.frame = 0 /\ since'.read = since.read
  BY <1>1, <1>2
<1>8. holds' \in 0..MaxHolds
  <2>1. MaxHolds \in Nat
    BY ConstantsMean
  <2> QED BY <1>1, <1>2, <2>1
<1>9. LinkTyped'
  BY <1>1, <1>3, <1>4, <1>5, <1>6, <1>7, <1>8 DEF LinkTyped
<1> QED BY <1>1, <1>5, <1>6, <1>7, <1>9 DEF frame

LEMMA StartReadMeans ==
    ASSUME LinkTyped, StartRead
    PROVE  /\ LinkTyped' /\ UNCHANGED <<ending, kind, commands, frames, lease, wire, server, taken, since, holds>>
           /\ at = "receiving" /\ frames = <<>> /\ ~Overdue /\ spent' = 0
           /\ timers'.idle = timers.idle /\ timers'.beat = timers.beat
           /\ \/ timers.refresh = 0 /\ at' = "renewing" /\ timers'.refresh = Never
              \/ timers.refresh # 0 /\ at' = "reading" /\ timers' = timers
<1>1. timers \in Timings
  BY DEF LinkTyped
<1>2. CASE timers.refresh = 0
  <2>1. at' = "renewing" /\ timers' = [timers EXCEPT !.refresh = Never]
    BY <1>2 DEF StartRead, Due
  <2>2. timers' \in Timings /\ timers'.refresh = Never /\ timers'.idle = timers.idle /\ timers'.beat = timers.beat
    BY <1>1, <2>1 DEF Timings
  <2> QED BY <1>2, <2>1, <2>2 DEF StartRead, LinkTyped
<1>3. CASE timers.refresh # 0
  <2>1. at' = "reading" /\ timers' = timers
    BY <1>3 DEF StartRead, Due
  <2> QED BY <1>1, <1>3, <2>1 DEF StartRead, LinkTyped
<1> QED BY <1>2, <1>3

LEMMA MinOfTwo == \A a, b \in Int : Min({a, b}) = IF a <= b THEN a ELSE b
<1> SUFFICES ASSUME NEW a \in Int, NEW b \in Int PROVE Min({a, b}) = IF a <= b THEN a ELSE b
  OBVIOUS
<1>1. \E x \in {a, b} : \A y \in {a, b} : x <= y
  BY SMT
<1>2. Min({a, b}) \in {a, b} /\ \A y \in {a, b} : Min({a, b}) <= y
  BY <1>1 DEF Min
<1> QED BY <1>2

LEMMA TimePassesMeans ==
    ASSUME LinkTyped, TimePasses
    PROVE  /\ LinkTyped' /\ UNCHANGED <<at, ending, kind, frames, lease, wire, taken>>
           /\ Waits /\ Prompt /\ spent' = spent + 1
           /\ timers'.refresh = Less(timers.refresh) /\ timers'.beat = Less(timers.beat) /\ timers'.idle = Less(timers.idle)
           /\ DOMAIN commands' = DOMAIN commands /\ \A c \in DOMAIN commands : commands'[c] = Less(commands[c])
           /\ SameProvider /\ server'.ping = Less(server.ping) /\ server'.lease = Less(server.lease)
           /\ server'.live = server.live /\ server'.owed = server.owed
           /\ DOMAIN server'.asked = DOMAIN server.asked
           /\ \A c \in DOMAIN server.asked : server'.asked[c] = Less(server.asked[c])
           /\ since'.read \in Nat /\ since'.read <= since.read + 1 /\ since'.frame \in Nat /\ since'.frame <= since.frame + 1
           /\ since.read <= since.frame => since'.read <= since'.frame
           /\ holds' = IF at = "reading" THEN 0 ELSE holds
<1>1. /\ Waits /\ Prompt /\ spent' = spent + 1
      /\ timers' = [t \in DOMAIN timers |-> Less(timers[t])]
      /\ commands' = [c \in DOMAIN commands |-> Less(commands[c])]
      /\ since' = [s \in DOMAIN since |-> Min({since[s] + 1, Most})]
      /\ holds' = (IF at = "reading" THEN 0 ELSE holds)
      /\ UNCHANGED <<at, ending, kind, frames, lease, wire, taken>>
  BY DEF TimePasses
<1>2. timers \in Timings /\ server \in Providers /\ since \in [read : Nat, frame : Nat] /\ commands \in Deadlines
      /\ server.asked \in Deadlines /\ spent \in Nat /\ holds \in 0..MaxHolds
  BY DEF LinkTyped, Providers
<1>3. /\ timers' \in Timings /\ timers'.refresh = Less(timers.refresh) /\ timers'.beat = Less(timers.beat)
      /\ timers'.idle = Less(timers.idle)
  BY <1>1, <1>2 DEF Timings, Less, Never
<1>4. /\ commands' \in Deadlines /\ DOMAIN commands' = DOMAIN commands
      /\ \A c \in DOMAIN commands : commands'[c] = Less(commands[c])
  BY <1>1, <1>2, TickedDeadlines
<1>5. /\ server' \in Providers /\ SameProvider /\ server'.ping = Less(server.ping) /\ server'.lease = Less(server.lease)
      /\ server'.live = server.live /\ server'.owed = server.owed
      /\ DOMAIN server'.asked = DOMAIN server.asked
      /\ \A c \in DOMAIN server.asked : server'.asked[c] = Less(server.asked[c])
  <2> DEFINE asked == [c \in DOMAIN server.asked |-> Less(server.asked[c])]
             ping == Less(server.ping)
             until == Less(server.lease)
  <2>1. server' = [server EXCEPT !.ping = ping, !.lease = until, !.asked = asked]
    BY <1>2 DEF TimePasses, Providers
  <2>2. /\ asked \in Deadlines /\ DOMAIN asked = DOMAIN server.asked
        /\ \A c \in DOMAIN server.asked : asked[c] = Less(server.asked[c])
    BY <1>2, TickedDeadlines
  <2>3. ping \in Nat \cup {Never} /\ until \in Int
    BY <1>2 DEF Providers, Less, Never
  <2> HIDE DEF asked, ping, until
  <2>4. /\ server' \in Providers /\ SameProvider /\ server'.ping = ping /\ server'.lease = until
        /\ server'.live = server.live /\ server'.owed = server.owed /\ server'.asked = asked
    BY <1>2, <2>1, <2>2, <2>3 DEF Providers, SameProvider
  <2> QED BY <2>2, <2>4 DEF ping, until
<1>6. /\ since' \in [read : Nat, frame : Nat] /\ since'.read <= since.read + 1 /\ since'.frame <= since.frame + 1
      /\ since.read <= since.frame => since'.read <= since'.frame
  <2>1. Most \in Nat
    BY ConstantsMean DEF Most
  <2>2. DOMAIN since = {"read", "frame"} /\ since.read \in Nat /\ since.frame \in Nat
    BY <1>2
  <2>3. since' = [since EXCEPT !.read = Min({@ + 1, Most}), !.frame = Min({@ + 1, Most})]
    BY <1>1, <1>2, <2>2
  <2> DEFINE r == Min({since.read + 1, Most})
             f == Min({since.frame + 1, Most})
  <2>4. /\ r = IF since.read + 1 <= Most THEN since.read + 1 ELSE Most
        /\ f = IF since.frame + 1 <= Most THEN since.frame + 1 ELSE Most
    BY <2>1, <2>2, MinOfTwo
  <2>5. since' \in [read : Nat, frame : Nat] /\ since'.read = r /\ since'.frame = f
    <3>1. r \in Nat /\ f \in Nat
      <4> HIDE DEF r, f
      <4> QED BY <2>1, <2>2, <2>4
    <3>2. since' = [since EXCEPT !.read = r, !.frame = f]
      BY <2>3
    <3> HIDE DEF r, f
    <3> QED BY <1>2, <3>1, <3>2
  <2> HIDE DEF r, f
  <2> QED BY <2>1, <2>2, <2>4, <2>5
<1>7. holds' \in 0..MaxHolds
  <2>1. MaxHolds \in Nat
    BY ConstantsMean
  <2> QED BY <1>1, <1>2, <2>1
<1>8. LinkTyped'
  <2>1. spent' \in Nat
    BY <1>1, <1>2
  <2>2. /\ commands' \in Deadlines /\ timers' \in Timings /\ server' \in Providers
        /\ since' \in [read : Nat, frame : Nat] /\ holds' \in 0..MaxHolds
        /\ UNCHANGED <<at, ending, kind, frames, lease, wire, taken>>
    BY <1>1, <1>3, <1>4, <1>5, <1>6, <1>7
  <2> QED BY <2>1, <2>2 DEF LinkTyped
<1>9. since'.read \in Nat /\ since'.frame \in Nat
  BY <1>6
<1> QED BY <1>1, <1>3, <1>4, <1>5, <1>6, <1>8, <1>9

\* A Pusher line is a frame of its own.
PusherRead(st) ==
    /\ st.timers = timers /\ st.lease = lease
    /\ st.frames = IF wire[1].what = "bad" THEN <<>> ELSE <<wire[1]>>
    /\ IF wire[1].what = "ack" /\ wire[1].of \in DOMAIN commands
       THEN /\ DOMAIN st.commands = DOMAIN commands \ {wire[1].of}
            /\ \A c \in DOMAIN st.commands : st.commands[c] = commands[c]
       ELSE st.commands = commands

LEMMA PusherBatchMeans ==
    ASSUME LinkTyped, ~Central, Len(wire) >= 1, NEW n
    PROVE  Batch(n) \in Decodings /\ Goes(Batch(n)) /\ PusherRead(Batch(n)) /\ OrderRead(Batch(n), 1)
<1> DEFINE line == wire[1]
           st == [commands |-> commands, frames |-> <<>>, end |-> "", lease |-> lease, timers |-> timers]
           left == IF line.what = "ack" THEN Without(commands, line.of) ELSE commands
           b == Batch(n)
<1>1. b = IF line.what = "bad" THEN st ELSE [st EXCEPT !.frames = Append(@, line), !.commands = left]
  BY DEF Batch, DecodedPusher, Central
<1>2. /\ commands \in Deadlines /\ lease \in Leases /\ timers \in Timings /\ wire \in Seq(WireLines)
      /\ line \in WireLines
  <2>1. wire \in Seq(WireLines)
    BY DEF LinkTyped
  <2>2. wire[1] \in WireLines
    BY <2>1
  <2> QED BY <2>1, <2>2 DEF LinkTyped
<1>3. left \in Deadlines
  BY <1>2, WithoutMeans
<1>4. line.what = "ack" =>
        /\ DOMAIN left = DOMAIN commands \ {line.of}
        /\ \A c \in DOMAIN left : left[c] = commands[c]
        /\ line.of \notin DOMAIN commands => left = commands
  <2> SUFFICES ASSUME line.what = "ack"
               PROVE  /\ DOMAIN left = DOMAIN commands \ {line.of}
                      /\ \A c \in DOMAIN left : left[c] = commands[c]
                      /\ line.of \notin DOMAIN commands => left = commands
    OBVIOUS
  <2>1. left = Without(commands, line.of)
    OBVIOUS
  <2>2. DOMAIN left = DOMAIN commands \ {line.of} /\ \A c \in DOMAIN left : left[c] = commands[c]
    BY <1>2, <2>1, WithoutMeans
  <2>3. commands \in [DOMAIN commands -> Nat] /\ left \in [DOMAIN left -> Nat]
    BY <1>2, <1>3, DeadlinesMean
  <2> HIDE DEF left
  <2>4. ASSUME line.of \notin DOMAIN commands PROVE left = commands
    <3>1. DOMAIN left = DOMAIN commands
      BY <2>2, <2>4
    <3> QED BY <2>2, <2>3, <3>1
  <2> QED BY <2>2, <2>4
<1>5. Append(<<>>, line) = <<line>> /\ <<line>> \in Seq(WireLines) /\ <<>> \in Seq(WireLines)
  BY <1>2
<1>6. /\ st \in Decodings /\ st.end = "" /\ st.timers = timers /\ st.lease = lease /\ st.frames = <<>>
      /\ st.commands = commands
  BY <1>2, <1>5 DEF Decodings
<1> HIDE DEF line, left
<1>7. 0 \in 0..Len(wire) /\ 0 < Len(wire) /\ 0 + 1 = 1 /\ \A j \in 1..1 : j = 1
  BY <1>2
<1>8. Upto(wire, 1) = IF line.what = "pub" THEN 1 ELSE 0
  <2>1. Upto(wire, 0 + 1) = Upto(wire, 0) + (IF wire[0 + 1].what = "pub" THEN 1 ELSE 0) /\ Upto(wire, 0) = 0
    BY <1>2, <1>7, UptoNext
  <2> QED BY <1>7, <2>1 DEF line
<1>9. CASE line.what = "bad"
  <2>1. b = st
    BY <1>1, <1>9
  <2>2. b \in Decodings /\ b.end = "" /\ b.timers = timers /\ b.lease = lease /\ b.frames = <<>> /\ b.commands = commands
    <3> HIDE DEF b, st
    <3> QED BY <1>6, <2>1
  <2>3. line.what # "pub" /\ line.what # "ack"
    BY <1>9
  <2>4. OrderRead(b, 1)
    BY <1>8, <2>2, <2>3, NumberedNone DEF OrderRead
  <2>5. PusherRead(b)
    BY <1>9, <2>2, <2>3 DEF PusherRead, line
  <2> HIDE DEF b
  <2> QED BY <2>2, <2>4, <2>5 DEF Goes, b
<1>10. CASE line.what # "bad"
  <2>1. b = [st EXCEPT !.frames = <<line>>, !.commands = left]
    BY <1>1, <1>5, <1>10
  <2>2. b \in Decodings /\ b.end = "" /\ b.timers = timers /\ b.lease = lease /\ b.frames = <<line>> /\ b.commands = left
    BY <1>3, <1>5, <1>6, <2>1 DEF Decodings
  <2> HIDE DEF b, st
  <2>4. OrderRead(b, 1)
    <3>1. Total(b.frames) = Upto(wire, 1)
      <4>1. 0 \in Nat
        OBVIOUS
      <4>2. Total(<<line>>) = IF line.what = "pub" THEN 1 ELSE 0
        BY <1>2, <4>1, NumberedOne DEF line
      <4> QED BY <1>8, <2>2, <4>2
    <3>2. ASSUME NEW a \in Nat, \A j \in 1..1 : wire[j].what = "pub" => wire[j].of = (a + Upto(wire, j)) % 3
          PROVE  Numbered(b.frames, a)
      <4>1. line.what = "pub" => line.of = (a + 1) % 3
        <5>1. 1 \in 1..1
          OBVIOUS
        <5> QED BY <1>8, <3>2, <5>1 DEF line
      <4>2. Numbered(<<line>>, a)
        BY <1>2, <4>1, NumberedOne DEF line
      <4> QED BY <2>2, <4>2
    <3> QED BY <3>1, <3>2 DEF OrderRead
  <2>5. left = IF line.what = "ack" THEN left ELSE commands
    BY DEF left
  <2>6. PusherRead(b)
    BY <1>4, <1>10, <2>2, <2>5 DEF PusherRead, line
  <2> QED BY <2>2, <2>4, <2>6 DEF Goes, b
<1> QED BY <1>9, <1>10

\* A batch that does not end the connection is taken from the wire, ...
Taken(st, n) ==
    /\ at = "reading" /\ commands' = st.commands /\ frames' = st.frames /\ timers' = st.timers /\ lease' = st.lease
    /\ wire' = SubSeq(wire, n + 1, Len(wire))
    /\ since'.read = 0 /\ since'.frame = since.frame
    /\ UNCHANGED <<kind, spent, server, taken, holds>>
    /\ OrderRead(st, n)
    /\ IF Central THEN BatchRead(st, n) ELSE n = 1 /\ PusherRead(st)
    /\ \/ at' = "receiving" /\ ending' = ending /\ (frames' = <<>> => timers.idle # 0)
       \/ at' = "ended" /\ ending' = "silent" /\ frames' = <<>> /\ timers.idle = 0

LEMMA ReadMeans ==
    ASSUME LinkTyped, Read
    PROVE  \/ Leave("lost") \/ Leave("refused")
           \/ LinkTyped' /\ \E n \in 1..Len(wire), st \in Decodings : Taken(st, n)
<1>1. /\ commands \in Deadlines /\ lease \in Leases /\ timers \in Timings /\ wire \in Seq(WireLines)
      /\ server \in Providers /\ since \in [read : Nat, frame : Nat]
  BY DEF LinkTyped
<1>2. at = "reading"
  BY DEF Read
<1>3. PICK n \in 1..(IF kind = "centrifugo" THEN Len(wire) ELSE Min({1, Len(wire)})) :
        /\ \A k \in 1..n : wire[k].what # "eof"
        /\ IF Batch(n).end # "" THEN Leave(Batch(n).end)
           ELSE /\ commands' = Batch(n).commands /\ frames' = Batch(n).frames
                /\ timers' = Batch(n).timers /\ lease' = Batch(n).lease
                /\ wire' = SubSeq(wire, n + 1, Len(wire))
                /\ since' = [since EXCEPT !.read = 0]
                /\ IF Batch(n).frames = <<>> THEN NoFrame(timers.idle) ELSE at' = "receiving" /\ UNCHANGED ending
                /\ UNCHANGED <<kind, spent, server, taken, holds>>
  BY DEF Read
<1>4. n \in 1..Len(wire) /\ (~Central => n = 1 /\ Len(wire) >= 1)
  <2>1. Len(wire) \in Nat
    BY <1>1
  <2>2. Min({1, Len(wire)}) = IF 1 <= Len(wire) THEN 1 ELSE Len(wire)
    BY <2>1, MinOfTwo
  <2>3. CASE kind = "centrifugo"
    BY <1>3, <2>1, <2>3 DEF Central
  <2>4. CASE kind # "centrifugo"
    <3>1. n \in 1..Min({1, Len(wire)})
      BY <1>3, <2>4
    <3> HIDE <1>3
    <3> QED BY <2>1, <2>2, <2>4, <3>1 DEF Central
  <2> QED BY <2>3, <2>4
<1> DEFINE st == Batch(n)
<1>5. CASE st.end # ""
  <2>1. Leave(st.end)
    BY <1>3, <1>5
  <2>2. st.end \in {"lost", "refused"}
    <3>1. CASE Central
      <4>1. st \in Decodings
        BY <1>1, <1>3, <1>4, <3>1, BatchTyped
      <4> QED BY <1>5, <4>1 DEF Decodings
    <3>2. CASE ~Central
      <4>1. st \in Decodings
        BY <1>4, <3>2, PusherBatchMeans
      <4> QED BY <1>5, <4>1 DEF Decodings
    <3> QED BY <3>1, <3>2
  <2> QED BY <2>1, <2>2
<1>6. CASE st.end = ""
  <2>1. /\ commands' = st.commands /\ frames' = st.frames
        /\ timers' = st.timers /\ lease' = st.lease
        /\ wire' = SubSeq(wire, n + 1, Len(wire))
        /\ since' = [since EXCEPT !.read = 0]
        /\ IF st.frames = <<>> THEN NoFrame(timers.idle) ELSE at' = "receiving" /\ ending' = ending
        /\ UNCHANGED <<kind, spent, server, taken, holds>>
    BY <1>3, <1>6
  <2>2. st \in Decodings /\ OrderRead(st, n) /\ (IF Central THEN BatchRead(st, n) ELSE n = 1 /\ PusherRead(st))
    <3>1. CASE Central
      <4>1. st \in Decodings /\ BatchRead(st, n)
        BY <1>1, <1>3, <1>4, <1>6, <3>1, BatchMeans DEF Goes
      <4> QED BY <3>1, <4>1 DEF BatchRead, FramesRead
    <3>2. CASE ~Central
      BY <1>4, <3>2, PusherBatchMeans
    <3> QED BY <3>1, <3>2
  <2> HIDE DEF st
  <2>3. \/ at' = "receiving" /\ ending' = ending /\ (frames' = <<>> => timers.idle # 0)
        \/ at' = "ended" /\ ending' = "silent" /\ frames' = <<>> /\ timers.idle = 0
    BY <2>1 DEF NoFrame, Due
  <2>4. since' \in [read : Nat, frame : Nat] /\ since'.read = 0 /\ since'.frame = since.frame
    BY <1>1, <2>1
  <2>5. wire' \in Seq(WireLines)
    <3>1. \A s \in Seq(WireLines) : \A k \in 1..Len(s) : SubSeq(s, k + 1, Len(s)) \in Seq(WireLines)
      OBVIOUS
    <3> QED BY <1>1, <1>4, <2>1, <3>1
  <2>6. commands' \in Deadlines /\ frames' \in Seq(WireLines) /\ timers' \in Timings /\ lease' \in Leases
    BY <2>1, <2>2 DEF Decodings
  <2>7. LinkTyped'
    BY <2>1, <2>3, <2>4, <2>5, <2>6 DEF LinkTyped
  <2> HIDE <1>3
  <2>8. Taken(st, n)
    BY <1>2, <2>1, <2>2, <2>3, <2>4 DEF Taken
  <2> QED BY <1>4, <2>2, <2>7, <2>8
<1> QED BY <1>5, <1>6

-----------------------------------------------------------------------------
(* The provider's steps.                                                   *)

LEMMA SendsMeans ==
    ASSUME LinkTyped, NEW line \in WireLines, Sends(line), server' \in Providers
    PROVE  /\ LinkTyped' /\ Well /\ at \notin {"negotiating", "opening", "ended"}
           /\ UNCHANGED <<at, ending, kind, commands, frames, timers, lease, spent, taken, since, holds>>
           /\ wire' = Append(wire, line) /\ wire \in Seq(WireLines)
           /\ Len(wire') = Len(wire) + 1 /\ DOMAIN wire' = DOMAIN wire \cup {Len(wire) + 1}
           /\ wire'[Len(wire) + 1] = line /\ \A k \in DOMAIN wire : wire'[k] = wire[k] /\ k < Len(wire) + 1
<1>1. /\ Well /\ at \notin {"negotiating", "opening", "ended"}
      /\ UNCHANGED <<at, ending, kind, commands, frames, timers, lease, spent, taken, since, holds>>
      /\ wire' = Append(wire, line) /\ wire \in Seq(WireLines)
  BY DEF Sends, Well, LinkTyped
<1>2. \A s \in Seq(WireLines) :
        /\ Append(s, line) \in Seq(WireLines) /\ Len(Append(s, line)) = Len(s) + 1
        /\ DOMAIN Append(s, line) = DOMAIN s \cup {Len(s) + 1}
        /\ Append(s, line)[Len(s) + 1] = line
        /\ \A k \in DOMAIN s : Append(s, line)[k] = s[k] /\ k < Len(s) + 1
  OBVIOUS
<1>3. /\ wire' \in Seq(WireLines) /\ Len(wire') = Len(wire) + 1 /\ DOMAIN wire' = DOMAIN wire \cup {Len(wire) + 1}
      /\ wire'[Len(wire) + 1] = line /\ \A k \in DOMAIN wire : wire'[k] = wire[k] /\ k < Len(wire) + 1
  BY <1>1, <1>2
<1>4. LinkTyped'
  BY <1>1, <1>3 DEF LinkTyped
<1> QED BY <1>1, <1>3, <1>4

LEMMA AnswerMeans ==
    ASSUME LinkTyped, Answer
    PROVE  \E c \in DOMAIN server.asked, line \in WireLines :
             /\ c # "connect" => "connect" \notin DOMAIN server.asked
             /\ line = Line("ack", c) /\ line.what = "ack" /\ line.of = c /\ Sends(line)
             /\ server' \in Providers /\ SameProvider /\ server'.lease = server.lease /\ server'.owed = server.owed
             /\ DOMAIN server'.asked = DOMAIN server.asked \ {c}
             /\ \A d \in DOMAIN server'.asked : server'.asked[d] = server.asked[d]
             /\ server'.live = (server.live \/ c \in Feeds)
             /\ server'.ping = IF c = "connect" THEN PingEvery ELSE server.ping
<1>1. PICK c \in DOMAIN server.asked :
        /\ c # "connect" => "connect" \notin DOMAIN server.asked
        /\ Sends(Line("ack", c))
        /\ server' = [server EXCEPT !.asked = Without(@, c), !.live = @ \/ c \in Feeds,
                                    !.ping = IF c = "connect" THEN PingEvery ELSE @]
  BY DEF Answer
<1>2. server \in Providers /\ server.asked \in Deadlines /\ DOMAIN server.asked \subseteq Named /\ server.ping \in Nat \cup {Never}
      /\ server.live \in BOOLEAN
  BY DeadlinesMean DEF LinkTyped, Providers
<1>3. Line("ack", c) \in WireLines
  BY <1>2, LineMeans DEF Answers
<1> DEFINE asked == Without(server.asked, c)
           live == server.live \/ c \in Feeds
           ping == IF c = "connect" THEN PingEvery ELSE server.ping
<1>4. asked \in Deadlines /\ DOMAIN asked = DOMAIN server.asked \ {c} /\ \A d \in DOMAIN asked : asked[d] = server.asked[d]
  BY <1>2, WithoutMeans
<1>5. live \in BOOLEAN /\ ping \in Nat \cup {Never}
  BY <1>2, ConstantsMean
<1>6. server' = [server EXCEPT !.asked = asked, !.live = live, !.ping = ping]
  BY <1>1
<1> HIDE DEF asked, live, ping
<1>7. /\ server' \in Providers /\ SameProvider /\ server'.lease = server.lease /\ server'.owed = server.owed
      /\ server'.asked = asked /\ server'.live = live /\ server'.ping = ping
  BY <1>2, <1>4, <1>5, <1>6 DEF Providers, SameProvider
<1>8. Line("ack", c).what = "ack" /\ Line("ack", c).of = c
  BY LineMeans
<1> QED BY <1>1, <1>3, <1>4, <1>7, <1>8 DEF live, ping

\* What the provider says without being asked, and what it says wrong.
OtherTerms ==
    /\ server'.ttl = server.ttl /\ server'.pong = server.pong /\ server'.lease = server.lease
    /\ server'.live = server.live

LEMMA PublishMeans ==
    ASSUME LinkTyped, Publish
    PROVE  \E line \in WireLines :
             /\ server.live /\ line.what = "pub" /\ line.of = (server.said + 1) % 3 /\ Sends(line)
             /\ server' \in Providers /\ OtherTerms /\ server'.mode = server.mode /\ server'.owed = server.owed
             /\ server'.threwOut = server.threwOut
             /\ server'.asked = server.asked /\ server'.ping = server.ping /\ server'.said = (server.said + 1) % 3
<1> DEFINE n == (server.said + 1) % 3
<1>1. server.live /\ Sends(Line("pub", n)) /\ server' = [server EXCEPT !.said = n]
  BY DEF Publish, Round
<1>2. server \in Providers /\ server.said \in 0..2
  BY DEF LinkTyped, Providers
<1>3. n \in 0..2
  BY <1>2
<1> HIDE DEF n
<1>4. Line("pub", n) \in WireLines /\ Line("pub", n).what = "pub" /\ Line("pub", n).of = n
  BY <1>3, LineMeans
<1>5. /\ server' \in Providers /\ OtherTerms /\ server'.mode = server.mode /\ server'.owed = server.owed
      /\ server'.asked = server.asked /\ server'.ping = server.ping /\ server'.said = n
      /\ server'.threwOut = server.threwOut
  BY <1>1, <1>2, <1>3 DEF Providers, OtherTerms
<1> QED BY <1>1, <1>4, <1>5 DEF n

LEMMA PingMeans ==
    ASSUME LinkTyped, Ping
    PROVE  \E line \in WireLines :
             /\ server.ping = 0 /\ Sends(line) /\ server' \in Providers /\ OtherTerms
             /\ server'.asked = server.asked /\ server'.said = server.said
             /\ \/ server.pong /\ server.owed /\ line.what = "closed" /\ server'.mode = "silent" /\ server'.threwOut
                \/ /\ ~(server.pong /\ server.owed) /\ line.what = "ping"
                   /\ server'.mode = server.mode /\ server'.threwOut = server.threwOut
                   /\ server'.ping = PingEvery /\ server'.owed
<1>1. server.ping = 0
  BY DEF Ping, Due
<1>2. server \in Providers
  BY DEF LinkTyped
<1>3. CASE server.pong /\ server.owed
  <2>1. Sends(Line("closed", 0)) /\ server' = [server EXCEPT !.mode = "silent", !.threwOut = TRUE]
    BY <1>3 DEF Ping
  <2>2. /\ server' \in Providers /\ OtherTerms /\ server'.mode = "silent" /\ server'.threwOut = TRUE
        /\ server'.asked = server.asked /\ server'.said = server.said
    BY <1>2, <2>1 DEF Providers, OtherTerms
  <2>3. Line("closed", 0) \in WireLines /\ Line("closed", 0).what = "closed"
    BY LineMeans
  <2> QED BY <1>1, <1>3, <2>1, <2>2, <2>3
<1>4. CASE ~(server.pong /\ server.owed)
  <2>1. Sends(Line("ping", 0)) /\ server' = [server EXCEPT !.ping = PingEvery, !.owed = TRUE]
    BY <1>4 DEF Ping
  <2>2. /\ server' \in Providers /\ OtherTerms /\ server'.ping = PingEvery /\ server'.owed = TRUE
        /\ server'.asked = server.asked /\ server'.said = server.said /\ server'.mode = server.mode
        /\ server'.threwOut = server.threwOut
    BY <1>2, <2>1, ConstantsMean DEF Providers, OtherTerms
  <2>3. Line("ping", 0) \in WireLines /\ Line("ping", 0).what = "ping"
    BY LineMeans
  <2> QED BY <1>1, <1>4, <2>1, <2>2, <2>3
<1> QED BY <1>3, <1>4

LEMMA ExpireMeans ==
    ASSUME LinkTyped, Expire
    PROVE  \E line \in WireLines :
             /\ server.lease = 0 /\ server.ttl > 0 /\ Sends(line) /\ line.what = "closed"
             /\ server' \in Providers /\ OtherTerms
             /\ server'.asked = server.asked /\ server'.said = server.said /\ server'.mode = "silent"
<1>1. Sends(Line("closed", 0)) /\ server' = [server EXCEPT !.mode = "silent", !.threwOut = TRUE]
  BY DEF Expire
<1>2. server \in Providers /\ server.lease = 0 /\ server.ttl > 0
  BY DEF LinkTyped, Expire, Due
<1>3. /\ server' \in Providers /\ OtherTerms /\ server'.mode = "silent"
      /\ server'.asked = server.asked /\ server'.said = server.said
  BY <1>1, <1>2 DEF Providers, OtherTerms
<1>4. Line("closed", 0) \in WireLines /\ Line("closed", 0).what = "closed"
  BY LineMeans
<1> QED BY <1>1, <1>2, <1>3, <1>4

\* A line that nobody waits for.
Stray(line) == line.what \in {"bad", "closed", "closedForGood", "eof"} \/ line = Line("ack", "unknown")

LEMMA MisbehaveMeans ==
    ASSUME LinkTyped, Misbehave
    PROVE  /\ server' \in Providers /\ OtherTerms /\ server'.said = server.said /\ server'.threwOut = server.threwOut
           /\ server'.ping = server.ping /\ server'.owed = server.owed
           /\ \/ \E line \in WireLines :
                   Sends(line) /\ Stray(line) /\ server'.asked = server.asked
                   /\ server'.mode \in {server.mode, "silent"} /\ (kind = "pusher" => line.what \in {"bad", "ack", "eof"})
              \/ \E c \in DOMAIN server.asked, line \in WireLines :
                   /\ kind = "centrifugo" /\ Sends(line) /\ line.what \in Answers \ {"ack"} /\ line.of = c
                   /\ server'.mode = server.mode /\ DOMAIN server'.asked = DOMAIN server.asked \ {c}
                   /\ \A d \in DOMAIN server'.asked : server'.asked[d] = server.asked[d]
              \/ /\ at \notin {"negotiating", "ended"} /\ server'.mode \in {"silent", "babbling"} /\ server'.asked = server.asked
                 /\ UNCHANGED <<at, ending, kind, commands, frames, timers, lease, spent, wire, taken, since, holds>>
<1>1. server \in Providers /\ server.faults \in Int /\ server.asked \in Deadlines /\ DOMAIN server.asked \subseteq Named
  BY DeadlinesMean DEF LinkTyped, Providers
<1> DEFINE faults == server.faults + 1
           Others == server'.said = server.said /\ server'.threwOut = server.threwOut
                     /\ server'.ping = server.ping /\ server'.owed = server.owed
<1>2. faults \in Int
  BY <1>1
<1> HIDE DEF faults
<1>3. ASSUME NEW mode \in {"silent", "babbling"}, server' = [server EXCEPT !.faults = faults, !.mode = mode]
      PROVE  server' \in Providers /\ OtherTerms /\ Others /\ server'.asked = server.asked /\ server'.mode = mode
  BY <1>1, <1>2, <1>3 DEF Providers, OtherTerms
<1>4. ASSUME server' = [server EXCEPT !.faults = faults]
      PROVE  server' \in Providers /\ OtherTerms /\ Others /\ server'.asked = server.asked /\ server'.mode = server.mode
  BY <1>1, <1>2, <1>4 DEF Providers, OtherTerms
<1>5. \/ Sends(Line("bad", 0)) /\ server' = [server EXCEPT !.faults = faults]
      \/ Sends(Line("ack", "unknown")) /\ server' = [server EXCEPT !.faults = faults]
      \/ kind = "centrifugo" /\ \E c \in DOMAIN server.asked, what \in Answers \ {"ack"} :
           Sends(Line(what, c)) /\ server' = [server EXCEPT !.faults = faults, !.asked = Without(@, c)]
      \/ kind = "centrifugo" /\ (\E what \in {"closed", "closedForGood"} : Sends(Line(what, 0)))
         /\ server' = [server EXCEPT !.faults = faults, !.mode = "silent"]
      \/ Sends(Line("eof", 0)) /\ server' = [server EXCEPT !.faults = faults, !.mode = "silent"]
      \/ /\ at \notin {"negotiating", "ended"}
         /\ \E mode \in {"silent", "babbling"} : server' = [server EXCEPT !.faults = faults, !.mode = mode]
         /\ UNCHANGED <<at, ending, kind, commands, frames, timers, lease, spent, wire, taken, since, holds>>
  BY DEF Misbehave, faults
<1>6. CASE Sends(Line("bad", 0)) /\ server' = [server EXCEPT !.faults = faults]
  BY <1>4, <1>6, LineMeans DEF Stray
<1>7. CASE Sends(Line("ack", "unknown")) /\ server' = [server EXCEPT !.faults = faults]
  <2>1. Line("ack", "unknown") \in WireLines /\ Line("ack", "unknown").what = "ack"
    BY LineMeans DEF Answers
  <2> QED BY <1>4, <1>7, <2>1 DEF Stray
<1>8. ASSUME kind = "centrifugo", NEW c \in DOMAIN server.asked, NEW what \in Answers \ {"ack"},
             Sends(Line(what, c)), server' = [server EXCEPT !.faults = faults, !.asked = Without(@, c)]
      PROVE  /\ server' \in Providers /\ OtherTerms /\ Others
             /\ Line(what, c) \in WireLines /\ Line(what, c).what = what /\ Line(what, c).of = c
             /\ server'.mode = server.mode /\ DOMAIN server'.asked = DOMAIN server.asked \ {c}
             /\ \A d \in DOMAIN server'.asked : server'.asked[d] = server.asked[d]
  <2> DEFINE asked == Without(server.asked, c)
  <2>1. asked \in Deadlines /\ DOMAIN asked = DOMAIN server.asked \ {c} /\ \A d \in DOMAIN asked : asked[d] = server.asked[d]
    BY <1>1, WithoutMeans
  <2>2. server' = [server EXCEPT !.faults = faults, !.asked = asked]
    BY <1>8
  <2> HIDE DEF asked
  <2>3. server' \in Providers /\ OtherTerms /\ Others /\ server'.asked = asked /\ server'.mode = server.mode
    BY <1>1, <1>2, <2>1, <2>2 DEF Providers, OtherTerms
  <2>4. Line(what, c) \in WireLines /\ Line(what, c).what = what /\ Line(what, c).of = c
    BY <1>1, LineMeans
  <2> QED BY <2>1, <2>3, <2>4
<1>9. ASSUME kind = "centrifugo", NEW what \in {"closed", "closedForGood"}, Sends(Line(what, 0)),
             server' = [server EXCEPT !.faults = faults, !.mode = "silent"]
      PROVE  /\ server' \in Providers /\ OtherTerms /\ Others /\ server'.asked = server.asked /\ server'.mode = "silent"
             /\ Line(what, 0) \in WireLines /\ Stray(Line(what, 0)) /\ kind # "pusher"
  <2>1. Line(what, 0) \in WireLines /\ Line(what, 0).what = what
    BY LineMeans
  <2> QED BY <1>3, <1>9, <2>1 DEF Stray
<1>10. ASSUME Sends(Line("eof", 0)), server' = [server EXCEPT !.faults = faults, !.mode = "silent"]
      PROVE  /\ server' \in Providers /\ OtherTerms /\ Others /\ server'.asked = server.asked /\ server'.mode = "silent"
             /\ Line("eof", 0) \in WireLines /\ Line("eof", 0).what = "eof" /\ Stray(Line("eof", 0))
  <2>1. Line("eof", 0) \in WireLines /\ Line("eof", 0).what = "eof"
    BY LineMeans
  <2> QED BY <1>3, <1>10, <2>1 DEF Stray
<1>11. ASSUME at \notin {"negotiating", "ended"}, NEW mode \in {"silent", "babbling"},
              server' = [server EXCEPT !.faults = faults, !.mode = mode]
       PROVE  server' \in Providers /\ OtherTerms /\ Others /\ server'.asked = server.asked /\ server'.mode \in {"silent", "babbling"}
  BY <1>3, <1>11
<1> HIDE DEF Others
<1> QED BY <1>5, <1>6, <1>7, <1>8, <1>9, <1>10, <1>11 DEF Others

-----------------------------------------------------------------------------
(* Where the reader is, and one answer to a command: kept by each action.  *)

LEMMA FreshMeans ==
    Fresh => /\ DOMAIN commands = {} /\ DOMAIN server.asked = {} /\ frames = <<>> /\ timers.refresh = Never
             /\ server.lease = Never /\ server.ping = Never /\ lease.beat = DefaultBeat /\ lease.pong = FALSE
  BY DeadlinesMean DEF Fresh

LEMMA NegotiateStands ==
    ASSUME LinkTyped, Standing, Negotiate, at' # "ended" PROVE Standing'
<1>1. /\ kind' \in {"pusher", "centrifugo"} /\ at = "negotiating" /\ at' = "opening"
      /\ UNCHANGED <<ending, commands, frames, timers, lease, spent, wire, server, taken, since, holds>>
  BY NegotiateTyped DEF Negotiate, Refused, Leave
<1>2. Fresh /\ wire = <<>> /\ server.ttl = NoLease
  BY <1>1 DEF Standing, Beginning
<1>3. DOMAIN commands = {} /\ DOMAIN server.asked = {} /\ frames = <<>> /\ Len(frames) = 0 /\ DOMAIN wire = {}
  BY <1>2, FreshMeans
<1>4. Beginning'
  BY <1>1, <1>2 DEF Beginning, Fresh
<1>5. Places'
  BY <1>1, <1>3 DEF Standing, Places
<1>6. PusherOnly'
  BY <1>1, <1>2, <1>3 DEF PusherOnly, Up, Running, Fresh
<1>7. OneToken'
  BY <1>1, <1>2, <1>3 DEF OneToken, Fresh
<1>8. AnswersOnce'
  BY <1>1, <1>3 DEF AnswersOnce
<1> QED BY <1>4, <1>5, <1>6, <1>7, <1>8 DEF Standing

LEMMA OpenSocketStands ==
    ASSUME LinkTyped, Standing, OpenSocket, at' # "ended" PROVE Standing'
<1>1. at = "opening" /\ kind \in {"pusher", "centrifugo"}
  BY DEF OpenSocket, Standing, Beginning, LinkTyped
<1>2. Fresh /\ wire = <<>> /\ server.ttl = NoLease
  BY <1>1 DEF Standing, Beginning
<1>3. /\ UNCHANGED <<ending, kind, commands, frames, lease, wire, taken, since, holds>>
      /\ spent' = 0 /\ timers'.refresh = timers.refresh /\ timers'.idle = timers.idle
      /\ server'.mode = server.mode /\ server'.asked = server.asked /\ server'.lease = server.lease
      /\ server'.owed = server.owed /\ server'.live = server.live /\ server'.threwOut = server.threwOut
      /\ kind = "pusher" => at' = "subscribing" /\ server'.ping = PingEvery /\ server'.ttl = server.ttl
      /\ kind = "centrifugo" => at' = "connecting" /\ timers'.beat = DefaultBeat /\ server'.ping = server.ping
  BY <1>1, OpenSocketMeans
<1>4. DOMAIN commands = {} /\ DOMAIN server.asked = {} /\ frames = <<>> /\ Len(frames) = 0 /\ DOMAIN wire = {}
      /\ timers.refresh = Never /\ server.lease = Never /\ Never = -1 /\ server.lease < 0
  BY <1>2, FreshMeans, TypedMeans
<1>5. PingEvery \in Nat /\ TokenTime \in Nat
  BY ConstantsMean
<1>6. Beginning'
  BY <1>1, <1>2, <1>3, <1>4 DEF Beginning, Fresh, Central
<1>7. Places'
  BY <1>1, <1>3, <1>4, <1>5 DEF Places
<1>8. PusherOnly'
  BY <1>1, <1>2, <1>3, <1>4, <1>5 DEF PusherOnly
<1>9. OneToken'
  BY <1>1, <1>3, <1>4 DEF OneToken
<1>10. AnswersOnce'
  BY <1>3, <1>4 DEF AnswersOnce
<1> QED BY <1>6, <1>7, <1>8, <1>9, <1>10 DEF Standing

\* A request that is not waited for yet is sent and waited for.
LEMMA SentOnce ==
    ASSUME LinkTyped, AnswersOnce, NEW cs \in SUBSET Named, DOMAIN commands \cap cs = {}, Sent(cs), wire' = wire
    PROVE  AnswersOnce'
<1>1. /\ DOMAIN commands' = DOMAIN commands \cup cs
      /\ DOMAIN server'.asked \subseteq DOMAIN server.asked \cup cs
  BY SentMeans
<1> QED BY <1>1 DEF AnswersOnce

LEMMA ConnectStands ==
    ASSUME LinkTyped, Standing, Connect, at' # "ended" PROVE Standing'
<1>1. /\ at = "connecting" /\ Sent({"connect"}) /\ at' = "subscribing" /\ spent' = 0
      /\ UNCHANGED <<ending, kind, frames, timers, lease, wire, taken, since, holds>>
  BY DEF Connect, Refused, Leave
<1>2. Central /\ Fresh /\ {"connect"} \in SUBSET Named
  BY <1>1 DEF Standing, Beginning, Named, Tokens
<1>3. DOMAIN commands = {} /\ frames = <<>> /\ timers.refresh = Never
  BY <1>2, FreshMeans
<1>4. DOMAIN commands' = {"connect"} /\ server'.ttl = server.ttl
      /\ (server.lease < 0 /\ server.ttl < 0 => server'.lease < 0)
  BY <1>1, <1>2, <1>3, SentMeans DEF SameProvider
<1>5. Beginning'
  BY <1>1, <1>2, <1>3, <1>4 DEF Beginning, Central
<1>6. Places'
  BY <1>1, <1>3, <1>4, ConstantsMean DEF Standing, Places
<1>7. PusherOnly'
  BY <1>1, <1>2 DEF PusherOnly, Central
<1>8. OneToken'
  BY <1>1, <1>3, <1>4 DEF OneToken
<1>9. AnswersOnce'
  BY <1>1, <1>2, <1>3, SentOnce DEF Standing
<1> QED BY <1>5, <1>6, <1>7, <1>8, <1>9 DEF Standing

LEMMA SubscribeMeans ==
    ASSUME LinkTyped, Standing, Subscribe
    PROVE  /\ LinkTyped' /\ at = "subscribing" /\ at' = "receiving" /\ Sent(Feeds) /\ Feeds \in SUBSET Named
           /\ DOMAIN commands \cap Feeds = {} /\ kind \in {"pusher", "centrifugo"} /\ frames = <<>>
           /\ DOMAIN commands = (IF Central THEN {"connect"} ELSE {})
           /\ timers'.refresh = timers.refresh /\ timers'.beat = timers.beat /\ timers'.idle = IdleTimeout
           /\ since'.read = 0 /\ since'.frame = 0
           /\ UNCHANGED <<ending, kind, frames, lease, spent, wire, taken, holds>>
<1>1. /\ at = "subscribing" /\ at' = "receiving" /\ Sent(Feeds) /\ Feeds \in SUBSET Named
      /\ timers' = [timers EXCEPT !.idle = IdleTimeout] /\ since' = [read |-> 0, frame |-> 0]
      /\ UNCHANGED <<ending, kind, frames, lease, spent, wire, taken, holds>>
  BY DEF Subscribe, Named
<1>2. /\ timers' \in Timings /\ timers'.refresh = timers.refresh /\ timers'.beat = timers.beat
      /\ timers'.idle = IdleTimeout
  BY <1>1, ConstantsMean DEF LinkTyped, Timings
<1>3. since' \in [read : Nat, frame : Nat] /\ since'.read = 0 /\ since'.frame = 0
  BY <1>1
<1>4. /\ DOMAIN commands = (IF Central THEN {"connect"} ELSE {}) /\ kind \in {"pusher", "centrifugo"} /\ frames = <<>>
      /\ DOMAIN commands \cap Feeds = {}
  BY <1>1, ConstantsMean DEF Standing, Beginning, LinkTyped
<1>5. spent' \in Nat
  BY <1>1 DEF LinkTyped
<1>6. LinkTyped'
  BY <1>1, <1>2, <1>3, <1>5, SettingUpTyped
<1> QED BY <1>1, <1>2, <1>3, <1>4, <1>6

LEMMA SubscribeStands ==
    ASSUME LinkTyped, Standing, Subscribe PROVE Standing'
<1>1. /\ at = "subscribing" /\ at' = "receiving" /\ Sent(Feeds) /\ Feeds \in SUBSET Named
      /\ DOMAIN commands \cap Feeds = {} /\ kind \in {"pusher", "centrifugo"} /\ frames = <<>>
      /\ DOMAIN commands = (IF Central THEN {"connect"} ELSE {})
      /\ timers'.refresh = timers.refresh
      /\ UNCHANGED <<ending, kind, frames, lease, spent, wire, taken, holds>>
  BY SubscribeMeans
<1>2. /\ DOMAIN commands' = DOMAIN commands \cup Feeds /\ server'.ttl = server.ttl /\ server'.lease = server.lease
      /\ server'.ping = server.ping
  BY <1>1, SentMeans DEF SameProvider
<1>3. timers.refresh = Never
  BY <1>1 DEF Standing, Beginning
<1>4. Beginning'
  BY <1>1 DEF Beginning
<1>5. Places'
  BY <1>1, <1>2 DEF Standing, Places
<1>6. PusherOnly'
  <2>1. kind = "pusher" => server.ping # Never /\ DOMAIN commands = {}
    BY <1>1 DEF Standing, PusherOnly, Up, Central
  <2> QED BY <1>1, <1>2, <2>1 DEF Standing, PusherOnly
<1>7. OneToken'
  BY <1>1, <1>2, <1>3, ConstantsMean DEF OneToken
<1>8. AnswersOnce'
  BY <1>1, SentOnce DEF Standing
<1> QED BY <1>4, <1>5, <1>6, <1>7, <1>8 DEF Standing

LEMMA RenewMeans ==
    ASSUME LinkTyped, Standing, Renew, at' # "ended"
    PROVE  /\ LinkTyped' /\ at = "renewing" /\ at' = "reading" /\ spent' = 0 /\ Sent({"refresh"})
           /\ {"refresh"} \in SUBSET Named /\ DOMAIN commands \cap {"refresh"} = {} /\ Central
           /\ "connect" \notin DOMAIN commands /\ timers.refresh = Never /\ frames = <<>>
           /\ UNCHANGED <<ending, kind, frames, timers, lease, wire, taken, since, holds>>
<1>1. /\ at = "renewing" /\ at' = "reading" /\ spent' = 0 /\ Sent({"refresh"}) /\ {"refresh"} \in SUBSET Named
      /\ UNCHANGED <<ending, kind, frames, timers, lease, wire, taken, since, holds>>
  BY DEF Renew, Refused, Leave, Named, Tokens
<1>2. DOMAIN commands \cap {"refresh"} = {} /\ "connect" \notin DOMAIN commands /\ timers.refresh = Never
  BY <1>1 DEF Standing, OneToken, Tokens
<1>3. Central /\ frames = <<>>
  BY <1>1 DEF Standing, Beginning, PusherOnly, Places, Central, LinkTyped
<1>4. LinkTyped'
  BY <1>1, SettingUpTyped DEF LinkTyped
<1> QED BY <1>1, <1>2, <1>3, <1>4

LEMMA RenewStands ==
    ASSUME LinkTyped, Standing, Renew, at' # "ended" PROVE Standing'
<1>1. /\ at = "renewing" /\ at' = "reading" /\ spent' = 0 /\ Sent({"refresh"})
      /\ {"refresh"} \in SUBSET Named /\ DOMAIN commands \cap {"refresh"} = {} /\ Central
      /\ "connect" \notin DOMAIN commands /\ timers.refresh = Never /\ frames = <<>>
      /\ UNCHANGED <<ending, kind, frames, timers, lease, wire, taken, since, holds>>
  BY RenewMeans
<1>2. /\ DOMAIN commands' = DOMAIN commands \cup {"refresh"} /\ server'.ttl = server.ttl
      /\ (server.lease < 0 /\ server.ttl < 0 => server'.lease < 0)
  BY <1>1, SentMeans DEF SameProvider
<1>3. Beginning'
  BY <1>1 DEF Standing, Beginning
<1>4. Places'
  <2>1. Never # 0 /\ (server.ttl = NoLease => server.ttl < 0)
    BY ConstantsMean DEF Never
  <2> QED BY <1>1, <1>2, <2>1 DEF Standing, Places
<1>5. PusherOnly'
  BY <1>1 DEF PusherOnly, Central
<1>6. OneToken'
  BY <1>1, <1>2 DEF OneToken
<1>7. AnswersOnce'
  BY <1>1, SentOnce DEF Standing
<1> QED BY <1>3, <1>4, <1>5, <1>6, <1>7 DEF Standing

LEMMA HandOverStands ==
    ASSUME LinkTyped, Standing, HandOver PROVE Standing'
<1>1. /\ UNCHANGED <<ending, kind, commands, lease, wire>>
      /\ at = "receiving" /\ frames # <<>> /\ frames' = Tail(frames)
      /\ SameProvider /\ server'.asked = server.asked /\ server'.lease = server.lease /\ server'.ping = server.ping
      /\ timers'.refresh = timers.refresh /\ spent' = 0
      /\ \/ at' = "receiving" /\ holds' = holds
         \/ at' = "held" /\ holds' = holds + 1 /\ holds < MaxHolds
  BY HandOverMeans
<1>2. Len(frames) \in Nat /\ Len(frames) >= 1 /\ Len(frames') = Len(frames) - 1 /\ (Len(frames') = 0 => frames' = <<>>)
      /\ holds \in Nat
  <2>1. frames \in Seq(WireLines) /\ frames # <<>>
    BY <1>1 DEF LinkTyped
  <2>2. \A s \in Seq(WireLines) : s # <<>> => /\ Len(s) \in Nat /\ Len(s) >= 1 /\ Len(Tail(s)) = Len(s) - 1
                                              /\ (Len(Tail(s)) = 0 => Tail(s) = <<>>)
    <3> SUFFICES ASSUME NEW s \in Seq(WireLines), s # <<>>
                 PROVE  Len(s) \in Nat /\ Len(s) >= 1 /\ Len(Tail(s)) = Len(s) - 1 /\ (Len(Tail(s)) = 0 => Tail(s) = <<>>)
      OBVIOUS
    <3>1. Len(s) \in Nat /\ Len(s) >= 1 /\ Len(Tail(s)) = Len(s) - 1 /\ Tail(s) \in Seq(WireLines)
      OBVIOUS
    <3>2. \A t \in Seq(WireLines) : Len(t) = 0 => t = <<>>
      OBVIOUS
    <3> QED BY <3>1, <3>2
  <2> QED BY <1>1, <2>1, <2>2, TypedMeans
<1>3. Beginning'
  BY <1>1 DEF Standing, Beginning
<1>4. Places'
  BY <1>1, <1>2 DEF Standing, Places, SameProvider
<1>5. PusherOnly'
  BY <1>1, <1>2 DEF Standing, PusherOnly, SameProvider, Up, Running
<1>6. OneToken'
  BY <1>1 DEF Standing, OneToken
<1>7. AnswersOnce'
  BY <1>1 DEF Standing, AnswersOnce
<1> QED BY <1>3, <1>4, <1>5, <1>6, <1>7 DEF Standing

LEMMA ReleasedStands ==
    ASSUME LinkTyped, Standing, Released PROVE Standing'
<1>1. /\ at = "held" /\ at' = "receiving"
      /\ UNCHANGED <<ending, kind, commands, frames, timers, lease, spent, wire, server, taken, since, holds>>
  BY DEF Released
<1>2. Beginning' /\ Places'
  BY <1>1 DEF Standing, Beginning, Places
<1>3. PusherOnly'
  BY <1>1 DEF Standing, PusherOnly, Up, Running
<1>4. OneToken' /\ AnswersOnce'
  BY <1>1 DEF Standing, OneToken, AnswersOnce
<1> QED BY <1>2, <1>3, <1>4 DEF Standing

LEMMA StartReadStands ==
    ASSUME LinkTyped, Standing, StartRead PROVE Standing'
<1>1. /\ UNCHANGED <<ending, kind, commands, frames, lease, wire, server, taken, since, holds>>
      /\ at = "receiving" /\ frames = <<>> /\ spent' = 0
      /\ \/ timers.refresh = 0 /\ at' = "renewing" /\ timers'.refresh = Never
         \/ timers.refresh # 0 /\ at' = "reading" /\ timers' = timers
  BY StartReadMeans
<1>2. TokenTime \in Nat /\ Never = -1
  BY ConstantsMean, TypedMeans
<1>3. Beginning'
  BY <1>1 DEF Standing, Beginning
<1>4. Places'
  BY <1>1, <1>2 DEF Standing, Places
<1>5. PusherOnly'
  BY <1>1, <1>2 DEF Standing, PusherOnly, Up, Running
<1>6. OneToken'
  BY <1>1, <1>2 DEF Standing, OneToken
<1>7. AnswersOnce'
  BY <1>1 DEF Standing, AnswersOnce
<1> QED BY <1>3, <1>4, <1>5, <1>6, <1>7 DEF Standing

LEMMA ReadNothingStands ==
    ASSUME LinkTyped, Standing, ReadNothing, at' # "ended" PROVE Standing'
<1>1. /\ at = "reading" /\ at' = "receiving" /\ ending' = ending
      /\ UNCHANGED <<kind, commands, frames, timers, lease, spent, wire, server, taken, since, holds>>
  BY DEF ReadNothing, NoFrame
<1>2. Beginning' /\ Places'
  BY <1>1 DEF Standing, Beginning, Places
<1>3. PusherOnly'
  BY <1>1 DEF Standing, PusherOnly, Up, Running
<1>4. OneToken' /\ AnswersOnce'
  BY <1>1 DEF Standing, OneToken, AnswersOnce
<1> QED BY <1>2, <1>3, <1>4 DEF Standing

LEMMA TimePassesStands ==
    ASSUME LinkTyped, Standing, TimePasses PROVE Standing'
<1>1. /\ UNCHANGED <<at, ending, kind, frames, lease, wire, taken>> /\ Waits /\ spent' = spent + 1
      /\ timers'.refresh = Less(timers.refresh) /\ DOMAIN commands' = DOMAIN commands
      /\ SameProvider /\ server'.ping = Less(server.ping) /\ server'.lease = Less(server.lease)
      /\ server'.live = server.live /\ server'.owed = server.owed /\ DOMAIN server'.asked = DOMAIN server.asked
      /\ holds' = IF at = "reading" THEN 0 ELSE holds
  BY TimePassesMeans
<1>2. /\ timers.refresh \in Int /\ timers.refresh >= -1 /\ server.ping \in Int /\ server.ping >= -1 /\ server.lease \in Int
      /\ Never = -1 /\ spent \in Nat
  BY TypedMeans
<1>3. /\ timers.refresh = Never <=> timers'.refresh = Never
      /\ server.ping = Never <=> server'.ping = Never
      /\ server.lease < 0 => server'.lease = server.lease
  BY <1>1, <1>2 DEF Less
<1>4. Beginning'
  <2>1. at = "connecting" => Central' /\ Fresh'
    <3> SUFFICES ASSUME at = "connecting" PROVE Central' /\ Fresh'
      OBVIOUS
    <3>1. Central /\ Fresh
      BY DEF Standing, Beginning
    <3>2. DOMAIN commands = {} /\ DOMAIN server.asked = {}
      BY <3>1, FreshMeans
    <3>3. commands' \in Deadlines /\ server'.asked \in Deadlines
      BY TimePassesMeans, TypedMeans DEF LinkTyped, Providers
    <3>4. \A f \in Deadlines : DOMAIN f = {} => f = NoCommands
      <4> SUFFICES ASSUME NEW f \in Deadlines, DOMAIN f = {} PROVE f = NoCommands
        OBVIOUS
      <4>1. f \in [{} -> Nat]
        BY DeadlinesMean
      <4> QED BY <4>1 DEF NoCommands
    <3>5. commands' = NoCommands /\ server'.asked = NoCommands
      BY <1>1, <3>2, <3>3, <3>4
    <3> QED BY <1>1, <1>2, <1>3, <3>1, <3>5 DEF Fresh, Central, SameProvider
  <2> QED BY <1>1, <1>3, <2>1 DEF Standing, Beginning, Waits
<1>5. Places'
  <2>1. at' = "reading" /\ spent' = 0 => FALSE
    BY <1>1, <1>2
  <2>2. at' \in {"held", "reading"} => spent' \in {0, 1}
    BY <1>1, <1>2 DEF Waits
  <2>3. at' \in {"connecting", "renewing"} => spent' <= TokenTime
    BY <1>1, <1>2, ConstantsMean DEF Waits
  <2> QED BY <1>1, <1>3, <2>1, <2>2, <2>3 DEF Standing, Places, SameProvider
<1>6. PusherOnly'
  BY <1>1, <1>3 DEF Standing, PusherOnly, Up, Running, SameProvider
<1>7. OneToken'
  BY <1>1, <1>3 DEF Standing, OneToken
<1>8. AnswersOnce'
  BY <1>1 DEF Standing, AnswersOnce
<1> QED BY <1>4, <1>5, <1>6, <1>7, <1>8 DEF Standing

\* What is common to the batches of both providers: the commands they answer are
\* over, and the rest of the wire is still to come.
LEMMA TakenMeans ==
    ASSUME LinkTyped, Standing, NEW n \in 1..Len(wire), NEW st \in Decodings, Taken(st, n)
    PROVE  /\ DOMAIN commands' \subseteq DOMAIN commands /\ \A c \in DOMAIN commands' : commands'[c] = commands[c]
           /\ \A c \in DOMAIN commands : c \in DOMAIN commands' \/ \E j \in 1..n : IsAnswer(wire[j], c)
           /\ \A j \in 1..n, c \in DOMAIN commands : IsAnswer(wire[j], c) => c \notin DOMAIN commands'
           /\ Len(wire') = Len(wire) - n /\ DOMAIN wire' = 1..(Len(wire) - n)
           /\ \A k \in DOMAIN wire' : wire'[k] = wire[n + k] /\ n + k \in DOMAIN wire /\ n + k \notin 1..n
           /\ 1..n \subseteq DOMAIN wire /\ n \in Nat
<1>1. wire \in Seq(WireLines) /\ wire' = SubSeq(wire, n + 1, Len(wire)) /\ commands' = st.commands
  BY DEF LinkTyped, Taken
<1>2. \A s \in Seq(WireLines) : \A m \in 1..Len(s) :
        LET t == SubSeq(s, m + 1, Len(s))
        IN  /\ Len(t) = Len(s) - m /\ DOMAIN t = 1..(Len(s) - m)
            /\ \A k \in DOMAIN t : t[k] = s[m + k] /\ m + k \in DOMAIN s /\ m + k \notin 1..m
            /\ 1..m \subseteq DOMAIN s /\ m \in Nat
  OBVIOUS
<1>3. /\ Len(wire') = Len(wire) - n /\ DOMAIN wire' = 1..(Len(wire) - n)
      /\ \A k \in DOMAIN wire' : wire'[k] = wire[n + k] /\ n + k \in DOMAIN wire /\ n + k \notin 1..n
      /\ 1..n \subseteq DOMAIN wire /\ n \in Nat
  BY <1>1, <1>2
<1>4. CASE Central
  <2>1. CommandsRead(st, n)
    BY <1>4 DEF Taken, BatchRead
  <2>2. \A j \in 1..n : wire[j].what \in {"bad", "ping", "pub", "ack"}
    BY <2>1 DEF CommandsRead
  <2>3. \A j \in 1..n : \A c : IsAnswer(wire[j], c) <=> wire[j].what = "ack" /\ wire[j].of = c
    BY <2>2 DEF IsAnswer, Answers
  <2>4. /\ DOMAIN commands' \subseteq DOMAIN commands /\ \A c \in DOMAIN commands' : commands'[c] = commands[c]
        /\ \A c \in DOMAIN commands : c \in DOMAIN commands' \/ \E j \in 1..n : wire[j].what = "ack" /\ wire[j].of = c
        /\ \A j \in 1..n : wire[j].what = "ack" => wire[j].of \notin DOMAIN commands'
    BY <1>1, <2>1 DEF CommandsRead
  <2>5. \A c \in DOMAIN commands : c \in DOMAIN commands' \/ \E j \in 1..n : IsAnswer(wire[j], c)
    BY <2>3, <2>4
  <2>6. \A j \in 1..n, c \in DOMAIN commands : IsAnswer(wire[j], c) => c \notin DOMAIN commands'
    <3> SUFFICES ASSUME NEW j \in 1..n, NEW c \in DOMAIN commands, IsAnswer(wire[j], c) PROVE c \notin DOMAIN commands'
      OBVIOUS
    <3>1. wire[j].what = "ack" /\ wire[j].of = c
      BY <2>3
    <3> QED BY <2>4, <3>1
  <2> QED BY <1>3, <2>4, <2>5, <2>6
<1>5. CASE ~Central
  <2>1. n = 1 /\ PusherRead(st) /\ 1..1 = {1} /\ 1 \in DOMAIN wire
    BY <1>3, <1>5 DEF Taken
  <2>2. wire[1].what \notin {"temporary", "denied", "empty"}
    <3>1. kind = "pusher"
      BY <1>5 DEF LinkTyped, Standing, Beginning, Taken, Central
    <3> QED BY <2>1, <3>1 DEF Standing, PusherOnly
  <2>3. \A c : IsAnswer(wire[1], c) <=> wire[1].what = "ack" /\ wire[1].of = c
    BY <2>2 DEF IsAnswer, Answers
  <2>4. CASE wire[1].what = "ack" /\ wire[1].of \in DOMAIN commands
    <3>1. DOMAIN commands' = DOMAIN commands \ {wire[1].of} /\ \A c \in DOMAIN commands' : commands'[c] = commands[c]
      BY <1>1, <2>1, <2>4 DEF PusherRead
    <3> QED BY <1>3, <2>1, <2>3, <2>4, <3>1
  <2>5. CASE ~(wire[1].what = "ack" /\ wire[1].of \in DOMAIN commands)
    <3>1. commands' = commands
      BY <1>1, <2>1, <2>5 DEF PusherRead
    <3> QED BY <1>3, <2>1, <2>3, <2>5, <3>1
  <2> QED BY <2>4, <2>5
<1> QED BY <1>4, <1>5

LEMMA ReadStands ==
    ASSUME LinkTyped, Standing, NEW n \in 1..Len(wire), NEW st \in Decodings, Taken(st, n), at' = "receiving"
    PROVE  Standing'
<1>1. /\ at = "reading" /\ frames' = st.frames /\ timers' = st.timers
      /\ UNCHANGED <<kind, spent, server, taken, holds>>
      /\ IF Central THEN BatchRead(st, n) ELSE n = 1 /\ PusherRead(st)
  BY DEF Taken
<1>2. /\ DOMAIN commands' \subseteq DOMAIN commands
      /\ \A c \in DOMAIN commands : c \in DOMAIN commands' \/ \E j \in 1..n : IsAnswer(wire[j], c)
      /\ \A j \in 1..n, c \in DOMAIN commands : IsAnswer(wire[j], c) => c \notin DOMAIN commands'
      /\ \A k \in DOMAIN wire' : wire'[k] = wire[n + k] /\ n + k \in DOMAIN wire /\ n + k \notin 1..n
      /\ 1..n \subseteq DOMAIN wire
  BY TakenMeans
<1>3. kind \in {"pusher", "centrifugo"}
  BY <1>1 DEF Standing, Beginning, LinkTyped
<1>4. Beginning'
  BY <1>1, <1>3 DEF Beginning
<1>5. Central =>
        \/ (\E j \in 1..n : Grants(wire[j])) /\ timers'.refresh = (IF server.ttl = NoLease THEN timers.refresh ELSE Renewal)
        \/ timers'.refresh = timers.refresh
  BY <1>1 DEF BatchRead, TermsRead
<1>6. ~Central => timers' = timers /\ Len(frames') <= 1
  <2> SUFFICES ASSUME ~Central PROVE timers' = timers /\ Len(frames') <= 1
    OBVIOUS
  <2>1. Len(<<wire[1]>>) = 1 /\ Len(<<>>) = 0
    OBVIOUS
  <2>2. PusherRead(st)
    BY <1>1
  <2>3. frames' = <<>> \/ frames' = <<wire[1]>>
    BY <1>1, <2>2 DEF PusherRead
  <2>4. timers' = timers
    BY <1>1, <2>2 DEF PusherRead
  <2>5. Len(frames') = 0 \/ Len(frames') = 1
    BY <2>1, <2>3
  <2> QED BY <2>4, <2>5
<1>7. Places'
  BY <1>1, <1>5, <1>6 DEF Standing, Places
<1>8. PusherOnly'
  BY <1>1, <1>2, <1>3, <1>6 DEF Standing, PusherOnly, Up, Running, Central
<1>9. OneToken'
  <2>1. ASSUME timers'.refresh # Never PROVE DOMAIN commands' \cap Tokens = {}
    <3>1. CASE timers'.refresh = timers.refresh
      BY <1>2, <2>1, <3>1 DEF Standing, OneToken
    <3>2. CASE \E j \in 1..n : Grants(wire[j])
      <4>1. PICK j \in 1..n : Grants(wire[j])
        BY <3>2
      <4>2. wire[j].of \in Tokens /\ IsAnswer(wire[j], wire[j].of) /\ wire[j].of \in Named
        BY <4>1 DEF Grants, IsAnswer, Answers, Named
      <4>3. wire[j].of \in DOMAIN commands /\ wire[j].of \notin DOMAIN commands'
        BY <1>2, <4>2 DEF Standing, AnswersOnce
      <4> QED BY <1>2, <4>2, <4>3 DEF Standing, OneToken, Tokens
    <3> QED BY <1>5, <1>6, <3>1, <3>2
  <2> QED BY <1>1, <1>2, <2>1 DEF Standing, OneToken
<1>10. AnswersOnce'
  <2>1. DOMAIN server.asked \subseteq DOMAIN commands'
    <3> SUFFICES ASSUME NEW c \in DOMAIN server.asked, c \notin DOMAIN commands' PROVE FALSE
      OBVIOUS
    <3>1. c \in DOMAIN commands /\ c \in Named
      BY TypedMeans DEF Standing, AnswersOnce
    <3>2. PICK j \in 1..n : IsAnswer(wire[j], c)
      BY <1>2, <3>1
    <3> QED BY <1>2, <3>1, <3>2 DEF Standing, AnswersOnce
  <2>2. ASSUME NEW k \in DOMAIN wire', NEW c \in Named, IsAnswer(wire'[k], c)
        PROVE  /\ c \in DOMAIN commands' /\ c \notin DOMAIN server.asked
               /\ \A j \in DOMAIN wire' : IsAnswer(wire'[j], c) => j = k
    <3>1. n + k \in DOMAIN wire /\ IsAnswer(wire[n + k], c) /\ n + k \notin 1..n
      BY <1>2, <2>2
    <3>2. c \in DOMAIN commands /\ c \notin DOMAIN server.asked /\ \A j \in DOMAIN wire : IsAnswer(wire[j], c) => j = n + k
      BY <3>1 DEF Standing, AnswersOnce
    <3>3. c \in DOMAIN commands'
      <4>1. ASSUME NEW j \in 1..n, IsAnswer(wire[j], c) PROVE FALSE
        BY <1>2, <3>1, <3>2, <4>1
      <4> QED BY <1>2, <3>2, <4>1
    <3>4. ASSUME NEW j \in DOMAIN wire', IsAnswer(wire'[j], c) PROVE j = k
      <4>1. n + j = n + k
        BY <1>2, <3>2, <3>4
      <4>2. DOMAIN wire' = 1..(Len(wire) - n)
        BY TakenMeans
      <4>3. j \in Int /\ k \in Int /\ n \in Int
        BY <4>2
      <4> QED BY <4>1, <4>3
    <3> QED BY <3>2, <3>3, <3>4
  <2> QED BY <1>1, <2>1, <2>2 DEF AnswersOnce, IsAnswer
<1> QED BY <1>4, <1>7, <1>8, <1>9, <1>10 DEF Standing

-----------------------------------------------------------------------------
(* The same of the provider's steps.                                       *)

\* A line of the provider's that answers at most what was asked.
Proper(line) ==
    /\ line \in WireLines /\ Sends(line) /\ server' \in Providers
    /\ server'.ttl = server.ttl /\ server'.lease = server.lease
    /\ DOMAIN server'.asked \subseteq DOMAIN server.asked
    /\ \A c \in Named : IsAnswer(line, c) => c \in DOMAIN server.asked /\ c \notin DOMAIN server'.asked
    /\ kind = "pusher" => line.what \notin {"temporary", "denied", "empty"}
    /\ server.ping # Never => server'.ping # Never
    /\ at = "connecting" => Fresh'

LEMMA ProperStands ==
    ASSUME LinkTyped, Standing, NEW line, Proper(line) PROVE Standing'
<1>1. /\ line \in WireLines /\ server' \in Providers /\ server'.ttl = server.ttl /\ server'.lease = server.lease
      /\ DOMAIN server'.asked \subseteq DOMAIN server.asked /\ at \notin {"negotiating", "opening", "ended"}
      /\ UNCHANGED <<at, ending, kind, commands, frames, timers, lease, spent, taken, since, holds>>
      /\ DOMAIN wire' = DOMAIN wire \cup {Len(wire) + 1}
      /\ wire'[Len(wire) + 1] = line /\ \A k \in DOMAIN wire : wire'[k] = wire[k]
  BY SendsMeans DEF Proper
<1>2. Beginning'
  BY <1>1 DEF Standing, Beginning, Proper, Central
<1>3. Places'
  BY <1>1 DEF Standing, Places
<1>4. PusherOnly'
  BY <1>1 DEF Standing, PusherOnly, Up, Running, Proper
<1>5. OneToken'
  BY <1>1 DEF Standing, OneToken
<1>6. AnswersOnce'
  BY <1>1 DEF Standing, AnswersOnce, Proper, IsAnswer
<1> QED BY <1>2, <1>3, <1>4, <1>5, <1>6 DEF Standing

LEMMA ExpireIsProper ==
    ASSUME LinkTyped, Standing, Expire PROVE \E line \in WireLines : Proper(line)
<1>1. PICK line \in WireLines :
        /\ server.lease = 0 /\ Sends(line) /\ server' \in Providers /\ OtherTerms
        /\ server'.asked = server.asked /\ line.what = "closed"
  BY ExpireMeans
<1>2. server'.ping = server.ping
  BY DEF Expire, LinkTyped, Providers
<1>3. at # "connecting"
  <2> SUFFICES ASSUME at = "connecting" PROVE FALSE
    OBVIOUS
  <2>1. server.lease = Never
    BY FreshMeans DEF Standing, Beginning
  <2> QED BY <1>1, <2>1 DEF Never
<1> QED BY <1>1, <1>2, <1>3 DEF Proper, IsAnswer, OtherTerms, Answers

LEMMA MisbehaveStands ==
    ASSUME LinkTyped, Standing, Misbehave PROVE LinkTyped' /\ Standing'
<1>1. /\ server' \in Providers /\ OtherTerms /\ server'.threwOut = server.threwOut
      /\ server'.ping = server.ping /\ server'.owed = server.owed
  BY MisbehaveMeans
<1>2. ASSUME NEW line \in WireLines, Sends(line), Stray(line), server'.asked = server.asked,
             kind = "pusher" => line.what \in {"bad", "ack", "eof"}
      PROVE  LinkTyped' /\ Standing'
  <2>1. UNCHANGED <<at, ending, kind, commands, frames, timers, lease, spent, taken, since, holds>>
    BY <1>2 DEF Sends
  <2>2. Fresh => Fresh'
    BY <1>1, <1>2, <2>1 DEF Fresh, OtherTerms
  <2>3. \A c \in Named : ~IsAnswer(line, c)
    <3>1. Line("ack", "unknown").of = "unknown" /\ "unknown" \notin Named
      BY LineMeans, ConstantsMean DEF Named, Tokens
    <3> QED BY <1>2, <3>1 DEF Stray, IsAnswer, Answers
  <2>4. Proper(line)
    BY <1>1, <1>2, <2>2, <2>3 DEF Proper, OtherTerms, Standing, Beginning
  <2> QED BY <1>1, <1>2, <2>4, ProperStands, SendsMeans
<1>3. ASSUME NEW c \in DOMAIN server.asked, NEW line \in WireLines, kind = "centrifugo", Sends(line),
             line.what \in Answers, line.of = c, DOMAIN server'.asked = DOMAIN server.asked \ {c}
      PROVE  LinkTyped' /\ Standing'
  <2>1. at # "connecting"
    BY FreshMeans DEF Standing, Beginning
  <2>2. Proper(line)
    BY <1>1, <1>3, <2>1 DEF Proper, OtherTerms, IsAnswer
  <2> QED BY <1>1, <1>3, <2>2, ProperStands, SendsMeans
<1>4. ASSUME at \notin {"negotiating", "ended"}, server'.asked = server.asked,
             UNCHANGED <<at, ending, kind, commands, frames, timers, lease, spent, wire, taken, since, holds>>
      PROVE  LinkTyped' /\ Standing'
  <2>1. LinkTyped'
    BY <1>1, <1>4 DEF LinkTyped
  <2>2. Beginning'
    BY <1>1, <1>4 DEF Standing, Beginning, Fresh, OtherTerms, Central
  <2>3. Places'
    BY <1>1, <1>4 DEF Standing, Places, OtherTerms
  <2>4. PusherOnly'
    BY <1>1, <1>4 DEF Standing, PusherOnly, Up, Running, OtherTerms
  <2>5. OneToken' /\ AnswersOnce'
    BY <1>4 DEF Standing, OneToken, AnswersOnce
  <2> QED BY <2>1, <2>2, <2>3, <2>4, <2>5 DEF Standing
<1> QED BY <1>2, <1>3, <1>4, MisbehaveMeans

LEMMA BabbleMeans ==
    ASSUME LinkTyped, Babble
    PROVE  /\ LinkTyped' /\ server.mode = "babbling" /\ wire = <<>> /\ at = "reading" /\ DOMAIN wire' = {1} /\ wire'[1].what = "bad"
           /\ wire' = <<Line("bad", 0)>> /\ Line("bad", 0) \in WireLines
           /\ UNCHANGED <<at, ending, kind, commands, frames, timers, lease, spent, server, taken, since, holds>>
<1>1. /\ server.mode = "babbling" /\ wire = <<>> /\ at = "reading" /\ wire' = <<Line("bad", 0)>>
      /\ UNCHANGED <<at, ending, kind, commands, frames, timers, lease, spent, server, taken, since, holds>>
  BY DEF Babble
<1>2. Line("bad", 0) \in WireLines /\ Line("bad", 0).what = "bad"
  BY LineMeans
<1>3. wire' \in Seq(WireLines) /\ DOMAIN wire' = {1} /\ wire'[1] = Line("bad", 0)
  BY <1>1, <1>2
<1> QED BY <1>1, <1>2, <1>3 DEF LinkTyped

LEMMA BabbleStands ==
    ASSUME LinkTyped, Standing, Babble PROVE Standing'
<1>1. /\ DOMAIN wire' = {1} /\ wire'[1].what = "bad" /\ at = "reading"
      /\ UNCHANGED <<at, ending, kind, commands, frames, timers, lease, spent, server, taken, since, holds>>
  BY BabbleMeans
<1>2. Beginning' /\ Places' /\ OneToken'
  BY <1>1 DEF Standing, Beginning, Places, OneToken
<1>3. PusherOnly'
  BY <1>1 DEF Standing, PusherOnly, Up, Running
<1>4. AnswersOnce'
  BY <1>1 DEF Standing, AnswersOnce, IsAnswer, Answers
<1> QED BY <1>2, <1>3, <1>4 DEF Standing

-----------------------------------------------------------------------------
(* Publications come in their order.                                       *)

InOrder ==
    /\ Numbered(frames \o wire, taken)
    /\ at # "ended" => (taken + Total(frames \o wire)) % 3 = server.said

LEMMA OrderMeans == HandedOverInOrder <=> InOrder
  BY DEF HandedOverInOrder, InOrder, Numbered, Total, Round

LEMMA OrderKept ==
    ASSUME InOrder, UNCHANGED <<frames, wire, taken>>, server'.said = server.said, at # "ended" PROVE InOrder'
  BY DEF InOrder

LEMMA OrderLeft == ASSUME InOrder, UNCHANGED <<frames, wire, taken, server>>, at' = "ended" PROVE InOrder'
  BY DEF InOrder

LEMMA AppendJoined ==
    ASSUME NEW s \in Seq(WireLines), NEW t \in Seq(WireLines), NEW x \in WireLines
    PROVE  s \o t \in Seq(WireLines) /\ <<x>> \in Seq(WireLines) /\ s \o Append(t, x) = (s \o t) \o <<x>>
<1> DEFINE u == s \o Append(t, x)
           v == (s \o t) \o <<x>>
<1>1. s \o t \in Seq(WireLines) /\ <<x>> \in Seq(WireLines)
  OBVIOUS
<1>2. u \in Seq(WireLines) /\ v \in Seq(WireLines) /\ Len(u) = Len(v)
  OBVIOUS
<1>3. \A i \in 1..Len(u) : u[i] = v[i]
  OBVIOUS
<1> HIDE DEF u, v
<1>4. u = v
  BY <1>2, <1>3
<1> QED BY <1>1, <1>4 DEF u, v

LEMMA HeadJoined ==
    ASSUME NEW s \in Seq(WireLines), NEW t \in Seq(WireLines), s # <<>>
    PROVE  /\ Head(s) \in WireLines /\ Tail(s) \o t \in Seq(WireLines) /\ <<Head(s)>> \in Seq(WireLines)
           /\ s \o t = <<Head(s)>> \o (Tail(s) \o t)
<1> DEFINE u == s \o t
           v == <<Head(s)>> \o (Tail(s) \o t)
<1>1. Head(s) \in WireLines /\ Tail(s) \in Seq(WireLines) /\ Len(s) >= 1 /\ Len(Tail(s)) = Len(s) - 1
  OBVIOUS
<1>2. Tail(s) \o t \in Seq(WireLines) /\ <<Head(s)>> \in Seq(WireLines)
  BY <1>1
<1>3. u \in Seq(WireLines) /\ v \in Seq(WireLines) /\ Len(u) = Len(v)
  BY <1>1, <1>2
<1>4. \A i \in 1..Len(u) : u[i] = v[i]
  BY <1>1
<1> HIDE DEF u, v
<1>5. u = v
  BY <1>3, <1>4
<1> QED BY <1>1, <1>2, <1>5 DEF u, v

LEMMA SplitJoined ==
    ASSUME NEW s \in Seq(WireLines), NEW m \in 1..Len(s)
    PROVE  /\ SubSeq(s, 1, m) \in Seq(WireLines) /\ SubSeq(s, m + 1, Len(s)) \in Seq(WireLines)
           /\ s = SubSeq(s, 1, m) \o SubSeq(s, m + 1, Len(s)) /\ Len(SubSeq(s, 1, m)) = m
           /\ \A j \in 1..m : SubSeq(s, 1, m)[j] = s[j]
           /\ <<>> \o s = s /\ m \in Nat /\ m <= Len(s) /\ \A j \in 1..m : j \in DOMAIN s
<1> DEFINE a == SubSeq(s, 1, m)
           b == SubSeq(s, m + 1, Len(s))
           v == a \o b
<1>1. a \in Seq(WireLines) /\ b \in Seq(WireLines) /\ Len(a) = m /\ Len(b) = Len(s) - m
  OBVIOUS
<1>2. \A j \in 1..m : a[j] = s[j]
  OBVIOUS
<1>3. \A j \in 1..(Len(s) - m) : b[j] = s[m + j]
  OBVIOUS
<1>4. v \in Seq(WireLines) /\ Len(v) = Len(s) /\ \A i \in 1..Len(s) : v[i] = s[i]
  <2> HIDE DEF a, b
  <2>1. v \in Seq(WireLines) /\ Len(v) = Len(s)
    BY <1>1
  <2>2. ASSUME NEW i \in 1..Len(s) PROVE v[i] = s[i]
    <3>1. CASE i <= m
      BY <1>1, <1>2, <3>1
    <3>2. CASE i > m
      <4>1. PICK k \in 1..(Len(s) - m) : i = m + k
        BY <3>2
      <4>2. v[Len(a) + k] = b[k]
        BY <1>1
      <4> QED BY <1>1, <1>3, <4>1, <4>2
    <3>3. i <= m \/ i > m
      OBVIOUS
    <3> HIDE DEF v
    <3> QED BY <3>1, <3>2, <3>3
  <2> QED BY <2>1, <2>2
<1>5. <<>> \o s = s /\ m \in Nat /\ m <= Len(s) /\ \A j \in 1..m : j \in DOMAIN s
  OBVIOUS
<1> HIDE DEF a, b, v
<1>6. v = s
  BY <1>4
<1> QED BY <1>1, <1>2, <1>5, <1>6 DEF a, b, v

LEMMA ComingTyped == LinkTyped => frames \in Seq(WireLines) /\ wire \in Seq(WireLines) /\ taken \in 0..2 /\ taken \in Nat
<1>1. LinkTyped => frames \in Seq(WireLines) /\ wire \in Seq(WireLines) /\ taken \in 0..2
  BY DEF LinkTyped
<1>2. \A u \in 0..2 : u \in Nat
  OBVIOUS
<1> QED BY <1>1, <1>2

LEMMA OrderSaid ==
    ASSUME LinkTyped, InOrder, NEW line \in WireLines, wire' = Append(wire, line), at # "ended",
           UNCHANGED <<frames, taken>>,
           line.what = "pub" => line.of = (server.said + 1) % 3,
           server'.said = IF line.what = "pub" THEN (server.said + 1) % 3 ELSE server.said
    PROVE  InOrder'
<1> DEFINE coming == frames \o wire
<1>1. frames \in Seq(WireLines) /\ wire \in Seq(WireLines) /\ taken \in Nat
  BY ComingTyped
<1>2. frames' \o wire' = frames \o Append(wire, line)
  OBVIOUS
<1>3. coming \in Seq(WireLines) /\ <<line>> \in Seq(WireLines) /\ frames' \o wire' = coming \o <<line>>
  BY <1>1, <1>2, AppendJoined
<1>4. Numbered(coming, taken) /\ (taken + Total(coming)) % 3 = server.said
  BY DEF InOrder
<1> HIDE DEF coming
<1>5. Total(coming) \in Nat /\ taken + Total(coming) \in Nat
  BY <1>1, <1>3, TotalTyped
<1>6. Total(coming \o <<line>>) = Total(coming) + (IF line.what = "pub" THEN 1 ELSE 0)
  <2>1. 0 \in Nat
    OBVIOUS
  <2> QED BY <1>3, <2>1, TotalJoined, NumberedOne
<1>7. Numbered(coming \o <<line>>, taken)
  <2>1. line.what = "pub" => line.of = ((taken + Total(coming)) + 1) % 3
    <3>1. \A u \in Nat : ((u % 3) + 1) % 3 = (u + 1) % 3
      OBVIOUS
    <3> QED BY <1>4, <1>5, <3>1
  <2>2. Numbered(<<line>>, taken + Total(coming))
    BY <1>5, <2>1, NumberedOne
  <2> QED BY <1>1, <1>3, <1>4, <2>2, NumberedJoined
<1>8. (taken + Total(coming \o <<line>>)) % 3 = server'.said
  <2>1. \A u \in Nat : ((u % 3) + 1) % 3 = (u + 1) % 3
    OBVIOUS
  <2>2. CASE line.what = "pub"
    <3>1. taken + Total(coming \o <<line>>) = (taken + Total(coming)) + 1
      BY <1>1, <1>5, <1>6, <2>2
    <3> QED BY <1>4, <1>5, <2>1, <2>2, <3>1
  <2>3. CASE line.what # "pub"
    BY <1>1, <1>4, <1>5, <1>6, <2>3
  <2> QED BY <2>2, <2>3
<1>9. taken' = taken
  OBVIOUS
<1> QED BY <1>3, <1>7, <1>8, <1>9 DEF InOrder

LEMMA OrderHandedOver ==
    ASSUME LinkTyped, InOrder, HandOver PROVE InOrder'
<1> DEFINE h == Head(frames)
           rest == Tail(frames) \o wire
<1>1. /\ frames # <<>> /\ frames' = Tail(frames) /\ wire' = wire /\ at = "receiving"
      /\ taken' = (IF h.what = "pub" THEN h.of ELSE taken) /\ server'.said = server.said
  BY HandOverMeans DEF SameProvider
<1>2. frames \in Seq(WireLines) /\ wire \in Seq(WireLines) /\ taken \in 0..2 /\ taken \in Nat
  BY ComingTyped
<1>4. h \in WireLines /\ rest \in Seq(WireLines) /\ <<h>> \in Seq(WireLines) /\ frames \o wire = <<h>> \o rest
  BY <1>1, <1>2, HeadJoined
<1>5. Numbered(<<h>> \o rest, taken) /\ (taken + Total(<<h>> \o rest)) % 3 = server.said
  BY <1>1, <1>4 DEF InOrder
<1>6. frames' \o wire' = rest
  BY <1>1
<1> HIDE DEF h, rest
<1>7. Numbered(<<h>>, taken) /\ Numbered(rest, taken + Total(<<h>>)) /\ Total(<<h>> \o rest) = Total(<<h>>) + Total(rest)
  BY <1>2, <1>4, <1>5, NumberedJoined
<1>8. Total(rest) \in Nat
  BY <1>4, TotalTyped
<1>9. CASE h.what = "pub"
  <2>1. h.of = (taken + 1) % 3 /\ Total(<<h>>) = 1
    BY <1>2, <1>4, <1>7, <1>9, NumberedOne
  <2>2. taken' = (taken + 1) % 3 /\ taken' \in Nat /\ taken' % 3 = (taken + 1) % 3 /\ taken + 1 \in Nat
    BY <1>1, <1>2, <1>9, <2>1
  <2>3. Numbered(rest, taken')
    BY <1>4, <1>7, <2>1, <2>2, NumberedRound
  <2>4. (taken' + Total(rest)) % 3 = server'.said
    <3>1. \A u \in 0..2, t \in Nat : (((u + 1) % 3) + t) % 3 = (u + (1 + t)) % 3
      OBVIOUS
    <3> QED BY <1>1, <1>2, <1>5, <1>7, <1>8, <2>1, <2>2, <3>1
  <2> QED BY <1>6, <2>3, <2>4 DEF InOrder
<1>10. CASE h.what # "pub"
  <2>1. Total(<<h>>) = 0
    BY <1>2, <1>4, <1>10, NumberedOne
  <2>2. taken' = taken /\ taken + Total(<<h>>) = taken /\ Total(<<h>>) + Total(rest) = Total(rest)
    BY <1>1, <1>2, <1>8, <1>10, <2>1
  <2> QED BY <1>1, <1>5, <1>6, <1>7, <2>2 DEF InOrder
<1> QED BY <1>9, <1>10

LEMMA OrderTaken ==
    ASSUME LinkTyped, Standing, InOrder, NEW n \in 1..Len(wire), NEW st \in Decodings, Taken(st, n)
    PROVE  InOrder'
<1> DEFINE first == SubSeq(wire, 1, n)
           rest == SubSeq(wire, n + 1, Len(wire))
           fs == st.frames
<1>1. /\ frames' = fs /\ wire' = rest /\ taken' = taken /\ server' = server /\ at = "reading" /\ OrderRead(st, n)
  BY DEF Taken
<1>2. wire \in Seq(WireLines) /\ taken \in Nat /\ fs \in Seq(WireLines)
  BY ComingTyped DEF Decodings
<1>3. frames = <<>>
  BY <1>1 DEF Standing, Places
<1>5. /\ first \in Seq(WireLines) /\ rest \in Seq(WireLines) /\ wire = first \o rest /\ Len(first) = n
      /\ \A j \in 1..n : first[j] = wire[j]
      /\ <<>> \o wire = wire /\ n \in Nat /\ n <= Len(wire) /\ \A j \in 1..n : j \in DOMAIN wire
  BY <1>2, SplitJoined
<1>6. Numbered(wire, taken) /\ (taken + Total(wire)) % 3 = server.said
  BY <1>1, <1>3, <1>5 DEF InOrder
<1> HIDE DEF first, rest, fs
<1>7. Total(fs) = Total(first)
  <2>1. Upto(first, n) = Upto(wire, n)
    <3>1. n <= Len(first)
      BY <1>5
    <3> QED BY <1>2, <1>5, <3>1, UptoSame
  <2> QED BY <1>1, <1>5, <2>1 DEF OrderRead, Total, fs
<1>8. Numbered(fs, taken)
  BY <1>1, <1>2, <1>5, <1>6 DEF OrderRead, Numbered, fs
<1>9. Numbered(rest, taken + Total(first)) /\ Total(wire) = Total(first) + Total(rest)
  <2>1. Numbered(first \o rest, taken)
    BY <1>5, <1>6
  <2>2. Numbered(rest, taken + Total(first)) /\ Total(first \o rest) = Total(first) + Total(rest)
    BY <1>2, <1>5, <2>1, NumberedJoined
  <2> QED BY <1>5, <2>2
<1>10. Numbered(fs \o rest, taken) /\ Total(fs \o rest) = Total(wire)
  BY <1>2, <1>5, <1>7, <1>8, <1>9, NumberedJoined
<1> QED BY <1>1, <1>6, <1>10 DEF InOrder

-----------------------------------------------------------------------------
(* How long a silence is borne.                                            *)

LEMMA MarginsMean ==
    Margins => /\ IdleTimeout >= 2 /\ PingEvery >= 1 /\ MaxHolds < DefaultBeat /\ MaxHolds < PingEvery + Grace
               /\ IdleTimeout \in Nat /\ DefaultBeat \in Nat /\ PingEvery + Grace \in Nat /\ TokenTime \in Nat /\ MaxHolds \in Nat
  BY ConstantsMean DEF Margins

\* What the silence is measured by.
Clocks ==
    /\ timers.beat \in Int /\ timers.idle \in Nat /\ lease.beat \in Nat
    /\ since.read \in Nat /\ since.frame \in Nat /\ spent \in Nat /\ holds \in Nat /\ holds <= MaxHolds

LEMMA ClocksTyped == LinkTyped => Clocks
<1> SUFFICES ASSUME LinkTyped PROVE Clocks
  OBVIOUS
<1> QED BY TypedMeans DEF Clocks

LEMMA PatienceKept ==
    ASSUME Patience, UNCHANGED <<at, kind, frames, timers, lease, spent, since, holds>> PROVE Patience'
  BY DEF Patience, Timed, FrameAwaited, LineAwaited, PusherAwaited, Running, Up, Central, Pending

LEMMA NegotiatePatient ==
    ASSUME LinkTyped, Standing, Patience, Negotiate, at' # "ended" PROVE Patience'
<1>1. /\ at = "negotiating" /\ at' = "opening"
      /\ UNCHANGED <<ending, commands, frames, timers, lease, spent, wire, server, taken, since, holds>>
  BY DEF Negotiate, Refused, Leave
<1>2. lease.beat = DefaultBeat
  BY <1>1, FreshMeans DEF Standing, Beginning
<1> QED BY <1>1, <1>2 DEF Patience, Timed, FrameAwaited, LineAwaited, PusherAwaited, Running, Up

LEMMA OpenSocketPatient ==
    ASSUME LinkTyped, Standing, Patience, OpenSocket, at' # "ended" PROVE Patience'
<1>1. at = "opening" /\ kind \in {"pusher", "centrifugo"}
  BY DEF OpenSocket, Standing, Beginning, LinkTyped
<1>2. /\ lease' = lease /\ kind' = kind /\ timers'.idle = timers.idle /\ at' \in {"subscribing", "connecting"}
      /\ kind = "centrifugo" => timers'.beat = DefaultBeat
  BY <1>1, OpenSocketMeans
<1>3. lease.beat = DefaultBeat
  BY <1>1, FreshMeans DEF Standing, Beginning
<1>4. DefaultBeat \in 0..DefaultBeat
  BY ConstantsMean
<1>5. Timed'
  BY <1>2, <1>3, <1>4 DEF Patience, Timed, Central
<1> QED BY <1>2, <1>5 DEF Patience, FrameAwaited, LineAwaited, PusherAwaited, Running

LEMMA ConnectPatient ==
    ASSUME LinkTyped, Standing, Patience, Connect, at' # "ended" PROVE Patience'
<1>1. /\ at = "connecting" /\ at' = "subscribing"
      /\ UNCHANGED <<ending, kind, frames, timers, lease, wire, taken, since, holds>>
  BY DEF Connect, Refused, Leave
<1> QED BY <1>1 DEF Patience, Timed, FrameAwaited, LineAwaited, PusherAwaited, Running, Up, Central

LEMMA SubscribePatient ==
    ASSUME Margins, LinkTyped, Standing, Patience, Subscribe PROVE Patience'
<1>1. /\ at = "subscribing" /\ at' = "receiving" /\ frames = <<>> /\ frames' = frames /\ kind' = kind /\ lease' = lease
      /\ timers'.beat = timers.beat /\ timers'.idle = IdleTimeout /\ since'.read = 0 /\ since'.frame = 0
  BY SubscribeMeans
<1>2. Clocks
  BY ClocksTyped
<1>3. Central => timers.beat \in 0..lease.beat /\ lease.beat \in {DefaultBeat, PingEvery + Grace}
  BY <1>1 DEF Patience, Timed, Up
<1>4. Timed'
  BY <1>1, <1>3, MarginsMean DEF Timed, Up, Central
<1>5. FrameAwaited'
  BY <1>1, MarginsMean DEF FrameAwaited
<1>6. LineAwaited'
  BY <1>1, <1>2, <1>3, MarginsMean DEF LineAwaited, Central, Clocks
<1>7. PusherAwaited'
  BY <1>1 DEF PusherAwaited
<1> QED BY <1>4, <1>5, <1>6, <1>7 DEF Patience

LEMMA HandOverPatient ==
    ASSUME Margins, LinkTyped, Standing, Patience, HandOver PROVE Patience'
<1>1. /\ UNCHANGED <<kind, lease>> /\ at = "receiving" /\ frames # <<>> /\ frames' = Tail(frames)
      /\ timers'.idle = IdleTimeout /\ timers'.beat = timers.beat
      /\ since'.frame = 0 /\ since'.read = since.read /\ spent' = 0
      /\ \/ at' = "receiving" /\ holds' = holds
         \/ at' = "held" /\ holds' = holds + 1
  BY HandOverMeans
<1>2. Clocks
  BY ClocksTyped
<1>3. Timed'
  BY <1>1, MarginsMean DEF Patience, Timed, Up, Running, Central
<1>4. FrameAwaited'
  BY <1>1, MarginsMean DEF FrameAwaited
<1>5. LineAwaited'
  <2>1. Central =>
          /\ timers.beat > 0 => since.read + timers.beat <= lease.beat
          /\ since.read + 0 <= holds /\ since.read <= lease.beat + TokenTime
    BY <1>1 DEF Patience, LineAwaited, Running, Pending
  <2> QED BY <1>1, <1>2, <2>1 DEF LineAwaited, Central, Clocks, Pending
<1>6. PusherAwaited'
  BY <1>1 DEF Patience, PusherAwaited, Running
<1> QED BY <1>3, <1>4, <1>5, <1>6 DEF Patience

LEMMA ReleasedPatient ==
    ASSUME Margins, LinkTyped, Standing, Patience, Released PROVE Patience'
<1>1. /\ at = "held" /\ spent = 1 /\ at' = "receiving"
      /\ UNCHANGED <<ending, kind, commands, frames, timers, lease, spent, wire, server, taken, since, holds>>
  BY DEF Released
<1>2. Clocks
  BY ClocksTyped
<1>3. Timed'
  BY <1>1 DEF Patience, Timed, Up, Running, Central
<1>4. FrameAwaited'
  BY <1>1, <1>2, MarginsMean DEF Patience, FrameAwaited, Running, Clocks
<1>5. LineAwaited'
  BY <1>1 DEF Patience, LineAwaited, Running, Pending, Central
<1>6. PusherAwaited'
  BY <1>1 DEF Patience, PusherAwaited, Running
<1> QED BY <1>3, <1>4, <1>5, <1>6 DEF Patience

LEMMA StartReadPatient ==
    ASSUME Margins, LinkTyped, Standing, Patience, StartRead PROVE Patience'
<1>1. /\ UNCHANGED <<kind, frames, lease, since, holds>> /\ at = "receiving" /\ frames = <<>> /\ ~Overdue /\ spent' = 0
      /\ timers'.idle = timers.idle /\ timers'.beat = timers.beat /\ at' \in {"renewing", "reading"}
  BY StartReadMeans
<1>2. Clocks
  BY ClocksTyped
<1>3. Timed'
  BY <1>1 DEF Patience, Timed, Up, Running, Central
<1>4. FrameAwaited'
  BY <1>1, <1>2, MarginsMean DEF Patience, FrameAwaited, Running, Clocks
<1>5. LineAwaited'
  <2>1. Central => timers.beat > 0
    BY <1>1, <1>2 DEF Overdue, Due, Central, Patience, Timed, Up, Running
  <2> QED BY <1>1, <1>2, <2>1, MarginsMean, SMTT(30) DEF Patience, LineAwaited, Running, Central, Clocks
<1>6. PusherAwaited'
  BY <1>1 DEF Patience, PusherAwaited, Running
<1> QED BY <1>3, <1>4, <1>5, <1>6 DEF Patience

LEMMA RenewPatient ==
    ASSUME Margins, LinkTyped, Standing, Patience, Renew, at' # "ended" PROVE Patience'
<1>1. /\ at = "renewing" /\ at' = "reading" /\ spent' = 0 /\ Central /\ frames = <<>>
      /\ UNCHANGED <<ending, kind, frames, timers, lease, wire, taken, since, holds>>
  BY RenewMeans
<1>2. Clocks /\ spent <= TokenTime
  BY <1>1, ClocksTyped DEF Standing, Places
<1>3. Timed'
  BY <1>1 DEF Patience, Timed, Up, Running, Central
<1>4. FrameAwaited'
  BY <1>1, <1>2, MarginsMean DEF Patience, FrameAwaited, Running, Clocks
<1>5. LineAwaited'
  BY <1>1, <1>2, MarginsMean, SMTT(30) DEF Patience, LineAwaited, Running, Central, Clocks
<1>6. PusherAwaited'
  BY <1>1 DEF PusherAwaited, Central
<1> QED BY <1>3, <1>4, <1>5, <1>6 DEF Patience

LEMMA ReadNothingPatient ==
    ASSUME LinkTyped, Standing, Patience, ReadNothing, at' # "ended" PROVE Patience'
<1>1. /\ at = "reading" /\ at' = "receiving" /\ timers.idle # 0
      /\ UNCHANGED <<kind, commands, frames, timers, lease, spent, wire, server, taken, since, holds>>
  BY DEF ReadNothing, NoFrame, Due
<1>2. Clocks /\ frames = <<>>
  BY <1>1, ClocksTyped DEF Standing, Places
<1>3. Timed'
  BY <1>1 DEF Patience, Timed, Up, Running, Central
<1>4. FrameAwaited'
  BY <1>1, <1>2 DEF Patience, FrameAwaited, Running, Clocks
<1>5. LineAwaited'
  BY <1>1, <1>2 DEF Patience, LineAwaited, Running, Central, Clocks
<1>6. PusherAwaited'
  BY <1>1 DEF Patience, PusherAwaited, Running
<1> QED BY <1>3, <1>4, <1>5, <1>6 DEF Patience

LEMMA ReadPatient ==
    ASSUME Margins, LinkTyped, Standing, Patience, NEW n \in 1..Len(wire), NEW st \in Decodings, Taken(st, n), at' = "receiving"
    PROVE  Patience'
<1>1. /\ at = "reading" /\ frames' = st.frames /\ timers' = st.timers /\ lease' = st.lease
      /\ since'.read = 0 /\ since'.frame = since.frame
      /\ UNCHANGED <<kind, spent, server, taken, holds>>
      /\ frames' = <<>> => timers.idle # 0
  BY DEF Taken
<1>2. Clocks
  BY ClocksTyped
<1>3. /\ timers'.idle = timers.idle
      /\ Central => timers'.beat = lease'.beat /\ (lease' = lease \/ lease'.beat = PingEvery + Grace)
  <2>1. CASE Central
    <3>1. TermsRead(st, n)
      BY <2>1 DEF Taken, BatchRead
    <3>2. Granted.beat = PingEvery + Grace
      BY DEF Granted
    <3> QED BY <1>1, <3>1, <3>2 DEF TermsRead
  <2>2. CASE ~Central
    BY <1>1, <2>2 DEF Taken, PusherRead
  <2> QED BY <2>1, <2>2
<1>4. Central => lease'.beat \in {DefaultBeat, PingEvery + Grace} /\ lease'.beat \in Nat
  BY <1>3, MarginsMean DEF Patience, Timed
<1>5. Timed'
  BY <1>1, <1>3, <1>4 DEF Patience, Timed, Central
<1>6. FrameAwaited'
  BY <1>1, <1>2, <1>3 DEF Patience, FrameAwaited, Running, Clocks
<1>7. LineAwaited'
  <2>1. at' = "receiving" /\ since'.read = 0 /\ kind' = kind /\ holds' = holds
    BY <1>1
  <2>2. Central => timers'.beat = lease'.beat /\ lease'.beat \in Nat
    BY <1>3, <1>4
  <2>3. holds \in Nat /\ TokenTime \in Nat
    BY <1>2, ConstantsMean DEF Clocks
  <2> QED BY <2>1, <2>2, <2>3 DEF LineAwaited, Central, Pending
<1>8. PusherAwaited'
  BY <1>1, <1>2 DEF Patience, PusherAwaited, Running, Clocks
<1> QED BY <1>5, <1>6, <1>7, <1>8 DEF Patience

LEMMA TimePassesPatient ==
    ASSUME Margins, LinkTyped, Standing, Patience, TimePasses PROVE Patience'
<1>1. /\ UNCHANGED <<at, kind, frames, lease>> /\ Waits /\ spent' = spent + 1
      /\ timers'.beat = Less(timers.beat) /\ timers'.idle = Less(timers.idle)
      /\ since'.read \in Nat /\ since'.read <= since.read + 1 /\ since'.frame \in Nat /\ since'.frame <= since.frame + 1
      /\ since.read <= since.frame => since'.read <= since'.frame
      /\ holds' = IF at = "reading" THEN 0 ELSE holds
  BY TimePassesMeans
<1>2. Clocks
  BY ClocksTyped
<1>3. /\ timers'.beat = (IF timers.beat > 0 THEN timers.beat - 1 ELSE timers.beat)
      /\ timers'.idle = (IF timers.idle > 0 THEN timers.idle - 1 ELSE timers.idle)
  BY <1>1 DEF Less
<1>4. at = "receiving" => FALSE
  BY <1>1 DEF Waits
<1>5. Timed'
  BY <1>1, <1>2, <1>3, MarginsMean DEF Patience, Timed, Up, Running, Central, Clocks
<1>6. FrameAwaited'
  <2>1. Running =>
          /\ timers.idle > 0 => since.frame + timers.idle <= IdleTimeout
          /\ at = "held" => timers.idle + spent >= IdleTimeout /\ spent = 0
          /\ at = "renewing" => since.frame < IdleTimeout + spent /\ spent < TokenTime
          /\ at = "reading" => since.frame < IdleTimeout + TokenTime + spent /\ spent = 0
          /\ at \in {"held", "renewing", "reading"}
    BY <1>1, <1>4 DEF Patience, FrameAwaited, Running, Waits
  <2>2. /\ at' = at /\ spent' = spent + 1 /\ since'.frame \in Nat /\ since'.frame <= since.frame + 1
        /\ timers.idle \in Nat /\ spent \in Nat /\ since.frame \in Nat /\ IdleTimeout \in Nat /\ TokenTime \in Nat
    BY <1>1, <1>2, MarginsMean DEF Clocks
  <2>3. Running => (timers'.idle > 0 => since'.frame + timers'.idle <= IdleTimeout)
    BY <1>3, <2>1, <2>2
  <2>4. Running => (at = "held" => timers'.idle + spent' >= IdleTimeout)
    BY <1>3, <2>1, <2>2
  <2>5. Running => /\ at = "renewing" => since'.frame < IdleTimeout + spent'
                   /\ at = "reading" => since'.frame < IdleTimeout + TokenTime + spent'
    BY <2>1, <2>2
  <2>6. Running => since'.frame <= IdleTimeout + TokenTime
    <3>1. Running /\ at = "held" => since.frame = 0
      BY <2>1, <2>2, MarginsMean
    <3> QED BY <2>1, <2>2, <3>1, MarginsMean
  <2> QED BY <1>4, <2>2, <2>3, <2>4, <2>5, <2>6 DEF FrameAwaited, Running
<1>7. LineAwaited'
  <2>1. frames # <<>> => at = "held"
    BY <1>4 DEF Standing, Places
  <2>2. Running /\ Central =>
          /\ timers.beat > 0 => since.read + timers.beat <= lease.beat
          /\ at = "held" => since.read + 1 <= holds /\ spent = 0
          /\ at = "renewing" => since.read < lease.beat + spent /\ spent < TokenTime
          /\ at = "reading" => since.read < lease.beat + TokenTime + spent /\ spent = 0
          /\ lease.beat \in {DefaultBeat, PingEvery + Grace} /\ at \in {"held", "renewing", "reading"}
    BY <1>1, <1>4 DEF Patience, LineAwaited, Running, Waits, Timed, Pending
  <2>3. /\ at' = at /\ kind' = kind /\ frames' = frames /\ lease' = lease
        /\ spent' = spent + 1 /\ since'.read \in Nat /\ since'.read <= since.read + 1
        /\ timers.beat \in Int /\ spent \in Nat /\ since.read \in Nat /\ lease.beat \in Nat /\ TokenTime \in Nat
        /\ holds \in Nat /\ holds <= MaxHolds
    BY <1>1, <1>2, MarginsMean DEF Clocks
  <2>4. Running /\ Central => (timers'.beat > 0 => since'.read + timers'.beat <= lease.beat)
    BY <1>3, <2>2, <2>3
  <2>5. Running /\ Central => (at = "held" => since'.read + 0 <= holds' /\ spent' = 1)
    BY <1>1, <2>2, <2>3
  <2>6. Running /\ Central =>
          /\ at = "renewing" => since'.read < lease.beat + spent'
          /\ at = "reading" => since'.read < lease.beat + TokenTime + spent'
    BY <2>2, <2>3
  <2>7. Running /\ Central => since'.read <= lease.beat + TokenTime
    <3>1. Running /\ Central => lease.beat > MaxHolds
      BY <2>2, MarginsMean
    <3> QED BY <2>2, <2>3, <3>1, MarginsMean
  <2>8. Running /\ Central /\ (at' = "held" \/ frames' # <<>>) => since'.read + Pending' <= holds'
    <3>1. at' = "held" \/ frames' # <<>> => at = "held"
      BY <2>1, <2>3
    <3>2. at = "held" /\ spent' = 1 => Pending' = 0
      BY <2>3 DEF Pending
    <3> QED BY <2>5, <3>1, <3>2
  <2>9. Running' /\ Central' => Running /\ Central
    BY <2>3 DEF Running, Central
  <2>10. lease'.beat = lease.beat
    BY <2>3
  <2> SUFFICES ASSUME Running', Central'
               PROVE  /\ timers'.beat > 0 => since'.read + timers'.beat <= lease'.beat
                      /\ at' = "held" \/ frames' # <<>> => since'.read + Pending' <= holds'
                      /\ at' = "renewing" => since'.read < lease'.beat + spent'
                      /\ at' = "reading" => since'.read < lease'.beat + TokenTime + spent'
                      /\ since'.read <= lease'.beat + TokenTime
    BY DEF LineAwaited
  <2>11. Running /\ Central
    BY <2>9
  <2>12. timers'.beat > 0 => since'.read + timers'.beat <= lease'.beat
    BY <2>4, <2>10, <2>11
  <2>13. at' = "held" \/ frames' # <<>> => since'.read + Pending' <= holds'
    BY <2>8, <2>11
  <2>14. /\ at' = "renewing" => since'.read < lease'.beat + spent'
         /\ at' = "reading" => since'.read < lease'.beat + TokenTime + spent'
    BY <2>3, <2>6, <2>10, <2>11
  <2>15. since'.read <= lease'.beat + TokenTime
    BY <2>7, <2>10, <2>11
  <2> QED BY <2>12, <2>13, <2>14, <2>15
<1>8. PusherAwaited'
  <2>1. Running /\ kind = "pusher" => frames = <<>>
    BY <1>4 DEF Standing, Places, PusherOnly
  <2> QED BY <1>1, <2>1 DEF Patience, PusherAwaited, Running
<1> QED BY <1>5, <1>6, <1>7, <1>8 DEF Patience

\* What is borne at most.
LEMMA PatienceBounds == LinkTyped /\ Standing /\ Patience => DeadLeft
<1> SUFFICES ASSUME LinkTyped, Standing, Patience, Running
             PROVE  /\ since.read <= 1 + TokenTime + IF kind = "centrifugo" THEN lease.beat ELSE IdleTimeout
                    /\ since.frame <= 1 + TokenTime + IdleTimeout
  BY DEF DeadLeft, Running
<1>1. Clocks /\ TokenTime \in Nat /\ IdleTimeout \in Nat
  BY ClocksTyped, ConstantsMean
<1>2. since.frame <= IdleTimeout + TokenTime
  BY DEF Patience, FrameAwaited
<1>3. CASE kind = "centrifugo"
  BY <1>1, <1>2, <1>3 DEF Patience, LineAwaited, Central, Clocks
<1>4. CASE kind # "centrifugo"
  <2>1. kind = "pusher"
    BY <1>4 DEF LinkTyped, Standing, Beginning, Running
  <2> QED BY <1>1, <1>2, <2>1 DEF Patience, PusherAwaited, Clocks
<1> QED BY <1>3, <1>4

-----------------------------------------------------------------------------
(* What is on time: the delays, and what follows from them.                *)

LEMMA MarginsSay ==
    Margins =>
      /\ AckTimeout \in Nat /\ DefaultBeat \in Nat /\ Grace \in Nat /\ PingEvery \in Nat /\ IdleTimeout \in Nat
      /\ Latency \in Nat /\ TokenTime \in Nat /\ MaxHolds \in Nat
      /\ Latency + TokenTime + MaxHolds < AckTimeout
      /\ Latency + TokenTime < DefaultBeat /\ MaxHolds < DefaultBeat
      /\ MaxHolds + TokenTime < PingEvery /\ 0 < Grace
      /\ PingEvery + MaxHolds + TokenTime < IdleTimeout /\ Latency + MaxHolds + TokenTime < IdleTimeout
  BY ConstantsMean DEF Margins

LEMMA DelayMeans ==
    ASSUME LinkTyped, Standing
    PROVE  /\ Holding \in Nat /\ Holding <= MaxHolds /\ Pending \in {0, 1}
           /\ \A k : Renewing(k) \in Nat /\ Renewing(k) <= TokenTime
           /\ \A k : Delay(k) \in Nat /\ Delay(k) = Holding + Renewing(k) /\ Delay(k) <= MaxHolds + TokenTime
<1>1. /\ holds \in Nat /\ holds <= MaxHolds /\ MaxHolds \in Nat /\ TokenTime \in Nat /\ spent \in Nat
      /\ at = "held" => holds > 0
      /\ at = "renewing" => spent <= TokenTime
  BY TypedMeans, ConstantsMean DEF Standing, Places
<1>2. Holding \in Nat /\ Holding <= MaxHolds /\ Pending \in {0, 1}
  BY <1>1 DEF Holding, Pending
<1>3. \A k : Renewing(k) \in Nat /\ Renewing(k) <= TokenTime
  <2> SUFFICES ASSUME NEW k PROVE Renewing(k) \in Nat /\ Renewing(k) <= TokenTime
    OBVIOUS
  <2>1. Renewing(k) \in {TokenTime, 0} \/ (at = "renewing" /\ Renewing(k) = TokenTime - spent)
    BY DEF Renewing
  <2> QED BY <1>1, <2>1
<1>4. \A k : Delay(k) = Holding + Renewing(k)
  BY DEF Delay
<1> QED BY <1>1, <1>2, <1>3, <1>4

\* A token answer comes after no other, and then no token waits to be renewed.
LEMMA RenewingNone ==
    ASSUME LinkTyped, Standing, NEW k, DOMAIN commands \cap Tokens # {}, \A j \in DOMAIN wire : j < k => ~OfToken(wire[j])
    PROVE  Renewing(k) = 0
  BY DEF Renewing, Standing, OneToken

LEMMA AwaitedMeans ==
    ASSUME LinkTyped, Standing, CommandsInTime
    PROVE  /\ \A c \in DOMAIN server.asked :
                c \in DOMAIN commands /\ server.asked[c] \in Nat /\ server.asked[c] <= Latency
                /\ commands[c] >= server.asked[c] + (AckTimeout - Latency)
           /\ \A c \in DOMAIN commands : c \notin DOMAIN server.asked =>
                \E k \in DOMAIN wire : IsAnswer(wire[k], c) /\ commands[c] > Delay(k)
<1>1. DOMAIN server.asked \subseteq DOMAIN commands /\ DOMAIN commands \subseteq Named
      /\ \A c \in DOMAIN server.asked : server.asked[c] \in Nat
  BY TypedMeans DEF Standing, AnswersOnce
<1>2. \A k \in DOMAIN wire, c \in Named : IsAnswer(wire[k], c) => c \notin DOMAIN server.asked
  BY DEF Standing, AnswersOnce
<1> QED BY <1>1, <1>2 DEF CommandsInTime

\* Where the reader has nothing to hand over, it has still time to wait.
LEMMA IdleLeft ==
    ASSUME LinkTyped, Standing, OnTime, Running, frames = <<>>
    PROVE  timers.idle > 0
<1>1. /\ timers.idle \in Nat /\ server.ping \in Int /\ server.ping >= -1 /\ Never = -1 /\ MaxHolds \in Nat /\ TokenTime \in Nat
      /\ \A c \in DOMAIN server.asked : server.asked[c] \in Nat
  BY TypedMeans, ConstantsMean
<1>2. \A k : Delay(k) \in Nat
  BY DelayMeans
<1>3. Met => server.ping >= 0
  <2>1. CASE Central
    <3>1. Met => server.ping # Never
      BY <2>1 DEF OnTime, Connected, Running
    <3> QED BY <1>1, <3>1
  <2>2. CASE ~Central
    <3>1. server.ping # Never
      BY <2>2 DEF Standing, Beginning, PusherOnly, Up, Running, Central, LinkTyped
    <3> QED BY <1>1, <3>1
  <2> QED BY <2>1, <2>2
<1>4. \/ \E k \in DOMAIN wire : timers.idle > Delay(k)
      \/ Met /\ timers.idle > server.ping + MaxHolds + TokenTime
      \/ "connect" \in DOMAIN server.asked /\ timers.idle > server.asked["connect"] + MaxHolds + TokenTime
  BY DEF OnTime, IdleInTime
<1> QED BY <1>1, <1>2, <1>3, <1>4

\* Before the reader reads again, its heartbeat is not over either.
LEMMA BeatOfLease ==
    ASSUME Margins, LinkTyped, Connected, Central, Up, at # "connecting"
    PROVE  lease.beat = (IF Met THEN PingEvery + Grace ELSE DefaultBeat) /\ lease.beat > MaxHolds
  BY MarginsSay DEF Connected

LEMMA NeverOverdue ==
    ASSUME Margins, LinkTyped, Standing, OnTime, at = "receiving", frames = <<>>
    PROVE  ~Overdue
<1>1. Central => timers.beat > 0
  BY DEF OnTime, BeatInTime
<1>2. \A c \in DOMAIN commands : commands[c] # 0
  <2> SUFFICES ASSUME NEW c \in DOMAIN commands PROVE commands[c] # 0
    OBVIOUS
  <2>1. commands[c] \in Nat /\ AckTimeout \in Nat /\ Latency \in Nat
    BY TypedMeans, ConstantsMean
  <2>2. \A k : Delay(k) \in Nat
    BY DelayMeans
  <2>3. CASE c \in DOMAIN server.asked
    BY <2>1, <2>3, AwaitedMeans, MarginsSay DEF OnTime
  <2>4. CASE c \notin DOMAIN server.asked
    <3>1. PICK k \in DOMAIN wire : commands[c] > Delay(k)
      BY <2>4, AwaitedMeans DEF OnTime
    <3> QED BY <2>1, <2>2, <3>1
  <2> QED BY <2>3, <2>4
<1> QED BY <1>1, <1>2 DEF Overdue, Due, Central

-----------------------------------------------------------------------------
(* What is on time: the set-up and the reader.                             *)

LEMMA OpenSocketInTime ==
    ASSUME Margins, LinkTyped, Standing, OpenSocket, at' # "ended" PROVE OnTime'
<1>1. at = "opening" /\ kind \in {"pusher", "centrifugo"}
  BY DEF OpenSocket, Standing, Beginning, LinkTyped
<1>2. Fresh /\ wire = <<>> /\ server.ttl = NoLease
  BY <1>1 DEF Standing, Beginning
<1>3. /\ UNCHANGED <<kind, commands, frames, lease, wire>> /\ spent' = 0 /\ timers'.refresh = timers.refresh
      /\ server'.asked = server.asked /\ server'.owed = server.owed /\ server'.live = server.live
      /\ kind = "pusher" => at' = "subscribing" /\ server'.ping = PingEvery
      /\ kind = "centrifugo" => at' = "connecting" /\ timers'.beat = DefaultBeat /\ server'.ping = server.ping
  BY <1>1, OpenSocketMeans
<1>4. DOMAIN commands = {} /\ DOMAIN server.asked = {} /\ frames = <<>> /\ DOMAIN wire = {} /\ timers.refresh = Never
      /\ server.ping = Never /\ ~server.owed /\ ~server.live
  BY <1>2, FreshMeans DEF Fresh
<1>5. Never = -1 /\ PingEvery \in Nat /\ DefaultBeat \in Nat
  BY TypedMeans, ConstantsMean
<1>6. CommandsInTime'
  BY <1>3, <1>4 DEF CommandsInTime
<1>7. Connected'
  BY <1>1, <1>3, <1>4, <1>5 DEF Connected, Met, Central
<1>8. BeatInTime'
  BY <1>1, <1>3, <1>4, <1>5 DEF BeatInTime, Central, Running
<1>9. IdleInTime'
  BY <1>1, <1>3 DEF IdleInTime, Running
<1>10. LeaseInTime'
  BY <1>1, <1>3, <1>4 DEF LeaseInTime, Central
<1>11. PongInTime'
  BY <1>3, <1>4 DEF PongInTime
<1> QED BY <1>6, <1>7, <1>8, <1>9, <1>10, <1>11 DEF OnTime

LEMMA ConnectInTime ==
    ASSUME Margins, LinkTyped, Standing, OnTime, Well, Connect, at' # "ended" PROVE OnTime'
<1>1. /\ at = "connecting" /\ Sent({"connect"}) /\ at' = "subscribing" /\ spent' = 0
      /\ UNCHANGED <<ending, kind, frames, timers, lease, wire, taken, since, holds>>
  BY DEF Connect, Refused, Leave
<1>2. Central /\ Fresh /\ {"connect"} \in SUBSET Named /\ {"connect"} # Feeds /\ spent <= TokenTime
  BY <1>1, ConstantsMean DEF Standing, Beginning, Places, Named, Tokens
<1>3. DOMAIN commands = {} /\ DOMAIN server.asked = {} /\ frames = <<>> /\ timers.refresh = Never /\ server.ping = Never
      /\ ~server.owed /\ ~server.live /\ lease.beat = DefaultBeat
  BY <1>2, FreshMeans DEF Fresh
<1>4. /\ DOMAIN commands' = {"connect"} /\ commands'["connect"] = AckTimeout
      /\ DOMAIN server'.asked = {"connect"} /\ server'.asked["connect"] = Latency /\ server'.lease = server.ttl
      /\ server'.ping = server.ping /\ server'.owed = server.owed /\ server'.live = server.live /\ server'.ttl = server.ttl
      /\ server'.pong = server.pong
  BY <1>1, <1>2, <1>3, SentMeans DEF SameProvider
<1>5. /\ Never = -1 /\ timers.beat \in Int /\ spent \in Nat /\ server.ttl \in Int
  BY TypedMeans, ConstantsMean
<1>6. \A k \in DOMAIN wire, c \in Named : ~IsAnswer(wire[k], c)
  BY <1>3 DEF Standing, AnswersOnce
<1>7. \A k \in DOMAIN wire : ~(wire[k].what = "ack" /\ wire[k].of = "connect") /\ ~OfToken(wire[k])
  BY <1>6 DEF IsAnswer, OfToken, Named, Tokens, Answers
<1>8. timers.beat + spent >= DefaultBeat
  BY <1>1, <1>2 DEF OnTime, BeatInTime
<1>9. CommandsInTime'
  BY <1>4, MarginsSay DEF CommandsInTime
<1>10. Connected'
  <2>1. \A k \in DOMAIN wire : ~Framed(wire[k])
    BY <1>1, <1>2, <1>6 DEF OnTime, Connected, Named, Tokens
  <2> QED BY <1>1, <1>2, <1>3, <1>4, <1>5, <1>7, <2>1, MarginsSay, SMTT(30) DEF Connected, Met, Central
<1>11. BeatInTime'
  <2>1. timers.beat + TokenTime >= DefaultBeat /\ timers.beat > Latency
    BY <1>2, <1>5, <1>8, MarginsSay
  <2>2. timers'.beat = timers.beat /\ timers'.beat > server'.asked["connect"] /\ at' = "subscribing" /\ frames' = <<>>
    BY <1>1, <1>3, <1>4, <2>1
  <2> QED BY <2>1, <2>2 DEF BeatInTime, Running
<1>12. IdleInTime'
  BY <1>1 DEF IdleInTime, Running
<1>13. LeaseInTime'
  <2>1. Long' => \A c \in Tokens \cap DOMAIN server'.asked : server'.lease >= server'.asked[c] + (server'.ttl - Latency)
    BY <1>4, <1>5, MarginsSay
  <2> QED BY <1>1, <1>3, <1>4, <1>7, <2>1 DEF LeaseInTime, Tokens
<1>14. PongInTime'
  BY <1>3, <1>4 DEF PongInTime
<1> QED BY <1>9, <1>10, <1>11, <1>12, <1>13, <1>14 DEF OnTime

LEMMA SubscribeInTime ==
    ASSUME Margins, LinkTyped, Standing, OnTime, Well, Subscribe PROVE OnTime'
<1>1. /\ at = "subscribing" /\ at' = "receiving" /\ Sent(Feeds) /\ Feeds \in SUBSET Named
      /\ DOMAIN commands \cap Feeds = {} /\ kind \in {"pusher", "centrifugo"} /\ frames = <<>>
      /\ DOMAIN commands = (IF Central THEN {"connect"} ELSE {})
      /\ timers'.refresh = timers.refresh /\ timers'.beat = timers.beat /\ timers'.idle = IdleTimeout
      /\ UNCHANGED <<ending, kind, frames, lease, spent, wire, taken, holds>>
  BY SubscribeMeans
<1>2. /\ DOMAIN commands' = DOMAIN commands \cup Feeds /\ DOMAIN server'.asked = DOMAIN server.asked \cup Feeds
      /\ \A c \in DOMAIN commands \cup Feeds : commands'[c] = IF c \in Feeds THEN AckTimeout ELSE commands[c]
      /\ \A c \in DOMAIN server.asked \cup Feeds : server'.asked[c] = IF c \in Feeds THEN Latency ELSE server.asked[c]
      /\ server'.lease = server.lease /\ server'.ttl = server.ttl /\ server'.ping = server.ping
      /\ server'.owed = server.owed /\ server'.live = server.live /\ server'.pong = server.pong
  BY <1>1, SentMeans DEF SameProvider
<1>3. "connect" \notin Feeds /\ "refresh" \notin Feeds
  BY ConstantsMean
<1>4. /\ Never = -1 /\ timers.beat \in Int /\ server.ping \in Int /\ timers.refresh = Never
      /\ \A c \in DOMAIN commands : commands[c] \in Nat
      /\ DOMAIN server.asked \subseteq DOMAIN commands
  BY <1>1, TypedMeans DEF Standing, Beginning, AnswersOnce
<1>5. \A k : Delay(k)' = Delay(k)
  BY <1>1 DEF Delay, Holding, Pending, Renewing
<1>6. CommandsInTime'
  <2> SUFFICES ASSUME NEW c \in DOMAIN commands'
               PROVE  \/ c \in DOMAIN server'.asked /\ server'.asked[c] <= Latency
                         /\ commands'[c] >= server'.asked[c] + (AckTimeout - Latency)
                      \/ \E k \in DOMAIN wire' : IsAnswer(wire'[k], c) /\ commands'[c] > Delay(k)'
    BY DEF CommandsInTime, IsAnswer
  <2>1. CASE c \in Feeds
    <3>1. c \in DOMAIN server'.asked /\ server'.asked[c] = Latency /\ commands'[c] = AckTimeout
      BY <1>2, <2>1
    <3> QED BY <3>1, MarginsSay
  <2>2. CASE c \notin Feeds
    <3>1. c \in DOMAIN commands /\ commands'[c] = commands[c] /\ (c \in DOMAIN server.asked => server'.asked[c] = server.asked[c])
      BY <1>2, <2>2
    <3> QED BY <1>1, <1>2, <1>5, <3>1 DEF OnTime, CommandsInTime
  <2> QED BY <2>1, <2>2
<1>7. Connected'
  BY <1>1, <1>2, <1>3, <1>4 DEF OnTime, Connected, Met, Central
<1>8. BeatInTime'
  <2>1. Central => timers.beat + TokenTime >= DefaultBeat /\ "connect" \in DOMAIN commands'
    BY <1>1, <1>2 DEF OnTime, BeatInTime
  <2>2. "connect" \in DOMAIN server'.asked => "connect" \in DOMAIN server.asked /\ server'.asked["connect"] = server.asked["connect"]
    BY <1>2, <1>3
  <2>3. Central /\ "connect" \in DOMAIN server.asked => timers.beat > server.asked["connect"]
    BY DEF OnTime, BeatInTime
  <2> QED BY <1>1, <1>4, <2>1, <2>2, <2>3, MarginsSay, SMTT(30) DEF BeatInTime, Central, Met
<1>9. IdleInTime'
  <2>1. CASE Central
    <3>1. "connect" \in DOMAIN commands
      BY <1>1, <2>1
    <3>2. CASE "connect" \in DOMAIN server.asked
      <4>1. server.asked["connect"] <= Latency /\ server.asked["connect"] \in Nat
        BY <3>2, AwaitedMeans DEF OnTime
      <4>2. "connect" \in DOMAIN server'.asked /\ server'.asked["connect"] = server.asked["connect"]
        BY <1>2, <1>3, <3>2
      <4>3. timers'.idle > server'.asked["connect"] + MaxHolds + TokenTime
        <5>1. timers'.idle = IdleTimeout
          BY <1>1
        <5>2. \A t \in Nat : t <= Latency => IdleTimeout > t + MaxHolds + TokenTime
          BY MarginsSay
        <5> QED BY <4>1, <4>2, <5>1, <5>2
      <4> QED BY <4>2, <4>3 DEF IdleInTime
    <3>3. CASE "connect" \notin DOMAIN server.asked
      <4>1. PICK k \in DOMAIN wire : IsAnswer(wire[k], "connect")
        BY <3>1, <3>3, AwaitedMeans DEF OnTime
      <4>2. Event(wire[k])'
        BY <1>1, <2>1, <4>1 DEF Event, IsAnswer, Central
      <4>3. timers'.idle > Delay(k)'
        <5>1. Delay(k) \in Nat /\ Delay(k) <= MaxHolds + TokenTime
          BY DelayMeans
        <5> QED BY <1>1, <1>5, <5>1, MarginsSay
      <4> QED BY <1>1, <4>2, <4>3 DEF IdleInTime, Event
    <3> QED BY <3>2, <3>3
  <2>2. CASE ~Central
    <3>1. server.ping <= PingEvery
      BY DEF OnTime, Connected
    <3>2. Met'
      BY <1>1, <2>2 DEF Met, Central
    <3>3. timers'.idle > server'.ping + MaxHolds + TokenTime
      BY <1>1, <1>2, <1>4, <3>1, MarginsSay, SMTT(30)
    <3> QED BY <3>2, <3>3 DEF IdleInTime
  <2> QED BY <2>1, <2>2
<1>10. LeaseInTime'
  <2>1. Tokens \cap DOMAIN server'.asked = Tokens \cap DOMAIN server.asked
        /\ \A c \in Tokens \cap DOMAIN server.asked : server'.asked[c] = server.asked[c]
    BY <1>2, <1>3 DEF Tokens
  <2>2. Central => DOMAIN commands' \cap Tokens # {}
    BY <1>1, <1>2 DEF Tokens
  <2>3. Renewal' = Renewal /\ (Long' <=> Long)
    BY <1>2 DEF Renewal, Long
  <2>4. Long => \A k \in DOMAIN wire : OfToken(wire[k]) => server.lease > Delay(k) + Renewal + MaxHolds + TokenTime
    BY DEF OnTime, LeaseInTime
  <2>5. Long => \A c \in Tokens \cap DOMAIN server.asked : server.lease >= server.asked[c] + (server.ttl - Latency)
    BY DEF OnTime, LeaseInTime
  <2> QED BY <1>1, <1>2, <1>4, <1>5, <2>1, <2>2, <2>3, <2>4, <2>5 DEF LeaseInTime, Central
<1>11. PongInTime'
  <2>1. server.owed /\ server.pong => \E k \in DOMAIN wire : wire[k].what = "ping" /\ server.ping > Delay(k)
    BY <1>1 DEF OnTime, PongInTime
  <2> QED BY <1>1, <1>2, <1>5, <2>1 DEF PongInTime
<1> QED BY <1>6, <1>7, <1>8, <1>9, <1>10, <1>11 DEF OnTime

\* The reader's steps that leave the wire, the requests and the provider's terms alone,
\* and come to no line later than before.
Reads ==
    /\ UNCHANGED <<kind, commands, lease, wire>>
    /\ server'.asked = server.asked /\ server'.ttl = server.ttl /\ server'.lease = server.lease
    /\ server'.pong = server.pong /\ server'.ping = server.ping /\ server'.live = server.live
    /\ \A k \in DOMAIN wire : Delay(k)' \in Nat /\ Delay(k)' <= Delay(k)

LEMMA ReadsMean ==
    ASSUME Margins, LinkTyped, Standing, OnTime, Reads
    PROVE  /\ CommandsInTime'
           /\ Met' = Met /\ Central' = Central /\ Long' = Long /\ Renewal' = Renewal
           /\ \A k \in DOMAIN wire : (IsAnswer(wire[k], "connect")' <=> IsAnswer(wire[k], "connect"))
           /\ Long => /\ \A c \in Tokens \cap DOMAIN server'.asked : server'.lease >= server'.asked[c] + (server'.ttl - Latency)
                      /\ \A k \in DOMAIN wire' : OfToken(wire'[k]) => server'.lease > Delay(k)' + Renewal + MaxHolds + TokenTime
<1>1. /\ \A k \in DOMAIN wire : Delay(k) \in Nat
      /\ \A c \in DOMAIN commands : commands[c] \in Nat
      /\ server.lease \in Int /\ MaxHolds \in Nat /\ TokenTime \in Nat
  BY DelayMeans, TypedMeans, ConstantsMean
<1>2. CommandsInTime'
  <2> SUFFICES ASSUME NEW c \in DOMAIN commands
               PROVE  \/ c \in DOMAIN server'.asked /\ server'.asked[c] <= Latency
                         /\ commands[c] >= server'.asked[c] + (AckTimeout - Latency)
                      \/ \E k \in DOMAIN wire : IsAnswer(wire[k], c) /\ commands[c] > Delay(k)'
    BY DEF CommandsInTime, IsAnswer, Reads
  <2>1. CASE \E k \in DOMAIN wire : IsAnswer(wire[k], c) /\ commands[c] > Delay(k)
    <3>1. PICK k \in DOMAIN wire : IsAnswer(wire[k], c) /\ commands[c] > Delay(k)
      BY <2>1
    <3>2. commands[c] > Delay(k)'
      BY <1>1, <3>1 DEF Reads
    <3> QED BY <3>1, <3>2
  <2>2. CASE ~\E k \in DOMAIN wire : IsAnswer(wire[k], c) /\ commands[c] > Delay(k)
    BY <2>2 DEF OnTime, CommandsInTime, Reads
  <2> QED BY <2>1, <2>2
<1>3. Met' = Met /\ Central' = Central /\ Long' = Long /\ Renewal' = Renewal
  BY DEF Met, Central, Long, Renewal, Reads
<1>4. ASSUME Long
      PROVE  /\ \A c \in Tokens \cap DOMAIN server'.asked : server'.lease >= server'.asked[c] + (server'.ttl - Latency)
             /\ \A k \in DOMAIN wire' : OfToken(wire'[k]) => server'.lease > Delay(k)' + Renewal + MaxHolds + TokenTime
  <2>1. /\ \A c \in Tokens \cap DOMAIN server.asked : server.lease >= server.asked[c] + (server.ttl - Latency)
        /\ \A k \in DOMAIN wire : OfToken(wire[k]) => server.lease > Delay(k) + Renewal + MaxHolds + TokenTime
    BY <1>4 DEF OnTime, LeaseInTime
  <2>2. Renewal \in Int
    <3> DEFINE t == server.ttl
    <3>1. t \in Nat
      BY <1>4, TypedMeans, ConstantsMean DEF Long
    <3> HIDE DEF t
    <3>2. (t * 4) \div 5 \in Int
      BY <3>1
    <3> QED BY <3>2 DEF Renewal, t
  <2>3. ASSUME NEW k \in DOMAIN wire, OfToken(wire[k]) PROVE server.lease > Delay(k)' + Renewal + MaxHolds + TokenTime
    <3>1. server.lease > Delay(k) + Renewal + MaxHolds + TokenTime /\ Delay(k)' <= Delay(k) /\ Delay(k)' \in Nat
      BY <2>1, <2>3 DEF Reads
    <3> QED BY <1>1, <2>2, <3>1
  <2> QED BY <2>1, <2>3 DEF Reads
<1>5. \A k \in DOMAIN wire : (IsAnswer(wire[k], "connect")' <=> IsAnswer(wire[k], "connect"))
  BY DEF IsAnswer, Reads
<1> QED BY <1>2, <1>3, <1>4, <1>5

LEMMA HandOverInTime ==
    ASSUME Margins, LinkTyped, Standing, OnTime, HandOver PROVE OnTime'
<1>1. /\ UNCHANGED <<ending, kind, commands, lease, wire>>
      /\ at = "receiving" /\ frames # <<>> /\ frames' = Tail(frames)
      /\ server'.asked = server.asked /\ server'.lease = server.lease /\ server'.ttl = server.ttl /\ server'.pong = server.pong
      /\ server'.ping = server.ping /\ server'.live = server.live
      /\ server'.owed => server.owed
      /\ Head(frames).what = "ping" /\ (kind = "pusher" \/ lease.pong) => ~server'.owed
      /\ timers'.idle = IdleTimeout /\ timers'.refresh = timers.refresh /\ timers'.beat = timers.beat
      /\ spent' = 0
      /\ \/ at' = "receiving" /\ holds' = holds
         \/ at' = "held" /\ holds' = holds + 1 /\ holds < MaxHolds
  BY HandOverMeans DEF SameProvider
<1>2. /\ holds \in Nat /\ holds <= MaxHolds /\ MaxHolds \in Nat /\ TokenTime \in Nat /\ timers.beat \in Int /\ timers.refresh \in Int
      /\ server.ping \in Int /\ server.lease \in Int /\ lease.beat \in Nat /\ frames \in Seq(WireLines) /\ Never = -1
      /\ timers.refresh >= -1
  BY TypedMeans, ConstantsMean DEF LinkTyped
<1>3. Holding' = Holding /\ Holding = MaxHolds - holds
  BY <1>1, <1>2 DEF Holding, Pending
<1>4. \A k : Renewing(k)' = Renewing(k)
  BY <1>1 DEF Renewing
<1>5. \A k : Delay(k)' = Delay(k)
  BY <1>3, <1>4 DEF Delay
<1>6. Reads
  BY <1>1, <1>5, DelayMeans DEF Reads
<1>7. kind \in {"pusher", "centrifugo"} /\ Running /\ Up
  BY <1>1 DEF Standing, Beginning, LinkTyped, Running, Up
<1>8. Met
  BY <1>1 DEF OnTime, Connected, Met, Central
<1>9. Central => server.ping # Never /\ lease = [beat |-> PingEvery + Grace, pong |-> server.pong]
  BY <1>1, <1>8 DEF OnTime, Connected
<1>10. Central => lease.beat > MaxHolds /\ lease.pong = server.pong
  BY <1>9, MarginsSay
<1>11. Met' /\ (Central' <=> Central)
  BY <1>6, <1>8, ReadsMean
<1>12. Connected'
  <2>1. server.ping <= PingEvery
    BY DEF OnTime, Connected
  <2>2. Central => /\ server.ping # Never => "connect" \notin DOMAIN server.asked
                   /\ server.owed => server.ping # Never
                   /\ server.live => "connect" \notin DOMAIN server.asked
    BY DEF OnTime, Connected
  <2>3. at' # "connecting"
    BY <1>1
  <2> QED BY <1>1, <1>9, <1>11, <2>1, <2>2, <2>3 DEF Connected
<1>13. BeatInTime'
  <2>1. Central => timers.beat + holds >= lease.beat
    BY <1>1, <1>2 DEF OnTime, BeatInTime, Pending
  <2>2. Central => timers.beat > 0
    BY <1>2, <1>10, <2>1
  <2>3. Central => (at' = "held" \/ frames' # <<>> => timers'.beat + holds' >= lease'.beat + Pending')
    BY <1>1, <1>2, <2>1 DEF Pending
  <2>4. Central => ("connect" \in DOMAIN server.asked => timers.beat > server.asked["connect"])
    BY DEF OnTime, BeatInTime
  <2>5. Central => (wire = <<>> => timers.beat > server.ping)
    BY <1>7, <1>8 DEF OnTime, BeatInTime
  <2>6. at' \notin {"connecting", "subscribing"}
    BY <1>1
  <2> QED BY <1>1, <1>11, <2>2, <2>3, <2>4, <2>5, <2>6 DEF BeatInTime
<1>14. IdleInTime'
  <2>1. server.ping <= PingEvery
    BY DEF OnTime, Connected
  <2>2. timers'.idle > server'.ping + MaxHolds + TokenTime
    <3>1. timers'.idle = IdleTimeout /\ server'.ping = server.ping /\ server.ping \in Int
      BY <1>1, <1>2
    <3>2. /\ PingEvery \in Nat /\ MaxHolds \in Nat /\ TokenTime \in Nat /\ IdleTimeout \in Nat
          /\ PingEvery + MaxHolds + TokenTime < IdleTimeout
      BY MarginsSay
    <3> QED BY <2>1, <3>1, <3>2
  <2> QED BY <1>11, <2>2 DEF IdleInTime
<1>15. LeaseInTime'
  <2> SUFFICES ASSUME Long' PROVE
        /\ timers'.refresh # Never =>
             server'.lease > timers'.refresh + TokenTime
                              + (IF timers'.refresh > 0 \/ at' = "reading" THEN MaxHolds
                                 ELSE IF at' = "held" \/ frames' # <<>> THEN Holding' ELSE 0)
        /\ at' = "renewing" => server'.lease > TokenTime - spent'
        /\ Central' /\ Up' /\ at' # "connecting" =>
             timers'.refresh # Never \/ at' = "renewing" \/ DOMAIN commands' \cap Tokens # {}
    BY <1>6, ReadsMean DEF LeaseInTime
  <2>1. /\ timers.refresh # Never => server.lease > timers.refresh + TokenTime + (IF timers.refresh > 0 THEN MaxHolds ELSE Holding)
        /\ Central => timers.refresh # Never \/ DOMAIN commands \cap Tokens # {}
    BY <1>1, <1>6, <1>7, ReadsMean DEF OnTime, LeaseInTime
  <2>2. Holding \in Nat /\ at' # "renewing" /\ at' # "reading"
    BY <1>1, DelayMeans
  <2> QED BY <1>1, <1>2, <1>3, <1>11, <2>1, <2>2
<1>16. PongInTime'
  <2> SUFFICES ASSUME server'.owed, server'.pong
               PROVE  \/ \E k \in DOMAIN frames' : frames'[k].what = "ping" /\ server'.ping > Holding'
                      \/ \E k \in DOMAIN wire' : wire'[k].what = "ping" /\ server'.ping > Delay(k)'
    BY DEF PongInTime
  <2>1. Head(frames).what # "ping"
    BY <1>1, <1>7, <1>10 DEF Central
  <2>2. \/ \E k \in DOMAIN frames : frames[k].what = "ping" /\ server.ping > Holding
        \/ \E k \in DOMAIN wire : wire[k].what = "ping" /\ server.ping > Delay(k)
    BY <1>1 DEF OnTime, PongInTime
  <2>3. ASSUME NEW k \in DOMAIN frames, frames[k].what = "ping"
        PROVE  k - 1 \in DOMAIN frames' /\ frames'[k - 1] = frames[k]
    <3>1. k # 1
      BY <1>1, <1>2, <2>1, <2>3
    <3>2. \A s \in Seq(WireLines) : \A j \in DOMAIN s : s # <<>> /\ j # 1 => j - 1 \in DOMAIN Tail(s) /\ Tail(s)[j - 1] = s[j]
      OBVIOUS
    <3> QED BY <1>1, <1>2, <3>1, <3>2
  <2> QED BY <1>1, <1>3, <1>5, <2>2, <2>3
<1> QED BY <1>6, <1>12, <1>13, <1>14, <1>15, <1>16, ReadsMean DEF OnTime

\* Steps between the reader's places that hand nothing over.
LEMMA ReadsLeave ==
    ASSUME Margins, LinkTyped, Standing, OnTime, Reads, UNCHANGED <<frames, server>>, timers'.idle = timers.idle,
           Running, Running', Holding' <= Holding, Holding' \in Nat
    PROVE  Connected' /\ IdleInTime' /\ PongInTime'
<1>1. /\ Met' = Met /\ Central' = Central /\ UNCHANGED <<kind, commands, lease, wire, frames, server>>
      /\ \A k \in DOMAIN wire : Delay(k)' \in Nat /\ Delay(k)' <= Delay(k)
      /\ at # "connecting" /\ at' # "connecting"
  BY ReadsMean DEF Reads, Running
<1>2. /\ timers.idle \in Nat /\ server.ping \in Int /\ Holding \in Nat /\ \A k \in DOMAIN wire : Delay(k) \in Nat
  BY TypedMeans, DelayMeans
<1>3. Connected'
  BY <1>1 DEF OnTime, Connected
<1>4. IdleInTime'
  <2> SUFFICES ASSUME frames = <<>>
               PROVE  \/ \E k \in DOMAIN wire' : Event(wire[k])' /\ timers'.idle > Delay(k)'
                      \/ Met' /\ timers'.idle > server'.ping + MaxHolds + TokenTime
                      \/ "connect" \in DOMAIN server'.asked /\ timers'.idle > server'.asked["connect"] + MaxHolds + TokenTime
    BY <1>1 DEF IdleInTime
  <2>1. CASE \E k \in DOMAIN wire : Event(wire[k]) /\ timers.idle > Delay(k)
    <3>1. PICK k \in DOMAIN wire : Event(wire[k]) /\ timers.idle > Delay(k)
      BY <2>1
    <3>2. timers'.idle > Delay(k)'
      BY <1>1, <1>2, <3>1
    <3>3. Event(wire[k])'
      BY <1>1, <3>1 DEF Event, Central
    <3> QED BY <1>1, <3>2, <3>3
  <2>2. CASE ~\E k \in DOMAIN wire : Event(wire[k]) /\ timers.idle > Delay(k)
    BY <1>1, <2>2 DEF OnTime, IdleInTime
  <2> QED BY <2>1, <2>2
<1>5. PongInTime'
  <2> SUFFICES ASSUME server.owed, server.pong
               PROVE  \/ \E k \in DOMAIN frames : frames[k].what = "ping" /\ server.ping > Holding'
                      \/ \E k \in DOMAIN wire : wire[k].what = "ping" /\ server.ping > Delay(k)'
    BY <1>1 DEF PongInTime
  <2>1. CASE \E k \in DOMAIN frames : frames[k].what = "ping" /\ server.ping > Holding
    <3>1. server.ping > Holding'
      BY <1>2, <2>1
    <3> QED BY <2>1, <3>1
  <2>2. CASE \E k \in DOMAIN wire : wire[k].what = "ping" /\ server.ping > Delay(k)
    <3>1. PICK k \in DOMAIN wire : wire[k].what = "ping" /\ server.ping > Delay(k)
      BY <2>2
    <3>2. server.ping > Delay(k)'
      BY <1>1, <1>2, <3>1
    <3> QED BY <3>1, <3>2
  <2> QED BY <2>1, <2>2 DEF OnTime, PongInTime
<1> QED BY <1>3, <1>4, <1>5

LEMMA ReleasedInTime ==
    ASSUME Margins, LinkTyped, Standing, OnTime, Released PROVE OnTime'
<1>1. /\ at = "held" /\ spent = 1 /\ at' = "receiving" /\ Running /\ Running' /\ Up /\ Up'
      /\ UNCHANGED <<ending, kind, commands, frames, timers, lease, spent, wire, server, taken, since, holds>>
  BY DEF Released, Running, Up
<1>2. Pending = 0 /\ Pending' = 0 /\ Holding' = Holding /\ Holding \in Nat
  BY <1>1, DelayMeans DEF Holding, Pending
<1>3. \A k : Delay(k)' = Delay(k)
  BY <1>1, <1>2 DEF Delay, Renewing
<1>4. Reads
  BY <1>1, <1>3, DelayMeans DEF Reads
<1>5. Connected' /\ IdleInTime' /\ PongInTime'
  BY <1>1, <1>2, <1>4, ReadsLeave
<1>6. BeatInTime'
  <2>1. Central => timers.beat + holds >= lease.beat + Pending /\ lease.beat > MaxHolds
    BY <1>1, BeatOfLease DEF OnTime, BeatInTime
  <2>2. Central => timers.beat > 0
    BY <1>2, <2>1, TypedMeans, ConstantsMean
  <2>3. Central => /\ "connect" \in DOMAIN server.asked => timers.beat > server.asked["connect"]
                   /\ wire = <<>> /\ Met => timers.beat > server.ping
    BY <1>1 DEF OnTime, BeatInTime
  <2> QED BY <1>1, <1>2, <2>1, <2>2, <2>3 DEF BeatInTime, Central, Met
<1>7. LeaseInTime'
  <2> SUFFICES ASSUME Long' PROVE
        /\ timers.refresh # Never =>
             server.lease > timers.refresh + TokenTime
                              + (IF timers.refresh > 0 THEN MaxHolds
                                 ELSE IF frames # <<>> THEN Holding ELSE 0)
        /\ Central /\ Up' => timers.refresh # Never \/ DOMAIN commands \cap Tokens # {}
    BY <1>1, <1>2, <1>4, ReadsMean DEF LeaseInTime
  <2>1. /\ timers.refresh # Never => server.lease > timers.refresh + TokenTime + (IF timers.refresh > 0 THEN MaxHolds ELSE Holding)
        /\ Central => timers.refresh # Never \/ DOMAIN commands \cap Tokens # {}
    BY <1>1, <1>4, ReadsMean DEF OnTime, LeaseInTime
  <2>2. timers.refresh \in Int /\ timers.refresh >= -1 /\ Never = -1 /\ server.lease \in Int /\ TokenTime \in Nat
    BY TypedMeans, ConstantsMean
  <2> QED BY <1>2, <2>1, <2>2
<1> QED BY <1>4, <1>5, <1>6, <1>7, ReadsMean DEF OnTime

LEMMA StartReadInTime ==
    ASSUME Margins, LinkTyped, Standing, OnTime, StartRead PROVE OnTime'
<1>1. /\ UNCHANGED <<ending, kind, commands, frames, lease, wire, server, taken, since, holds>>
      /\ at = "receiving" /\ frames = <<>> /\ spent' = 0 /\ timers'.idle = timers.idle /\ timers'.beat = timers.beat
      /\ \/ timers.refresh = 0 /\ at' = "renewing" /\ timers'.refresh = Never
         \/ timers.refresh # 0 /\ at' = "reading" /\ timers'.refresh = timers.refresh
  BY StartReadMeans
<1>2. Running /\ Running' /\ Up /\ Up' /\ Never = -1 /\ TokenTime \in Nat /\ MaxHolds \in Nat
      /\ timers.refresh \in Int /\ timers.refresh >= -1 /\ server.lease \in Int
  BY <1>1, TypedMeans, ConstantsMean DEF Running, Up
<1>3. Pending = 0 /\ Pending' = 0 /\ Holding' = Holding /\ Holding \in Nat
  BY <1>1, DelayMeans DEF Holding, Pending
<1>4. \A k : Renewing(k)' = Renewing(k)
  <2>1. CASE timers.refresh = 0
    <3>1. \A k : Renewing(k) = TokenTime
      BY <1>1, <1>2, <2>1 DEF Renewing
    <3>2. \A k : Renewing(k)' = TokenTime - 0
      BY <1>1, <2>1 DEF Renewing
    <3> QED BY <1>2, <3>1, <3>2
  <2>2. CASE timers.refresh # 0
    BY <1>1, <2>2 DEF Renewing
  <2> QED BY <2>1, <2>2
<1>5. \A k : Delay(k)' = Delay(k)
  BY <1>3, <1>4 DEF Delay
<1>6. Reads
  BY <1>1, <1>5, DelayMeans DEF Reads
<1>7. Connected' /\ IdleInTime' /\ PongInTime'
  BY <1>1, <1>2, <1>3, <1>6, ReadsLeave
<1>8. BeatInTime'
  <2>1. Central => /\ "connect" \in DOMAIN server.asked => timers.beat > server.asked["connect"]
                   /\ wire = <<>> /\ Met => timers.beat > server.ping
    BY <1>1, <1>2 DEF OnTime, BeatInTime
  <2>2. at' \notin {"connecting", "subscribing", "receiving", "held"}
    BY <1>1
  <2> QED BY <1>1, <2>1, <2>2 DEF BeatInTime, Central, Met
<1>9. LeaseInTime'
  <2> SUFFICES ASSUME Long' PROVE
        /\ timers'.refresh # Never =>
             server.lease > timers'.refresh + TokenTime
                              + (IF timers'.refresh > 0 \/ at' = "reading" THEN MaxHolds
                                 ELSE IF at' = "held" \/ frames' # <<>> THEN Holding' ELSE 0)
        /\ at' = "renewing" => server.lease > TokenTime - spent'
        /\ Central => timers'.refresh # Never \/ at' = "renewing" \/ DOMAIN commands \cap Tokens # {}
    BY <1>1, <1>6, ReadsMean DEF LeaseInTime
  <2>1. /\ timers.refresh # Never => server.lease > timers.refresh + TokenTime + (IF timers.refresh > 0 THEN MaxHolds ELSE 0)
        /\ Central => timers.refresh # Never \/ DOMAIN commands \cap Tokens # {}
    BY <1>1, <1>2, <1>6, ReadsMean DEF OnTime, LeaseInTime
  <2> QED BY <1>1, <1>2, <2>1
<1> QED BY <1>6, <1>7, <1>8, <1>9, ReadsMean DEF OnTime

LEMMA ReadNothingInTime ==
    ASSUME Margins, LinkTyped, Standing, OnTime, ReadNothing, at' # "ended" PROVE OnTime'
<1>1. /\ at = "reading" /\ at' = "receiving" /\ wire = <<>> /\ Running /\ Running' /\ Up /\ Up'
      /\ UNCHANGED <<ending, kind, commands, frames, timers, lease, spent, wire, server, taken, since, holds>>
  BY DEF ReadNothing, NoFrame, Running, Up
<1>2. Pending = 0 /\ Pending' = 0 /\ Holding' = Holding /\ Holding \in Nat /\ Holding <= MaxHolds
  BY <1>1, DelayMeans DEF Holding, Pending
<1>3. \A k : Delay(k)' = Delay(k)
  BY <1>1, <1>2 DEF Delay, Renewing
<1>4. Reads
  BY <1>1, <1>3, DelayMeans DEF Reads
<1>5. Connected' /\ IdleInTime' /\ PongInTime'
  BY <1>1, <1>2, <1>4, ReadsLeave
<1>6. frames = <<>>
  BY <1>1 DEF Standing, Places
<1>7. /\ timers.beat \in Int /\ server.ping \in Int /\ server.ping >= -1 /\ Never = -1
      /\ timers.refresh \in Int /\ server.lease \in Int /\ MaxHolds \in Nat /\ TokenTime \in Nat
  BY TypedMeans, ConstantsMean
<1>8. BeatInTime'
  <2>1. Central => /\ "connect" \in DOMAIN server.asked => timers.beat > server.asked["connect"]
                   /\ Met => timers.beat > server.ping
    BY <1>1 DEF OnTime, BeatInTime
  <2>2. Central /\ Met => server.ping # Never
    BY <1>1 DEF OnTime, Connected
  <2>3. Central /\ ~Met => "connect" \in DOMAIN server.asked /\ server.asked["connect"] \in Nat
    <3>1. DOMAIN wire = {}
      BY <1>1
    <3> QED BY <3>1, AwaitedMeans DEF OnTime, Met
  <2>4. Central => timers.beat > 0
    BY <1>7, <2>1, <2>2, <2>3
  <2> QED BY <1>1, <1>6, <2>1, <2>4 DEF BeatInTime, Central, Met
<1>9. LeaseInTime'
  <2> SUFFICES ASSUME Long' PROVE
        /\ timers.refresh # Never =>
             server.lease > timers.refresh + TokenTime
                              + (IF timers.refresh > 0 THEN MaxHolds
                                 ELSE IF frames # <<>> THEN Holding ELSE 0)
        /\ Central => timers.refresh # Never \/ DOMAIN commands \cap Tokens # {}
    BY <1>1, <1>2, <1>4, ReadsMean DEF LeaseInTime
  <2>1. /\ timers.refresh # Never => server.lease > timers.refresh + TokenTime + MaxHolds
        /\ Central => timers.refresh # Never \/ DOMAIN commands \cap Tokens # {}
    BY <1>1, <1>4, ReadsMean DEF OnTime, LeaseInTime
  <2> QED BY <1>2, <1>7, <2>1
<1> QED BY <1>4, <1>5, <1>8, <1>9, ReadsMean DEF OnTime

LEMMA RenewInTime ==
    ASSUME Margins, LinkTyped, Standing, OnTime, Well, Renew, at' # "ended" PROVE OnTime'
<1>1. /\ at = "renewing" /\ at' = "reading" /\ spent' = 0 /\ Sent({"refresh"}) /\ {"refresh"} \in SUBSET Named
      /\ "refresh" \notin DOMAIN commands /\ "connect" \notin DOMAIN commands /\ Central
      /\ timers.refresh = Never /\ frames = <<>>
      /\ UNCHANGED <<ending, kind, frames, timers, lease, wire, taken, since, holds>>
  BY RenewMeans
<1>2. {"refresh"} # Feeds
  BY ConstantsMean
<1>3. /\ DOMAIN commands' = DOMAIN commands \cup {"refresh"} /\ DOMAIN server'.asked = DOMAIN server.asked \cup {"refresh"}
      /\ \A c \in DOMAIN commands \cup {"refresh"} : commands'[c] = IF c \in {"refresh"} THEN AckTimeout ELSE commands[c]
      /\ \A c \in DOMAIN server.asked \cup {"refresh"} : server'.asked[c] = IF c \in {"refresh"} THEN Latency ELSE server.asked[c]
      /\ server'.lease = server.ttl /\ server'.ttl = server.ttl /\ server'.ping = server.ping
      /\ server'.owed = server.owed /\ server'.live = server.live /\ server'.pong = server.pong
  BY <1>1, <1>2, SentMeans DEF SameProvider
<1>4. "connect" \notin DOMAIN server.asked /\ "connect" \notin DOMAIN server'.asked /\ "connect" \notin DOMAIN commands'
  BY <1>1, <1>3 DEF Standing, AnswersOnce
<1>5. \A k \in DOMAIN wire : ~OfToken(wire[k])
  <2> SUFFICES ASSUME NEW k \in DOMAIN wire, OfToken(wire[k]) PROVE FALSE
    OBVIOUS
  <2>1. IsAnswer(wire[k], wire[k].of) /\ wire[k].of \in Tokens /\ wire[k].of \in Named
    BY DEF OfToken, IsAnswer, Named
  <2> QED BY <1>1, <2>1 DEF Standing, AnswersOnce, Tokens
<1>6. Holding' = Holding /\ Holding \in Nat /\ Pending' = 0
  BY <1>1, DelayMeans DEF Holding, Pending
<1>7. \A k \in DOMAIN wire : Delay(k)' \in Nat /\ Delay(k)' <= Delay(k)
  <2>1. \A k : Delay(k) = Holding + Renewing(k) /\ Renewing(k) \in Nat
    BY DelayMeans
  <2>2. \A k \in DOMAIN wire : Renewing(k)' = 0
    BY <1>1, <1>5 DEF Renewing
  <2>3. \A k \in DOMAIN wire : Delay(k)' = Holding'+ 0
    BY <2>2 DEF Delay
  <2> QED BY <1>6, <2>1, <2>3
<1>8. /\ \A c \in DOMAIN commands : commands[c] \in Nat
      /\ \A k \in DOMAIN wire : Delay(k) \in Nat
      /\ timers.idle \in Nat /\ server.ping \in Int /\ server.ttl \in Int
  <2>1. /\ \A c \in DOMAIN commands : commands[c] \in Nat
        /\ timers.idle \in Nat /\ server.ping \in Int /\ server.ttl \in Nat \cup {NoLease} /\ NoLease \in Int
    BY TypedMeans, ConstantsMean
  <2>2. \A k : Delay(k) \in Nat
    BY DelayMeans
  <2>3. server.ttl \in Int
    BY <2>1
  <2> QED BY <2>1, <2>2, <2>3
<1>9. CommandsInTime'
  <2> SUFFICES ASSUME NEW c \in DOMAIN commands'
               PROVE  \/ c \in DOMAIN server'.asked /\ server'.asked[c] <= Latency
                         /\ commands'[c] >= server'.asked[c] + (AckTimeout - Latency)
                      \/ \E k \in DOMAIN wire : IsAnswer(wire[k], c) /\ commands'[c] > Delay(k)'
    BY <1>1 DEF CommandsInTime, IsAnswer
  <2>1. CASE c = "refresh"
    <3>1. c \in DOMAIN server'.asked /\ server'.asked[c] = Latency /\ commands'[c] = AckTimeout
      BY <1>3, <2>1
    <3> QED BY <3>1, MarginsSay
  <2>2. CASE c # "refresh"
    <3>1. c \in DOMAIN commands /\ commands'[c] = commands[c]
          /\ (c \in DOMAIN server.asked => c \in DOMAIN server'.asked /\ server'.asked[c] = server.asked[c])
      BY <1>3, <2>2
    <3>2. CASE c \in DOMAIN server.asked
      BY <3>1, <3>2, AwaitedMeans DEF OnTime
    <3>3. CASE c \notin DOMAIN server.asked
      <4>1. PICK k \in DOMAIN wire : IsAnswer(wire[k], c) /\ commands[c] > Delay(k)
        BY <3>1, <3>3, AwaitedMeans DEF OnTime
      <4>2. commands'[c] > Delay(k)'
        BY <1>7, <1>8, <3>1, <4>1
      <4> QED BY <4>1, <4>2
    <3> QED BY <3>2, <3>3
  <2> QED BY <2>1, <2>2
<1>10. Connected'
  <2>1. Met
    BY <1>1 DEF Met
  <2> QED BY <1>1, <1>3, <1>4, <2>1 DEF OnTime, Connected, Met, Central
<1>11. BeatInTime'
  <2>1. wire = <<>> => timers.beat > server.ping
    BY <1>1 DEF OnTime, BeatInTime, Met, Running
  <2> QED BY <1>1, <1>3, <1>4, <2>1 DEF BeatInTime
<1>12. IdleInTime'
  <2>1. Met' /\ Central' /\ Running
    BY <1>1, <1>4 DEF Met, Central, Running
  <2>2. CASE \E k \in DOMAIN wire : Event(wire[k]) /\ timers.idle > Delay(k)
    <3>1. PICK k \in DOMAIN wire : Event(wire[k]) /\ timers.idle > Delay(k)
      BY <2>2
    <3>2. timers'.idle > Delay(k)'
      BY <1>1, <1>7, <1>8, <3>1
    <3>3. Event(wire[k])'
      BY <1>1, <2>1, <3>1 DEF Event
    <3>4. wire'[k] = wire[k] /\ k \in DOMAIN wire'
      BY <1>1
    <3> QED BY <3>2, <3>3, <3>4 DEF IdleInTime, Event
  <2>3. CASE ~\E k \in DOMAIN wire : Event(wire[k]) /\ timers.idle > Delay(k)
    <3>1. timers.idle > server.ping + MaxHolds + TokenTime
      BY <1>1, <1>4, <2>1, <2>3 DEF OnTime, IdleInTime
    <3> QED BY <1>1, <1>3, <2>1, <3>1 DEF IdleInTime
  <2> QED BY <2>2, <2>3
<1>13. LeaseInTime'
  <2>1. Tokens \cap DOMAIN server'.asked \subseteq {"refresh"} /\ server'.asked["refresh"] = Latency /\ DOMAIN commands' \cap Tokens # {}
    BY <1>3, <1>4 DEF Tokens
  <2>2. \A c \in Tokens \cap DOMAIN server'.asked : server'.lease >= server'.asked[c] + (server'.ttl - Latency)
    <3>1. server.ttl >= Latency + (server.ttl - Latency)
      BY <1>8, MarginsSay
    <3> QED BY <1>3, <2>1, <3>1
  <2> QED BY <1>1, <1>5, <2>1, <2>2 DEF LeaseInTime, OfToken
<1>14. PongInTime'
  <2> SUFFICES ASSUME server.owed, server.pong
               PROVE  \E k \in DOMAIN wire : wire[k].what = "ping" /\ server.ping > Delay(k)'
    BY <1>1, <1>3 DEF PongInTime
  <2>1. PICK k \in DOMAIN wire : wire[k].what = "ping" /\ server.ping > Delay(k)
    BY <1>1 DEF OnTime, PongInTime
  <2>2. server.ping > Delay(k)'
    BY <1>7, <1>8, <2>1
  <2> QED BY <2>1, <2>2
<1> QED BY <1>9, <1>10, <1>11, <1>12, <1>13, <1>14 DEF OnTime

\* What was read: the rest of the wire comes no later, and what deserves a frame has one.
LEMMA TakenComes ==
    ASSUME LinkTyped, Standing, NEW n \in 1..Len(wire), NEW st \in Decodings, Taken(st, n), at' = "receiving"
    PROVE  /\ Holding' = Holding /\ Pending' = 0
           /\ \A k \in DOMAIN wire' : /\ wire'[k] = wire[n + k] /\ n + k \in DOMAIN wire
                                      /\ Delay(k)' \in Nat /\ Delay(k)' <= Delay(n + k)
           /\ \A k \in DOMAIN wire : k \notin 1..n => k - n \in DOMAIN wire' /\ n + (k - n) = k
           /\ \A k \in 1..n : wire[k].what \in {"ping", "pub"} => \E i \in DOMAIN frames' : frames'[i] = wire[k]
           /\ \A k \in 1..n : Event(wire[k]) => frames' # <<>>
<1>1. /\ at = "reading" /\ frames' = st.frames /\ timers' = st.timers /\ UNCHANGED <<kind, spent, server, taken, holds>>
      /\ IF Central THEN BatchRead(st, n) ELSE n = 1 /\ PusherRead(st)
  BY DEF Taken
<1>2. /\ DOMAIN wire = 1..Len(wire) /\ DOMAIN wire' = 1..(Len(wire) - n) /\ n \in Nat /\ Len(wire) \in Nat
      /\ \A k \in DOMAIN wire' : wire'[k] = wire[n + k] /\ n + k \in DOMAIN wire
      /\ TokenTime \in Nat
  BY TakenMeans, TypedMeans, ConstantsMean
<1>3. Pending = 0 /\ Pending' = 0 /\ Holding' = Holding /\ Holding \in Nat
  BY <1>1, DelayMeans DEF Holding, Pending
<1>4. timers'.refresh # Never => timers.refresh # Never \/ \E j \in 1..n : Grants(wire[j])
  BY <1>1 DEF BatchRead, TermsRead, PusherRead
<1>5. ASSUME NEW k \in DOMAIN wire' PROVE Delay(k)' \in Nat /\ Delay(k)' <= Delay(n + k)
  <2>1. timers'.refresh # Never \/ (\E j \in DOMAIN wire' : j < k /\ OfToken(wire'[j]))
        => timers.refresh # Never \/ \E j \in DOMAIN wire : j < n + k /\ OfToken(wire[j])
    <3>1. CASE timers'.refresh # Never
      <4>1. ASSUME NEW j \in 1..n, Grants(wire[j]) PROVE j \in DOMAIN wire /\ j < n + k /\ OfToken(wire[j])
        BY <1>2, <4>1 DEF Grants, OfToken, Answers
      <4> QED BY <1>4, <3>1, <4>1
    <3>2. CASE \E j \in DOMAIN wire' : j < k /\ OfToken(wire'[j])
      <4>1. PICK j \in DOMAIN wire' : j < k /\ OfToken(wire'[j])
        BY <3>2
      <4>2. n + j \in DOMAIN wire /\ n + j < n + k /\ OfToken(wire[n + j])
        BY <1>2, <4>1
      <4> QED BY <4>2
    <3> QED BY <3>1, <3>2
  <2>2. Renewing(k)' = (IF timers'.refresh # Never \/ (\E j \in DOMAIN wire' : j < k /\ OfToken(wire'[j])) THEN TokenTime ELSE 0)
    BY <1>1 DEF Renewing, OfToken
  <2>3. Renewing(n + k) = (IF timers.refresh # Never \/ (\E j \in DOMAIN wire : j < n + k /\ OfToken(wire[j])) THEN TokenTime ELSE 0)
    BY <1>1 DEF Renewing
  <2>4. Delay(k)' = Holding' + Renewing(k)'
    BY DEF Delay
  <2>5. Delay(n + k) = Holding + Renewing(n + k)
    BY DelayMeans
  <2> DEFINE a == timers'.refresh # Never \/ (\E j \in DOMAIN wire' : j < k /\ OfToken(wire'[j]))
             b == timers.refresh # Never \/ \E j \in DOMAIN wire : j < n + k /\ OfToken(wire[j])
             x == Renewing(k)'
             y == Renewing(n + k)
  <2>6. (x = TokenTime /\ y = TokenTime) \/ (x = 0 /\ (y = TokenTime \/ y = 0))
    BY <2>1, <2>2, <2>3
  <2> HIDE DEF a, b, x, y
  <2>7. Holding + x \in Nat /\ Holding + x <= Holding + y
    BY <1>2, <1>3, <2>6
  <2> QED BY <1>3, <2>4, <2>5, <2>7 DEF x, y
<1>6. \A k \in DOMAIN wire : k \notin 1..n => k - n \in DOMAIN wire' /\ n + (k - n) = k
  BY <1>2
<1>7. \A k \in 1..n : wire[k].what \in {"ping", "pub"} => \E i \in DOMAIN frames' : frames'[i] = wire[k]
  <2>1. CASE Central
    BY <1>1, <2>1 DEF BatchRead, FramesRead, Shown
  <2>2. CASE ~Central
    <3>1. n = 1 /\ PusherRead(st) /\ 1..1 = {1}
      BY <1>1, <2>2
    <3>2. wire[1].what # "bad" => frames' = <<wire[1]>> /\ 1 \in DOMAIN <<wire[1]>> /\ <<wire[1]>>[1] = wire[1]
      BY <1>1, <3>1 DEF PusherRead
    <3> QED BY <3>1, <3>2
  <2> QED BY <2>1, <2>2
<1>8. ASSUME NEW k \in 1..n, Event(wire[k]) PROVE frames' # <<>>
  <2>1. CASE Central
    <3>1. wire[k].what \in {"bad", "ping", "pub", "ack"}
      BY <1>1, <2>1 DEF BatchRead, CommandsRead
    <3>2. Shown(wire[k])
      BY <1>8, <2>1, <3>1 DEF Event, Shown, Answers
    <3>3. \E i \in DOMAIN frames' : frames'[i] = wire[k]
      BY <1>1, <2>1, <3>2 DEF BatchRead, FramesRead
    <3> QED BY <3>3
  <2>2. CASE ~Central
    <3>1. n = 1 /\ PusherRead(st) /\ k = 1
      BY <1>1, <2>2
    <3>2. frames' = <<wire[1]>>
      BY <1>1, <1>8, <2>2, <3>1 DEF PusherRead, Event
    <3> QED BY <3>2
  <2> QED BY <2>1, <2>2
<1> QED BY <1>2, <1>3, <1>5, <1>6, <1>7, <1>8

LEMMA ReadConnected ==
    ASSUME Margins, LinkTyped, Standing, OnTime, NEW n \in 1..Len(wire), NEW st \in Decodings, Taken(st, n), at' = "receiving"
    PROVE  /\ Connected' /\ (Met => Met') /\ (Central' <=> Central)
           /\ Central => timers'.beat = lease'.beat
<1>1. /\ at = "reading" /\ frames' = st.frames /\ timers' = st.timers /\ commands' = st.commands /\ lease' = st.lease
      /\ UNCHANGED <<kind, spent, server, taken, holds>>
      /\ IF Central THEN BatchRead(st, n) ELSE n = 1 /\ PusherRead(st)
  BY DEF Taken
<1>2. /\ DOMAIN commands' \subseteq DOMAIN commands
      /\ \A j \in 1..n, c \in DOMAIN commands : IsAnswer(wire[j], c) => c \notin DOMAIN commands'
      /\ \A k \in DOMAIN wire' : wire'[k] = wire[n + k] /\ n + k \in DOMAIN wire
      /\ 1..n \subseteq DOMAIN wire /\ n \in Nat
      /\ DOMAIN wire' \subseteq Nat /\ DOMAIN wire \subseteq Nat
      /\ DOMAIN commands \subseteq Named
  <2>1. DOMAIN wire' = 1..(Len(wire) - n) /\ DOMAIN wire = 1..Len(wire) /\ DOMAIN commands \subseteq Named
    BY TakenMeans, TypedMeans
  <2>2. DOMAIN wire' \subseteq Nat /\ DOMAIN wire \subseteq Nat
    BY <2>1
  <2> QED BY <2>1, <2>2, TakenMeans
<1>3. /\ \A k \in DOMAIN wire : k \notin 1..n => k - n \in DOMAIN wire' /\ n + (k - n) = k
  BY TakenComes
<1>4. Met => Met'
  BY <1>1, <1>2 DEF Met, Central
<1>5. ASSUME Central
      PROVE  /\ Met' => server.ping # Never /\ lease' = Granted
             /\ ~Met' => lease'.beat = DefaultBeat /\ frames' = <<>>
             /\ timers'.beat = lease'.beat
             /\ ~Met' => ~Met
  <2>1. CommandsRead(st, n) /\ FramesRead(st, n) /\ TermsRead(st, n)
    BY <1>1, <1>5 DEF BatchRead
  <2>2. (lease' = Granted /\ timers'.beat = PingEvery + Grace) \/ (lease' = lease /\ timers'.beat = lease.beat)
    BY <1>1, <2>1 DEF TermsRead
  <2>3. timers'.beat = lease'.beat
    BY <2>2 DEF Granted
  <2>4. Met => server.ping # Never /\ lease = Granted
    BY <1>1, <1>5 DEF OnTime, Connected, Granted
  <2>5. ASSUME Met', ~Met PROVE server.ping # Never /\ lease' = Granted
    <3>1. PICK j \in 1..n : wire[j].what = "ack" /\ wire[j].of = "connect"
      BY <1>1, <1>5, <2>1, <2>5 DEF Met, Central, CommandsRead
    <3>2. lease' = Granted
      BY <1>1, <2>1, <3>1 DEF TermsRead, Connects
    <3>3. server.ping # Never
      BY <1>2, <1>5, <3>1 DEF OnTime, Connected
    <3> QED BY <3>2, <3>3
  <2>6. ASSUME ~Met' PROVE lease'.beat = DefaultBeat /\ frames' = <<>>
    <3>1. ~Met /\ "connect" \in DOMAIN commands' /\ "connect" \in DOMAIN commands
      BY <1>1, <1>2, <1>4, <2>6 DEF Met, Central
    <3>2. \A j \in 1..n : ~IsAnswer(wire[j], "connect")
      BY <1>2, <3>1
    <3>3. \A j \in 1..n : ~Connects(wire[j])
      BY <3>2 DEF Connects, IsAnswer, Answers
    <3>4. lease' = lease /\ lease.beat = DefaultBeat
      BY <1>1, <1>5, <2>1, <3>1, <3>3 DEF TermsRead, OnTime, Connected
    <3>5. ASSUME NEW j \in 1..n, Shown(wire[j]) PROVE FALSE
      <4>1. wire[j].what = "ack" => wire[j].of \in DOMAIN commands
        BY <2>1 DEF CommandsRead
      <4>2. Framed(wire[j])
        BY <1>2, <3>3, <3>5, <4>1 DEF Framed, Shown, Connects, Named, Tokens
      <4>3. PICK i \in DOMAIN wire : i < j /\ IsAnswer(wire[i], "connect")
        BY <1>2, <1>5, <3>1, <4>2 DEF OnTime, Connected
      <4>4. i \in 1..n
        <5>1. i \in Nat /\ j \in Nat /\ j <= n
          BY <1>2
        <5>2. i >= 1
          BY TypedMeans
        <5> QED BY <1>2, <4>3, <5>1, <5>2
      <4> QED BY <3>2, <4>3, <4>4
    <3>6. DOMAIN frames' = {}
      BY <1>1, <2>1, <3>5 DEF FramesRead
    <3>7. frames' \in Seq(WireLines)
      BY <1>1 DEF Decodings
    <3>8. \A s \in Seq(WireLines) : DOMAIN s = {} => s = <<>>
      <4> SUFFICES ASSUME NEW s \in Seq(WireLines), DOMAIN s = {} PROVE s = <<>>
        OBVIOUS
      <4>1. Len(s) \in Nat /\ DOMAIN s = 1..Len(s)
        OBVIOUS
      <4>2. Len(s) = 0
        <5>1. Len(s) # 0 => 1 \in DOMAIN s
          BY <4>1
        <5> QED BY <5>1
      <4> QED BY <4>2
    <3> QED BY <3>4, <3>6, <3>7, <3>8
  <2>7. lease' = Granted \/ lease' = lease
    BY <2>2
  <2> QED BY <1>4, <2>3, <2>4, <2>5, <2>6, <2>7
<1>6. Connected'
  <2>1. server.ping <= PingEvery
    BY DEF OnTime, Connected
  <2>2. Central => /\ server.ping # Never => "connect" \notin DOMAIN server.asked
                   /\ \A k \in DOMAIN wire : wire[k].what = "ack" /\ wire[k].of = "connect" => server.ping # Never
                   /\ server.owed => server.ping # Never
                   /\ server.live => "connect" \notin DOMAIN server.asked
    BY DEF OnTime, Connected
  <2>3. ASSUME Central, NEW k \in DOMAIN wire', Framed(wire'[k]), ~Met'
        PROVE  \E j \in DOMAIN wire' : j < k /\ IsAnswer(wire'[j], "connect")
    <3>1. Framed(wire[n + k]) /\ n + k \in DOMAIN wire /\ ~Met
      BY <1>2, <1>4, <2>3
    <3>2. PICK j \in DOMAIN wire : j < n + k /\ IsAnswer(wire[j], "connect")
      BY <2>3, <3>1 DEF OnTime, Connected
    <3>3. "connect" \in DOMAIN commands' /\ "connect" \in DOMAIN commands
      BY <1>2, <2>3 DEF Met
    <3>4. j \notin 1..n
      BY <1>2, <3>2, <3>3
    <3>5. j - n \in DOMAIN wire' /\ n + (j - n) = j
      BY <1>3, <3>4
    <3>6. j - n < k
      BY <1>2, <3>2
    <3>7. IsAnswer(wire'[j - n], "connect")
      BY <1>2, <3>2, <3>5
    <3> QED BY <3>5, <3>6, <3>7
  <2>4. Central' <=> Central
    BY <1>1 DEF Central
  <2>5. ASSUME Central PROVE \A k \in DOMAIN wire' : wire'[k].what = "ack" /\ wire'[k].of = "connect" => server.ping # Never
    BY <1>2, <2>2, <2>5
  <2> QED BY <1>1, <1>5, <2>1, <2>2, <2>3, <2>4, <2>5 DEF Connected, Granted, Framed, IsAnswer
<1> QED BY <1>1, <1>4, <1>5, <1>6 DEF Central

LEMMA ReadInTime ==
    ASSUME Margins, LinkTyped, Standing, OnTime, NEW n \in 1..Len(wire), NEW st \in Decodings, Taken(st, n), at' = "receiving",
           Standing'
    PROVE  OnTime'
<1>1. /\ at = "reading" /\ frames' = st.frames /\ timers' = st.timers /\ commands' = st.commands /\ lease' = st.lease
      /\ UNCHANGED <<kind, spent, server, taken, holds>>
      /\ IF Central THEN BatchRead(st, n) ELSE n = 1 /\ PusherRead(st)
  BY DEF Taken
<1>2. /\ DOMAIN commands' \subseteq DOMAIN commands /\ \A c \in DOMAIN commands' : commands'[c] = commands[c]
      /\ \A c \in DOMAIN commands : c \in DOMAIN commands' \/ \E j \in 1..n : IsAnswer(wire[j], c)
      /\ \A j \in 1..n, c \in DOMAIN commands : IsAnswer(wire[j], c) => c \notin DOMAIN commands'
      /\ 1..n \subseteq DOMAIN wire
  BY TakenMeans
<1>3. /\ Holding' = Holding /\ Pending' = 0
      /\ \A k \in DOMAIN wire' : /\ wire'[k] = wire[n + k] /\ n + k \in DOMAIN wire
                                 /\ Delay(k)' \in Nat /\ Delay(k)' <= Delay(n + k)
      /\ \A k \in DOMAIN wire : k \notin 1..n => k - n \in DOMAIN wire' /\ n + (k - n) = k
      /\ \A k \in 1..n : wire[k].what \in {"ping", "pub"} => \E i \in DOMAIN frames' : frames'[i] = wire[k]
      /\ \A k \in 1..n : Event(wire[k]) => frames' # <<>>
  BY TakenComes
<1>4. Connected' /\ (Met => Met') /\ (Central' <=> Central) /\ (Central => timers'.beat = lease'.beat)
  BY ReadConnected
<1>5. /\ frames = <<>> /\ Running /\ Running' /\ Up
      /\ Holding \in Nat /\ Holding <= MaxHolds /\ \A k : Delay(k) \in Nat /\ Delay(k) >= Holding
      /\ MaxHolds \in Nat /\ TokenTime \in Nat /\ timers.idle \in Nat /\ server.ping \in Int /\ server.lease \in Int
      /\ timers.refresh \in Int /\ timers.refresh >= -1 /\ Never = -1 /\ holds \in Nat
      /\ \A c \in DOMAIN commands : commands[c] \in Nat
  <2>1. frames = <<>> /\ Running /\ Running' /\ Up
    BY <1>1 DEF Standing, Places, Running, Up
  <2>2. \A k : Delay(k) = Holding + Renewing(k) /\ Renewing(k) \in Nat /\ Holding \in Nat
    BY DelayMeans
  <2>3. \A k : Delay(k) \in Nat /\ Delay(k) >= Holding
    BY <2>2
  <2> QED BY <2>1, <2>3, DelayMeans, TypedMeans, ConstantsMean
<1>6. \A k \in DOMAIN wire : k \notin 1..n =>
        k - n \in DOMAIN wire' /\ wire'[k - n] = wire[k] /\ Delay(k - n)' <= Delay(k) /\ Delay(k - n)' \in Nat
  BY <1>3
<1>7. CommandsInTime'
  <2> SUFFICES ASSUME NEW c \in DOMAIN commands', c \notin DOMAIN server.asked
               PROVE  \E k \in DOMAIN wire' : IsAnswer(wire'[k], c) /\ commands'[c] > Delay(k)'
    <3>1. \A c \in DOMAIN commands' : c \in DOMAIN server.asked =>
            server'.asked[c] <= Latency /\ commands'[c] >= server'.asked[c] + (AckTimeout - Latency)
      BY <1>1, <1>2, AwaitedMeans DEF OnTime
    <3> QED BY <1>1, <3>1 DEF CommandsInTime, IsAnswer
  <2>1. PICK k \in DOMAIN wire : IsAnswer(wire[k], c) /\ commands[c] > Delay(k)
    BY <1>2, AwaitedMeans DEF OnTime
  <2>2. k \notin 1..n
    BY <1>2, <2>1
  <2>3. commands'[c] > Delay(k - n)'
    BY <1>2, <1>5, <1>6, <2>1, <2>2
  <2> QED BY <1>6, <2>1, <2>2, <2>3
<1>8. BeatInTime'
  <2> SUFFICES ASSUME Central
               PROVE  /\ "connect" \in DOMAIN server.asked => timers'.beat > server.asked["connect"]
                      /\ Met' => timers'.beat > server.ping
                      /\ timers'.beat > 0
                      /\ timers'.beat + holds >= lease'.beat + 0
    BY <1>1, <1>3, <1>4 DEF BeatInTime
  <2>1. /\ Met' => lease'.beat = PingEvery + Grace
        /\ ~Met' => lease'.beat = DefaultBeat
        /\ server.ping <= PingEvery
    BY <1>1, <1>4 DEF Connected
  <2>2. ASSUME "connect" \in DOMAIN server.asked PROVE timers'.beat > server.asked["connect"]
    <3>1. ~Met'
      BY <1>1, <1>4, <2>2 DEF Standing, AnswersOnce, Met
    <3>2. server.asked["connect"] <= Latency /\ server.asked["connect"] \in Nat
      BY <2>2, AwaitedMeans DEF OnTime
    <3>3. \A t \in Nat : t <= Latency => DefaultBeat > t
      BY MarginsSay
    <3> QED BY <1>4, <2>1, <3>1, <3>2, <3>3
  <2>3. timers'.beat = PingEvery + Grace \/ timers'.beat = DefaultBeat
    BY <1>4, <2>1
  <2>4. Met' => timers'.beat > server.ping
    BY <1>4, <1>5, <2>1, MarginsSay, SMTT(30)
  <2>5. timers'.beat > 0 /\ timers'.beat + holds >= timers'.beat + 0
    <3>1. \A t \in {PingEvery + Grace, DefaultBeat} : t > 0 /\ t + holds >= t + 0
      BY <1>5, MarginsSay, SMTT(30)
    <3> QED BY <2>3, <3>1
  <2> QED BY <1>4, <2>2, <2>4, <2>5
<1>9. IdleInTime'
  <2> SUFFICES ASSUME frames' = <<>>
               PROVE  \/ \E k \in DOMAIN wire' : Event(wire[k])' /\ timers'.idle > Delay(k)'
                      \/ Met' /\ timers'.idle > server.ping + MaxHolds + TokenTime
                      \/ "connect" \in DOMAIN server.asked /\ timers'.idle > server.asked["connect"] + MaxHolds + TokenTime
    BY <1>1 DEF IdleInTime
  <2>1. timers'.idle = timers.idle
    BY <1>1 DEF BatchRead, TermsRead, PusherRead
  <2>2. CASE \E k \in DOMAIN wire : Event(wire[k]) /\ timers.idle > Delay(k)
    <3>1. PICK k \in DOMAIN wire : Event(wire[k]) /\ timers.idle > Delay(k)
      BY <2>2
    <3>2. k \notin 1..n
      BY <1>3, <3>1
    <3>3. timers'.idle > Delay(k - n)'
      BY <1>5, <1>6, <2>1, <3>1, <3>2
    <3>4. Event(wire[k - n])'
      BY <1>4, <1>6, <3>1, <3>2 DEF Event
    <3> QED BY <1>6, <3>2, <3>3, <3>4
  <2>3. CASE ~\E k \in DOMAIN wire : Event(wire[k]) /\ timers.idle > Delay(k)
    BY <1>4, <1>5, <2>1, <2>3 DEF OnTime, IdleInTime
  <2> QED BY <2>2, <2>3
<1>10. LeaseInTime'
  <2> SUFFICES ASSUME Long
               PROVE
        /\ \A k \in DOMAIN wire' : OfToken(wire'[k]) => server.lease > Delay(k)' + Renewal + MaxHolds + TokenTime
        /\ timers'.refresh # Never =>
             server.lease > timers'.refresh + TokenTime
                              + (IF timers'.refresh > 0 THEN MaxHolds ELSE IF frames' # <<>> THEN Holding' ELSE 0)
        /\ Central => timers'.refresh # Never \/ DOMAIN commands' \cap Tokens # {}
    BY <1>1, <1>4 DEF OnTime, LeaseInTime, Long, Renewal, OfToken
  <2>1. server.ttl # NoLease /\ Renewal \in Nat
    <3>1. server.ttl # NoLease
      <4>1. \A t \in Int : t > 0 => t # NoLease
        BY ConstantsMean
      <4>2. server.ttl \in Int
        BY TypedMeans, ConstantsMean
      <4> QED BY <4>1, <4>2 DEF Long
    <3> QED BY <3>1, RefreshMeans DEF LinkTyped
  <2>2. /\ \A k \in DOMAIN wire : OfToken(wire[k]) => server.lease > Delay(k) + Renewal + MaxHolds + TokenTime
        /\ timers.refresh # Never => server.lease > timers.refresh + TokenTime + MaxHolds
        /\ Central => timers.refresh # Never \/ DOMAIN commands \cap Tokens # {}
    BY <1>1, <1>5 DEF OnTime, LeaseInTime
  <2>3. ASSUME NEW k \in DOMAIN wire', OfToken(wire'[k]) PROVE server.lease > Delay(k)' + Renewal + MaxHolds + TokenTime
    <3>1. server.lease > Delay(n + k) + Renewal + MaxHolds + TokenTime
      BY <1>3, <2>2, <2>3
    <3>2. Delay(k)' <= Delay(n + k) /\ Delay(k)' \in Nat
      BY <1>3
    <3>3. Delay(n + k) \in Nat
      BY <1>5
    <3>4. \A a, b \in Nat : a <= b /\ server.lease > b + Renewal + MaxHolds + TokenTime =>
                           server.lease > a + Renewal + MaxHolds + TokenTime
      BY <1>5, <2>1
    <3> QED BY <3>1, <3>2, <3>3, <3>4
  <2>4. ASSUME NEW j \in 1..n, Grants(wire[j]) PROVE server.lease > Renewal + TokenTime + MaxHolds
    <3>1. OfToken(wire[j]) /\ j \in DOMAIN wire
      BY <1>2, <2>4 DEF OfToken, Grants, Answers
    <3>2. server.lease > Delay(j) + Renewal + MaxHolds + TokenTime /\ Delay(j) \in Nat
      BY <1>5, <2>2, <3>1
    <3> QED BY <1>5, <2>1, <3>2
  <2>5. IF Central /\ \E j \in 1..n : Grants(wire[j]) THEN timers'.refresh = Renewal ELSE timers'.refresh = timers.refresh
    BY <1>1, <2>1 DEF BatchRead, TermsRead, PusherRead
  <2>6. timers'.refresh # Never => server.lease > timers'.refresh + TokenTime + MaxHolds
    <3>1. CASE Central /\ \E j \in 1..n : Grants(wire[j])
      BY <2>4, <2>5, <3>1
    <3>2. CASE ~(Central /\ \E j \in 1..n : Grants(wire[j]))
      BY <2>2, <2>5, <3>2
    <3> QED BY <3>1, <3>2
  <2>7. Central => timers'.refresh # Never \/ DOMAIN commands' \cap Tokens # {}
    <3> SUFFICES ASSUME Central PROVE timers'.refresh # Never \/ DOMAIN commands' \cap Tokens # {}
      OBVIOUS
    <3>1. CASE \E j \in 1..n : Grants(wire[j])
      BY <1>5, <2>1, <2>5, <3>1
    <3>2. CASE ~\E j \in 1..n : Grants(wire[j])
      <4>1. CommandsRead(st, n)
        BY <1>1 DEF BatchRead
      <4>2. \A c \in DOMAIN commands \cap Tokens : c \in DOMAIN commands'
        BY <1>1, <3>2, <4>1 DEF CommandsRead, Grants
      <4> QED BY <2>2, <2>5, <3>2, <4>2
    <3> QED BY <3>1, <3>2
  <2>8. timers'.refresh \in Int
    BY <1>5, <2>1, <2>5
  <2> QED BY <1>3, <1>5, <2>3, <2>6, <2>7, <2>8
<1>11. PongInTime'
  <2> SUFFICES ASSUME server.owed, server.pong
               PROVE  \/ \E k \in DOMAIN frames' : frames'[k].what = "ping" /\ server.ping > Holding'
                      \/ \E k \in DOMAIN wire' : wire'[k].what = "ping" /\ server.ping > Delay(k)'
    BY <1>1 DEF PongInTime
  <2>1. PICK k \in DOMAIN wire : wire[k].what = "ping" /\ server.ping > Delay(k)
    <3>1. DOMAIN frames = {}
      BY <1>5
    <3> QED BY <3>1 DEF OnTime, PongInTime
  <2>2. CASE k \in 1..n
    <3>1. PICK i \in DOMAIN frames' : frames'[i] = wire[k]
      BY <1>3, <2>1, <2>2
    <3>2. server.ping > Holding'
      BY <1>3, <1>5, <2>1
    <3> QED BY <2>1, <3>1, <3>2
  <2>3. CASE k \notin 1..n
    <3>1. server.ping > Delay(k - n)'
      BY <1>5, <1>6, <2>1, <2>3
    <3> QED BY <1>6, <2>1, <2>3, <3>1
  <2> QED BY <2>2, <2>3
<1> QED BY <1>4, <1>7, <1>8, <1>9, <1>10, <1>11 DEF OnTime

\* A tick that the reader waits for: what is under way comes a tick earlier then.
LEMMA TickComes ==
    ASSUME Margins, LinkTyped, Standing, TimePasses
    PROVE  /\ at \in {"reading", "connecting", "renewing", "held"}
           /\ at = "reading" => wire = <<>> /\ frames = <<>> /\ timers.refresh # 0
           /\ frames # <<>> => at = "held"
           /\ at = "connecting" => DOMAIN commands = {} /\ frames = <<>> /\ ~server.owed /\ \A k \in DOMAIN wire : ~OfToken(wire[k])
           /\ at = "renewing" => timers.refresh = Never /\ spent < TokenTime
           /\ at = "held" => Holding' = Holding - 1 /\ Pending = 1 /\ Pending' = 0
           /\ Holding' \in Nat /\ Holding' <= MaxHolds
           /\ at \in {"renewing", "held"} => \A k : Delay(k)' = Delay(k) - 1
<1>1. /\ UNCHANGED <<at, kind, frames, wire>> /\ Waits /\ spent' = spent + 1
      /\ timers'.refresh = Less(timers.refresh) /\ holds' = IF at = "reading" THEN 0 ELSE holds
  BY TimePassesMeans
<1>2. /\ timers.refresh \in Int /\ timers.refresh >= -1 /\ Never = -1 /\ spent \in Nat /\ TokenTime \in Nat
      /\ MaxHolds \in Nat /\ holds \in Nat /\ holds <= MaxHolds
  BY TypedMeans, ConstantsMean
<1>3. /\ at \in {"reading", "connecting", "renewing", "held"}
      /\ at = "reading" => wire = <<>> /\ spent = 0
      /\ at = "held" => spent = 0 /\ holds > 0
      /\ at = "renewing" => spent < TokenTime
      /\ frames # <<>> => at = "held"
  BY <1>1 DEF Waits, Standing, Places
<1>4. at = "reading" => timers.refresh # 0 /\ frames = <<>>
  BY <1>3 DEF Standing, Places
<1>5. at = "renewing" => timers.refresh = Never
  BY DEF Standing, OneToken
<1>6. ASSUME at = "connecting"
      PROVE  DOMAIN commands = {} /\ frames = <<>> /\ ~server.owed /\ \A k \in DOMAIN wire : ~OfToken(wire[k])
  <2>1. Fresh
    BY <1>6 DEF Standing, Beginning
  <2>2. DOMAIN commands = {} /\ frames = <<>> /\ ~server.owed
    BY <2>1, FreshMeans DEF Fresh
  <2>3. ASSUME NEW k \in DOMAIN wire, OfToken(wire[k]) PROVE FALSE
    <3>1. IsAnswer(wire[k], wire[k].of) /\ wire[k].of \in Named
      BY <2>3 DEF OfToken, IsAnswer, Named
    <3> QED BY <2>2, <3>1 DEF Standing, AnswersOnce
  <2> QED BY <2>2, <2>3
<1>7. /\ at = "held" => Pending = 1 /\ Pending' = 0 /\ Holding' = Holding - 1
      /\ at # "held" => Pending = 0 /\ Pending' = 0
      /\ at # "reading" /\ at # "held" => Holding' = Holding
      /\ Holding' \in Nat /\ Holding' <= MaxHolds
  <2>1. /\ at = "held" => Pending = 1 /\ Pending' = 0
        /\ at # "held" => Pending = 0 /\ Pending' = 0
    BY <1>1, <1>2, <1>3 DEF Pending
  <2>2. Holding' = MaxHolds - holds' + Pending' /\ Holding = MaxHolds - holds + Pending
    BY DEF Holding
  <2> QED BY <1>1, <1>2, <1>3, <2>1, <2>2
<1>8. ASSUME at \in {"renewing", "held"}, NEW k PROVE Delay(k)' = Delay(k) - 1
  <2>1. Delay(k)' = Holding' + Renewing(k)' /\ Delay(k) = Holding + Renewing(k) /\ Holding \in Nat /\ Renewing(k) \in Nat
    <3>1. Delay(k)' = Holding' + Renewing(k)'
      BY DEF Delay
    <3> QED BY <3>1, DelayMeans
  <2>2. CASE at = "held"
    <3>1. timers'.refresh = Never <=> timers.refresh = Never
      BY <1>1, <1>2, LessMeans
    <3>2. Renewing(k)' = Renewing(k)
      BY <1>1, <2>2, <3>1 DEF Renewing, OfToken
    <3> QED BY <1>7, <2>1, <2>2, <3>2
  <2>3. CASE at = "renewing"
    <3>1. Renewing(k)' = TokenTime - spent' /\ Renewing(k) = TokenTime - spent
      BY <1>1, <2>3 DEF Renewing
    <3> QED BY <1>1, <1>2, <1>7, <2>1, <2>3, <3>1
  <2> QED BY <1>8, <2>2, <2>3
<1> QED BY <1>3, <1>4, <1>5, <1>6, <1>7, <1>8

LEMMA TimePassesInTime ==
    ASSUME Margins, LinkTyped, Standing, OnTime, Well, TimePasses PROVE OnTime'
<1>1. /\ UNCHANGED <<at, kind, frames, lease, wire>> /\ Prompt /\ spent' = spent + 1
      /\ timers'.refresh = Less(timers.refresh) /\ timers'.beat = Less(timers.beat) /\ timers'.idle = Less(timers.idle)
      /\ DOMAIN commands' = DOMAIN commands /\ \A c \in DOMAIN commands : commands'[c] = Less(commands[c])
      /\ SameProvider /\ server'.ping = Less(server.ping) /\ server'.lease = Less(server.lease)
      /\ server'.live = server.live /\ server'.owed = server.owed
      /\ DOMAIN server'.asked = DOMAIN server.asked
      /\ \A c \in DOMAIN server.asked : server'.asked[c] = Less(server.asked[c])
      /\ at # "reading" => holds' = holds
  BY TimePassesMeans
<1>2. /\ at \in {"reading", "connecting", "renewing", "held"}
      /\ at = "reading" => wire = <<>> /\ frames = <<>> /\ timers.refresh # 0
      /\ frames # <<>> => at = "held"
      /\ at = "connecting" => DOMAIN commands = {} /\ frames = <<>> /\ ~server.owed /\ \A k \in DOMAIN wire : ~OfToken(wire[k])
      /\ at = "renewing" => timers.refresh = Never /\ spent < TokenTime
      /\ at = "held" => Holding' = Holding - 1 /\ Pending = 1 /\ Pending' = 0
      /\ Holding' \in Nat /\ Holding' <= MaxHolds
      /\ at \in {"renewing", "held"} => \A k : Delay(k)' = Delay(k) - 1
  BY TickComes
<1>3. /\ timers.refresh \in Int /\ timers.refresh >= -1 /\ timers.beat \in Int /\ timers.idle \in Nat
      /\ server.ping \in Int /\ server.ping >= -1 /\ server.lease \in Int /\ server.ttl \in Int
      /\ Never = -1 /\ spent \in Nat /\ holds \in Nat /\ lease.beat \in Nat
      /\ MaxHolds \in Nat /\ TokenTime \in Nat /\ Latency \in Nat /\ AckTimeout \in Nat /\ Holding \in Nat /\ Holding <= MaxHolds
      /\ \A k : Delay(k) \in Nat
      /\ \A c \in DOMAIN commands : commands[c] \in Nat
      /\ \A c \in DOMAIN server.asked : server.asked[c] \in Nat
  BY TypedMeans, ConstantsMean, DelayMeans, SMTT(30)
<1>4. /\ server.ping # 0 /\ server.lease # 0 /\ \A c \in DOMAIN server.asked : server.asked[c] # 0
  BY <1>1 DEF Prompt, Due, Well
<1>5. /\ server.ping >= 1 => server'.ping = server.ping - 1
      /\ server.ping = Never <=> server'.ping = Never
      /\ server'.ping <= server.ping
      /\ timers.refresh = Never <=> timers'.refresh = Never
      /\ timers'.refresh = (IF timers.refresh > 0 THEN timers.refresh - 1 ELSE timers.refresh)
      /\ timers'.beat \in Int /\ timers'.beat >= timers.beat - 1
      /\ timers.idle >= 1 => timers'.idle = timers.idle - 1
      /\ server.lease >= 1 => server'.lease = server.lease - 1
      /\ timers'.refresh \in Int /\ timers'.idle \in Int /\ server'.lease \in Int /\ server'.ping \in Int
  BY <1>1, <1>3, LessMeans
<1>6. \A c \in DOMAIN server.asked : server.asked[c] >= 1 /\ server'.asked[c] = server.asked[c] - 1
  <2>1. \A t \in Nat : t # 0 => t >= 1 /\ Less(t) = t - 1
    BY DEF Less
  <2> QED BY <1>1, <1>3, <1>4, <2>1
<1>7. Met /\ (Running \/ ~Central) => server.ping >= 1
  <2>1. CASE Central
    <3>1. Met /\ Running => server.ping # Never
      BY <2>1 DEF OnTime, Connected, Running
    <3> QED BY <1>3, <1>4, <2>1, <3>1
  <2>2. CASE ~Central
    <3>1. server.ping # Never
      BY <1>2, <2>2 DEF Standing, Beginning, PusherOnly, Up, Running, Central, LinkTyped
    <3> QED BY <1>3, <1>4, <3>1
  <2> QED BY <2>1, <2>2
<1>8. (Met' <=> Met) /\ (Central' <=> Central) /\ (Running' <=> Running) /\ Long' = Long /\ Renewal' = Renewal
  BY <1>1 DEF Met, Central, Running, Long, Renewal, SameProvider
<1>9. CommandsInTime'
  <2> SUFFICES ASSUME NEW c \in DOMAIN commands
               PROVE  \/ c \in DOMAIN server.asked /\ server'.asked[c] <= Latency
                         /\ commands'[c] >= server'.asked[c] + (AckTimeout - Latency)
                      \/ \E k \in DOMAIN wire : IsAnswer(wire[k], c) /\ commands'[c] > Delay(k)'
    BY <1>1 DEF CommandsInTime, IsAnswer
  <2>1. commands'[c] = (IF commands[c] > 0 THEN commands[c] - 1 ELSE commands[c]) /\ commands[c] \in Nat
    BY <1>1, <1>3, LessMeans
  <2>2. CASE c \in DOMAIN server.asked
    <3>1. server.asked[c] <= Latency /\ commands[c] >= server.asked[c] + (AckTimeout - Latency)
      BY <2>2, AwaitedMeans DEF OnTime
    <3>2. \A a, b, p, q \in Int : a >= 1 /\ b = a - 1 /\ a <= Latency /\ p >= a + (AckTimeout - Latency) /\ (p > 0 => q = p - 1)
                                  => b <= Latency /\ q >= b + (AckTimeout - Latency)
      BY MarginsSay
    <3>3. server.asked[c] \in Nat /\ server'.asked[c] = server.asked[c] - 1 /\ server.asked[c] >= 1
      BY <1>3, <1>6, <2>2
    <3> QED BY <2>1, <2>2, <3>1, <3>2, <3>3
  <2>3. CASE c \notin DOMAIN server.asked
    <3>1. PICK k \in DOMAIN wire : IsAnswer(wire[k], c) /\ commands[c] > Delay(k)
      BY <2>3, AwaitedMeans DEF OnTime
    <3>2. at \in {"renewing", "held"}
      <4>1. wire # <<>>
        BY <3>1
      <4> QED BY <1>2, <4>1
    <3>3. Delay(k)' = Delay(k) - 1 /\ Delay(k) \in Nat
      BY <1>2, <1>3, <3>2
    <3>4. commands'[c] > Delay(k)'
      BY <2>1, <3>1, <3>3
    <3> QED BY <3>1, <3>4
  <2> QED BY <2>2, <2>3
<1>10. Connected'
  <2>1. server'.ping <= PingEvery
    <3>1. server.ping <= PingEvery
      BY DEF OnTime, Connected
    <3> QED BY <1>3, <1>5, <3>1, MarginsSay
  <2>2. (server'.ping # Never <=> server.ping # Never) /\ server'.pong = server.pong
    BY <1>1, <1>5 DEF SameProvider
  <2> QED BY <1>1, <1>8, <2>1, <2>2 DEF OnTime, Connected
<1>11. BeatInTime'
  <2> SUFFICES ASSUME Central
               PROVE  /\ at = "connecting" => timers'.beat + spent' >= DefaultBeat
                      /\ "connect" \in DOMAIN server.asked => timers'.beat > server'.asked["connect"]
                      /\ wire = <<>> /\ Met /\ Running => timers'.beat > server'.ping
                      /\ at = "held" \/ frames # <<>> => timers'.beat + holds' >= lease.beat + Pending'
    BY <1>1, <1>2, <1>8 DEF BeatInTime
  <2>1. /\ at = "connecting" => timers.beat + spent >= DefaultBeat
        /\ "connect" \in DOMAIN server.asked => timers.beat > server.asked["connect"]
        /\ wire = <<>> /\ Met /\ Running => timers.beat > server.ping
        /\ at = "held" \/ frames # <<>> => timers.beat + holds >= lease.beat + Pending
    BY DEF OnTime, BeatInTime
  <2>2. at = "connecting" => timers'.beat + spent' >= DefaultBeat
    <3>1. spent' = spent + 1 /\ timers'.beat >= timers.beat - 1 /\ timers'.beat \in Int /\ timers.beat \in Int /\ spent \in Nat
          /\ DefaultBeat \in Nat
      BY <1>1, <1>3, <1>5, MarginsSay
    <3> QED BY <2>1, <3>1
  <2>3. ASSUME "connect" \in DOMAIN server.asked PROVE timers'.beat > server'.asked["connect"]
    <3>1. server.asked["connect"] \in Nat /\ server'.asked["connect"] = server.asked["connect"] - 1
      BY <1>3, <1>6, <2>3
    <3> QED BY <1>3, <1>5, <2>1, <2>3, <3>1
  <2>4. wire = <<>> /\ Met /\ Running => timers'.beat > server'.ping
    BY <1>3, <1>5, <1>7, <2>1
  <2>5. at = "held" => timers'.beat + holds' >= lease.beat + Pending'
    BY <1>1, <1>2, <1>3, <1>5, <2>1
  <2> QED BY <1>2, <2>2, <2>3, <2>4, <2>5
<1>12. IdleInTime'
  <2> SUFFICES ASSUME Running, frames = <<>>
               PROVE  \/ \E k \in DOMAIN wire : Event(wire[k])' /\ timers'.idle > Delay(k)'
                      \/ Met /\ timers'.idle > server'.ping + MaxHolds + TokenTime
                      \/ "connect" \in DOMAIN server.asked /\ timers'.idle > server'.asked["connect"] + MaxHolds + TokenTime
    BY <1>1, <1>8 DEF IdleInTime
  <2>1. timers.idle > 0
    BY IdleLeft
  <2>2. timers'.idle = timers.idle - 1
    BY <1>3, <1>5, <2>1
  <2>3. CASE \E k \in DOMAIN wire : Event(wire[k]) /\ timers.idle > Delay(k)
    <3>1. PICK k \in DOMAIN wire : Event(wire[k]) /\ timers.idle > Delay(k)
      BY <2>3
    <3>2. at \in {"renewing", "held"}
      <4>1. wire # <<>> /\ at # "connecting"
        BY <3>1 DEF Running
      <4> QED BY <1>2, <4>1
    <3>3. Delay(k)' = Delay(k) - 1 /\ Delay(k) \in Nat
      BY <1>2, <1>3, <3>2
    <3>4. timers'.idle > Delay(k)'
      BY <1>3, <2>2, <3>1, <3>3
    <3>5. Event(wire[k])'
      BY <1>1, <1>8, <3>1 DEF Event
    <3> QED BY <3>4, <3>5
  <2>4. CASE Met /\ timers.idle > server.ping + MaxHolds + TokenTime
    <3>1. timers'.idle > server'.ping + MaxHolds + TokenTime
      BY <1>3, <1>5, <1>7, <2>2, <2>4
    <3> QED BY <2>4, <3>1
  <2>5. CASE "connect" \in DOMAIN server.asked /\ timers.idle > server.asked["connect"] + MaxHolds + TokenTime
    <3>1. server.asked["connect"] \in Nat /\ server'.asked["connect"] = server.asked["connect"] - 1
      BY <1>3, <1>6, <2>5
    <3>2. timers'.idle > server'.asked["connect"] + MaxHolds + TokenTime
      BY <1>3, <2>2, <2>5, <3>1
    <3> QED BY <2>5, <3>2
  <2> QED BY <2>3, <2>4, <2>5 DEF OnTime, IdleInTime
<1>13. LeaseInTime'
  <2> SUFFICES ASSUME Long
               PROVE
        /\ \A c \in Tokens \cap DOMAIN server.asked : server'.lease >= server'.asked[c] + (server.ttl - Latency)
        /\ \A k \in DOMAIN wire : OfToken(wire[k]) => server'.lease > Delay(k)' + Renewal + MaxHolds + TokenTime
        /\ timers'.refresh # Never =>
             server'.lease > timers'.refresh + TokenTime
                              + (IF timers'.refresh > 0 \/ at = "reading" THEN MaxHolds
                                 ELSE IF at = "held" \/ frames # <<>> THEN Holding' ELSE 0)
        /\ at = "renewing" => server'.lease > TokenTime - spent'
        /\ Central /\ Up /\ at # "connecting" => timers'.refresh # Never \/ at = "renewing" \/ DOMAIN commands \cap Tokens # {}
    BY <1>1, <1>8 DEF LeaseInTime, Up, SameProvider, OfToken
  <2>1. /\ \A c \in Tokens \cap DOMAIN server.asked : server.lease >= server.asked[c] + (server.ttl - Latency)
        /\ \A k \in DOMAIN wire : OfToken(wire[k]) => server.lease > Delay(k) + Renewal + MaxHolds + TokenTime
        /\ timers.refresh # Never =>
             server.lease > timers.refresh + TokenTime
                              + (IF timers.refresh > 0 \/ at = "reading" THEN MaxHolds
                                 ELSE IF at = "held" \/ frames # <<>> THEN Holding ELSE 0)
        /\ at = "renewing" => server.lease > TokenTime - spent
        /\ Central /\ Up /\ at # "connecting" => timers.refresh # Never \/ at = "renewing" \/ DOMAIN commands \cap Tokens # {}
    BY DEF OnTime, LeaseInTime
  <2>2. server.ttl > Latency /\ Renewal \in Nat
    <3>1. server.ttl \div 5 >= 1 + 2 * MaxHolds + Latency + TokenTime /\ server.ttl > 0
      BY DEF Long
    <3>2. \A t \in Int : t > 0 => t \div 5 <= t /\ t \div 5 \in Int /\ (t * 4) \div 5 \in Nat
      OBVIOUS
    <3> QED BY <1>3, <3>1, <3>2 DEF Renewal
  <2>3. ASSUME NEW c \in Tokens \cap DOMAIN server.asked PROVE server'.lease >= server'.asked[c] + (server.ttl - Latency)
    <3>1. server.asked[c] \in Nat /\ server'.asked[c] = server.asked[c] - 1 /\ server.asked[c] >= 1
      BY <1>3, <1>6
    <3>2. server.lease >= server.asked[c] + (server.ttl - Latency)
      BY <2>1
    <3> QED BY <1>3, <1>5, <2>2, <3>1, <3>2
  <2>4. ASSUME NEW k \in DOMAIN wire, OfToken(wire[k]) PROVE server'.lease > Delay(k)' + Renewal + MaxHolds + TokenTime
    <3>1. wire # <<>> /\ at # "connecting"
      BY <1>2, <2>4
    <3>2. Delay(k)' = Delay(k) - 1 /\ Delay(k) \in Nat
      BY <1>2, <1>3, <3>1
    <3>3. server.lease > Delay(k) + Renewal + MaxHolds + TokenTime
      BY <2>1, <2>4
    <3>4. \A d \in Nat : server.lease > d + Renewal + MaxHolds + TokenTime => server.lease - 1 > (d - 1) + Renewal + MaxHolds + TokenTime /\ server.lease >= 1
      BY <1>3, <2>2
    <3> QED BY <1>5, <3>2, <3>3, <3>4
  <2>5. ASSUME timers'.refresh # Never
        PROVE  server'.lease > timers'.refresh + TokenTime
                              + (IF timers'.refresh > 0 \/ at = "reading" THEN MaxHolds
                                 ELSE IF at = "held" \/ frames # <<>> THEN Holding' ELSE 0)
    <3>1. timers.refresh # Never /\ timers.refresh >= 0
      BY <1>3, <1>5, <2>5
    <3>2. CASE at = "reading"
      <4>1. timers.refresh > 0 /\ server.lease > timers.refresh + TokenTime + MaxHolds
        BY <1>2, <1>3, <2>1, <3>1, <3>2
      <4>2. timers'.refresh = timers.refresh - 1 /\ server'.lease = server.lease - 1
        BY <1>3, <1>5, <4>1
      <4>3. server'.lease > timers'.refresh + TokenTime + MaxHolds
        BY <1>3, <4>1, <4>2
      <4> QED BY <3>2, <4>3
    <3>3. CASE at = "held"
      <4>1. server.lease > timers.refresh + TokenTime + (IF timers.refresh > 0 THEN MaxHolds ELSE Holding)
        BY <2>1, <3>1, <3>3
      <4>2. Holding' = Holding - 1 /\ Holding' \in Nat /\ Holding' <= MaxHolds
        BY <1>2, <3>3
      <4>3. server'.lease = server.lease - 1
        BY <1>3, <1>5, <3>1, <4>1
      <4>4. server'.lease > timers'.refresh + TokenTime + (IF timers'.refresh > 0 THEN MaxHolds ELSE Holding')
        BY <1>3, <1>5, <3>1, <4>1, <4>2, <4>3
      <4> QED BY <3>3, <4>4
    <3>4. at \notin {"connecting", "renewing"}
      <4>1. at = "connecting" => timers.refresh = Never
        BY FreshMeans DEF Standing, Beginning
      <4> QED BY <1>2, <3>1, <4>1
    <3> QED BY <1>2, <3>2, <3>3, <3>4
  <2>6. at = "renewing" => server'.lease > TokenTime - spent'
    BY <1>1, <1>2, <1>3, <1>5, <2>1
  <2>7. Central /\ Up /\ at # "connecting" => timers'.refresh # Never \/ at = "renewing" \/ DOMAIN commands \cap Tokens # {}
    BY <1>5, <2>1
  <2> QED BY <2>3, <2>4, <2>5, <2>6, <2>7
<1>14. PongInTime'
  <2> SUFFICES ASSUME server.owed, server.pong
               PROVE  \/ \E k \in DOMAIN frames : frames[k].what = "ping" /\ server'.ping > Holding'
                      \/ \E k \in DOMAIN wire : wire[k].what = "ping" /\ server'.ping > Delay(k)'
    BY <1>1 DEF PongInTime, SameProvider
  <2>1. CASE \E k \in DOMAIN frames : frames[k].what = "ping" /\ server.ping > Holding
    <3>1. at = "held"
      <4>1. frames # <<>>
        BY <2>1
      <4> QED BY <1>2, <4>1
    <3>2. server'.ping > Holding'
      BY <1>2, <1>3, <1>5, <2>1, <3>1
    <3> QED BY <2>1, <3>2
  <2>2. CASE \E k \in DOMAIN wire : wire[k].what = "ping" /\ server.ping > Delay(k)
    <3>1. PICK k \in DOMAIN wire : wire[k].what = "ping" /\ server.ping > Delay(k)
      BY <2>2
    <3>2. wire # <<>> /\ at # "connecting"
      BY <1>2, <3>1
    <3>3. Delay(k)' = Delay(k) - 1 /\ Delay(k) \in Nat
      BY <1>2, <1>3, <3>2
    <3>4. server'.ping > Delay(k)'
      BY <1>3, <1>5, <3>1, <3>3
    <3> QED BY <3>1, <3>4
  <2> QED BY <2>1, <2>2 DEF OnTime, PongInTime
<1> QED BY <1>9, <1>10, <1>11, <1>12, <1>13, <1>14 DEF OnTime

-----------------------------------------------------------------------------
(* What is on time: the provider's steps.                                  *)

\* A line of a provider that is in order.
Orderly(line) ==
    /\ Proper(line) /\ server'.pong = server.pong
    /\ \A c \in DOMAIN server'.asked : server'.asked[c] = server.asked[c]
    /\ \A c \in DOMAIN server.asked : c \in DOMAIN server'.asked \/ IsAnswer(line, c)
    /\ server'.ping <= PingEvery /\ (server'.ping = server.ping \/ Event(line))
    /\ Central => /\ server'.ping # Never => "connect" \notin DOMAIN server'.asked
                  /\ line.what = "ack" /\ line.of = "connect" => server'.ping # Never
                  /\ server'.owed => server'.ping # Never
                  /\ server'.live => "connect" \notin DOMAIN server'.asked
    /\ Framed(line) => at # "connecting" /\ (Central => "connect" \notin DOMAIN server.asked)
    /\ server'.owed /\ server'.pong =>
         (server.owed /\ server'.ping = server.ping) \/ (line.what = "ping" /\ server'.ping = PingEvery)

LEMMA LineComes ==
    ASSUME LinkTyped, Standing, NEW line, Proper(line), NEW n \in Nat, n = Len(wire) + 1
    PROVE  /\ Holding' = Holding
           /\ \A k \in DOMAIN wire : Delay(k)' = Delay(k)
           /\ Delay(n)' \in Nat /\ Delay(n)' <= MaxHolds + TokenTime
           /\ OfToken(line) => Delay(n)' = Holding /\ line.of \in DOMAIN server.asked
<1>1. /\ UNCHANGED <<at, ending, kind, commands, frames, timers, lease, spent, taken, since, holds>>
      /\ DOMAIN wire' = DOMAIN wire \cup {n} /\ wire'[n] = line
      /\ \A k \in DOMAIN wire : wire'[k] = wire[k] /\ k < n
  BY SendsMeans DEF Proper
<1>2. Holding' = Holding /\ Holding \in Nat /\ Holding <= MaxHolds
  BY <1>1, DelayMeans DEF Holding, Pending
<1>3. /\ DOMAIN wire = 1..Len(wire) /\ Len(wire) \in Nat /\ TokenTime \in Nat /\ MaxHolds \in Nat /\ spent \in Nat
      /\ at = "renewing" => spent <= TokenTime
  BY TypedMeans, ConstantsMean DEF Standing, Places
<1>4. ASSUME NEW k \in DOMAIN wire PROVE Delay(k)' = Delay(k)
  <2>1. (\E j \in DOMAIN wire' : j < k /\ OfToken(wire'[j])) <=> \E j \in DOMAIN wire : j < k /\ OfToken(wire[j])
    <3>1. ~(n < k)
      BY <1>3
    <3> QED BY <1>1, <3>1
  <2>2. Renewing(k)' = Renewing(k)
    <3>1. Renewing(k)' = IF at = "renewing" THEN TokenTime - spent
                         ELSE IF timers.refresh # Never \/ (\E j \in DOMAIN wire' : j < k /\ OfToken(wire'[j])) THEN TokenTime ELSE 0
      BY <1>1 DEF Renewing, OfToken
    <3> QED BY <2>1, <3>1 DEF Renewing
  <2> QED BY <1>2, <2>2 DEF Delay
<1>5. /\ Renewing(n)' \in Nat /\ Renewing(n)' <= TokenTime
  <2>1. Renewing(n)' \in {TokenTime, 0} \/ (at = "renewing" /\ Renewing(n)' = TokenTime - spent)
    BY <1>1 DEF Renewing
  <2> QED BY <1>3, <2>1
<1>6. ASSUME OfToken(line) PROVE Renewing(n)' = 0 /\ line.of \in DOMAIN server.asked
  <2>1. line.of \in Tokens /\ line.of \in Named /\ IsAnswer(line, line.of)
    BY <1>6 DEF OfToken, Named, IsAnswer
  <2>2. line.of \in DOMAIN server.asked /\ line.of \in DOMAIN commands
    BY <2>1 DEF Proper, Standing, AnswersOnce
  <2>3. timers.refresh = Never /\ at # "renewing"
    BY <2>1, <2>2 DEF Standing, OneToken
  <2>4. ASSUME NEW j \in DOMAIN wire, OfToken(wire[j]) PROVE FALSE
    <3>1. IsAnswer(wire[j], wire[j].of) /\ wire[j].of \in Tokens /\ wire[j].of \in Named
      BY <2>4 DEF OfToken, IsAnswer, Named
    <3>2. wire[j].of \in DOMAIN commands /\ wire[j].of \notin DOMAIN server.asked
      BY <3>1 DEF Standing, AnswersOnce
    <3>3. wire[j].of = line.of
      BY <2>1, <2>2, <3>1, <3>2 DEF Standing, OneToken, Tokens
    <3> QED BY <2>2, <3>2, <3>3
  <2>5. ~\E j \in DOMAIN wire' : j < n /\ OfToken(wire'[j])
    BY <1>1, <1>3, <2>4
  <2>6. Renewing(n)' = IF at = "renewing" THEN TokenTime - spent
                       ELSE IF timers.refresh # Never \/ (\E j \in DOMAIN wire' : j < n /\ OfToken(wire'[j])) THEN TokenTime ELSE 0
    BY <1>1 DEF Renewing, OfToken
  <2> QED BY <2>2, <2>3, <2>5, <2>6
<1>7. Delay(n)' = Holding' + Renewing(n)'
  BY DEF Delay
<1> DEFINE d == Delay(n)'
           r == Renewing(n)'
<1>8. d = Holding + r /\ r \in Nat /\ r <= TokenTime /\ (OfToken(line) => r = 0 /\ line.of \in DOMAIN server.asked)
  BY <1>2, <1>5, <1>6, <1>7
<1> HIDE DEF d, r
<1>9. d \in Nat /\ d <= MaxHolds + TokenTime /\ (OfToken(line) => d = Holding /\ line.of \in DOMAIN server.asked)
  BY <1>2, <1>3, <1>8
<1> QED BY <1>2, <1>4, <1>9 DEF d

LEMMA OrderlyInTime ==
    ASSUME Margins, LinkTyped, Standing, OnTime, NEW line, Orderly(line), NEW n \in Nat, n = Len(wire) + 1 PROVE OnTime'
<1>1. /\ UNCHANGED <<at, ending, kind, commands, frames, timers, lease, spent, taken, since, holds>>
      /\ DOMAIN wire' = DOMAIN wire \cup {n} /\ wire'[n] = line
      /\ \A k \in DOMAIN wire : wire'[k] = wire[k] /\ k < n
  BY SendsMeans DEF Proper, Orderly
<1>2. /\ Holding' = Holding
      /\ \A k \in DOMAIN wire : Delay(k)' = Delay(k)
      /\ Delay(n)' \in Nat /\ Delay(n)' <= MaxHolds + TokenTime
      /\ OfToken(line) => Delay(n)' = Holding /\ line.of \in DOMAIN server.asked
  BY LineComes DEF Orderly
<1>3. /\ DOMAIN server'.asked \subseteq DOMAIN server.asked /\ server'.ttl = server.ttl /\ server'.lease = server.lease
      /\ server'.pong = server.pong
      /\ \A c \in DOMAIN server'.asked : server'.asked[c] = server.asked[c]
      /\ \A c \in DOMAIN server.asked : c \in DOMAIN server'.asked \/ IsAnswer(line, c)
      /\ server.ping # Never => server'.ping # Never
  BY DEF Orderly, Proper
<1>14. /\ AckTimeout \in Nat /\ PingEvery \in Nat /\ Latency \in Nat /\ TokenTime \in Nat /\ MaxHolds \in Nat
      /\ Latency + TokenTime + MaxHolds < AckTimeout /\ MaxHolds + TokenTime < PingEvery
  BY MarginsSay
<1>4. /\ MaxHolds \in Nat /\ TokenTime \in Nat /\ Holding \in Nat /\ Holding <= MaxHolds /\ timers.idle \in Nat
      /\ server.ping \in Int /\ server.ping >= -1 /\ Never = -1 /\ server.lease \in Int /\ server.ttl \in Int
      /\ \A c \in DOMAIN commands : commands[c] \in Nat
      /\ \A c \in DOMAIN server.asked : server.asked[c] \in Nat
      /\ \A k \in DOMAIN wire : Delay(k) \in Nat
  <2>1. \A k \in DOMAIN wire : Delay(k) \in Nat
    BY DelayMeans
  <2>2. Holding \in Nat /\ Holding <= MaxHolds
    BY DelayMeans
  <2>3. server.ttl \in Int
    BY TypedMeans, ConstantsMean
  <2> QED BY <1>14, <2>1, <2>2, <2>3, TypedMeans
<1>0. n \in DOMAIN wire'
  BY <1>1
<1>5. (Met' <=> Met) /\ (Central' <=> Central) /\ (Running' <=> Running) /\ (Up' <=> Up) /\ Long' = Long /\ Renewal' = Renewal
  BY <1>1, <1>3 DEF Met, Central, Running, Up, Long, Renewal
<1>6. CommandsInTime'
  <2> SUFFICES ASSUME NEW c \in DOMAIN commands, c \notin DOMAIN server'.asked
               PROVE  \E k \in DOMAIN wire' : IsAnswer(wire'[k], c) /\ commands[c] > Delay(k)'
    <3>1. \A c \in DOMAIN server'.asked : server'.asked[c] <= Latency /\ commands[c] >= server'.asked[c] + (AckTimeout - Latency)
      BY <1>3, AwaitedMeans DEF OnTime
    <3> QED BY <1>1, <3>1 DEF CommandsInTime, IsAnswer
  <2>1. CASE c \in DOMAIN server.asked
    <3>1. IsAnswer(line, c)
      BY <1>3, <2>1
    <3>2. server.asked[c] \in Nat /\ commands[c] >= server.asked[c] + (AckTimeout - Latency)
      BY <1>4, <2>1, AwaitedMeans DEF OnTime
    <3>3. commands[c] > MaxHolds + TokenTime
      <4>1. \A p, t \in Nat : p >= t + (AckTimeout - Latency) => p > MaxHolds + TokenTime
        BY <1>14
      <4>2. commands[c] \in Nat
        BY <1>4
      <4> QED BY <3>2, <4>1, <4>2
    <3>4. commands[c] > Delay(n)'
      <4>1. \A p, d \in Nat : p > MaxHolds + TokenTime /\ d <= MaxHolds + TokenTime => p > d
        BY <1>4
      <4> QED BY <1>2, <1>4, <2>1, <3>3, <4>1
    <3> QED BY <1>0, <1>1, <3>1, <3>4
  <2>2. CASE c \notin DOMAIN server.asked
    <3>1. PICK k \in DOMAIN wire : IsAnswer(wire[k], c) /\ commands[c] > Delay(k)
      BY <2>2, AwaitedMeans DEF OnTime
    <3> QED BY <1>1, <1>2, <3>1
  <2> QED BY <2>1, <2>2
<1>7. Connected'
  <2>1. Central => /\ \A k \in DOMAIN wire : wire[k].what = "ack" /\ wire[k].of = "connect" => server.ping # Never
                   /\ Met /\ at # "connecting" =>
                        server.ping # Never /\ lease = [beat |-> PingEvery + Grace, pong |-> server.pong]
                   /\ ~Met => lease.beat = DefaultBeat /\ frames = <<>>
    BY DEF OnTime, Connected
  <2>2. ASSUME Central, NEW k \in DOMAIN wire', Framed(wire'[k]), ~Met \/ at = "connecting"
        PROVE  \E j \in DOMAIN wire' : j < k /\ IsAnswer(wire'[j], "connect")
    <3>1. CASE k \in DOMAIN wire
      BY <1>1, <2>2, <3>1 DEF OnTime, Connected
    <3>2. CASE k = n
      <4>1. at # "connecting" /\ "connect" \notin DOMAIN server.asked /\ ~Met
        BY <1>1, <2>2, <3>2 DEF Orderly
      <4>2. PICK j \in DOMAIN wire : IsAnswer(wire[j], "connect")
        BY <4>1, AwaitedMeans DEF OnTime, Met
      <4> QED BY <1>1, <3>2, <4>2
    <3> QED BY <1>1, <3>1, <3>2
  <2>3. server'.ping <= PingEvery
    BY DEF Orderly
  <2>4. Central => /\ server'.ping # Never => "connect" \notin DOMAIN server'.asked
                   /\ server'.owed => server'.ping # Never
                   /\ server'.live => "connect" \notin DOMAIN server'.asked
                   /\ \A k \in DOMAIN wire' : wire'[k].what = "ack" /\ wire'[k].of = "connect" => server'.ping # Never
    BY <1>1, <1>3, <2>1 DEF Orderly
  <2> QED BY <1>1, <1>3, <1>5, <2>1, <2>2, <2>3, <2>4 DEF Connected, Framed, IsAnswer
<1>8. BeatInTime'
  <2>1. wire' # <<>>
    BY <1>0
  <2>2. "connect" \in DOMAIN server'.asked => "connect" \in DOMAIN server.asked /\ server'.asked["connect"] = server.asked["connect"]
    BY <1>3
  <2>3. Pending' = Pending
    BY <1>1 DEF Pending
  <2> QED BY <1>1, <1>5, <2>1, <2>2, <2>3 DEF OnTime, BeatInTime
<1>9. IdleInTime'
  <2> SUFFICES ASSUME Running, frames = <<>>
               PROVE  \/ \E k \in DOMAIN wire' : Event(wire[k])' /\ timers.idle > Delay(k)'
                      \/ Met /\ timers.idle > server'.ping + MaxHolds + TokenTime
                      \/ "connect" \in DOMAIN server'.asked /\ timers.idle > server'.asked["connect"] + MaxHolds + TokenTime
    BY <1>1, <1>5 DEF IdleInTime
  <2>1. ASSUME Event(line), timers.idle > MaxHolds + TokenTime
        PROVE  \E k \in DOMAIN wire' : Event(wire[k])' /\ timers.idle > Delay(k)'
    <3>1. Event(wire[n])'
      BY <1>1, <1>5, <2>1 DEF Event
    <3>2. timers.idle > Delay(n)'
      <4>1. \A p, d \in Nat : p > MaxHolds + TokenTime /\ d <= MaxHolds + TokenTime => p > d
        BY <1>4
      <4> QED BY <1>2, <1>4, <2>1, <4>1
    <3> QED BY <1>0, <3>1, <3>2
  <2>2. CASE \E k \in DOMAIN wire : Event(wire[k]) /\ timers.idle > Delay(k)
    <3>1. PICK k \in DOMAIN wire : Event(wire[k]) /\ timers.idle > Delay(k)
      BY <2>2
    <3>2. Event(wire[k])' /\ k \in DOMAIN wire' /\ timers.idle > Delay(k)'
      BY <1>1, <1>2, <1>5, <3>1 DEF Event
    <3> QED BY <3>2
  <2>3. CASE Met /\ timers.idle > server.ping + MaxHolds + TokenTime
    <3>1. server.ping # Never
      <4>1. at # "connecting"
        BY DEF Running
      <4>2. Central => server.ping # Never
        BY <2>3, <4>1 DEF OnTime, Connected
      <4>3. ~Central => server.ping # Never
        BY DEF Standing, Beginning, PusherOnly, Up, Running, Central, LinkTyped
      <4> QED BY <4>2, <4>3
    <3>2. CASE server'.ping = server.ping
      BY <2>3, <3>2
    <3>3. CASE Event(line)
      <4>1. timers.idle > MaxHolds + TokenTime
        BY <1>4, <2>3, <3>1
      <4> QED BY <2>1, <3>3, <4>1
    <3> QED BY <3>2, <3>3 DEF Orderly
  <2>4. CASE "connect" \in DOMAIN server.asked /\ timers.idle > server.asked["connect"] + MaxHolds + TokenTime
    <3>1. CASE "connect" \in DOMAIN server'.asked
      BY <1>3, <2>4, <3>1
    <3>2. CASE "connect" \notin DOMAIN server'.asked
      <4>1. IsAnswer(line, "connect")
        BY <1>3, <2>4, <3>2
      <4>2. Event(line)
        BY <4>1 DEF Event, IsAnswer, Answers
      <4>3. server.asked["connect"] \in Nat
        BY <1>4, <2>4
      <4>4. timers.idle > MaxHolds + TokenTime
        BY <1>4, <2>4, <4>3
      <4> QED BY <2>1, <4>2, <4>4
    <3> QED BY <3>1, <3>2
  <2> QED BY <2>2, <2>3, <2>4 DEF OnTime, IdleInTime
<1>10. LeaseInTime'
  <2> SUFFICES ASSUME Long
               PROVE  \A k \in DOMAIN wire' : OfToken(wire'[k]) => server.lease > Delay(k)' + Renewal + MaxHolds + TokenTime
    <3>1. Long => /\ \A c \in Tokens \cap DOMAIN server'.asked : server'.lease >= server'.asked[c] + (server'.ttl - Latency)
      BY <1>3 DEF OnTime, LeaseInTime
    <3> QED BY <1>1, <1>2, <1>3, <1>5, <3>1 DEF OnTime, LeaseInTime, OfToken
  <2>1. ASSUME NEW k \in DOMAIN wire, OfToken(wire'[k]) PROVE server.lease > Delay(k)' + Renewal + MaxHolds + TokenTime
    <3>1. server.lease > Delay(k) + Renewal + MaxHolds + TokenTime
      BY <1>1, <2>1 DEF OnTime, LeaseInTime
    <3> QED BY <1>2, <3>1
  <2>2. ASSUME OfToken(line) PROVE server.lease > Delay(n)' + Renewal + MaxHolds + TokenTime
    <3>1. line.of \in Tokens \cap DOMAIN server.asked /\ Delay(n)' = Holding
      BY <1>2, <2>2 DEF OfToken
    <3>2. server.lease >= server.asked[line.of] + (server.ttl - Latency) /\ server.asked[line.of] \in Nat
      BY <1>4, <3>1 DEF OnTime, LeaseInTime
    <3>3. server.lease >= server.ttl - Latency
      <4>1. \A x, y, z \in Int : z >= 0 /\ x >= z + (y - Latency) => x >= y - Latency
        BY <1>14
      <4> QED BY <1>4, <3>2, <4>1
    <3>4. server.ttl - Latency > Holding + Renewal + MaxHolds + TokenTime
      <4>1. server.ttl \div 5 >= 1 + 2 * MaxHolds + Latency + TokenTime /\ server.ttl > 0
        BY DEF Long
      <4>2. \A t \in Int : t > 0 => (t * 4) \div 5 + t \div 5 <= t /\ t \div 5 \in Int /\ (t * 4) \div 5 \in Int
        OBVIOUS
      <4>3. Renewal + server.ttl \div 5 <= server.ttl /\ server.ttl \div 5 \in Int /\ Renewal \in Int
        BY <1>4, <4>1, <4>2 DEF Renewal
      <4>4. \A t, r, q, h \in Int : q >= 1 + 2 * MaxHolds + Latency + TokenTime /\ r + q <= t /\ h <= MaxHolds
                                  => t - Latency > h + r + MaxHolds + TokenTime
        BY <1>14
      <4>5. Holding \in Int /\ server.ttl \in Int /\ Holding <= MaxHolds
        BY <1>4
      <4> QED BY <4>1, <4>3, <4>4, <4>5
    <3>5. Renewal \in Int
      <4>1. \A t \in Int : (t * 4) \div 5 \in Int
        OBVIOUS
      <4>2. server.ttl \in Int
        BY <1>4
      <4> QED BY <4>1, <4>2 DEF Renewal
    <3>6. server.lease > Holding + Renewal + MaxHolds + TokenTime
      <4>1. \A x, y, h, r \in Int : x >= y - Latency /\ y - Latency > h + r + MaxHolds + TokenTime => x > h + r + MaxHolds + TokenTime
        BY <1>14
      <4>2. Holding \in Int /\ server.ttl \in Int /\ server.lease \in Int
        BY <1>4
      <4> QED BY <3>3, <3>4, <3>5, <4>1, <4>2
    <3> QED BY <3>1, <3>6
  <2> QED BY <1>1, <2>1, <2>2
<1>11. PongInTime'
  <2> SUFFICES ASSUME server'.owed, server'.pong
               PROVE  \/ \E k \in DOMAIN frames : frames[k].what = "ping" /\ server'.ping > Holding
                      \/ \E k \in DOMAIN wire' : wire'[k].what = "ping" /\ server'.ping > Delay(k)'
    BY <1>1, <1>2 DEF PongInTime
  <2>1. CASE server.owed /\ server'.ping = server.ping
    BY <1>1, <1>2, <1>3, <2>1 DEF OnTime, PongInTime
  <2>2. CASE line.what = "ping" /\ server'.ping = PingEvery
    <3>1. server'.ping > Delay(n)'
      <4>1. \A d \in Nat : d <= MaxHolds + TokenTime => PingEvery > d
        BY <1>14
      <4> QED BY <1>2, <2>2, <4>1
    <3> QED BY <1>0, <1>1, <2>2, <3>1
  <2> QED BY <2>1, <2>2 DEF Orderly
<1> QED BY <1>6, <1>7, <1>8, <1>9, <1>10, <1>11 DEF OnTime

LEMMA AnswerIsOrderly ==
    ASSUME Margins, LinkTyped, Standing, OnTime, Answer
    PROVE  /\ \E line \in WireLines : Orderly(line) /\ line.what # "pub"
           /\ SameProvider
<1>1. PICK c \in DOMAIN server.asked, line \in WireLines :
        /\ c # "connect" => "connect" \notin DOMAIN server.asked
        /\ line.what = "ack" /\ line.of = c /\ Sends(line)
        /\ server' \in Providers /\ SameProvider /\ server'.lease = server.lease /\ server'.owed = server.owed
        /\ DOMAIN server'.asked = DOMAIN server.asked \ {c}
        /\ \A d \in DOMAIN server'.asked : server'.asked[d] = server.asked[d]
        /\ server'.live = (server.live \/ c \in Feeds)
        /\ server'.ping = IF c = "connect" THEN PingEvery ELSE server.ping
  BY AnswerMeans
<1>2. PingEvery # Never /\ PingEvery <= PingEvery /\ "connect" \notin Feeds
  BY ConstantsMean DEF Never
<1>3. at # "connecting"
  BY FreshMeans DEF Standing, Beginning
<1>4. /\ server.ping <= PingEvery
      /\ Central => /\ server.ping # Never => "connect" \notin DOMAIN server.asked
                    /\ server.owed => server.ping # Never
                    /\ server.live => "connect" \notin DOMAIN server.asked
  BY DEF OnTime, Connected
<1>5. Proper(line)
  BY <1>1, <1>2, <1>3 DEF Proper, IsAnswer, SameProvider
<1>6. c = "connect" => Event(line)
  BY <1>1 DEF Event, Answers
<1>7. server.owed => c # "connect"
  <2>1. c = "connect" => Central
    <3>1. c \in DOMAIN commands /\ at # "negotiating"
      BY <1>1 DEF Standing, AnswersOnce, Sends
    <3> QED BY <1>2, <3>1 DEF Standing, PusherOnly, Beginning, Central, LinkTyped
  <2> QED BY <1>4, <2>1
<1>8. \A d : IsAnswer(line, d) <=> d = c
  BY <1>1 DEF IsAnswer, Answers
<1>9. Orderly(line)
  BY <1>1, <1>2, <1>3, <1>4, <1>5, <1>6, <1>7, <1>8 DEF Orderly, Framed, SameProvider
<1> QED BY <1>1, <1>9

LEMMA PublishIsOrderly ==
    ASSUME Margins, LinkTyped, Standing, OnTime, Publish
    PROVE  /\ \E line \in WireLines : Orderly(line)
           /\ server'.mode = server.mode /\ server'.threwOut = server.threwOut /\ server'.ttl = server.ttl
<1>1. PICK line \in WireLines :
        /\ server.live /\ line.what = "pub" /\ Sends(line) /\ server' \in Providers /\ OtherTerms
        /\ server'.mode = server.mode /\ server'.owed = server.owed /\ server'.threwOut = server.threwOut
        /\ server'.asked = server.asked /\ server'.ping = server.ping
  BY PublishMeans
<1>2. at # "connecting"
  BY <1>1 DEF Standing, Beginning, Fresh
<1>3. \A c : ~IsAnswer(line, c)
  BY <1>1 DEF IsAnswer, Answers
<1>4. Proper(line)
  BY <1>1, <1>2, <1>3 DEF Proper, OtherTerms
<1>5. /\ server.ping <= PingEvery
      /\ Central => /\ server.ping # Never => "connect" \notin DOMAIN server.asked
                    /\ server.owed => server.ping # Never
                    /\ server.live => "connect" \notin DOMAIN server.asked
  BY DEF OnTime, Connected
<1>6. Orderly(line)
  BY <1>1, <1>2, <1>4, <1>5 DEF Orderly, OtherTerms
<1> QED BY <1>1, <1>6 DEF OtherTerms

\* The last ping is answered before the next is due.
LEMMA PingIsOrderly ==
    ASSUME Margins, LinkTyped, Standing, OnTime, Ping
    PROVE  /\ \E line \in WireLines : Orderly(line) /\ line.what # "pub"
           /\ server'.mode = server.mode /\ server'.threwOut = server.threwOut /\ server'.ttl = server.ttl
           /\ server'.said = server.said
<1>1. ~(server.pong /\ server.owed)
  <2> SUFFICES ASSUME server.pong, server.owed PROVE FALSE
    OBVIOUS
  <2>1. \E d \in Nat : server.ping > d
    <3>1. Holding \in Nat /\ \A k : Delay(k) \in Nat
      BY DelayMeans
    <3> QED BY <3>1 DEF OnTime, PongInTime
  <2>2. server.ping = 0
    BY DEF Ping, Due
  <2> QED BY <2>1, <2>2
<1>2. PICK line \in WireLines :
        /\ server.ping = 0 /\ Sends(line) /\ server' \in Providers /\ OtherTerms
        /\ server'.asked = server.asked /\ server'.said = server.said /\ line.what = "ping"
        /\ server'.mode = server.mode /\ server'.threwOut = server.threwOut
        /\ server'.ping = PingEvery /\ server'.owed
  BY <1>1, PingMeans
<1>3. PingEvery # Never /\ Never # 0 /\ PingEvery <= PingEvery
  BY ConstantsMean DEF Never
<1>4. at # "connecting"
  BY <1>2, <1>3 DEF Standing, Beginning, Fresh
<1>5. \A c : ~IsAnswer(line, c)
  BY <1>2 DEF IsAnswer, Answers
<1>6. Proper(line)
  BY <1>2, <1>3, <1>4, <1>5 DEF Proper, OtherTerms
<1>7. Central => "connect" \notin DOMAIN server.asked
  BY <1>2, <1>3 DEF OnTime, Connected
<1>8. Orderly(line)
  BY <1>2, <1>3, <1>4, <1>6, <1>7 DEF Orderly, OtherTerms, Event
<1> QED BY <1>2, <1>8 DEF OtherTerms

LEMMA MisbehaveInTime ==
    ASSUME Margins, LinkTyped, Standing, OnTime, Misbehave, Well' PROVE OnTime'
<1>1. /\ server' \in Providers /\ OtherTerms /\ server'.ping = server.ping /\ server'.owed = server.owed
  BY MisbehaveMeans
<1>2. /\ server.ping <= PingEvery
      /\ Central => /\ server.ping # Never => "connect" \notin DOMAIN server.asked
                    /\ server.owed => server.ping # Never
                    /\ server.live => "connect" \notin DOMAIN server.asked
  BY DEF OnTime, Connected
<1>3. \E m \in Nat : m = Len(wire) + 1
  BY TypedMeans
<1>4. ASSUME NEW line \in WireLines, Sends(line), Stray(line), server'.asked = server.asked,
             kind = "pusher" => line.what \in {"bad", "ack", "eof"}
      PROVE  OnTime'
  <2>1. UNCHANGED <<at, ending, kind, commands, frames, timers, lease, spent, taken, since, holds>>
    BY <1>4 DEF Sends
  <2>2. Fresh => Fresh' 
    <3>1. server'.threwOut = server.threwOut
      BY MisbehaveMeans
    <3> QED BY <1>1, <1>4, <2>1, <3>1 DEF Fresh, OtherTerms
  <2>3. line.what = "ack" => line.of \notin Named
    <3>1. Line("ack", "unknown").of = "unknown" /\ "unknown" \notin Named
      BY LineMeans, ConstantsMean DEF Named, Tokens
    <3> QED BY <1>4, <3>1 DEF Stray
  <2>4. line.what \in {"bad", "closed", "closedForGood", "eof", "ack"}
    BY <1>4, LineMeans DEF Stray
  <2>5. \A c \in Named : ~IsAnswer(line, c)
    BY <2>3, <2>4 DEF IsAnswer, Answers
  <2>6. Proper(line)
    BY <1>1, <1>4, <2>2, <2>5 DEF Proper, OtherTerms, Standing, Beginning
  <2>7. ~Framed(line) /\ ~(line.what = "ack" /\ line.of = "connect")
    BY <2>3, <2>4 DEF Framed, Named, Tokens
  <2>8. Orderly(line)
    BY <1>1, <1>2, <1>4, <2>6, <2>7 DEF Orderly, OtherTerms
  <2> QED BY <1>3, <2>8, OrderlyInTime
<1>5. ASSUME NEW c \in DOMAIN server.asked, NEW line \in WireLines, kind = "centrifugo", Sends(line),
             line.what \in Answers \ {"ack"}, line.of = c, DOMAIN server'.asked = DOMAIN server.asked \ {c},
             \A d \in DOMAIN server'.asked : server'.asked[d] = server.asked[d]
      PROVE  OnTime'
  <2>1. at # "connecting"
    BY FreshMeans DEF Standing, Beginning
  <2>2. \A d : IsAnswer(line, d) <=> d = c
    BY <1>5 DEF IsAnswer
  <2>3. Proper(line)
    BY <1>1, <1>5, <2>1, <2>2 DEF Proper, OtherTerms
  <2>4. ~Framed(line) /\ line.what # "ack"
    BY <1>5 DEF Framed, Answers
  <2>5. server'.ping # Never => "connect" \notin DOMAIN server'.asked
    BY <1>1, <1>2, <1>5 DEF Central
  <2>6. server'.live => "connect" \notin DOMAIN server'.asked
    BY <1>1, <1>2, <1>5 DEF Central, OtherTerms
  <2>7. Orderly(line)
    BY <1>1, <1>2, <1>5, <2>2, <2>3, <2>4, <2>5, <2>6 DEF Orderly, OtherTerms
  <2> QED BY <1>3, <2>7, OrderlyInTime
<1>6. ~(server'.mode \in {"silent", "babbling"})
  BY DEF Well
<1> QED BY <1>4, <1>5, <1>6, MisbehaveMeans

\* While a fifth of the lease is time enough, it is not over.
LEMMA LeaseLeft ==
    ASSUME Margins, LinkTyped, Standing, OnTime, Up, Long PROVE server.lease # 0
<1>1. /\ server.lease \in Int /\ server.ttl \in Int /\ Never = -1 /\ timers.refresh \in Int /\ timers.refresh >= -1
      /\ spent \in Nat /\ TokenTime \in Nat /\ MaxHolds \in Nat /\ Latency \in Nat
      /\ \A c \in DOMAIN server.asked : server.asked[c] \in Nat
      /\ NoLease < 0
  BY TypedMeans, ConstantsMean
<1>2. Holding \in Nat /\ \A k : Delay(k) \in Nat
  BY DelayMeans
<1>3. server.ttl > 0 /\ server.ttl > Latency /\ Renewal \in Nat
  <2>1. server.ttl \div 5 >= 1 + 2 * MaxHolds + Latency + TokenTime /\ server.ttl > 0
    BY DEF Long
  <2>2. \A t \in Int : t > 0 => t \div 5 <= t /\ t \div 5 \in Int /\ (t * 4) \div 5 \in Nat
    OBVIOUS
  <2> QED BY <1>1, <2>1, <2>2 DEF Renewal
<1>4. Central
  <2>1. at # "negotiating" /\ kind # ""
    BY DEF Up, Running, Standing, Beginning
  <2>2. kind = "pusher" => server.ttl = NoLease
    BY DEF Standing, PusherOnly
  <2>3. kind # "pusher"
    BY <1>1, <1>3, <2>2
  <2> QED BY <2>1, <2>3 DEF LinkTyped, Central
<1>5. CASE at = "connecting"
  <2>1. server.lease = Never
    BY <1>5, FreshMeans DEF Standing, Beginning
  <2> QED BY <1>1, <2>1
<1>6. CASE timers.refresh # Never
  <2>1. server.lease > timers.refresh + TokenTime
                              + (IF timers.refresh > 0 \/ at = "reading" THEN MaxHolds
                                 ELSE IF at = "held" \/ frames # <<>> THEN Holding ELSE 0)
    BY <1>6 DEF OnTime, LeaseInTime
  <2> DEFINE x == IF timers.refresh > 0 \/ at = "reading" THEN MaxHolds
                  ELSE IF at = "held" \/ frames # <<>> THEN Holding ELSE 0
  <2>2. x \in Nat /\ server.lease > timers.refresh + TokenTime + x
    BY <1>1, <1>2, <2>1
  <2> HIDE DEF x
  <2> QED BY <1>1, <1>6, <2>2
<1>7. CASE at = "renewing"
  <2>1. server.lease > TokenTime - spent /\ spent <= TokenTime
    BY <1>7 DEF OnTime, LeaseInTime, Standing, Places
  <2> QED BY <1>1, <2>1
<1>8. CASE DOMAIN commands \cap Tokens # {}
  <2>1. PICK c \in DOMAIN commands : c \in Tokens
    BY <1>8
  <2>2. CASE c \in DOMAIN server.asked
    <3>1. server.lease >= server.asked[c] + (server.ttl - Latency) /\ server.asked[c] \in Nat
      BY <1>1, <2>1, <2>2 DEF OnTime, LeaseInTime
    <3> QED BY <1>1, <1>3, <3>1
  <2>3. CASE c \notin DOMAIN server.asked
    <3>1. PICK k \in DOMAIN wire : IsAnswer(wire[k], c)
      BY <2>3, AwaitedMeans DEF OnTime
    <3>2. OfToken(wire[k])
      BY <2>1, <3>1 DEF OfToken, IsAnswer
    <3>3. server.lease > Delay(k) + Renewal + MaxHolds + TokenTime
      BY <3>2 DEF OnTime, LeaseInTime
    <3> QED BY <1>1, <1>2, <1>3, <3>3
  <2> QED BY <2>2, <2>3
<1> QED BY <1>4, <1>5, <1>6, <1>7, <1>8 DEF OnTime, LeaseInTime

-----------------------------------------------------------------------------
(* Every step keeps what is known of a connection.                         *)

LEMMA OrderMeansNext == HandedOverInOrder' <=> InOrder'
  BY DEF HandedOverInOrder, InOrder, Numbered, Total, Round

LEMMA LinkInvMeans ==
    LinkInv => /\ LinkTyped /\ InOrder /\ PunctualKept /\ NeverThrownOut
               /\ at # "ended" => ending = "" /\ Standing /\ Patience
               /\ at # "ended" /\ Up /\ Well => OnTime
  BY OrderMeans DEF LinkInv, InTime

\* The end, for silence only of a provider that is not in order.
LEMMA LinkEnds ==
    ASSUME LinkInv, NEW how \in {"lost", "refused", "silent"}, LinkTyped', InOrder', server' = server,
           at' = "ended", ending' = how, how = "silent" => ~Well
    PROVE  LinkInv'
  BY OrderMeansNext, LinkInvMeans DEF LinkInv, PunctualKept, NeverThrownOut, Well

LEMMA LinkLeft ==
    ASSUME LinkInv, NEW how \in {"lost", "refused", "silent"}, Leave(how), how = "silent" => ~Well
    PROVE  LinkInv'
<1>1. LinkTyped' /\ UNCHANGED <<frames, wire, taken, server>> /\ at' = "ended" /\ ending' = how
  BY LinkInvMeans DEF Leave, LinkTyped
<1>2. InOrder'
  BY <1>1, LinkInvMeans, OrderLeft
<1> QED BY <1>1, <1>2, LinkEnds

LEMMA LinkGoesOn ==
    ASSUME LinkInv, at # "ended", ending' = ending, LinkTyped', Standing', Patience', InOrder',
           Up' /\ Well' => OnTime', NeverThrownOut'
    PROVE  LinkInv'
  BY OrderMeansNext, LinkInvMeans DEF LinkInv, PunctualKept, InTime

\* The provider's patience is not touched by the reader's steps.
LEMMA TermsKept ==
    ASSUME NeverThrownOut, server'.threwOut = server.threwOut, server'.ttl = server.ttl PROVE NeverThrownOut'
  BY DEF NeverThrownOut

LEMMA SetUpSound ==
    ASSUME Margins, LinkInv, Negotiate \/ OpenSocket \/ Connect \/ Subscribe PROVE LinkInv'
<1>1. LinkTyped /\ InOrder /\ NeverThrownOut /\ Well \in BOOLEAN
  BY LinkInvMeans DEF Well
<1>2. at # "ended"
  BY DEF Negotiate, OpenSocket, Connect, Subscribe
<1>3. Standing /\ Patience /\ (Up /\ Well => OnTime)
  BY <1>2, LinkInvMeans
<1>4. CASE Leave("lost") \/ Leave("refused")
  BY <1>4, LinkLeft
<1>5. CASE Negotiate /\ ~(Leave("lost") \/ Leave("refused"))
  <2>1. at' = "opening" /\ UNCHANGED <<ending, frames, wire, server, taken>>
    BY <1>5 DEF Negotiate, Refused
  <2>2. LinkTyped' /\ Standing' /\ Patience'
    BY <1>1, <1>3, <1>5, <2>1, NegotiateTyped, NegotiateStands, NegotiatePatient
  <2>3. InOrder' /\ NeverThrownOut' /\ ~Up'
    BY <1>1, <1>2, <2>1, OrderKept, TermsKept DEF Up, Running
  <2> QED BY <1>2, <2>1, <2>2, <2>3, LinkGoesOn
<1>6. CASE OpenSocket /\ ~(Leave("lost") \/ Leave("refused"))
  <2>1. at = "opening" /\ at' # "ended" /\ kind \in {"pusher", "centrifugo"}
    BY <1>1, <1>3, <1>6 DEF OpenSocket, Standing, Beginning, LinkTyped
  <2>2. /\ LinkTyped' /\ UNCHANGED <<ending, frames, wire, taken>>
        /\ server'.said = server.said /\ server'.threwOut = server.threwOut
    BY <1>1, <1>6, <2>1, OpenSocketMeans
  <2>3. ~server.threwOut
    BY <1>3, <2>1 DEF Standing, Beginning, Fresh
  <2>4. InOrder' /\ NeverThrownOut'
    BY <1>1, <1>2, <2>2, <2>3, OrderKept DEF NeverThrownOut
  <2>5. Standing' /\ Patience' /\ OnTime'
    BY <1>1, <1>3, <1>6, <2>1, OpenSocketStands, OpenSocketPatient, OpenSocketInTime
  <2> QED BY <1>2, <2>2, <2>4, <2>5, LinkGoesOn
<1>7. CASE Connect /\ ~(Leave("lost") \/ Leave("refused"))
  <2>1. /\ at = "connecting" /\ Sent({"connect"}) /\ at' = "subscribing" /\ spent' = 0 /\ {"connect"} \in SUBSET Named
        /\ UNCHANGED <<ending, kind, frames, timers, lease, wire, taken, since, holds>>
    BY <1>7 DEF Connect, Refused, Named, Tokens
  <2>2. SameProvider
    BY <1>1, <2>1, SentMeans
  <2>3. LinkTyped'
    BY <1>1, <2>1, SettingUpTyped DEF LinkTyped
  <2>4. InOrder' /\ NeverThrownOut'
    BY <1>1, <1>2, <2>1, <2>2, OrderKept, TermsKept DEF SameProvider
  <2>5. Standing' /\ Patience'
    BY <1>1, <1>3, <1>7, <2>1, ConnectStands, ConnectPatient
  <2>6. Up' /\ Well' => OnTime'
    <3>1. Up /\ (Well' => Well)
      BY <2>1, <2>2 DEF Up, Well, SameProvider
    <3> QED BY <1>1, <1>3, <1>7, <2>1, <3>1, ConnectInTime
  <2> QED BY <1>2, <2>1, <2>3, <2>4, <2>5, <2>6, LinkGoesOn
<1>8. CASE Subscribe
  <2>1. /\ at = "subscribing" /\ Sent(Feeds) /\ Feeds \in SUBSET Named /\ LinkTyped'
        /\ UNCHANGED <<ending, frames, wire, taken>>
    BY <1>1, <1>3, <1>8, SubscribeMeans
  <2>2. SameProvider
    BY <1>1, <2>1, SentMeans
  <2>3. InOrder' /\ NeverThrownOut'
    BY <1>1, <1>2, <2>1, <2>2, OrderKept, TermsKept DEF SameProvider
  <2>4. Standing' /\ Patience'
    BY <1>1, <1>3, <1>8, SubscribeStands, SubscribePatient
  <2>5. Up' /\ Well' => OnTime'
    <3>1. Up /\ (Well' => Well)
      BY <2>1, <2>2 DEF Up, Well, SameProvider
    <3> QED BY <1>1, <1>3, <1>8, <3>1, SubscribeInTime
  <2> QED BY <1>2, <2>1, <2>3, <2>4, <2>5, LinkGoesOn
<1> QED BY <1>4, <1>5, <1>6, <1>7, <1>8

LEMMA ReaderSound ==
    ASSUME Margins, LinkInv, HandOver \/ Released \/ TimesOut \/ StartRead \/ Renew \/ ReadNothing \/ ReadClosed PROVE LinkInv'
<1>1. LinkTyped /\ InOrder /\ NeverThrownOut
  BY LinkInvMeans
<1>2. Running /\ Up /\ at # "ended"
  BY DEF HandOver, Released, TimesOut, StartRead, Renew, ReadNothing, ReadClosed, Running, Up
<1>3. Standing /\ Patience /\ (Well => OnTime)
  BY <1>2, LinkInvMeans
<1>4. ASSUME SameProvider, UNCHANGED <<frames, wire, taken>> PROVE InOrder' /\ NeverThrownOut' /\ (Well' => Well)
  BY <1>1, <1>2, <1>4, OrderKept, TermsKept DEF SameProvider, Well
<1>5. CASE Leave("lost") \/ Leave("refused")
  BY <1>5, LinkLeft
<1>6. CASE HandOver
  <2>1. LinkTyped' /\ UNCHANGED ending /\ SameProvider
    BY <1>1, <1>6, HandOverMeans
  <2>2. InOrder' /\ NeverThrownOut' /\ (Well' => Well)
    BY <1>1, <1>6, <2>1, OrderHandedOver, TermsKept DEF SameProvider, Well
  <2>3. Standing' /\ Patience' /\ (Well' => OnTime')
    BY <1>1, <1>3, <1>6, <2>2, HandOverStands, HandOverPatient, HandOverInTime
  <2> QED BY <1>2, <2>1, <2>2, <2>3, LinkGoesOn
<1>7. CASE Released
  <2>1. LinkTyped' /\ UNCHANGED <<ending, frames, wire, taken>> /\ SameProvider
    BY <1>1, <1>7 DEF Released, LinkTyped, SameProvider
  <2>2. InOrder' /\ NeverThrownOut' /\ (Well' => Well)
    BY <1>4, <2>1
  <2>3. Standing' /\ Patience' /\ (Well' => OnTime')
    BY <1>1, <1>3, <1>7, <2>2, ReleasedStands, ReleasedPatient, ReleasedInTime
  <2> QED BY <1>2, <2>1, <2>2, <2>3, LinkGoesOn
<1>8. CASE TimesOut
  <2>1. Leave("silent") /\ ~Well
    BY <1>1, <1>3, <1>8, NeverOverdue DEF TimesOut
  <2> QED BY <2>1, LinkLeft
<1>9. CASE StartRead
  <2>1. LinkTyped' /\ UNCHANGED <<ending, frames, wire, server, taken>>
    BY <1>1, <1>9, StartReadMeans
  <2>2. InOrder' /\ NeverThrownOut' /\ (Well' => Well)
    BY <1>4, <2>1 DEF SameProvider
  <2>3. Standing' /\ Patience' /\ (Well' => OnTime')
    BY <1>1, <1>3, <1>9, <2>2, StartReadStands, StartReadPatient, StartReadInTime
  <2> QED BY <1>2, <2>1, <2>2, <2>3, LinkGoesOn
<1>10. CASE Renew /\ ~(Leave("lost") \/ Leave("refused"))
  <2>1. at' # "ended"
    BY <1>10 DEF Renew, Refused
  <2>2. /\ LinkTyped' /\ Sent({"refresh"}) /\ {"refresh"} \in SUBSET Named
        /\ UNCHANGED <<ending, frames, wire, taken>>
    BY <1>1, <1>3, <1>10, <2>1, RenewMeans
  <2>3. SameProvider
    BY <1>1, <2>2, SentMeans
  <2>4. InOrder' /\ NeverThrownOut' /\ (Well' => Well)
    BY <1>4, <2>2, <2>3
  <2>5. Standing' /\ Patience' /\ (Well' => OnTime')
    BY <1>1, <1>3, <1>10, <2>1, <2>4, RenewStands, RenewPatient, RenewInTime
  <2> QED BY <1>2, <2>2, <2>4, <2>5, LinkGoesOn
<1>11. CASE ReadNothing
  <2>1. at = "reading" /\ UNCHANGED <<kind, commands, frames, timers, lease, spent, wire, server, taken, since, holds>>
    BY <1>11 DEF ReadNothing
  <2>2. CASE timers.idle = 0
    <3>1. Leave("silent")
      BY <1>11, <2>1, <2>2 DEF ReadNothing, NoFrame, Due, Leave
    <3>2. frames = <<>>
      BY <1>3, <2>1 DEF Standing, Places
    <3>3. Well => timers.idle > 0
      BY <1>1, <1>2, <1>3, <3>2, IdleLeft
    <3>4. ~Well
      BY <2>2, <3>3
    <3> QED BY <3>1, <3>4, LinkLeft
  <2>3. CASE timers.idle # 0
    <3>1. at' = "receiving" /\ ending' = ending
      BY <1>11, <2>3 DEF ReadNothing, NoFrame, Due
    <3>2. LinkTyped'
      BY <1>1, <2>1, <3>1 DEF LinkTyped
    <3>3. InOrder' /\ NeverThrownOut' /\ (Well' => Well)
      BY <1>4, <2>1 DEF SameProvider
    <3>4. Standing' /\ Patience' /\ (Well' => OnTime')
      BY <1>1, <1>3, <1>11, <3>1, <3>3, ReadNothingStands, ReadNothingPatient, ReadNothingInTime
    <3> QED BY <1>2, <3>1, <3>2, <3>3, <3>4, LinkGoesOn
  <2> QED BY <2>2, <2>3
<1>12. ReadClosed => Leave("lost")
  BY DEF ReadClosed
<1> QED BY <1>5, <1>6, <1>7, <1>8, <1>9, <1>10, <1>11, <1>12

LEMMA ReadSound == ASSUME Margins, LinkInv, Read PROVE LinkInv'
<1>1. LinkTyped /\ InOrder /\ NeverThrownOut
  BY LinkInvMeans
<1>2. at = "reading" /\ Running /\ Up /\ at # "ended"
  BY DEF Read, Running, Up
<1>3. Standing /\ Patience /\ (Well => OnTime) /\ frames = <<>>
  BY <1>2, LinkInvMeans DEF Standing, Places
<1>4. CASE Leave("lost") \/ Leave("refused")
  BY <1>4, LinkLeft
<1>5. CASE LinkTyped' /\ \E n \in 1..Len(wire), st \in Decodings : Taken(st, n)
  <2>1. PICK n \in 1..Len(wire), st \in Decodings : Taken(st, n)
    BY <1>5
  <2>2. /\ server' = server
        /\ \/ at' = "receiving" /\ ending' = ending
           \/ at' = "ended" /\ ending' = "silent" /\ timers.idle = 0
    BY <2>1 DEF Taken
  <2>3. InOrder' /\ NeverThrownOut' /\ (Well' => Well)
    BY <1>1, <1>3, <2>1, <2>2, OrderTaken, TermsKept DEF Well
  <2>4. CASE at' = "receiving" /\ ending' = ending
    <3>1. Standing'
      BY <1>1, <1>3, <2>1, <2>4, ReadStands
    <3>2. Patience'
      BY <1>1, <1>3, <2>1, <2>4, ReadPatient
    <3>3. Well' => OnTime'
      BY <1>1, <1>3, <2>1, <2>3, <2>4, <3>1, ReadInTime
    <3> QED BY <1>2, <1>5, <2>3, <2>4, <3>1, <3>2, <3>3, LinkGoesOn
  <2>5. CASE at' = "ended" /\ ending' = "silent" /\ timers.idle = 0
    <3>1. Well => timers.idle > 0
      BY <1>1, <1>2, <1>3, IdleLeft
    <3>2. ~Well
      BY <2>5, <3>1
    <3> QED BY <1>5, <2>2, <2>3, <2>5, <3>2, LinkEnds
  <2> QED BY <2>2, <2>4, <2>5
<1> QED BY <1>1, <1>4, <1>5, ReadMeans

LEMMA TimePassesSound == ASSUME Margins, LinkInv, TimePasses PROVE LinkInv'
<1>1. LinkTyped /\ InOrder /\ NeverThrownOut
  BY LinkInvMeans
<1>2. Up /\ at # "ended"
  BY DEF TimePasses, Waits, Running, Up
<1>3. Standing /\ Patience /\ (Well => OnTime)
  BY <1>2, LinkInvMeans
<1>4. LinkTyped' /\ UNCHANGED <<ending, frames, wire, taken>> /\ SameProvider
  BY <1>1, TimePassesMeans
<1>5. InOrder' /\ NeverThrownOut' /\ (Well' => Well)
  BY <1>1, <1>2, <1>4, OrderKept, TermsKept DEF SameProvider, Well
<1>6. Standing' /\ Patience' /\ (Well' => OnTime')
  BY <1>1, <1>3, <1>5, TimePassesStands, TimePassesPatient, TimePassesInTime
<1> QED BY <1>2, <1>4, <1>5, <1>6, LinkGoesOn

LEMMA ProviderSound ==
    ASSUME Margins, LinkInv, Answer \/ Publish \/ Ping \/ Expire \/ Misbehave \/ Babble PROVE LinkInv'
<1>1. LinkTyped /\ InOrder /\ NeverThrownOut
  BY LinkInvMeans
<1>2. ASSUME NEW line \in WireLines, Sends(line), server' \in Providers
      PROVE  /\ LinkTyped' /\ Well /\ Up /\ at # "ended" /\ Standing /\ Patience' /\ ending' = ending /\ OnTime
             /\ UNCHANGED <<frames, taken>> /\ wire' = Append(wire, line)
  <2>1. /\ LinkTyped' /\ Well /\ at \notin {"negotiating", "opening", "ended"} /\ wire' = Append(wire, line)
        /\ UNCHANGED <<at, ending, kind, commands, frames, timers, lease, spent, taken, since, holds>>
    BY <1>1, <1>2, SendsMeans
  <2>2. Up /\ at # "ended"
    BY <1>1, <2>1 DEF Up, Running, LinkTyped
  <2>3. Standing /\ Patience /\ OnTime
    BY <2>1, <2>2, LinkInvMeans
  <2> QED BY <2>1, <2>2, <2>3, PatienceKept
<1>3. ASSUME NEW line \in WireLines, Orderly(line) PROVE Standing' /\ OnTime'
  <2>1. Sends(line) /\ server' \in Providers /\ Proper(line)
    BY <1>3 DEF Orderly, Proper
  <2>2. Standing /\ OnTime
    BY <1>2, <2>1
  <2>3. \E m \in Nat : m = Len(wire) + 1
    BY <1>1, TypedMeans
  <2> QED BY <1>1, <1>3, <2>1, <2>2, <2>3, ProperStands, OrderlyInTime
<1>4. ASSUME NEW line \in WireLines, Sends(line), server' \in Providers, line.what # "pub", server'.said = server.said
      PROVE  InOrder'
  BY <1>1, <1>2, <1>4, OrderSaid
<1>5. CASE Answer
  <2>1. PICK line \in WireLines : Sends(line) /\ server' \in Providers
    BY <1>1, <1>5, AnswerMeans
  <2>2. Standing /\ OnTime
    BY <1>2, <2>1
  <2>3. PICK said \in WireLines : Orderly(said) /\ said.what # "pub" /\ SameProvider
    BY <1>1, <1>5, <2>2, AnswerIsOrderly
  <2>4. Sends(said) /\ server' \in Providers
    BY <2>3 DEF Orderly, Proper
  <2>5. InOrder' /\ NeverThrownOut'
    BY <1>1, <1>4, <2>3, <2>4, TermsKept DEF SameProvider
  <2> QED BY <1>2, <1>3, <2>3, <2>4, <2>5, LinkGoesOn
<1>6. CASE Publish
  <2>1. PICK line \in WireLines :
          /\ Sends(line) /\ server' \in Providers /\ line.what = "pub" /\ line.of = (server.said + 1) % 3
          /\ server'.said = (server.said + 1) % 3
    BY <1>1, <1>6, PublishMeans
  <2>2. Standing /\ OnTime /\ at # "ended" /\ UNCHANGED <<frames, taken>> /\ wire' = Append(wire, line)
    BY <1>2, <2>1
  <2>3. /\ \E said \in WireLines : Orderly(said)
        /\ server'.threwOut = server.threwOut /\ server'.ttl = server.ttl
    BY <1>1, <1>6, <2>2, PublishIsOrderly
  <2>4. Standing' /\ OnTime'
    BY <1>3, <2>3
  <2>5. InOrder' /\ NeverThrownOut'
    BY <1>1, <2>1, <2>2, <2>3, OrderSaid, TermsKept
  <2> QED BY <1>2, <2>1, <2>4, <2>5, LinkGoesOn
<1>7. CASE Ping
  <2>1. PICK line \in WireLines : Sends(line) /\ server' \in Providers
    BY <1>1, <1>7, PingMeans
  <2>2. Standing /\ OnTime
    BY <1>2, <2>1
  <2>3. PICK said \in WireLines :
          /\ Orderly(said) /\ said.what # "pub" /\ server'.said = server.said
          /\ server'.threwOut = server.threwOut /\ server'.ttl = server.ttl
    BY <1>1, <1>7, <2>2, PingIsOrderly
  <2>4. Sends(said) /\ server' \in Providers
    BY <2>3 DEF Orderly, Proper
  <2>5. InOrder' /\ NeverThrownOut'
    BY <1>1, <1>4, <2>3, <2>4, TermsKept
  <2> QED BY <1>2, <1>3, <2>3, <2>4, <2>5, LinkGoesOn
<1>8. CASE Expire
  <2>1. PICK line \in WireLines :
          /\ server.lease = 0 /\ server.ttl > 0 /\ Sends(line) /\ line.what = "closed" /\ server' \in Providers /\ OtherTerms
          /\ server'.asked = server.asked /\ server'.said = server.said /\ server'.mode = "silent"
    BY <1>1, <1>8, ExpireMeans
  <2>2. Standing /\ OnTime /\ Up
    BY <1>2, <2>1
  <2>3. Standing'
    BY <1>1, <1>8, <2>2, ExpireIsProper, ProperStands
  <2>4. NeverThrownOut'
    <3>1. ~Long
      BY <1>1, <2>1, <2>2, LeaseLeft
    <3>2. server'.ttl = server.ttl
      BY <2>1 DEF OtherTerms
    <3> DEFINE share == server.ttl \div 5
               need == 1 + 2 * MaxHolds + Latency + TokenTime
    <3>3. share \in Int /\ need \in Int
      <4>1. server.ttl \in Int
        BY <1>1, TypedMeans, ConstantsMean
      <4> QED BY <4>1, ConstantsMean
    <3>4. ~(share >= need)
      BY <2>1, <3>1 DEF Long
    <3> HIDE DEF share, need
    <3>5. share < need
      BY <3>3, <3>4
    <3> QED BY <2>1, <3>2, <3>5 DEF NeverThrownOut, share, need
  <2>5. InOrder' /\ ~Well'
    BY <1>4, <2>1 DEF Well
  <2> QED BY <1>2, <2>1, <2>3, <2>4, <2>5, LinkGoesOn
<1>9. CASE Misbehave
  <2>1. /\ server' \in Providers /\ OtherTerms /\ server'.said = server.said /\ server'.threwOut = server.threwOut
        /\ \/ \E line \in WireLines : Sends(line) /\ line.what # "pub"
           \/ /\ at \notin {"negotiating", "ended"} /\ ~Well'
              /\ UNCHANGED <<at, ending, kind, commands, frames, timers, lease, spent, wire, taken, since, holds>>
    <3>1. \A line \in WireLines : Stray(line) => line.what # "pub"
      BY LineMeans DEF Stray
    <3>2. \A what \in Answers : what # "pub"
      BY DEF Answers
    <3> QED BY <1>1, <1>9, <3>1, <3>2, MisbehaveMeans DEF Well
  <2>2. at # "ended"
    BY <2>1 DEF Sends
  <2>3. Standing /\ Patience
    BY <2>2, LinkInvMeans
  <2>4. LinkTyped' /\ Standing'
    BY <1>1, <1>9, <2>3, MisbehaveStands
  <2>5. NeverThrownOut'
    BY <1>1, <2>1, TermsKept DEF OtherTerms
  <2>6. CASE \E line \in WireLines : Sends(line) /\ line.what # "pub"
    <3>1. PICK line \in WireLines : Sends(line) /\ line.what # "pub"
      BY <2>6
    <3>2. OnTime /\ Patience' /\ ending' = ending
      BY <1>2, <2>1, <3>1
    <3>3. InOrder'
      BY <1>4, <2>1, <3>1
    <3>4. Well' => OnTime'
      BY <1>1, <1>9, <2>3, <3>2, MisbehaveInTime
    <3> QED BY <2>2, <2>4, <2>5, <3>2, <3>3, <3>4, LinkGoesOn
  <2>7. CASE /\ ~Well'
             /\ UNCHANGED <<at, ending, kind, commands, frames, timers, lease, spent, wire, taken, since, holds>>
    <3>1. Patience' /\ InOrder'
      BY <1>1, <2>1, <2>2, <2>3, <2>7, PatienceKept, OrderKept
    <3> QED BY <2>2, <2>4, <2>5, <2>7, <3>1, LinkGoesOn
  <2> QED BY <2>1, <2>6, <2>7
<1>10. CASE Babble
  <2>1. /\ LinkTyped' /\ server.mode = "babbling" /\ wire = <<>> /\ at = "reading"
        /\ wire' = <<Line("bad", 0)>> /\ Line("bad", 0) \in WireLines
        /\ UNCHANGED <<at, ending, kind, commands, frames, timers, lease, spent, server, taken, since, holds>>
    BY <1>1, <1>10, BabbleMeans
  <2>2. Standing /\ Patience
    BY <2>1, LinkInvMeans
  <2>3. Standing' /\ Patience'
    BY <1>1, <1>10, <2>1, <2>2, BabbleStands, PatienceKept
  <2>4. InOrder'
    <3>1. \A x \in WireLines : Append(<<>>, x) = <<x>>
      OBVIOUS
    <3>2. wire' = Append(wire, Line("bad", 0)) /\ Line("bad", 0).what # "pub"
      BY <2>1, <3>1, LineMeans
    <3> QED BY <1>1, <2>1, <3>2, OrderSaid
  <2>5. NeverThrownOut' /\ ~Well'
    BY <1>1, <2>1, TermsKept DEF Well
  <2> QED BY <2>1, <2>3, <2>4, <2>5, LinkGoesOn
<1> QED BY <1>5, <1>6, <1>7, <1>8, <1>9, <1>10

-----------------------------------------------------------------------------
(* A connection is sound.                                                  *)

LEMMA LinkInvInit == LinkInit => LinkInv
<1> SUFFICES ASSUME LinkInit PROVE LinkInv
  OBVIOUS
<1>1. at = "negotiating" /\ ending = "" /\ kind = "" /\ commands = NoCommands /\ frames = <<>> /\ wire = <<>>
  BY DEF LinkInit
<1>2. taken = 0 /\ spent = 0 /\ since.read = 0 /\ since.frame = 0 /\ holds = 0
  BY DEF LinkInit
<1>3. /\ timers.refresh = Never /\ timers.beat = Never /\ timers.idle = IdleTimeout
      /\ lease.beat = DefaultBeat /\ lease = [beat |-> DefaultBeat, pong |-> FALSE]
      /\ server.asked = NoCommands /\ server.ttl = NoLease /\ server.lease = Never
      /\ server.ping = Never /\ ~server.owed /\ server.said = 0 /\ ~server.live /\ ~server.threwOut
  BY DEF LinkInit
<1>4. IdleTimeout \in Nat /\ DefaultBeat \in Nat /\ MaxHolds \in Nat /\ Never = -1 /\ NoLease < 0
  BY ConstantsMean DEF Never
<1>5. LinkTyped
  <2>1. timers \in Timings /\ lease \in Leases /\ since \in [read : Nat, frame : Nat]
    BY <1>4 DEF LinkInit, Timings, Leases
  <2>2. server \in Providers
    <3>1. NoCommands \in Deadlines /\ NoLease \in Nat \cup {NoLease} /\ Never \in Int /\ Never \in Nat \cup {Never}
      BY <1>4, DeadlinesMean
    <3>2. /\ "well" \in {"well", "silent", "babbling"} /\ 0 \in 0..2 /\ 0 \in Int
          /\ TRUE \in BOOLEAN /\ FALSE \in BOOLEAN
      OBVIOUS
    <3>3. server = [mode |-> "well", asked |-> NoCommands, ttl |-> NoLease, pong |-> TRUE, lease |-> Never,
                    ping |-> Never, owed |-> FALSE, said |-> 0, faults |-> 0, live |-> FALSE, threwOut |-> FALSE]
      BY DEF LinkInit
    <3> QED BY Zenon, <3>1, <3>2, <3>3 DEF Providers
  <2>3. frames \in Seq(WireLines) /\ wire \in Seq(WireLines)
    <3>1. <<>> \in Seq(WireLines)
      OBVIOUS
    <3> QED BY Zenon, <1>1, <3>1
  <2>4. taken \in 0..2 /\ spent \in Nat /\ holds \in 0..MaxHolds
    BY <1>2, <1>4
  <2> QED BY <1>1, <2>1, <2>2, <2>3, <2>4, DeadlinesMean DEF LinkTyped
<1>6. HandedOverInOrder
  <2>1. <<>> \o <<>> = <<>>
    OBVIOUS
  <2>2. frames \o wire = <<>>
    BY <1>1, <2>1
  <2>3. Numbered(frames \o wire, taken) /\ Total(frames \o wire) = 0
    BY <2>2, NumberedNone
  <2>4. (0 + 0) % 3 = 0
    OBVIOUS
  <2>5. (taken + Total(frames \o wire)) % 3 = server.said
    BY <1>2, <1>3, <2>3, <2>4
  <2> QED BY <2>3, <2>5, OrderMeans DEF InOrder
<1>7. PunctualKept /\ NeverThrownOut /\ ~Up /\ ~Running
  BY <1>1, <1>3 DEF PunctualKept, NeverThrownOut, Up, Running
<1>8. Standing
  <2>1. Fresh
    BY <1>1, <1>2, <1>3 DEF Fresh
  <2>2. Beginning
    BY <1>1, <1>3, <2>1 DEF Beginning
  <2>3. Places
    <3>1. at = "negotiating" /\ frames = <<>>
      BY Zenon, <1>1
    <3>2. timers.refresh = Never /\ server.lease < 0
      BY <1>3, <1>4
    <3> QED BY <3>1, <3>2 DEF Places
  <2>4. OneToken
    <3>1. DOMAIN commands = {}
      BY <1>1, DeadlinesMean
    <3>2. at = "negotiating" /\ timers.refresh = Never
      BY Zenon, <1>1, <1>3
    <3>3. at # "renewing"
      BY <1>1
    <3>4. DOMAIN commands \cap Tokens = {}
      BY <3>1
    <3> QED BY Zenon, <3>1, <3>2, <3>3, <3>4 DEF OneToken
  <2>5. AnswersOnce
    <3>1. DOMAIN server.asked = {} /\ DOMAIN wire = {}
      <4>1. DOMAIN <<>> = {}
        OBVIOUS
      <4> QED BY Zenon, <1>1, <1>3, <4>1, DeadlinesMean
    <3> QED BY Zenon, <3>1 DEF AnswersOnce
  <2> QED BY <1>1, <2>2, <2>3, <2>4, <2>5 DEF Standing, PusherOnly
<1>9. Patience
  <2>1. ~Central
    BY <1>1 DEF Central
  <2>2. timers.idle <= IdleTimeout
    <3>1. timers.idle = IdleTimeout
      BY <1>3
    <3> QED BY <1>4, <3>1
  <2>3. Timed
    BY Zenon, <2>1, <2>2 DEF Timed
  <2> QED BY <1>7, <2>1, <2>3 DEF Patience, FrameAwaited, LineAwaited, PusherAwaited
<1> QED BY <1>1, <1>5, <1>6, <1>7, <1>8, <1>9 DEF LinkInv, InTime

LEMMA LinkInvRests == ASSUME LinkInv, UNCHANGED linkVars PROVE LinkInv'
<1>1. UNCHANGED <<at, ending, kind, commands, frames, timers, lease, spent, wire, server, taken, since, holds>>
  BY DEF linkVars
<1>2. LinkTyped' /\ PunctualKept' /\ NeverThrownOut'
  BY <1>1, LinkInvMeans DEF LinkTyped, PunctualKept, NeverThrownOut
<1>3. InOrder'
  BY <1>1, LinkInvMeans DEF InOrder
<1>4. (at # "ended" => ending = "" /\ Standing /\ InTime /\ Patience)'
  <2> SUFFICES ASSUME at # "ended" PROVE ending' = "" /\ Standing' /\ InTime' /\ Patience'
    BY <1>1
  <2>1. ending' = "" /\ Standing /\ InTime /\ Patience
    BY <1>1 DEF LinkInv
  <2>2. Standing'
    <3>1. Beginning => Beginning'
      BY <1>1 DEF Beginning, Fresh, Central
    <3>2. Places => Places'
      BY <1>1 DEF Places
    <3>3. PusherOnly => PusherOnly'
      BY <1>1 DEF PusherOnly, Up, Running
    <3>4. OneToken /\ AnswersOnce => OneToken' /\ AnswersOnce'
      BY Zenon, <1>1 DEF OneToken, AnswersOnce, IsAnswer
    <3> QED BY <2>1, <3>1, <3>2, <3>3, <3>4 DEF Standing
  <2>3. Patience'
    BY <1>1, <2>1, PatienceKept
  <2>4. /\ (Up' <=> Up) /\ (Well' <=> Well) /\ (Central' <=> Central) /\ (Met' <=> Met) /\ (Running' <=> Running)
        /\ (Long' <=> Long) /\ Renewal' = Renewal /\ Holding' = Holding /\ \A k : Delay(k)' = Delay(k)
    BY <1>1 DEF Up, Well, Central, Met, Running, Long, Renewal, Holding, Pending, Delay, Renewing
  <2>5. OnTime => OnTime'
    <3>1. CommandsInTime => CommandsInTime'
      BY <1>1, <2>4 DEF CommandsInTime, IsAnswer
    <3>2. Connected => Connected'
      BY <1>1, <2>4 DEF Connected, IsAnswer, Framed
    <3>3. BeatInTime => BeatInTime'
      BY <1>1, <2>4 DEF BeatInTime, Pending
    <3>4. IdleInTime => IdleInTime'
      BY <1>1, <2>4 DEF IdleInTime, Event
    <3>5. LeaseInTime => LeaseInTime'
      BY <1>1, <2>4 DEF LeaseInTime, OfToken
    <3>6. PongInTime => PongInTime'
      BY <1>1, <2>4 DEF PongInTime
    <3> QED BY <3>1, <3>2, <3>3, <3>4, <3>5, <3>6 DEF OnTime
  <2> QED BY <2>1, <2>2, <2>3, <2>4, <2>5 DEF InTime
<1> QED BY <1>2, <1>3, <1>4, OrderMeansNext DEF LinkInv

LEMMA LinkInvKept == Margins /\ LinkInv /\ [LinkNext]_linkVars => LinkInv'
BY LinkInvRests, SetUpSound, ReaderSound, ReadSound, TimePassesSound, ProviderSound DEF LinkNext

LEMMA LinkInvSound == LinkInv => LinkSound
<1> SUFFICES ASSUME LinkInv PROVE LinkSound
  OBVIOUS
<1>1. HandedOverInOrder /\ PunctualKept /\ NeverThrownOut /\ LinkTyped
  BY DEF LinkInv
<1>2. DeadLeft
  <2>1. CASE at = "ended"
    BY <2>1 DEF DeadLeft
  <2>2. CASE at # "ended"
    BY <1>1, <2>2, LinkInvMeans, PatienceBounds
  <2> QED BY <2>1, <2>2
<1> QED BY <1>1, <1>2 DEF LinkSound

\* A realtime connection, of either provider: what is handed over is what was said, in
\* order and complete; a provider that is in order is not given up for its silence; the
\* reader answers pings and renews its token before it would be thrown out; and a provider
\* that is still, or talks rubbish only, is given up within the heartbeat and the idle time.
THEOREM LinkIsSound == ASSUME Margins PROVE LinkSpec => []LinkSound
<1>1. LinkInit => LinkInv
  BY LinkInvInit
<1>2. LinkInv /\ [LinkNext]_linkVars => LinkInv'
  BY LinkInvKept
<1>3. LinkInv => LinkSound
  BY LinkInvSound
<1> QED BY <1>1, <1>2, <1>3, PTL DEF LinkSpec

===============================================================================
