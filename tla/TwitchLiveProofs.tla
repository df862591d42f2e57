-------------------------- MODULE TwitchLiveProofs --------------------------
(***************************************************************************)
(* TLAPS proofs about TwitchLive, for any cache limit, any budgets and any *)
(* intervals that leave time for an answer: type correctness, the distance *)
(* between repetitions, one socket at a time, and a watchdog that spares   *)
(* the living; and about IrcBuffer, for any limit of its read buffer: that *)
(* it does not matter into which chunks a connection's lines are cut.      *)
(***************************************************************************)
EXTENDS TwitchLive, IrcBuffer, Induction, SequenceTheorems, FiniteSetTheorems

-----------------------------------------------------------------------------
(* Type correctness.  A failure streak ends the capture when it is as long *)
(* as allowed, so that it is shorter before.                               *)

TypeInv == TypeOK /\ (pc # "exceeded" => failures < MaxAttempts)

LEMMA NoLines == <<>> \in Seq(Line) /\ <<>> \in Seq(Ids) /\ Len(<<>>) = 0
  OBVIOUS

LEMMA Bounds ==
  /\ -1 \in -1..Answer /\ 0 \in 0..MaxLines /\ 0 \in 0..MaxDrops
  /\ 0 \in 0..Idle /\ 0 \in 0..(PingEvery + 1) /\ 0 \in 0..ReceiveTimeout
  /\ 1 \in 1..MaxAttempts /\ 0 \in 0..MaxAttempts /\ 0 < MaxAttempts /\ 1 \in 1..3
  BY TwitchAssumption

LEMMA RegisteredType ==
  ASSUME NEW s \in Seq(Ids), NEW id \in Ids, Len(s) <= SeenLimit
  PROVE  Registered(s, id, SeenLimit) \in Seq(Ids) /\ Len(Registered(s, id, SeenLimit)) <= SeenLimit
<1> DEFINE longer == Append(s, id)
<1> USE TwitchAssumption
<1>1. longer \in Seq(Ids) /\ Len(longer) = Len(s) + 1 /\ longer # <<>>
  OBVIOUS
<1>2. Tail(longer) \in Seq(Ids) /\ Len(Tail(longer)) = Len(s)
  BY <1>1
<1> QED BY <1>1, <1>2 DEF Registered

LEMMA TypeInit == Init => TypeInv
<1> SUFFICES ASSUME Init PROVE TypeInv
  OBVIOUS
<1>1. inbox \in Seq(Line) /\ items \in Seq(Line)
  BY NoLines DEF Init
<1>2. seen \in Seq(Ids) /\ registered \in Seq(Ids) /\ Len(seen) <= SeenLimit
  BY NoLines, TwitchAssumption DEF Init
<1>3. /\ link = "none" /\ asked = -1 /\ lines = 0 /\ drops = 0
      /\ sinceReceive = 0 /\ sincePing = 0 /\ waited = 0
      /\ pc = "lookup" /\ attempt = 1 /\ failures = 0 /\ stopper = 1
      /\ current = FALSE /\ fresh = FALSE /\ owned = FALSE /\ woken = FALSE /\ stopped = FALSE
  BY DEF Init
<1>4. /\ asked \in -1..Answer /\ lines \in 0..MaxLines /\ drops \in 0..MaxDrops
      /\ sinceReceive \in 0..Idle /\ sincePing \in 0..(PingEvery + 1) /\ waited \in 0..ReceiveTimeout
      /\ attempt \in 1..MaxAttempts /\ failures \in 0..MaxAttempts /\ failures < MaxAttempts
      /\ stopper \in 1..3
  BY <1>3, Bounds
<1> QED BY <1>1, <1>2, <1>3, <1>4 DEF TypeInv, TypeOK

LEMMA TypeProvider == TypeInv /\ (Provider \/ Tick) => TypeInv'
<1> SUFFICES ASSUME TypeInv, Provider \/ Tick PROVE TypeInv'
  OBVIOUS
<1> USE TwitchAssumption DEF TypeInv, TypeOK, timeVars, socketVars, cacheVars, stopVars
<1>1. CASE Deliver
  <2>1. PICK line \in {Message(id) : id \in Ids \cup {NoId}} \cup {Control("reconnect"), Control("ping")} :
          inbox' = Append(inbox, line)
    BY <1>1 DEF Deliver
  <2>2. line \in Line
    BY <2>1 DEF Message, Control, Line
  <2>3. inbox' \in Seq(Line)
    BY <2>1, <2>2
  <2> QED BY <1>1, <2>3 DEF Deliver
<1>2. CASE AnswerPing
  <2>1. Control("pong") \in Line
    BY DEF Control, Line
  <2>2. inbox' \in Seq(Line)
    BY <1>2, <2>1 DEF AnswerPing
  <2> QED BY <1>2, <2>2 DEF AnswerPing
<1>3. CASE Break BY <1>3 DEF Break
<1>4. CASE Tick BY <1>4 DEF Tick, Aged
<1>5. CASE ReceivePartial
  BY <1>5 DEF ReceivePartial
<1> QED BY <1>1, <1>2, <1>3, <1>4, <1>5 DEF Provider

LEMMA TypeSetup ==
  TypeInv /\ (Lookup \/ LookupFails \/ Connect \/ ConnectStopped \/ ConnectFails \/ Own
              \/ CheckStopped \/ Join \/ JoinFails)
  => TypeInv'
<1> SUFFICES ASSUME TypeInv,
                    Lookup \/ LookupFails \/ Connect \/ ConnectStopped \/ ConnectFails \/ Own
                      \/ CheckStopped \/ Join \/ JoinFails
             PROVE  TypeInv'
  OBVIOUS
<1> USE TwitchAssumption DEF TypeInv, TypeOK, linkVars, timeVars, socketVars, cacheVars, stopVars, Ended
<1>1. CASE Lookup BY <1>1 DEF Lookup
<1>2. CASE LookupFails BY <1>2 DEF LookupFails
<1>3. CASE Connect
  <2>1. inbox' \in Seq(Line) BY <1>3, NoLines DEF Connect
  <2>2. /\ link' = "up" /\ asked' = -1 /\ pc' = "own"
        /\ fresh' = TRUE /\ owned' = FALSE /\ woken' = FALSE
        /\ UNCHANGED <<lines, drops, timeVars, items, attempt, failures, current, cacheVars, stopVars>>
        /\ pc = "connect"
    BY <1>3 DEF Connect
  <2>3. asked' \in -1..Answer
    BY <2>2, Bounds
  <2> QED BY <2>1, <2>2, <2>3
<1>4. CASE ConnectStopped BY <1>4 DEF ConnectStopped
<1>5. CASE ConnectFails BY <1>5 DEF ConnectFails, Retry
<1>6. CASE Own BY <1>6 DEF Own
<1>7. CASE CheckStopped BY <1>7 DEF CheckStopped
<1>8. CASE Join
  <2>1. items' \in Seq(Line) BY <1>8, NoLines DEF Join
  <2>2. /\ fresh' = FALSE /\ current' \in BOOLEAN /\ pc' \in {"finished", "recv"} /\ pc = "join"
        /\ link' \in {"none", link} /\ sinceReceive' = 0 /\ sincePing' = 0 /\ waited' = 0
        /\ UNCHANGED <<inbox, asked, lines, drops, attempt, failures, owned, woken, cacheVars, stopVars>>
    BY <1>8 DEF Join
  <2>3. /\ sinceReceive' \in 0..Idle /\ sincePing' \in 0..(PingEvery + 1)
        /\ waited' \in 0..ReceiveTimeout
    BY <2>2, Bounds
  <2>4. failures' < MaxAttempts /\ pc' # "exceeded"
    BY <2>2
  <2> QED BY <2>1, <2>2, <2>3, <2>4
<1>9. CASE JoinFails
  <2>1. drops' \in 0..MaxDrops
    BY <1>9 DEF JoinFails
  <2>2. attempt' \in 1..MaxAttempts /\ pc' \in {"finished", "connect", "exceeded"}
    BY <1>9 DEF JoinFails, Retry
  <2> QED BY <1>9, <2>1, <2>2 DEF JoinFails
<1> QED BY <1>1, <1>2, <1>3, <1>4, <1>5, <1>6, <1>7, <1>8, <1>9

\* What is left of the lines, and what is parsed from them, are lines.
LEMMA ReceivedLines == TypeInv /\ Receive => inbox' \in Seq(Line) /\ items' \in Seq(Line)
<1> SUFFICES ASSUME TypeInv, Receive PROVE inbox' \in Seq(Line) /\ items' \in Seq(Line)
  OBVIOUS
<1>1. inbox' = <<>> /\ items' \in {inbox, <<>>}
  BY DEF Receive
<1>2. inbox \in Seq(Line)
  BY DEF TypeInv, TypeOK
<1> QED BY <1>1, <1>2, NoLines

LEMMA TypeReceive ==
  TypeInv /\ (Receive \/ ReceiveFails \/ ReceiveTimesOut \/ ChunkEnds \/ Lost) => TypeInv'
<1> SUFFICES ASSUME TypeInv, Receive \/ ReceiveFails \/ ReceiveTimesOut \/ ChunkEnds \/ Lost
             PROVE  TypeInv'
  OBVIOUS
<1> USE TwitchAssumption DEF TypeInv, TypeOK, linkVars, timeVars, socketVars, cacheVars, stopVars, Ended
<1>1. CASE Receive
  <2>1. inbox' \in Seq(Line) /\ items' \in Seq(Line)
    BY <1>1, ReceivedLines
  <2>2. pc' \in {"items", "lost"}
    BY <1>1 DEF Receive
  <2> QED BY <1>1, <2>1, <2>2 DEF Receive
<1>2. CASE ReceiveFails
  <2>1. inbox' \in Seq(Line) BY <1>2, NoLines DEF ReceiveFails
  <2>2. /\ pc = "recv" /\ pc' = "lost"
        /\ UNCHANGED <<link, asked, lines, drops, timeVars, items, attempt, failures, socketVars,
                       cacheVars, stopVars>>
    BY <1>2 DEF ReceiveFails
  <2> QED BY <2>1, <2>2
<1>3. CASE ReceiveTimesOut
  <2>1. pc' \in {"recv", "lost"} /\ sincePing' \in {0, sincePing} /\ asked' \in {0, asked}
    BY <1>3 DEF ReceiveTimesOut, Keepalive
  <2> QED BY <1>3, <2>1 DEF ReceiveTimesOut
<1>4. CASE ChunkEnds
  <2>1. pc' \in {"recv", "lost"} /\ sincePing' \in {0, sincePing} /\ asked' \in {0, asked}
    BY <1>4 DEF ChunkEnds, Keepalive
  <2> QED BY <1>4, <2>1 DEF ChunkEnds
<1>5. CASE Lost
  <2>1. inbox' \in Seq(Line) /\ items' \in Seq(Line) BY <1>5, NoLines DEF Lost, Forget
  <2>2. pc' \in {"finished", "exceeded", "connect"} /\ failures' \in 0..MaxAttempts
        /\ (pc' # "exceeded" => failures' < MaxAttempts)
    BY <1>5 DEF Lost, StreakSpent
  <2>3. /\ current' = FALSE /\ link' = "none" /\ asked' = -1 /\ attempt' = 1
        /\ sinceReceive' = 0 /\ sincePing' = 0 /\ waited' = 0
        /\ UNCHANGED <<lines, drops, fresh, owned, woken, cacheVars, stopVars>>
    BY <1>5 DEF Lost, Forget
  <2>4. asked' \in -1..Answer /\ attempt' \in 1..MaxAttempts
    BY <2>3, Bounds
  <2>5. sinceReceive' \in 0..Idle /\ sincePing' \in 0..(PingEvery + 1) /\ waited' \in 0..ReceiveTimeout
    BY <2>3, Bounds
  <2> QED BY <2>1, <2>2, <2>3, <2>4, <2>5
<1> QED BY <1>1, <1>2, <1>3, <1>4, <1>5

LEMMA TypeFinish == TypeInv /\ pc # "exceeded" /\ Finish => TypeInv'
<1> SUFFICES ASSUME TypeInv, pc # "exceeded", Finish PROVE TypeInv'
  OBVIOUS
<1> USE TwitchAssumption DEF TypeInv, TypeOK, timeVars, cacheVars, stopVars, Ended
<1>1. inbox' \in Seq(Line) /\ items' \in Seq(Line)
  BY NoLines DEF Finish, Forget
<1>2. /\ pc' = "finished" /\ current' = FALSE /\ link' = "none" /\ asked' = -1
      /\ sinceReceive' = 0 /\ sincePing' = 0 /\ waited' = 0
      /\ UNCHANGED <<lines, drops, attempt, failures, fresh, owned, woken, cacheVars, stopVars>>
  BY DEF Finish, Forget
<1>3. asked' \in -1..Answer
  BY <1>2, Bounds
<1>4. sinceReceive' \in 0..Idle /\ sincePing' \in 0..(PingEvery + 1) /\ waited' \in 0..ReceiveTimeout
  BY <1>2, Bounds
<1> QED BY <1>1, <1>2, <1>3, <1>4

LEMMA TypeItems ==
  TypeInv /\ (PassOver \/ ItemStopped \/ ReconnectRequested \/ ReadItem \/ CloseIdle \/ Resume \/ RequestStop)
  => TypeInv'
<1> SUFFICES ASSUME TypeInv, PassOver \/ ItemStopped \/ ReconnectRequested \/ ReadItem \/ CloseIdle \/ Resume
                                \/ RequestStop
             PROVE  TypeInv'
  OBVIOUS
<1> USE TwitchAssumption DEF TypeInv, TypeOK, linkVars, timeVars, socketVars, cacheVars, stopVars, Ended
<1>1. CASE ItemStopped BY <1>1, TypeFinish DEF ItemStopped
<1>2. CASE ReconnectRequested BY <1>2 DEF ReconnectRequested
<1>3. CASE ReadItem
  <2>1. Head(items) \in Line /\ items' \in Seq(Line)
    BY <1>3 DEF ReadItem
  <2>2. Head(items).id \in Ids \cup {NoId}
    BY <2>1 DEF Line
  <2>3. seen' \in Seq(Ids) /\ Len(seen') <= SeenLimit
    <3>1. CASE Head(items).id = NoId BY <1>3, <3>1 DEF ReadItem
    <3>2. CASE Head(items).id # NoId
      <4>1. seen' = Registered(seen, Head(items).id, SeenLimit) /\ Head(items).id \in Ids
        BY <1>3, <2>2, <3>2 DEF ReadItem
      <4> QED BY <4>1, RegisteredType
    <3> QED BY <3>1, <3>2
  <2>4. registered' \in Seq(Ids)
    BY <1>3, <2>2 DEF ReadItem
  <2>5. pc' \in {"emit", "items"}
    BY <1>3 DEF ReadItem
  <2> QED BY <1>3, <2>1, <2>3, <2>4, <2>5 DEF ReadItem
<1>4. CASE CloseIdle BY <1>4, TypeFinish DEF CloseIdle
<1>5. CASE Resume BY <1>5 DEF Resume
<1>6. CASE RequestStop
  <2>1. stopper \in 1..2
    BY <1>6 DEF RequestStop, StopOrder
  <2>2. stopped' \in BOOLEAN /\ woken' \in BOOLEAN
    BY <1>6 DEF RequestStop
  <2> QED BY <1>6, <2>1, <2>2 DEF RequestStop
<1>7. CASE PassOver
  <2> QED BY <1>7 DEF PassOver
<1> QED BY <1>1, <1>2, <1>3, <1>4, <1>5, <1>6, <1>7

LEMMA TypeNext == TypeInv /\ [Next]_vars => TypeInv'
<1>1. TypeInv /\ UNCHANGED vars => TypeInv'
  BY DEF TypeInv, TypeOK, vars
<1> QED
  BY <1>1, TypeProvider, TypeSetup, TypeReceive, TypeItems
  DEF Next, Provider, Reader, Done

LEMMA TypeInvariant == Spec => []TypeInv
<1> QED BY TypeInit, TypeNext, PTL DEF Spec

\* Every reachable state is well typed: in particular a failure streak never
\* exceeds request.max_attempts and the cache never its limit.
THEOREM TypeCorrect == Spec => []TypeOK
<1>1. TypeInv => TypeOK
  BY DEF TypeInv
<1> QED BY <1>1, TypeInvariant, PTL

-----------------------------------------------------------------------------
(* The cache holds what was registered last, so that an identity it does   *)
(* not know was registered longer ago than its limit.                      *)

Kept == IF Len(registered) < SeenLimit THEN Len(registered) ELSE SeenLimit

SeenInv ==
    /\ Len(seen) = Kept
    /\ \A k \in 1..Kept : seen[k] = registered[Len(registered) - Kept + k]
    /\ NoEarlyRepeat

LEMMA SeenInit == Init => SeenInv
<1> SUFFICES ASSUME Init PROVE SeenInv
  OBVIOUS
<1>1. seen = <<>> /\ registered = <<>>
  BY DEF Init
<1>2. Kept = 0
  BY <1>1, TwitchAssumption DEF Kept
<1> QED BY <1>1, <1>2 DEF SeenInv, NoEarlyRepeat

LEMMA SeenUnchanged == SeenInv /\ UNCHANGED cacheVars => SeenInv'
  BY DEF SeenInv, Kept, NoEarlyRepeat, cacheVars

\* A new identity was not among those kept.
LEMMA SeenRegister ==
  ASSUME TypeInv, SeenInv, NEW id \in Ids, ~Known(seen, id),
         seen' = Registered(seen, id, SeenLimit), registered' = Append(registered, id)
  PROVE  SeenInv'
<1> DEFINE n == Len(registered)
<1> USE TwitchAssumption
<1>1. seen \in Seq(Ids) /\ registered \in Seq(Ids) /\ n \in Nat /\ Kept \in Nat /\ Kept <= n
  BY DEF TypeInv, TypeOK, Kept
<1>2. /\ Len(registered') = n + 1 /\ registered'[n + 1] = id
      /\ \A i \in 1..n : registered'[i] = registered[i]
  BY <1>1
<1>3. Kept' = IF n < SeenLimit THEN Kept + 1 ELSE Kept
  BY <1>1, <1>2 DEF Kept
<1>4. Len(seen') = Kept' /\ \A k \in 1..Kept' : seen'[k] = registered'[Len(registered') - Kept' + k]
  <2> DEFINE longer == Append(seen, id)
  <2>1. /\ longer \in Seq(Ids) /\ Len(longer) = Kept + 1 /\ longer[Kept + 1] = id
        /\ \A k \in 1..Kept : longer[k] = registered[n - Kept + k]
    BY <1>1 DEF SeenInv
  <2>2. CASE n < SeenLimit
    <3>1. Kept = n /\ Kept' = n + 1
      BY <2>2, <1>3 DEF Kept
    <3>2. seen' = longer
      BY <1>1, <2>2, <3>1 DEF Registered, SeenInv
    <3> QED BY <1>1, <1>2, <2>1, <3>1, <3>2
  <2>3. CASE ~(n < SeenLimit)
    <3>1. Kept = SeenLimit /\ Kept' = SeenLimit
      BY <2>3, <1>3 DEF Kept
    <3>2. seen' = Tail(longer)
      BY <1>1, <3>1 DEF Registered, SeenInv
    <3>3. Len(seen') = SeenLimit /\ \A k \in 1..SeenLimit : seen'[k] = longer[k + 1]
      BY <2>1, <3>1, <3>2
    <3>4. \A k \in 1..SeenLimit : longer[k + 1] = registered'[n + 1 - SeenLimit + k]
      <4> TAKE k \in 1..SeenLimit
      <4>1. CASE k = SeenLimit
        BY <4>1, <1>1, <1>2, <2>1, <3>1
      <4>2. CASE k # SeenLimit
        <5>1. k + 1 \in 1..Kept /\ n - Kept + (k + 1) \in 1..n
          BY <4>2, <1>1, <3>1
        <5>2. longer[k + 1] = registered[n - Kept + (k + 1)]
          BY <5>1, <2>1
        <5> QED BY <5>1, <5>2, <1>1, <1>2, <3>1
      <4> QED BY <4>1, <4>2
    <3>5. ASSUME NEW k \in 1..Kept'
          PROVE  seen'[k] = registered'[Len(registered') - Kept' + k]
      <4>1. k \in 1..SeenLimit
        BY <3>1
      <4>2. seen'[k] = registered'[n + 1 - SeenLimit + k]
        BY <4>1, <3>3, <3>4
      <4>3. Len(registered') - Kept' = n + 1 - SeenLimit
        BY <3>1, <1>2
      <4> QED BY <4>2, <4>3
    <3> QED BY <3>1, <3>3, <3>5
  <2> QED BY <2>2, <2>3
<1>5. NoEarlyRepeat'
  <2> SUFFICES ASSUME NEW i \in 1..(n + 1), NEW j \in 1..(n + 1), i < j,
                      registered'[i] = registered'[j]
               PROVE  j - i > SeenLimit
    BY <1>1, <1>2 DEF NoEarlyRepeat
  <2>1. CASE j <= n
    <3>1. i \in DOMAIN registered /\ j \in DOMAIN registered /\ registered[i] = registered[j]
      BY <2>1, <1>1, <1>2
    <3> QED BY <3>1 DEF SeenInv, NoEarlyRepeat
  <2>2. CASE j = n + 1
    <3>1. i \in 1..n /\ registered[i] = id
      BY <2>2, <1>1, <1>2
    <3>2. ~(i > n - Kept)
      <4> SUFFICES ASSUME i > n - Kept PROVE FALSE
        OBVIOUS
      <4>1. i - (n - Kept) \in 1..Kept
        BY <1>1, <3>1
      <4>2. seen[i - (n - Kept)] = registered[n - Kept + (i - (n - Kept))]
        BY <4>1 DEF SeenInv
      <4>3. seen[i - (n - Kept)] = id
        BY <4>2, <3>1, <1>1
      <4>4. DOMAIN seen = 1..Kept
        BY <1>1 DEF SeenInv
      <4> QED BY <4>1, <4>3, <4>4 DEF Known
    <3>3. Kept = SeenLimit
      BY <3>1, <3>2, <1>1 DEF Kept
    <3> QED BY <2>2, <3>1, <3>2, <3>3, <1>1
  <2>3. j <= n \/ j = n + 1
    BY <1>1
  <2> QED BY <2>1, <2>2, <2>3
<1> QED BY <1>4, <1>5 DEF SeenInv

LEMMA SeenNext == TypeInv /\ SeenInv /\ [Next]_vars => SeenInv'
<1> SUFFICES ASSUME TypeInv, SeenInv, [Next]_vars PROVE SeenInv'
  OBVIOUS
<1>1. CASE ReadItem
  <2> DEFINE id == Head(items).id
  <2>1. id \in Ids \cup {NoId}
    <3>1. Head(items) \in Line
      BY <1>1 DEF ReadItem, TypeInv, TypeOK
    <3> QED BY <3>1 DEF Line
  <2>2. CASE id = NoId \/ Known(seen, id)
    <3>1. UNCHANGED cacheVars
      BY <1>1, <2>2 DEF ReadItem, Duplicate, Registered, cacheVars
    <3> QED BY <3>1, SeenUnchanged
  <2>3. CASE id # NoId /\ ~Known(seen, id)
    <3>1. /\ seen' = Registered(seen, id, SeenLimit) /\ registered' = Append(registered, id)
          /\ id \in Ids
      BY <1>1, <2>1, <2>3 DEF ReadItem, Duplicate
    <3> QED BY <2>3, <3>1, SeenRegister
  <2> QED BY <2>2, <2>3
<1>2. CASE ~ReadItem
  <2>1. UNCHANGED cacheVars
    BY <1>2 DEF Next, Provider, Deliver, ReceivePartial, AnswerPing, Break, Tick, Reader, Lookup, LookupFails,
       Connect, ConnectStopped, ConnectFails, Own, CheckStopped, Join, JoinFails, Receive,
       ReceiveFails, ReceiveTimesOut, ChunkEnds, PassOver, ItemStopped, ReconnectRequested,
       CloseIdle, Finish, Forget, Lost, Resume, RequestStop, Done, vars, cacheVars
  <2> QED BY <2>1, SeenUnchanged
<1> QED BY <1>1, <1>2

\* For any limit of the cache, and across any number of reconnects: between two
\* emissions of one message ID at least as many others were registered.
THEOREM RepeatsAreFarApart == Spec => []NoEarlyRepeat
<1>1. Init => SeenInv
  BY SeenInit
<1>2. TypeInv /\ SeenInv /\ [Next]_vars => SeenInv'
  BY SeenNext
<1>3. SeenInv => NoEarlyRepeat
  BY DEF SeenInv
<1> QED BY <1>1, <1>2, <1>3, TypeInvariant, PTL DEF Spec

-----------------------------------------------------------------------------
(* Which of the two connections is open follows from where the thread is.  *)

SocketInv ==
    /\ (pc \in {"lookup", "connect"} \cup Ended => ~current /\ ~fresh)
    /\ (pc \in {"own", "check", "join"} => ~current /\ fresh)
    /\ (pc \in {"recv", "items", "emit", "lost"} => current /\ ~fresh)

LEMMA SocketNext == TypeInv /\ SocketInv /\ [Next]_vars => SocketInv'
<1> SUFFICES ASSUME TypeInv, SocketInv, [Next]_vars PROVE SocketInv'
  OBVIOUS
<1> USE DEF SocketInv, Ended, socketVars
<1>1. current \in BOOLEAN /\ fresh \in BOOLEAN /\ stopped \in BOOLEAN
  BY DEF TypeInv, TypeOK
<1>2. CASE Provider \/ Tick \/ Resume \/ RequestStop \/ Done \/ UNCHANGED vars
  BY <1>2 DEF Provider, Deliver, ReceivePartial, AnswerPing, Break, Tick, Resume, RequestStop, Done, vars
<1>3. CASE Lookup \/ LookupFails \/ Connect \/ ConnectStopped \/ ConnectFails \/ Own
  BY <1>3 DEF Lookup, LookupFails, Connect, ConnectStopped, ConnectFails, Retry, Own
<1>4. CASE CheckStopped BY <1>1, <1>4 DEF CheckStopped
<1>5. CASE Join BY <1>1, <1>5 DEF Join
<1>6. CASE JoinFails BY <1>6 DEF JoinFails, Retry
<1>7. CASE Receive \/ ReceiveFails \/ ReceiveTimesOut \/ ChunkEnds
  BY <1>7 DEF Receive, ReceiveFails, ReceiveTimesOut, ChunkEnds
<1>8. CASE PassOver \/ ReconnectRequested \/ ReadItem
  BY <1>8 DEF PassOver, ReconnectRequested, ReadItem
<1>9. CASE ItemStopped \/ CloseIdle \/ Lost
  BY <1>9 DEF ItemStopped, CloseIdle, Finish, Forget, Lost
<1> QED
  BY <1>2, <1>3, <1>4, <1>5, <1>6, <1>7, <1>8, <1>9 DEF Next, Reader

\* However set-up, receives and stops fail: never two sockets, and none that
\* outlives the capture.
THEOREM SocketsAreClosed == Spec => []OneSocket
<1>1. Init => SocketInv
  BY DEF Init, SocketInv, Ended
<1>2. TypeInv /\ SocketInv /\ [Next]_vars => SocketInv'
  BY SocketNext
<1>3. TypeInv /\ SocketInv => OneSocket
  BY DEF TypeInv, TypeOK, SocketInv, OneSocket, Ended
<1> QED BY <1>1, <1>2, <1>3, TypeInvariant, PTL DEF Spec

-----------------------------------------------------------------------------
(* The watchdog.  While a receive waits on a living connection with no PING *)
(* unanswered, the last line came no longer ago than a PING becomes due and *)
(* this receive has waited; with a PING unanswered, no longer ago than the  *)
(* PING took to be sent and has waited for its answer.                      *)

QuietInv ==
    pc = "recv" /\ link = "up" /\ inbox = <<>>
    => /\ asked = -1 => sinceReceive <= PingEvery + waited
       /\ asked = -1 /\ sincePing <= PingEvery => sinceReceive <= sincePing
       /\ asked >= 0 => sinceReceive <= PingEvery + ReceiveTimeout + asked

\* A line that has arrived is no silence.
LEMMA NotEmpty == ASSUME NEW s \in Seq(Line), NEW line \in Line PROVE Append(s, line) # <<>>
<1>1. Len(Append(s, line)) = Len(s) + 1 /\ Len(s) \in Nat
  OBVIOUS
<1>2. Len(<<>>) = 0
  OBVIOUS
<1> QED BY <1>1, <1>2

LEMMA QuietTick == TypeInv /\ QuietInv /\ Tick => QuietInv'
<1> SUFFICES ASSUME TypeInv, QuietInv, Tick, (pc = "recv" /\ link = "up" /\ inbox = <<>>)'
             PROVE  QuietInv'
  BY DEF QuietInv
<1>1. pc = "recv" /\ link = "up" /\ inbox = <<>> /\ waited' = waited + 1
  BY DEF Tick
<1>2. /\ sinceReceive \in Nat /\ sincePing \in Nat /\ waited \in Nat
      /\ asked \in Int /\ asked >= -1 /\ PingEvery \in Nat /\ Idle \in Nat /\ ReceiveTimeout \in Nat
  BY TwitchAssumption DEF TypeInv, TypeOK
<1>3. sinceReceive' <= sinceReceive + 1
  BY <1>2 DEF Tick, Aged
<1>4. sincePing' = IF sincePing < PingEvery + 1 THEN sincePing + 1 ELSE sincePing
  BY DEF Tick, Aged
<1>5. asked' = IF asked >= 0 THEN asked + 1 ELSE asked
  BY DEF Tick
<1>6. sinceReceive' \in Nat
  BY <1>2, TwitchAssumption DEF Tick, Aged
<1>7. CASE asked = -1
  <2>1. sinceReceive <= PingEvery + waited /\ (sincePing <= PingEvery => sinceReceive <= sincePing)
    BY <1>1, <1>7 DEF QuietInv
  <2>2. asked' = -1
    BY <1>5, <1>7
  <2>3. sinceReceive' <= PingEvery + waited'
    BY <2>1, <1>1, <1>2, <1>3, <1>6
  <2>4. sincePing' <= PingEvery => sinceReceive' <= sincePing'
    BY <2>1, <1>2, <1>3, <1>4, <1>6
  <2> QED BY <2>2, <2>3, <2>4 DEF QuietInv
<1>8. CASE asked >= 0
  <2>1. sinceReceive <= PingEvery + ReceiveTimeout + asked
    BY <1>1, <1>8 DEF QuietInv
  <2>2. asked' = asked + 1 /\ asked' # -1
    BY <1>2, <1>5, <1>8
  <2>3. sinceReceive' <= PingEvery + ReceiveTimeout + asked'
    BY <2>1, <2>2, <1>2, <1>3, <1>6
  <2> QED BY <2>2, <2>3 DEF QuietInv
<1> QED BY <1>2, <1>7, <1>8

\* A receive that times out on a living connection sends a PING if one is due,
\* and finds the watchdog's time not up.
LEMMA QuietTimeout ==
  TypeInv /\ QuietInv /\ ReceiveTimesOut => QuietInv' /\ (pc' = "lost" => link # "up")
<1> SUFFICES ASSUME TypeInv, QuietInv, ReceiveTimesOut, link = "up"
             PROVE  QuietInv' /\ pc' # "lost"
  <2>1. CASE link # "up"
    BY <2>1 DEF ReceiveTimesOut, QuietInv
  <2> QED BY <2>1
<1> USE TwitchAssumption, TimelyAnswer
<1>1. PICK ok \in BOOLEAN : Keepalive(ok) /\ pc' = IF ok /\ ~Expired THEN "recv" ELSE "lost"
  BY DEF ReceiveTimesOut
<1>2. /\ pc = "recv" /\ inbox = <<>> /\ waited = ReceiveTimeout /\ waited' = 0
      /\ ~woken /\ sinceReceive' = sinceReceive
  BY DEF ReceiveTimesOut
<1>3. /\ sinceReceive \in Nat /\ sincePing \in Nat
      /\ asked \in Int /\ asked >= -1 /\ asked <= Answer
  BY DEF TypeInv, TypeOK
<1>4. ok = TRUE
  BY <1>1, <1>2 DEF Keepalive, Sends
<1>5. /\ asked = -1 => sinceReceive <= PingEvery + ReceiveTimeout
      /\ asked = -1 /\ sincePing <= PingEvery => sinceReceive <= sincePing
      /\ asked >= 0 => sinceReceive <= PingEvery + ReceiveTimeout + asked
  BY <1>2 DEF QuietInv
<1>6. sinceReceive <= PingEvery + ReceiveTimeout + Answer
  BY <1>3, <1>5
<1>7. ~Expired
  BY <1>3, <1>6 DEF Expired
<1>8. pc' = "recv"
  BY <1>1, <1>4, <1>7
<1>9. CASE KeepaliveDue
  <2>1. sincePing' = 0 /\ asked' = (IF asked < 0 THEN 0 ELSE asked)
    BY <1>1, <1>4, <1>9 DEF Keepalive
  <2>2. asked' >= 0 /\ asked' # -1 /\ sinceReceive' <= PingEvery + ReceiveTimeout + asked'
    BY <2>1, <1>2, <1>3, <1>5
  <2> QED BY <1>8, <2>2 DEF QuietInv
<1>10. CASE ~KeepaliveDue
  <2>1. sincePing' = sincePing /\ asked' = asked /\ sincePing <= PingEvery
    BY <1>1, <1>3, <1>4, <1>10 DEF Keepalive, KeepaliveDue
  <2>2. CASE asked = -1
    <3>1. sinceReceive' <= PingEvery + waited' /\ sinceReceive' <= sincePing'
      BY <2>1, <2>2, <1>2, <1>3, <1>5
    <3> QED BY <1>8, <2>1, <2>2, <3>1 DEF QuietInv
  <2>3. CASE asked >= 0
    <3>1. asked' # -1 /\ sinceReceive' <= PingEvery + ReceiveTimeout + asked'
      BY <2>1, <2>3, <1>2, <1>3, <1>5
    <3> QED BY <1>8, <3>1 DEF QuietInv
  <2> QED BY <2>2, <2>3, <1>3
<1> QED BY <1>8, <1>9, <1>10

LEMMA QuietNext == TypeInv /\ QuietInv /\ [Next]_vars => QuietInv'
<1> SUFFICES ASSUME TypeInv, QuietInv, [Next]_vars PROVE QuietInv'
  OBVIOUS
<1>1. CASE Tick BY <1>1, QuietTick
<1>2. CASE ReceiveTimesOut BY <1>2, QuietTimeout
<1>3. CASE Deliver \/ AnswerPing
  <2>1. PICK line \in Line : inbox' = Append(inbox, line)
    BY <1>3 DEF Deliver, AnswerPing, Message, Control, Line
  <2>2. inbox' # <<>>
    BY <2>1, NotEmpty DEF TypeInv, TypeOK
  <2> QED BY <2>2 DEF QuietInv
<1>4. CASE Break
  BY <1>4 DEF Break, QuietInv
<1>5. CASE Join \/ ChunkEnds
  <2>1. sinceReceive' = 0 /\ waited' = 0
    BY <1>5 DEF Join, ChunkEnds
  <2>2. sincePing' \in Nat /\ asked' \in Int /\ asked' >= -1
    BY <1>5, TypeNext DEF TypeInv, TypeOK
  <2>3. PingEvery \in Nat /\ ReceiveTimeout \in Nat
    BY TwitchAssumption
  <2>4. sinceReceive' <= PingEvery + waited' /\ sinceReceive' <= sincePing'
    BY <2>1, <2>2, <2>3
  <2>5. ASSUME asked' >= 0 PROVE sinceReceive' <= PingEvery + ReceiveTimeout + asked'
    <3>1. PingEvery + ReceiveTimeout \in Nat /\ asked' \in Nat
      BY <2>2, <2>3, <2>5
    <3>2. PingEvery + ReceiveTimeout + asked' >= 0
      BY <3>1
    <3> QED BY <2>1, <3>2
  <2> QED BY <2>4, <2>5 DEF QuietInv
<1>6. CASE ~(Tick \/ ReceiveTimesOut \/ Deliver \/ AnswerPing \/ Break \/ Join \/ ChunkEnds)
  <2>1. pc' # "recv" \/ UNCHANGED <<pc, link, inbox, asked, timeVars>>
    BY <1>6 DEF Next, Provider, ReceivePartial, Reader, Lookup, LookupFails, Connect, ConnectStopped,
       ConnectFails, Retry, Own, CheckStopped, JoinFails, Receive, ReceiveFails, PassOver,
       ItemStopped, ReconnectRequested, ReadItem, CloseIdle, Finish, Forget, Lost, Resume, RequestStop,
       Done, vars, linkVars, timeVars
  <2> QED BY <2>1 DEF QuietInv, timeVars
<1> QED BY <1>1, <1>2, <1>3, <1>4, <1>5, <1>6

\* For any intervals with PingEvery + ReceiveTimeout + Answer < Idle, a receive that
\* gets nothing gives a connection up only if it is dead, reset or was asked to stop.
THEOREM WatchdogSparesTheLiving == Spec => IdleMeansDead
<1>1. Init => QuietInv
  BY DEF Init, QuietInv
<1>2. TypeInv /\ QuietInv /\ [Next]_vars => QuietInv'
  BY QuietNext
<1>3. TypeInv /\ QuietInv /\ [Next]_vars
      => [pc = "recv" /\ pc' = "lost" /\ lines' = lines => woken \/ link # "up"]_vars
  <2> SUFFICES ASSUME TypeInv, QuietInv, Next, pc = "recv", pc' = "lost", lines' = lines
               PROVE  woken \/ link # "up"
    OBVIOUS
  <2>0. ~ReceivePartial
    BY DEF ReceivePartial, TypeInv, TypeOK
  <2>1. Receive \/ ReceiveFails \/ ReceiveTimesOut
    BY <2>0 DEF Next, Provider, Tick, Deliver, AnswerPing, Break, Reader, Lookup, LookupFails, Connect,
       ConnectStopped, ConnectFails, Own, CheckStopped, Join, JoinFails, ChunkEnds, PassOver,
       ItemStopped, ReconnectRequested, ReadItem, CloseIdle, Lost, Resume, RequestStop, Done,
       vars, Ended
  <2>2. CASE Receive
    BY <2>2 DEF Receive, Sends
  <2>3. CASE ReceiveFails
    BY <2>3 DEF ReceiveFails
  <2>4. CASE ReceiveTimesOut
    BY <2>4, QuietTimeout
  <2> QED BY <2>1, <2>2, <2>3, <2>4
<1> QED BY <1>1, <1>2, <1>3, TypeInvariant, PTL DEF Spec, IdleMeansDead

-----------------------------------------------------------------------------
(* IrcBuffer: what Twitch sends.                                           *)

Kinds == {"message", "ping"}
Parts == {"start", "match", "rest", "ping", "cr", "lf"}
SentPieces == [line : Nat \ {0}, kind : Kinds, part : Parts]
Follows(p, q) ==
    IF p.part = "lf" THEN q.line = p.line + 1 /\ q.part = First[q.kind]
    ELSE q = [p EXCEPT !.part = Following[@]]
StreamInv ==
    /\ stream \in Seq(SentPieces)
    /\ stream # <<>> => stream[1].part = First[stream[1].kind]
    /\ \A k \in DOMAIN stream : /\ stream[k].part \in {"start", "match", "rest"} => stream[k].kind = "message"
                                /\ stream[k].part = "ping" => stream[k].kind = "ping"
                                /\ k < Len(stream) => Follows(stream[k], stream[k + 1])
    /\ \A j, k \in DOMAIN stream : j < k =>
         /\ stream[j].line <= stream[k].line
         /\ stream[k].part = First[stream[k].kind] => stream[j].line < stream[k].line
CountInv ==
    /\ received \in 0..Len(stream)
    /\ frame = IF received = 0 THEN NoFrame
               ELSE [prefix |-> IF stream[received].part = "lf" THEN "" ELSE First[stream[received].kind],
                     cr |-> stream[received].part = "cr"]
    /\ pongs = Cardinality(Ends("ping"))
MessageStarts(b, e) == {p \in (b + 1)..e : stream[p].part = "start"}
BufferInv ==
    \E b \in 0..received :
      /\ readbuffer = SubSeq(stream, b + 1, received)
      /\ \A k \in DOMAIN parsed : /\ parsed[k].whole
                                  /\ \E p \in MessageStarts(0, b) : p + 4 <= received /\ parsed[k].line = stream[p].line
      /\ \A j, k \in DOMAIN parsed : j < k => parsed[j].line < parsed[k].line
      /\ ~drained => \A p \in MessageStarts(0, b) : stream[p].line \in LinesParsed
      /\ \A p \in MessageStarts(b, received) : received < p + 4

LEMMA PartsMean ==
    /\ DOMAIN First = Kinds /\ First["message"] = "start" /\ First["ping"] = "ping"
    /\ Following["start"] = "match" /\ Following["match"] = "rest" /\ Following["rest"] = "cr"
    /\ Following["ping"] = "cr" /\ Following["cr"] = "lf"
  BY DEF First, Following, Kinds

\* What follows a piece.
LEMMA FollowingMeans ==
    ASSUME NEW p \in SentPieces, NEW q \in SentPieces, Follows(p, q)
    PROVE  /\ p.part = "start" => q.part = "match"
           /\ p.part = "match" => q.part = "rest"
           /\ p.part = "rest" => q.part = "cr"
           /\ p.part = "ping" => q.part = "cr"
           /\ p.part = "cr" => q.part = "lf"
           /\ p.part = "lf" => q.line = p.line + 1 /\ q.part = First[q.kind]
           /\ p.part # "lf" => q.line = p.line /\ q.kind = p.kind /\ q.part \notin {"start", "ping"}
<1>1. CASE p.part = "lf"
  BY <1>1 DEF Follows, SentPieces
<1>2. CASE p.part # "lf"
  <2>1. q = [p EXCEPT !.part = Following[p.part]]
    BY <1>2 DEF Follows
  <2>2. q.line = p.line /\ q.kind = p.kind /\ q.part = Following[p.part]
    BY <2>1 DEF SentPieces
  <2>3. p.part \in {"start", "match", "rest", "ping", "cr"}
    BY <1>2 DEF SentPieces, Parts
  <2> QED BY <1>2, <2>2, <2>3, PartsMean
<1> QED BY <1>1, <1>2

LEMMA StreamTyped ==
    ASSUME StreamInv
    PROVE  /\ Len(stream) \in Nat /\ DOMAIN stream = 1..Len(stream)
           /\ \A k \in DOMAIN stream :
                /\ stream[k] \in SentPieces /\ stream[k].line \in Nat /\ stream[k].line >= 1
                /\ stream[k].kind \in Kinds /\ stream[k].part \in Parts
                /\ stream[k].part = First[stream[k].kind] <=> stream[k].part \in {"start", "ping"}
<1>1. stream \in Seq(SentPieces)
  BY DEF StreamInv
<1>2. ASSUME NEW k \in DOMAIN stream
      PROVE  /\ stream[k] \in SentPieces /\ stream[k].line \in Nat /\ stream[k].line >= 1
             /\ stream[k].kind \in Kinds /\ stream[k].part \in Parts
  <2>1. stream[k] \in SentPieces
    BY <1>1
  <2>2. /\ stream[k].line \in Nat \ {0} /\ stream[k].kind \in Kinds /\ stream[k].part \in Parts
    BY <2>1 DEF SentPieces
  <2> QED BY <2>1, <2>2
<1>3. ASSUME NEW k \in DOMAIN stream PROVE stream[k].part = First[stream[k].kind] <=> stream[k].part \in {"start", "ping"}
  <2>1. /\ stream[k].part = "start" => stream[k].kind = "message"
        /\ stream[k].part = "ping" => stream[k].kind = "ping"
        /\ stream[k].kind \in {"message", "ping"}
    BY <1>2 DEF StreamInv, Kinds
  <2> QED BY <2>1, PartsMean
<1> QED BY <1>1, <1>2, <1>3

LEMMA Neighbours ==
    ASSUME StreamInv, NEW k \in DOMAIN stream, k < Len(stream)
    PROVE  /\ k + 1 \in DOMAIN stream
           /\ stream[k].part = "start" => stream[k + 1].part = "match"
           /\ stream[k].part = "match" => stream[k + 1].part = "rest"
           /\ stream[k].part = "rest" => stream[k + 1].part = "cr"
           /\ stream[k].part = "ping" => stream[k + 1].part = "cr"
           /\ stream[k].part = "cr" => stream[k + 1].part = "lf"
           /\ stream[k].part = "lf" => stream[k + 1].part \in {"start", "ping"}
           /\ stream[k].part # "lf" =>
                /\ stream[k + 1].line = stream[k].line /\ stream[k + 1].kind = stream[k].kind
                /\ stream[k + 1].part \notin {"start", "ping"}
<1>1. k + 1 \in DOMAIN stream
  BY StreamTyped
<1>2. stream[k] \in SentPieces /\ stream[k + 1] \in SentPieces
  BY <1>1, StreamTyped
<1>3. Follows(stream[k], stream[k + 1])
  BY DEF StreamInv
<1>4. stream[k + 1].part = First[stream[k + 1].kind] <=> stream[k + 1].part \in {"start", "ping"}
  BY <1>1, StreamTyped
<1> HIDE DEF StreamInv
<1> QED BY <1>1, <1>2, <1>3, <1>4, FollowingMeans

LEMMA SentStays ==
    ASSUME StreamInv, Send
    PROVE  /\ StreamInv'
           /\ DOMAIN stream \subseteq DOMAIN stream' /\ Len(stream') = Len(stream) + 1
           /\ \A k \in DOMAIN stream : stream'[k] = stream[k]
<1> DEFINE n == Len(stream)
           new == stream'[n + 1]
<1>1. stream \in Seq(SentPieces) /\ n \in Nat /\ DOMAIN stream = 1..n
  BY StreamTyped DEF StreamInv
<1>2. stream # <<>> => n >= 1 /\ n \in DOMAIN stream /\ Last(stream) = stream[n] /\ stream[n] \in SentPieces
  BY <1>1 DEF Last
<1>3. PICK x \in SentPieces :
        /\ stream' = Append(stream, x)
        /\ x.part \in {"start", "match", "rest"} => x.kind = "message"
        /\ x.part = "ping" => x.kind = "ping"
        /\ stream = <<>> => x.part = First[x.kind]
        /\ stream # <<>> => Follows(stream[n], x)
  <2>1. CASE AtLineStart /\ \E kind \in DOMAIN First : stream' = Append(stream, Piece(LineSent + 1, kind, First[kind]))
    <3>1. PICK kind \in Kinds : stream' = Append(stream, Piece(LineSent + 1, kind, First[kind]))
      BY <2>1, PartsMean
    <3> DEFINE x == Piece(LineSent + 1, kind, First[kind])
    <3>2. LineSent \in Nat /\ (stream # <<>> => LineSent = stream[n].line)
      BY <1>2 DEF LineSent, SentPieces
    <3>3. First[kind] = (IF kind = "message" THEN "start" ELSE "ping") /\ kind \in {"message", "ping"}
      BY PartsMean DEF Kinds
    <3>4. x.line = LineSent + 1 /\ x.kind = kind /\ x.part = First[kind]
      BY DEF Piece
    <3>5. x \in SentPieces
      BY <3>2, <3>3 DEF Piece, SentPieces, Kinds, Parts
    <3>6. stream # <<>> => Follows(stream[n], x)
      BY <1>2, <2>1, <3>2, <3>4 DEF AtLineStart, Follows
    <3>7. stream' = Append(stream, x)
      BY <3>1
    <3> HIDE DEF x
    <3> QED BY <3>3, <3>4, <3>5, <3>6, <3>7
  <2>2. CASE ~AtLineStart /\ stream' = Append(stream, [Last(stream) EXCEPT !.part = Following[@]])
    <3>1. stream # <<>> /\ stream[n].part # "lf"
      BY <1>2, <2>2 DEF AtLineStart
    <3>2. stream[n].part \in {"start", "match", "rest", "ping", "cr"} /\ stream[n] \in SentPieces /\ n \in DOMAIN stream
      BY <1>2, <3>1 DEF SentPieces, Parts
    <3> DEFINE x == [stream[n] EXCEPT !.part = Following[stream[n].part]]
    <3>3. stream' = Append(stream, x)
      BY <1>2, <2>2, <3>1
    <3>4. x.part = Following[stream[n].part] /\ x.kind = stream[n].kind /\ x.part \in Parts
      BY <3>2, PartsMean DEF SentPieces, Parts
    <3>5. x \in SentPieces
      BY <3>2, <3>4 DEF SentPieces
    <3>6. Follows(stream[n], x)
      BY <3>1 DEF Follows
    <3>7. /\ x.part \in {"start", "match", "rest"} => x.kind = "message"
          /\ x.part = "ping" => x.kind = "ping"
      <4>1. stream[n].part \in {"start", "match", "rest"} => stream[n].kind = "message"
        BY <3>2 DEF StreamInv
      <4> QED BY <3>2, <3>4, <4>1, PartsMean
    <3> HIDE DEF x
    <3> QED BY <3>1, <3>3, <3>5, <3>6, <3>7
  <2> QED BY <2>1, <2>2 DEF Send
<1>4. /\ stream' \in Seq(SentPieces) /\ Len(stream') = n + 1 /\ DOMAIN stream' = 1..(n + 1) /\ stream'[n + 1] = x
      /\ \A k \in 1..n : stream'[k] = stream[k]
  BY <1>1, <1>3
<1>5. stream' # <<>> => stream'[1].part = First[stream'[1].kind]
  <2>1. CASE stream = <<>>
    BY <1>3, <1>4, <2>1
  <2>2. CASE stream # <<>>
    BY <1>1, <1>2, <1>4, <2>2 DEF StreamInv
  <2> QED BY <2>1, <2>2
<1>6. ASSUME NEW k \in DOMAIN stream'
      PROVE  /\ stream'[k].part \in {"start", "match", "rest"} => stream'[k].kind = "message"
             /\ stream'[k].part = "ping" => stream'[k].kind = "ping"
             /\ k < Len(stream') => Follows(stream'[k], stream'[k + 1])
  <2>1. CASE k \in 1..(n - 1)
    BY <1>1, <1>4, <2>1 DEF StreamInv
  <2>2. CASE k = n /\ n >= 1
    <3>1. stream # <<>> /\ n \in DOMAIN stream /\ stream'[n] = stream[n]
      BY <1>1, <1>4, <2>2
    <3> QED BY <1>3, <1>4, <2>2, <3>1 DEF StreamInv
  <2>3. CASE k = n + 1
    BY <1>1, <1>3, <1>4, <2>3
  <2> QED BY <1>1, <1>4, <2>1, <2>2, <2>3
<1>7. ASSUME NEW j \in DOMAIN stream', NEW k \in DOMAIN stream', j < k
      PROVE  /\ stream'[j].line <= stream'[k].line
             /\ stream'[k].part = First[stream'[k].kind] => stream'[j].line < stream'[k].line
  <2>1. CASE k \in 1..n
    BY <1>1, <1>4, <1>7, <2>1 DEF StreamInv
  <2>2. CASE k = n + 1
    <3>1. j \in 1..n /\ n \in DOMAIN stream /\ stream # <<>> /\ j \in DOMAIN stream
      BY <1>1, <1>4, <1>7, <2>2
    <3>2. stream[j].line <= stream[n].line /\ stream[j].line \in Nat /\ stream[n].line \in Nat
      <4>1. stream[j].line \in Nat /\ stream[n].line \in Nat
        BY <3>1, StreamTyped
      <4>2. CASE j = n
        BY <4>1, <4>2
      <4>3. CASE j < n
        BY <3>1, <4>1, <4>3 DEF StreamInv
      <4> QED BY <1>1, <3>1, <4>1, <4>2, <4>3
    <3>3. stream[n] \in SentPieces /\ Follows(stream[n], x)
      BY <1>2, <1>3, <3>1
    <3>4. CASE stream[n].part = "lf"
      <4>1. x.line = stream[n].line + 1
        BY <3>3, <3>4, FollowingMeans
      <4> QED BY <1>4, <2>2, <3>1, <3>2, <4>1
    <3>5. CASE stream[n].part # "lf"
      <4>1. x.line = stream[n].line /\ x.part \notin {"start", "ping"} /\ x.kind \in {"message", "ping"}
        BY <3>3, <3>5, FollowingMeans DEF SentPieces, Kinds
      <4>2. x.part # First[x.kind]
        BY <4>1, PartsMean
      <4> QED BY <1>4, <2>2, <3>1, <3>2, <4>1, <4>2
    <3> QED BY <3>4, <3>5
  <2> QED BY <1>1, <1>4, <2>1, <2>2
<1>8. StreamInv'
  BY <1>4, <1>5, <1>6, <1>7 DEF StreamInv
<1> QED BY <1>1, <1>4, <1>8

-----------------------------------------------------------------------------
(* The PING counter.                                                       *)

FrameStates == [prefix : Parts \cup {""}, cr : BOOLEAN]
Counts == [frame : FrameStates, pings : Nat]
PrefixAt(m) == IF m = 0 \/ stream[m].part = "lf" THEN "" ELSE First[stream[m].kind]
FrameAt(m) == [prefix |-> PrefixAt(m), cr |-> m # 0 /\ stream[m].part = "cr"]
EndsTo(kind, m) == {k \in 1..m : stream[k].kind = kind /\ stream[k].part = "lf"}

LEMMA RecordTyped == \A a \in Counts, x \in SentPieces : Record(a, x) \in Counts
<1> SUFFICES ASSUME NEW a \in Counts, NEW x \in SentPieces PROVE Record(a, x) \in Counts
  OBVIOUS
<1>1. a.frame \in FrameStates /\ a.pings \in Nat /\ x.part \in Parts
  BY DEF Counts, SentPieces
<1>2. a.frame.prefix \in Parts \cup {""}
  BY <1>1 DEF FrameStates
<1>3. NoFrame \in FrameStates
  BY DEF NoFrame, FrameStates
<1>4. CASE x.part = "lf" /\ a.frame.cr
  <2> DEFINE one == IF a.frame.prefix = "ping" THEN 1 ELSE 0
  <2>1. one \in {0, 1}
    OBVIOUS
  <2>2. Record(a, x) = [frame |-> NoFrame, pings |-> a.pings + one]
    BY <1>4, Zenon DEF Record
  <2> HIDE DEF one
  <2>3. a.pings + one \in Nat
    BY <1>1, <2>1
  <2> QED BY <1>3, <2>2, <2>3 DEF Counts
<1>5. CASE ~(x.part = "lf" /\ a.frame.cr)
  <2>1. [prefix |-> IF a.frame.prefix = "" THEN x.part ELSE a.frame.prefix, cr |-> x.part = "cr"]
          \in FrameStates
    BY <1>1, <1>2 DEF FrameStates
  <2> DEFINE next == [prefix |-> IF a.frame.prefix = "" THEN x.part ELSE a.frame.prefix, cr |-> x.part = "cr"]
  <2>2. Record(a, x) = [frame |-> next, pings |-> a.pings]
    BY <1>5, Zenon DEF Record
  <2>3. next \in FrameStates
    BY <2>1
  <2> HIDE DEF next
  <2> QED BY <1>1, <2>2, <2>3 DEF Counts
<1> QED BY <1>4, <1>5

LEMMA RecordedOneByOne ==
    ASSUME NEW s \in Seq(SentPieces), NEW before \in FrameStates
    PROVE  \E F : /\ F[0] = [frame |-> before, pings |-> 0]
                  /\ \A k \in 1..Len(s) : F[k] = Record(F[k - 1], s[k])
                  /\ RecordReceivedData(before, s) = F[Len(s)]
<1> DEFINE n == Len(s)
           base == [frame |-> before, pings |-> 0]
           Step == [p \in Counts \X SentPieces |-> Record(p[1], p[2])]
           G == CHOOSE f : f = [t \in SUBSET (1..n) |->
                                  IF t = {} THEN base ELSE Record(f[t \ {Max(t)}], s[Max(t)])]
           F == [k \in 0..n |-> G[1..k]]
<1>1. n \in Nat /\ DOMAIN s = 1..n /\ n \in 0..n /\ \A k \in 1..n : s[k] \in SentPieces
  <2>1. n \in Nat /\ DOMAIN s = 1..n
    OBVIOUS
  <2>2. \A k \in 1..n : s[k] \in SentPieces
    OBVIOUS
  <2> QED BY <2>1, <2>2
<1>2. RecordReceivedData(before, s) = G[1..n]
  BY <1>1 DEF RecordReceivedData, FoldLeft, MapThenFoldSet
<1>3. base \in Counts
  BY DEF Counts
<1>4. Step \in [Counts \X SentPieces -> Counts]
  BY RecordTyped
<1>5. PICK f : Iterates(f, Counts, base, s, Step)
  <2> HIDE DEF Step, G, F, base
  <2> QED BY <1>3, <1>4, IterationExists
<1>6. f = [t \in SUBSET (1..n) |-> IF t = {} THEN base ELSE Record(f[t \ {Max(t)}], s[Max(t)])]
  <2> HIDE DEF base
  <2>1. ASSUME NEW t \in SUBSET (1..n), t # {}
        PROVE  Step[<<f[t \ {Max(t)}], s[Max(t)]>>] = Record(f[t \ {Max(t)}], s[Max(t)])
    <3>1. Max(t) \in 1..n /\ t \ {Max(t)} \in SUBSET (1..n)
      <4> HIDE DEF n, G, F
      <4> QED BY <1>1, <2>1, MaxAmong
    <3>2. s[Max(t)] \in SentPieces /\ f[t \ {Max(t)}] \in Counts
      BY <1>1, <1>5, <3>1 DEF Iterates
    <3> QED BY <3>2
  <2> HIDE DEF Step
  <2> QED BY <1>5, <2>1 DEF Iterates
<1>7. G = [t \in SUBSET (1..n) |-> IF t = {} THEN base ELSE Record(G[t \ {Max(t)}], s[Max(t)])]
  BY <1>6
<1> HIDE DEF G
<1>8. F[0] = base
  <2>1. 1..0 = {} /\ {} \in SUBSET (1..n) /\ 0 \in 0..n
    BY <1>1
  <2>2. F[0] = G[{}]
    BY <2>1
  <2> HIDE DEF base, F
  <2> QED BY <1>7, <2>1, <2>2
<1>9. ASSUME NEW k \in 1..n PROVE F[k] = Record(F[k - 1], s[k])
  <2>1. 1..k \in SUBSET (1..n) /\ 1..k # {} /\ (1..k) \ {k} = 1..(k - 1) /\ Max(1..k) = k
    BY <1>1, Peeled
  <2>2. k \in 0..n /\ k - 1 \in 0..n
    BY <1>1
  <2>3. F[k] = G[1..k] /\ F[k - 1] = G[1..(k - 1)]
    BY <2>2
  <2> HIDE DEF base, F
  <2> QED BY <1>7, <2>1, <2>3, Zenon
<1> QED BY <1>1, <1>2, <1>8, <1>9 DEF F

\* A line's end is preceded by its CR.
LEMMA Before ==
    ASSUME StreamInv, NEW m \in Nat, m + 1 \in DOMAIN stream
    PROVE  /\ m = 0 => stream[m + 1].part \in {"start", "ping"}
           /\ m > 0 => /\ m \in DOMAIN stream
                       /\ stream[m + 1].part = "lf" <=> stream[m].part = "cr"
                       /\ stream[m].part = "lf" <=> stream[m + 1].part \in {"start", "ping"}
                       /\ stream[m].part # "lf" => stream[m + 1].kind = stream[m].kind
<1>1. m = 0 => stream[m + 1].part \in {"start", "ping"}
  <2> SUFFICES ASSUME m = 0 PROVE stream[1].part \in {"start", "ping"}
    OBVIOUS
  <2>1. 1 \in DOMAIN stream /\ stream # <<>>
    BY StreamTyped
  <2>2. stream[1].part = First[stream[1].kind]
    BY <2>1 DEF StreamInv
  <2> QED BY <2>1, <2>2, StreamTyped
<1>2. ASSUME m > 0
      PROVE  /\ m \in DOMAIN stream
             /\ stream[m + 1].part = "lf" <=> stream[m].part = "cr"
             /\ stream[m].part = "lf" <=> stream[m + 1].part \in {"start", "ping"}
             /\ stream[m].part # "lf" => stream[m + 1].kind = stream[m].kind
  <2>1. m \in DOMAIN stream /\ m < Len(stream)
    BY <1>2, StreamTyped
  <2>2. stream[m].part \in {"start", "match", "rest", "ping", "cr", "lf"}
    BY <2>1, StreamTyped DEF Parts
  <2> QED BY <2>1, <2>2, Neighbours
<1> QED BY <1>1, <1>2

LEMMA EndsGrow ==
    ASSUME NEW m \in Nat, NEW kind
    PROVE  /\ IsFiniteSet(EndsTo(kind, m)) /\ Cardinality(EndsTo(kind, m)) \in Nat
           /\ Cardinality(EndsTo(kind, m + 1)) =
                Cardinality(EndsTo(kind, m)) + (IF stream[m + 1].kind = kind /\ stream[m + 1].part = "lf" THEN 1 ELSE 0)
<1>1. IsFiniteSet(1..m)
  BY FS_Interval
<1>2. IsFiniteSet(EndsTo(kind, m))
  BY <1>1, FS_Subset DEF EndsTo
<1>3. Cardinality(EndsTo(kind, m)) \in Nat
  BY <1>2, FS_CardinalityType
<1>4. CASE stream[m + 1].kind = kind /\ stream[m + 1].part = "lf"
  <2>1. EndsTo(kind, m + 1) = EndsTo(kind, m) \cup {m + 1} /\ m + 1 \notin EndsTo(kind, m)
    BY <1>4 DEF EndsTo
  <2>2. Cardinality(EndsTo(kind, m) \cup {m + 1}) = Cardinality(EndsTo(kind, m)) + 1
    BY <1>2, <2>1, FS_AddElement
  <2> QED BY <1>2, <1>3, <1>4, <2>1, <2>2
<1>5. CASE ~(stream[m + 1].kind = kind /\ stream[m + 1].part = "lf")
  <2>1. EndsTo(kind, m + 1) = EndsTo(kind, m)
    BY <1>5 DEF EndsTo
  <2> QED BY <1>2, <1>3, <1>5, <2>1
<1> QED BY <1>4, <1>5

\* One more piece is received.
LEMMA RecordMeans ==
    ASSUME StreamInv, NEW m \in Nat, m + 1 \in DOMAIN stream, NEW c \in Nat
    PROVE  Record([frame |-> FrameAt(m), pings |-> c], stream[m + 1]) =
             [frame |-> FrameAt(m + 1),
              pings |-> c + (IF stream[m + 1].kind = "ping" /\ stream[m + 1].part = "lf" THEN 1 ELSE 0)]
<1> DEFINE x == stream[m + 1]
           count == [frame |-> FrameAt(m), pings |-> c]
<1>1. /\ count.frame.prefix = PrefixAt(m) /\ count.frame.cr = (m # 0 /\ stream[m].part = "cr") /\ count.pings = c
      /\ m + 1 # 0
  BY DEF FrameAt
<1>2. /\ x.part \in Parts /\ x.kind \in {"message", "ping"}
      /\ x.part \in {"start", "ping"} => x.part = First[x.kind]
  BY StreamTyped DEF Kinds
<1>3. CASE x.part = "lf"
  <2>1. m > 0 /\ stream[m].part = "cr" /\ m \in DOMAIN stream /\ stream[m].kind = x.kind
    BY <1>3, Before
  <2>2. PrefixAt(m) = First[x.kind]
    <3>1. m # 0 /\ stream[m].part # "lf"
      BY <2>1
    <3> QED BY <2>1, <3>1 DEF PrefixAt
  <2>3. PrefixAt(m) = "ping" <=> x.kind = "ping"
    BY <1>2, <2>2, PartsMean
  <2>4. FrameAt(m + 1) = NoFrame
    BY <1>1, <1>3 DEF FrameAt, PrefixAt, NoFrame
  <2>5. Record(count, x) = [frame |-> NoFrame, pings |-> count.pings + (IF count.frame.prefix = "ping" THEN 1 ELSE 0)]
    <3>1. count.frame.cr
      <4>1. m # 0
        BY <2>1
      <4> QED BY <1>1, <2>1, <4>1, Zenon
    <3>2. x.part = "lf" /\ count.frame.cr
      BY <1>3, <3>1
    <3> HIDE DEF x, count
    <3> QED BY <3>2, Zenon DEF Record
  <2> HIDE DEF x, count
  <2> QED BY <1>1, <1>3, <2>3, <2>4, <2>5 DEF x, count
<1>4. CASE x.part # "lf"
  <2>1. Record(count, x) = [frame |-> [prefix |-> IF count.frame.prefix = "" THEN x.part ELSE count.frame.prefix,
                                       cr |-> x.part = "cr"],
                            pings |-> count.pings]
    BY <1>4 DEF Record
  <2>2. (IF PrefixAt(m) = "" THEN x.part ELSE PrefixAt(m)) = First[x.kind]
    <3>1. CASE m = 0 \/ stream[m].part = "lf"
      <4>1. PrefixAt(m) = ""
        BY <3>1 DEF PrefixAt
      <4>2. x.part \in {"start", "ping"}
        <5>1. CASE m = 0
          BY <5>1, Before
        <5>2. CASE m > 0
          BY <3>1, <5>2, Before
        <5>3. m = 0 \/ m > 0
          OBVIOUS
        <5> QED BY <5>1, <5>2, <5>3, Zenon
      <4> QED BY <1>2, <4>1, <4>2
    <3>2. CASE m > 0 /\ stream[m].part # "lf"
      <4>1. stream[m].kind = x.kind
        BY <3>2, Before
      <4>2. PrefixAt(m) = First[x.kind] /\ First[x.kind] # ""
        <5>1. m # 0
          BY <3>2
        <5>2. PrefixAt(m) = First[stream[m].kind]
          BY <3>2, <5>1, Zenon DEF PrefixAt
        <5>3. x.kind \in {"message", "ping"} => First[x.kind] # ""
          BY PartsMean
        <5> QED BY <1>2, <4>1, <5>2, <5>3, Zenon
      <4> QED BY <4>2
    <3> HIDE DEF x, count
    <3>3. m = 0 \/ m > 0
      OBVIOUS
    <3> QED BY <3>1, <3>2, <3>3
  <2>3. FrameAt(m + 1) = [prefix |-> First[x.kind], cr |-> x.part = "cr"]
    BY <1>1, <1>4 DEF FrameAt, PrefixAt
  <2> HIDE DEF x, count
  <2>4. Record(count, x) = [frame |-> [prefix |-> First[x.kind], cr |-> x.part = "cr"], pings |-> c]
    BY <1>1, <2>1, <2>2, Zenon
  <2>5. c + (IF x.kind = "ping" /\ x.part = "lf" THEN 1 ELSE 0) = c
    BY <1>4
  <2> QED BY <2>3, <2>4, <2>5, Zenon DEF x, count
<1> QED BY <1>3, <1>4

\* A chunk is received.
LEMMA RecordedMeans ==
    ASSUME StreamInv, NEW r \in Nat, NEW n \in Nat, r + n <= Len(stream)
    PROVE  LET counted == RecordReceivedData(FrameAt(r), SubSeq(stream, r + 1, r + n))
           IN  /\ counted.frame = FrameAt(r + n)
               /\ Cardinality(EndsTo("ping", r)) + counted.pings = Cardinality(EndsTo("ping", r + n))
<1> DEFINE s == SubSeq(stream, r + 1, r + n)
           had == Cardinality(EndsTo("ping", r))
           At(k) == [frame |-> FrameAt(r + k), pings |-> Cardinality(EndsTo("ping", r + k)) - had]
<1>1. s \in Seq(SentPieces) /\ Len(s) = n /\ \A k \in 1..n : s[k] = stream[r + k]
  <2>1. stream \in Seq(SentPieces) /\ Len(stream) \in Nat
    BY StreamTyped DEF StreamInv
  <2>2. r + 1 \in Nat /\ r + n \in Nat /\ 1 <= r + 1 /\ r + n <= Len(stream)
    OBVIOUS
  <2> QED BY <2>1, <2>2
<1>2. FrameAt(r) \in FrameStates
  <2>1. PrefixAt(r) \in Parts \cup {""}
    <3>1. CASE r = 0 \/ stream[r].part = "lf"
      BY <3>1 DEF PrefixAt
    <3>2. CASE r # 0 /\ stream[r].part # "lf"
      <4>1. r \in DOMAIN stream
        BY <3>2, StreamTyped
      <4>2. stream[r].kind \in {"message", "ping"}
        BY <4>1, StreamTyped DEF Kinds
      <4>3. PrefixAt(r) = First[stream[r].kind]
        BY <3>2, Zenon DEF PrefixAt
      <4> QED BY <4>2, <4>3, PartsMean DEF Parts
    <3> QED BY <3>1, <3>2, Zenon
  <2>2. (r # 0 /\ stream[r].part = "cr") \in BOOLEAN
    OBVIOUS
  <2> QED BY <2>1, <2>2 DEF FrameAt, FrameStates
<1>3. PICK F : /\ F[0] = [frame |-> FrameAt(r), pings |-> 0]
               /\ \A k \in 1..n : F[k] = Record(F[k - 1], s[k])
               /\ RecordReceivedData(FrameAt(r), s) = F[n]
  <2> HIDE DEF s
  <2> QED BY <1>1, <1>2, RecordedOneByOne
<1> HIDE DEF s
<1>4. ASSUME NEW k \in 0..n PROVE Cardinality(EndsTo("ping", r + k)) \in Nat
  <2>1. r + k \in Nat
    OBVIOUS
  <2> QED BY <2>1, EndsGrow
<1>5. had \in Nat /\ r + 0 = r
  <2>1. Cardinality(EndsTo("ping", r)) \in Nat
    BY EndsGrow
  <2>2. r + 0 = r
    OBVIOUS
  <2> QED BY <2>1, <2>2
<1> DEFINE T == {k \in 0..n : F[k] = At(k) /\ At(k).pings \in Nat}
<1>6. 0 \in T
  <2>1. At(0) = [frame |-> FrameAt(r), pings |-> 0]
    <3> HIDE DEF had
    <3>1. had - had = 0
      BY <1>5
    <3> QED BY <1>5, <3>1 DEF had
  <2> QED BY <1>3, <2>1
<1>7. ASSUME NEW k \in 0..(n - 1), k \in T PROVE k + 1 \in T
  <2>1. k + 1 \in 1..n /\ (k + 1) - 1 = k /\ k + 1 \in 0..n /\ r + k \in Nat /\ (r + k) + 1 = r + (k + 1)
    OBVIOUS
  <2>2. (r + k) + 1 \in DOMAIN stream
    BY <2>1, StreamTyped
  <2>3. F[k + 1] = Record(At(k), stream[(r + k) + 1])
    BY <1>1, <1>3, <1>7, <2>1
  <2> DEFINE c == Cardinality(EndsTo("ping", r + k)) - had
             one == IF stream[(r + k) + 1].kind = "ping" /\ stream[(r + k) + 1].part = "lf" THEN 1 ELSE 0
  <2>4. c \in Nat /\ At(k) = [frame |-> FrameAt(r + k), pings |-> c]
    BY <1>7
  <2>5. Record([frame |-> FrameAt(r + k), pings |-> c], stream[(r + k) + 1]) =
          [frame |-> FrameAt((r + k) + 1), pings |-> c + one]
    <3> HIDE DEF c
    <3> QED BY <2>1, <2>2, <2>4, RecordMeans
  <2>6. Cardinality(EndsTo("ping", (r + k) + 1)) = Cardinality(EndsTo("ping", r + k)) + one
    BY <2>1, EndsGrow
  <2>7. one \in {0, 1} /\ Cardinality(EndsTo("ping", r + k)) \in Nat
    BY <1>4, <2>1
  <2> HIDE DEF one, had
  <2>8. Cardinality(EndsTo("ping", (r + k) + 1)) - had = c + one /\ c + one \in Nat
    BY <1>5, <2>4, <2>6, <2>7
  <2>9. F[k + 1] = [frame |-> FrameAt((r + k) + 1), pings |-> Cardinality(EndsTo("ping", (r + k) + 1)) - had]
    <3> HIDE DEF c
    <3> QED BY <2>3, <2>4, <2>5, <2>8
  <2>10. F[k + 1] = At(k + 1) /\ At(k + 1).pings \in Nat
    BY <2>1, <2>8, <2>9
  <2> QED BY <2>1, <2>10
<1>8. n \in T
  <2> HIDE DEF T
  <2>1. n \in 0..n
    OBVIOUS
  <2> QED BY <1>6, <1>7, <2>1, NatInductTo
<1>9. F[n].frame = FrameAt(r + n) /\ F[n].pings = Cardinality(EndsTo("ping", r + n)) - had
  BY <1>8
<1>10. had + F[n].pings = Cardinality(EndsTo("ping", r + n))
  <2> DEFINE all == Cardinality(EndsTo("ping", r + n))
  <2>1. all \in Nat
    BY <1>4
  <2> HIDE DEF all, had
  <2> QED BY <1>5, <1>9, <2>1 DEF all
<1> QED BY <1>3, <1>9, <1>10 DEF s

-----------------------------------------------------------------------------
(* What is parsed from a buffer.                                           *)

ItemRecords == [line : Nat, whole : BOOLEAN]

\* The items come from the matches, each from one, in their order.
ComeFrom(matches, buffer, starts) ==
    /\ matches \in Seq(ItemRecords)
    /\ \A j \in DOMAIN matches : \E p \in starts : matches[j] = Item(buffer, p)
    /\ \A p \in starts : \E j \in DOMAIN matches : matches[j] = Item(buffer, p)
    /\ \A i, j \in DOMAIN matches :
         i < j => \E p, q \in starts : p < q /\ matches[i] = Item(buffer, p) /\ matches[j] = Item(buffer, q)

LEMMA ItemTyped ==
    ASSUME NEW buffer \in Seq(SentPieces), NEW i \in DOMAIN buffer
    PROVE  Item(buffer, i) \in ItemRecords
<1>1. buffer[i] \in SentPieces
  OBVIOUS
<1>2. buffer[i].line \in Nat
  BY <1>1 DEF SentPieces
<1>3. HasRest(buffer, i) \in BOOLEAN
  BY DEF HasRest
<1> QED BY <1>2, <1>3 DEF Item, ItemRecords

LEMMA ItemsOneByOne ==
    ASSUME NEW buffer \in Seq(SentPieces), NEW starts \in SUBSET DOMAIN buffer
    PROVE  \E F : /\ F[0] = <<>>
                  /\ \A k \in 1..Len(buffer) :
                       F[k] = IF k \in starts THEN Append(F[k - 1], Item(buffer, k)) ELSE F[k - 1]
                  /\ Items(buffer, starts) = F[Len(buffer)]
<1> DEFINE n == Len(buffer)
           D == Seq(ItemRecords)
           s == [i \in 1..n |-> i]
           New(found, i) == IF i \in starts THEN Append(found, Item(buffer, i)) ELSE found
           Step == [p \in D \X (1..n) |-> New(p[1], p[2])]
           G == CHOOSE f : f = [t \in SUBSET (1..n) |->
                                  IF t = {} THEN <<>> ELSE New(f[t \ {Max(t)}], s[Max(t)])]
           F == [k \in 0..n |-> G[1..k]]
<1>1. n \in Nat /\ DOMAIN buffer = 1..n
  OBVIOUS
<1>2. s \in Seq(1..n) /\ Len(s) = n /\ DOMAIN s = 1..n /\ \A k \in 1..n : s[k] = k
  <2>1. s \in [1..n -> 1..n]
    OBVIOUS
  <2> HIDE DEF n
  <2> QED BY <1>1, <2>1
<1>3. Items(buffer, starts) = G[1..n]
  BY <1>1, <1>2 DEF Items, FoldLeft, MapThenFoldSet
<1>4. <<>> \in D
  OBVIOUS
<1>5. Step \in [D \X (1..n) -> D]
  <2>1. ASSUME NEW found \in D, NEW i \in 1..n PROVE New(found, i) \in D
    <3>1. Item(buffer, i) \in ItemRecords
      BY <1>1, ItemTyped
    <3> QED BY <3>1
  <2> HIDE DEF New, D
  <2> QED BY <2>1
<1>6. PICK f : Iterates(f, D, <<>>, s, Step)
  <2> HIDE DEF Step, G, F, s, D
  <2> QED BY <1>2, <1>4, <1>5, IterationExists
<1>7. f = [t \in SUBSET (1..n) |-> IF t = {} THEN <<>> ELSE New(f[t \ {Max(t)}], s[Max(t)])]
  <2> HIDE DEF D, s, New, n
  <2>1. ASSUME NEW t \in SUBSET (1..n), t # {}
        PROVE  Step[<<f[t \ {Max(t)}], s[Max(t)]>>] = New(f[t \ {Max(t)}], s[Max(t)])
    <3>1. Max(t) \in 1..n /\ t \ {Max(t)} \in SUBSET (1..n)
      <4> HIDE DEF G, F, Step
      <4> QED BY <1>1, <2>1, MaxAmong
    <3>2. s[Max(t)] \in 1..n /\ f[t \ {Max(t)}] \in D
      BY <1>2, <1>6, <3>1 DEF Iterates
    <3> QED BY <3>2
  <2> HIDE DEF Step
  <2> QED BY <1>2, <1>6, <2>1 DEF Iterates
<1>8. G = [t \in SUBSET (1..n) |-> IF t = {} THEN <<>> ELSE New(G[t \ {Max(t)}], s[Max(t)])]
  BY <1>7
<1> HIDE DEF G
<1>9. F[0] = <<>>
  <2>1. 1..0 = {} /\ {} \in SUBSET (1..n) /\ 0 \in 0..n
    BY <1>1
  <2>2. F[0] = G[{}]
    BY <2>1
  <2> HIDE DEF F
  <2> QED BY <1>8, <2>1, <2>2
<1>10. ASSUME NEW k \in 1..n PROVE F[k] = New(F[k - 1], k)
  <2>1. 1..k \in SUBSET (1..n) /\ 1..k # {} /\ (1..k) \ {k} = 1..(k - 1) /\ Max(1..k) = k
    BY <1>1, Peeled
  <2>2. k \in 0..n /\ k - 1 \in 0..n
    BY <1>1
  <2>3. F[k] = G[1..k] /\ F[k - 1] = G[1..(k - 1)] /\ s[k] = k
    BY <2>2
  <2> HIDE DEF F, New, s
  <2>4. G[1..k] = New(G[(1..k) \ {k}], s[k])
    BY <1>8, <2>1
  <2> QED BY <2>1, <2>3, <2>4
<1>11. F[n] = G[1..n]
  BY <1>1
<1> HIDE DEF F
<1> QED BY <1>3, <1>9, <1>10, <1>11

LEMMA ItemsComeFrom ==
    ASSUME NEW buffer \in Seq(SentPieces), NEW starts \in SUBSET DOMAIN buffer
    PROVE  ComeFrom(Items(buffer, starts), buffer, starts)
<1> DEFINE n == Len(buffer)
<1>1. n \in Nat /\ DOMAIN buffer = 1..n
  OBVIOUS
<1>2. PICK F : /\ F[0] = <<>>
               /\ \A k \in 1..n : F[k] = IF k \in starts THEN Append(F[k - 1], Item(buffer, k)) ELSE F[k - 1]
               /\ Items(buffer, starts) = F[n]
  BY ItemsOneByOne
<1> DEFINE To(k) == {p \in starts : p <= k}
           T == {k \in 0..n : ComeFrom(F[k], buffer, To(k))}
<1>3. 0 \in T
  <2>1. To(0) = {}
    BY <1>1
  <2>2. <<>> \in Seq(ItemRecords) /\ DOMAIN <<>> = {}
    OBVIOUS
  <2>3. ComeFrom(F[0], buffer, To(0))
    BY <1>2, <2>1, <2>2 DEF ComeFrom
  <2>4. 0 \in 0..n
    BY <1>1
  <2> QED BY <2>3, <2>4
<1>4. ASSUME NEW k \in 0..(n - 1), k \in T PROVE k + 1 \in T
  <2>1. k \in Nat /\ k + 1 \in 1..n /\ (k + 1) - 1 = k /\ k + 1 \in 0..n
    BY <1>1
  <2>2. ComeFrom(F[k], buffer, To(k))
    BY <1>4
  <2>3. F[k + 1] = IF k + 1 \in starts THEN Append(F[k], Item(buffer, k + 1)) ELSE F[k]
    BY <1>2, <2>1
  <2>4. CASE k + 1 \notin starts
    <3>1. To(k + 1) = To(k)
      BY <1>1, <2>1, <2>4
    <3> HIDE DEF To
    <3>2. ComeFrom(F[k + 1], buffer, To(k + 1))
      BY <2>2, <2>3, <2>4, <3>1
    <3> QED BY <2>1, <3>2
  <2>5. CASE k + 1 \in starts
    <3> DEFINE old == F[k]
               x == Item(buffer, k + 1)
               new == F[k + 1]
               m == Len(old)
    <3>1. To(k + 1) = To(k) \cup {k + 1} /\ \A p \in To(k) : p < k + 1
      BY <1>1, <2>1, <2>5
    <3>2. new = Append(old, x)
      BY <2>3, <2>5
    <3>3. x \in ItemRecords
      BY <1>1, <2>1, ItemTyped
    <3> HIDE DEF To, x, old, new, n, T
    <3>4. /\ old \in Seq(ItemRecords)
          /\ \A j \in DOMAIN old : \E p \in To(k) : old[j] = Item(buffer, p)
          /\ \A p \in To(k) : \E j \in DOMAIN old : old[j] = Item(buffer, p)
          /\ \A i, j \in DOMAIN old :
               i < j => \E p, q \in To(k) : p < q /\ old[i] = Item(buffer, p) /\ old[j] = Item(buffer, q)
      BY <2>2 DEF ComeFrom, old
    <3>5. /\ new \in Seq(ItemRecords) /\ m \in Nat /\ DOMAIN old = 1..m /\ DOMAIN new = 1..(m + 1)
          /\ new[m + 1] = x /\ \A j \in 1..m : new[j] = old[j]
      BY <3>2, <3>3, <3>4
    <3> HIDE DEF m
    <3>6. \A j \in DOMAIN new : \E p \in To(k + 1) : new[j] = Item(buffer, p)
      <4> SUFFICES ASSUME NEW j \in DOMAIN new PROVE \E p \in To(k + 1) : new[j] = Item(buffer, p)
        OBVIOUS
      <4>1. CASE j \in 1..m
        BY <3>1, <3>4, <3>5, <4>1
      <4>2. CASE j = m + 1
        BY <3>1, <3>5, <4>2 DEF x
      <4> QED BY <3>5, <4>1, <4>2
    <3>7. \A p \in To(k + 1) : \E j \in DOMAIN new : new[j] = Item(buffer, p)
      <4> SUFFICES ASSUME NEW p \in To(k + 1) PROVE \E j \in DOMAIN new : new[j] = Item(buffer, p)
        OBVIOUS
      <4>1. CASE p \in To(k)
        <5>1. PICK j \in DOMAIN old : old[j] = Item(buffer, p)
          BY <3>4, <4>1
        <5>2. j \in DOMAIN new /\ new[j] = old[j]
          BY <3>5
        <5> QED BY <5>1, <5>2
      <4>2. CASE p = k + 1
        <5>1. m + 1 \in DOMAIN new
          BY <3>5
        <5> QED BY <3>5, <4>2, <5>1 DEF x
      <4> QED BY <3>1, <4>1, <4>2
    <3>8. ASSUME NEW i \in DOMAIN new, NEW j \in DOMAIN new, i < j
          PROVE  \E p, q \in To(k + 1) : p < q /\ new[i] = Item(buffer, p) /\ new[j] = Item(buffer, q)
      <4>1. CASE j \in 1..m
        <5>1. i \in 1..m
          BY <3>5, <3>8, <4>1
        <5>2. new[i] = old[i] /\ new[j] = old[j] /\ i \in DOMAIN old /\ j \in DOMAIN old
          BY <3>5, <4>1, <5>1
        <5> QED BY <3>1, <3>4, <3>8, <5>2
      <4>2. CASE j = m + 1
        <5>1. i \in 1..m
          BY <3>5, <3>8, <4>2
        <5>2. PICK p \in To(k) : new[i] = Item(buffer, p)
          BY <3>4, <3>5, <5>1
        <5>3. p < k + 1 /\ p \in To(k + 1) /\ k + 1 \in To(k + 1)
          BY <3>1
        <5>4. new[j] = Item(buffer, k + 1)
          BY <3>5, <4>2 DEF x
        <5> QED BY <5>2, <5>3, <5>4
      <4> QED BY <3>5, <4>1, <4>2
    <3>9. ComeFrom(new, buffer, To(k + 1))
      BY <3>5, <3>6, <3>7, <3>8 DEF ComeFrom
    <3> QED BY <2>1, <3>9 DEF T, new
  <2> QED BY <2>4, <2>5
<1>5. n \in T
  <2> HIDE DEF T
  <2>1. n \in 0..n
    BY <1>1
  <2> QED BY <1>1, <1>3, <1>4, <2>1, NatInductTo
<1>6. To(n) = starts
  BY <1>1
<1> HIDE DEF To
<1> QED BY <1>2, <1>5, <1>6

-----------------------------------------------------------------------------
(* A message in the stream.                                                *)

\* From its first piece on.
LEMMA MessageForward ==
    ASSUME StreamInv, NEW p \in DOMAIN stream, stream[p].part = "start"
    PROVE  /\ p > 1 => stream[p - 1].part = "lf"
           /\ p + 1 <= Len(stream) => stream[p + 1].part = "match" /\ stream[p + 1].line = stream[p].line
           /\ p + 2 <= Len(stream) => stream[p + 2].part = "rest" /\ stream[p + 2].line = stream[p].line
           /\ p + 3 <= Len(stream) => stream[p + 3].part = "cr" /\ stream[p + 3].line = stream[p].line
           /\ p + 4 <= Len(stream) => stream[p + 4].part = "lf" /\ stream[p + 4].line = stream[p].line
           /\ \A k \in 1..4 : p + k <= Len(stream) => stream[p + k].kind = stream[p].kind
<1> DEFINE n == Len(stream)
<1>0. n \in Nat /\ p \in Nat /\ p >= 1 /\ p <= n /\ DOMAIN stream = 1..n
  BY StreamTyped
<1>1. p > 1 => stream[p - 1].part = "lf"
  <2> SUFFICES ASSUME p > 1 PROVE stream[p - 1].part = "lf"
    OBVIOUS
  <2>1. p - 1 \in Nat /\ p - 1 > 0 /\ (p - 1) + 1 = p
    BY <1>0
  <2> QED BY <2>1, Before
<1> HIDE DEF n
<1>2. p + 1 <= n => stream[p + 1].part = "match" /\ stream[p + 1].line = stream[p].line /\ stream[p + 1].kind = stream[p].kind
  <2> SUFFICES ASSUME p + 1 <= n PROVE stream[p + 1].part = "match" /\ stream[p + 1].line = stream[p].line /\ stream[p + 1].kind = stream[p].kind
    OBVIOUS
  <2>1. p < Len(stream)
    BY <1>0 DEF n
  <2> QED BY <2>1, Neighbours
<1>3. p + 2 <= n => stream[p + 2].part = "rest" /\ stream[p + 2].line = stream[p].line /\ stream[p + 2].kind = stream[p].kind
  <2> SUFFICES ASSUME p + 2 <= n PROVE stream[p + 2].part = "rest" /\ stream[p + 2].line = stream[p].line /\ stream[p + 2].kind = stream[p].kind
    OBVIOUS
  <2>1. p + 1 \in DOMAIN stream /\ p + 1 < Len(stream) /\ (p + 1) + 1 = p + 2 /\ p + 1 <= n
    BY <1>0 DEF n
  <2> QED BY <1>2, <2>1, Neighbours
<1>4. p + 3 <= n => stream[p + 3].part = "cr" /\ stream[p + 3].line = stream[p].line /\ stream[p + 3].kind = stream[p].kind
  <2> SUFFICES ASSUME p + 3 <= n PROVE stream[p + 3].part = "cr" /\ stream[p + 3].line = stream[p].line /\ stream[p + 3].kind = stream[p].kind
    OBVIOUS
  <2>1. p + 2 \in DOMAIN stream /\ p + 2 < Len(stream) /\ (p + 2) + 1 = p + 3 /\ p + 2 <= n
    BY <1>0 DEF n
  <2> QED BY <1>3, <2>1, Neighbours
<1>5. p + 4 <= n => stream[p + 4].part = "lf" /\ stream[p + 4].line = stream[p].line /\ stream[p + 4].kind = stream[p].kind
  <2> SUFFICES ASSUME p + 4 <= n PROVE stream[p + 4].part = "lf" /\ stream[p + 4].line = stream[p].line /\ stream[p + 4].kind = stream[p].kind
    OBVIOUS
  <2>1. p + 3 \in DOMAIN stream /\ p + 3 < Len(stream) /\ (p + 3) + 1 = p + 4 /\ p + 3 <= n
    BY <1>0 DEF n
  <2> QED BY <1>4, <2>1, Neighbours
<1>6. \A k \in 1..4 : k = 1 \/ k = 2 \/ k = 3 \/ k = 4
  OBVIOUS
<1> QED BY <1>1, <1>2, <1>3, <1>4, <1>5, <1>6 DEF n

\* The pieces of a message, and where the next one can begin.
LEMMA MessageApart ==
    ASSUME StreamInv, NEW p \in DOMAIN stream, NEW q \in DOMAIN stream,
           stream[p].part = "start", stream[q].part = "start", p < q
    PROVE  p + 4 < q /\ stream[p].line < stream[q].line
<1>0. Len(stream) \in Nat /\ DOMAIN stream = 1..Len(stream) /\ p \in Nat /\ q \in Nat /\ q <= Len(stream)
  BY StreamTyped
<1>1. q # p + 1 /\ q # p + 2 /\ q # p + 3 /\ q # p + 4
  BY <1>0, MessageForward
<1>2. stream[q].part = First[stream[q].kind]
  BY StreamTyped
<1>3. stream[p].line < stream[q].line
  BY <1>2 DEF StreamInv
<1> QED BY <1>0, <1>1, <1>3

\* From its last piece back.
LEMMA MessageBack ==
    ASSUME StreamInv, NEW k \in DOMAIN stream, stream[k].part = "lf", stream[k].kind = "message"
    PROVE  k - 4 \in DOMAIN stream /\ stream[k - 4].part = "start" /\ stream[k - 4].line = stream[k].line
<1>0. Len(stream) \in Nat /\ DOMAIN stream = 1..Len(stream) /\ k \in Nat
  BY StreamTyped
<1> DEFINE Is(i, part) == i \in DOMAIN stream /\ stream[i].part = part /\ stream[i].kind = "message"
<1>1. ASSUME NEW m \in Nat, m + 1 \in DOMAIN stream, stream[m + 1].kind = "message",
             stream[m + 1].part \in {"match", "rest", "cr", "lf"}
      PROVE  /\ m \in DOMAIN stream /\ stream[m].kind = "message"
             /\ stream[m + 1].part = "lf" => stream[m].part = "cr"
             /\ stream[m + 1].part = "cr" => stream[m].part = "rest"
             /\ stream[m + 1].part = "rest" => stream[m].part = "match"
             /\ stream[m + 1].part = "match" => stream[m].part = "start"
  <2>1. m > 0 /\ m \in DOMAIN stream /\ stream[m].part # "lf" /\ stream[m].kind = "message" /\ m < Len(stream)
    <3>1. m # 0
      BY <1>1, Before
    <3>2. m > 0
      BY <3>1
    <3>3. m \in DOMAIN stream /\ stream[m].part # "lf"
      BY <1>1, <3>2, Before
    <3> QED BY <1>0, <1>1, <3>2, <3>3, Before
  <2>2. stream[m].part \in {"start", "match", "rest", "ping", "cr", "lf"}
    BY <2>1, StreamTyped DEF Parts
  <2>3. stream[m].part # "ping"
    BY <2>1 DEF StreamInv
  <2> QED BY <2>1, <2>2, <2>3, Neighbours
<1>2. Is(k - 1, "cr")
  <2>1. k - 1 \in Nat /\ (k - 1) + 1 = k
    BY <1>0
  <2> QED BY <1>1, <2>1
<1>3. Is(k - 2, "rest")
  <2>1. k - 2 \in Nat /\ (k - 2) + 1 = k - 1
    BY <1>0, <1>2
  <2> QED BY <1>1, <1>2, <2>1
<1>4. Is(k - 3, "match")
  <2>1. k - 3 \in Nat /\ (k - 3) + 1 = k - 2
    BY <1>0, <1>3
  <2> QED BY <1>1, <1>3, <2>1
<1>5. Is(k - 4, "start")
  <2>1. k - 4 \in Nat /\ (k - 4) + 1 = k - 3
    BY <1>0, <1>4
  <2> QED BY <1>1, <1>4, <2>1
<1>6. stream[k - 4].line = stream[k].line
  <2>1. (k - 4) + 4 = k /\ (k - 4) + 4 <= Len(stream)
    BY <1>0
  <2> QED BY <1>5, <2>1, MessageForward
<1> QED BY <1>5, <1>6

-----------------------------------------------------------------------------
(* The read buffer holds a piece of the stream.                            *)

LEMMA WindowMeans ==
    ASSUME StreamInv, NEW c \in Nat, NEW e \in Nat, c <= e, e <= Len(stream)
    PROVE  LET buffer == SubSeq(stream, c + 1, e)
           IN  /\ buffer \in Seq(SentPieces) /\ Len(buffer) = e - c /\ DOMAIN buffer = 1..(e - c)
               /\ \A i \in 1..(e - c) : buffer[i] = stream[c + i] /\ c + i \in DOMAIN stream
<1>1. stream \in Seq(SentPieces) /\ Len(stream) \in Nat /\ DOMAIN stream = 1..Len(stream)
  BY StreamTyped DEF StreamInv
<1>2. c + 1 \in Nat /\ 1 <= c + 1
  OBVIOUS
<1> QED BY <1>1, <1>2

\* What is left of it after its beginning is one, too.
LEMMA WindowFrom ==
    ASSUME StreamInv, NEW c \in Nat, NEW e \in Nat, c <= e, e <= Len(stream), NEW i \in 1..(e - c + 1)
    PROVE  SubSeq(SubSeq(stream, c + 1, e), i, e - c) = SubSeq(stream, c + i, e)
<1>1. stream \in Seq(SentPieces) /\ Len(stream) \in Nat
  BY StreamTyped DEF StreamInv
<1> DEFINE buffer == SubSeq(stream, c + 1, e)
<1>2. buffer \in Seq(SentPieces) /\ Len(buffer) = e - c /\ \A k \in 1..(e - c) : buffer[k] = stream[c + k]
  BY WindowMeans
<1> DEFINE A == SubSeq(buffer, i, e - c)
           B == SubSeq(stream, c + i, e)
           m == e - c + 1 - i
<1>3. m \in Nat /\ i \in Nat /\ i >= 1 /\ e - c \in Nat
  OBVIOUS
<1>4. A \in Seq(SentPieces) /\ Len(A) = m /\ \A k \in 1..m : A[k] = stream[c + (i + k - 1)]
  <2> HIDE DEF buffer
  <2>1. Len(A) = m /\ A \in Seq(SentPieces)
    BY <1>2, <1>3
  <2>2. ASSUME NEW k \in 1..m PROVE A[k] = stream[c + (i + k - 1)]
    <3>1. i + k - 1 \in 1..(e - c)
      BY <1>3
    <3>2. A[k] = buffer[i + k - 1]
      <4>1. e - c <= Len(buffer) /\ i <= e - c + 1 /\ k \in 1..(e - c - i + 1)
        BY <1>2, <1>3
      <4> QED BY <1>2, <1>3, <4>1, SubSeqProperties
    <3> QED BY <1>2, <3>1, <3>2
  <2> QED BY <2>1, <2>2
<1>5. B \in Seq(SentPieces) /\ Len(B) = m /\ \A k \in 1..m : B[k] = stream[c + i + k - 1]
  <2>1. c + i \in Nat /\ 1 <= c + i /\ e + 1 - (c + i) = m /\ c + i <= e + 1
    BY <1>3
  <2> HIDE DEF m
  <2>2. B \in Seq(SentPieces) /\ Len(B) = m
    BY <1>1, <1>3, <2>1
  <2>3. ASSUME NEW k \in 1..m PROVE B[k] = stream[(c + i) + k - 1]
    <3>1. \A j \in (c + i)..e : stream[j] \in SentPieces
      BY <1>1, <2>1
    <3>2. c + i \in Int /\ e \in Int /\ k \in 1..(e - (c + i) + 1)
      BY <2>1
    <3> QED BY <3>1, <3>2, SubSeqProperties
  <2> QED BY <2>2, <2>3
<1> HIDE DEF A, B
<1>6. \A k \in 1..m : c + (i + k - 1) = c + i + k - 1
  BY <1>3
<1>7. A = B
  <2> HIDE DEF m
  <2>1. \A k \in 1..m : A[k] = B[k]
    BY <1>4, <1>5, <1>6
  <2>2. A \in Seq(SentPieces) /\ B \in Seq(SentPieces) /\ Len(A) = m /\ Len(B) = m
    BY <1>4, <1>5
  <2> QED BY <2>1, <2>2, SeqEqual
<1> QED BY <1>7 DEF A, B

\* Two that meet.
LEMMA WindowsJoin ==
    ASSUME StreamInv, NEW b \in Nat, NEW r \in Nat, NEW n \in Nat, b <= r, r + n <= Len(stream)
    PROVE  SubSeq(stream, b + 1, r) \o SubSeq(stream, r + 1, r + n) = SubSeq(stream, b + 1, r + n)
<1> DEFINE A == SubSeq(stream, b + 1, r)
           B == SubSeq(stream, r + 1, r + n)
           C == SubSeq(stream, b + 1, r + n)
<1>0. Len(stream) \in Nat /\ r <= Len(stream) /\ r + n \in Nat /\ r <= r + n /\ b <= r + n
  BY StreamTyped
<1>1. A \in Seq(SentPieces) /\ Len(A) = r - b /\ \A i \in 1..(r - b) : A[i] = stream[b + i]
  BY <1>0, WindowMeans
<1>2. B \in Seq(SentPieces) /\ Len(B) = n /\ \A i \in 1..n : B[i] = stream[r + i]
  <2>1. (r + n) - r = n
    OBVIOUS
  <2> QED BY <1>0, <2>1, WindowMeans
<1>3. C \in Seq(SentPieces) /\ Len(C) = (r + n) - b /\ \A i \in 1..((r + n) - b) : C[i] = stream[b + i]
  BY <1>0, WindowMeans
<1> HIDE DEF A, B, C
<1>4. A \o B \in Seq(SentPieces) /\ Len(A \o B) = (r + n) - b
  <2>1. A \o B \in Seq(SentPieces) /\ Len(A \o B) = Len(A) + Len(B)
    BY <1>1, <1>2, ConcatProperties
  <2>2. (r - b) + n = (r + n) - b
    OBVIOUS
  <2> QED BY <1>1, <1>2, <2>1, <2>2
<1>5. ASSUME NEW i \in 1..((r + n) - b) PROVE (A \o B)[i] = C[i]
  <2>1. CASE i <= r - b
    <3>1. (A \o B)[i] = A[i]
      BY <1>1, <1>2, <2>1
    <3> QED BY <1>1, <1>3, <2>1, <3>1
  <2>2. CASE i > r - b
    <3>1. PICK j \in 1..n : i = Len(A) + j /\ r + j = b + i
      <4>1. i - Len(A) \in 1..n /\ i = Len(A) + (i - Len(A)) /\ r + (i - Len(A)) = b + i
        BY <1>1, <2>2
      <4> QED BY <4>1
    <3>2. (A \o B)[i] = B[j]
      <4>1. Len(A) \in Nat /\ i \in 1..(Len(A) + Len(B)) /\ ~(i <= Len(A)) /\ i - Len(A) = j
        BY <1>1, <1>2, <2>2, <3>1
      <4>2. (A \o B)[i] = IF i <= Len(A) THEN A[i] ELSE B[i - Len(A)]
        BY <1>1, <1>2, <4>1, ConcatProperties
      <4> QED BY <4>1, <4>2, Zenon
    <3>3. B[j] = stream[r + j]
      BY <1>2
    <3>4. C[i] = stream[b + i]
      BY <1>3
    <3> QED BY <3>1, <3>2, <3>3, <3>4
  <2>3. i <= r - b \/ i > r - b
    OBVIOUS
  <2> QED BY <2>1, <2>2, <2>3, Zenon
<1>6. A \o B = C
  <2> DEFINE AB == A \o B
  <2>1. AB \in Seq(SentPieces) /\ C \in Seq(SentPieces) /\ Len(AB) = Len(C) /\ \A i \in 1..Len(AB) : AB[i] = C[i]
    BY <1>3, <1>4, <1>5
  <2> HIDE DEF AB
  <2>2. AB = C
    BY <2>1, SeqEqual
  <2> QED BY <2>2 DEF AB
<1> QED BY <1>6 DEF A, B, C

\* A CRLF of the buffer is one of the stream.
LEMMA CrlfMeans ==
    ASSUME StreamInv, NEW c \in Nat, NEW e \in Nat, c <= e, e <= Len(stream), NEW i \in 1..(e - c)
    PROVE  IsCrlf(SubSeq(stream, c + 1, e), i) <=> c + i < e /\ stream[c + i].part = "cr" /\ stream[c + i + 1].part = "lf"
<1> DEFINE buffer == SubSeq(stream, c + 1, e)
<1>1. Len(buffer) = e - c /\ \A k \in 1..(e - c) : buffer[k] = stream[c + k]
  BY WindowMeans
<1>2. buffer[i] = stream[c + i] /\ (i < e - c <=> c + i < e)
  BY <1>1
<1>3. i < e - c => buffer[i + 1] = stream[c + i + 1]
  <2> SUFFICES ASSUME i < e - c PROVE buffer[i + 1] = stream[c + i + 1]
    OBVIOUS
  <2>1. i + 1 \in 1..(e - c) /\ c + (i + 1) = c + i + 1
    OBVIOUS
  <2> QED BY <1>1, <2>1
<1> HIDE DEF buffer
<1>4. IsCrlf(buffer, i) <=> i < e - c /\ buffer[i].part = "cr" /\ buffer[i + 1].part = "lf"
  BY <1>1, Zenon DEF IsCrlf
<1> QED BY <1>2, <1>3, <1>4, Zenon DEF buffer

\* What is kept of an oversized buffer is one of its ends.
LEMMA DrainedMeans ==
    ASSUME StreamInv, NEW c \in Nat, NEW e \in Nat, c <= e, e <= Len(stream)
    PROVE  \E d \in c..e : DrainReadbuffer(SubSeq(stream, c + 1, e)) = SubSeq(stream, d + 1, e)
<1> DEFINE buffer == SubSeq(stream, c + 1, e)
           ends == {i \in DOMAIN buffer : IsCrlf(buffer, i)}
<1>1. buffer \in Seq(SentPieces) /\ Len(buffer) = e - c /\ DOMAIN buffer = 1..(e - c)
  BY WindowMeans
<1>2. CASE ends = {}
  <2>1. DrainReadbuffer(buffer) = <<>>
    BY <1>2 DEF DrainReadbuffer
  <2>2. SubSeq(stream, e + 1, e) = <<>>
    <3>1. SubSeq(stream, e + 1, e) \in Seq(SentPieces) /\ Len(SubSeq(stream, e + 1, e)) = 0
      <4>1. e - e = 0 /\ e <= e
        OBVIOUS
      <4> QED BY <4>1, WindowMeans
    <3> QED BY <3>1
  <2>3. e \in c..e
    OBVIOUS
  <2> HIDE DEF buffer
  <2>4. DrainReadbuffer(buffer) = SubSeq(stream, e + 1, e)
    BY <2>1, <2>2
  <2> QED BY <2>3, <2>4 DEF buffer
<1>3. CASE ends # {}
  <2> DEFINE i == Max(ends)
  <2>1. ends \in SUBSET (1..(e - c)) /\ e - c \in Nat
    BY <1>1
  <2>2. i \in ends /\ i \in 1..(e - c)
    <3> HIDE DEF ends
    <3> QED BY <1>3, <2>1, MaxAmong
  <2>3. i < e - c
    <3>1. IsCrlf(buffer, i)
      <4> HIDE DEF i
      <4> QED BY <2>2
    <3> HIDE DEF i, buffer
    <3> QED BY <1>1, <3>1 DEF IsCrlf
  <2>4. DrainReadbuffer(buffer) = SubSeq(buffer, i + 2, e - c)
    <3> HIDE DEF buffer
    <3> QED BY <1>1, <1>3 DEF DrainReadbuffer
  <2> HIDE DEF i, ends
  <2>5. i + 2 \in 1..(e - c + 1) /\ c + i + 1 \in c..e /\ (c + i + 1) + 1 = c + (i + 2)
    BY <2>2, <2>3
  <2>6. SubSeq(buffer, i + 2, e - c) = SubSeq(stream, c + (i + 2), e)
    BY <2>5, WindowFrom
  <2> HIDE DEF buffer
  <2>7. DrainReadbuffer(buffer) = SubSeq(stream, (c + i + 1) + 1, e)
    BY <2>4, <2>5, <2>6
  <2> QED BY <2>5, <2>7 DEF buffer
<1> QED BY <1>2, <1>3

\* The matches of a buffer: the messages in it of which the expression sees enough.
LEMMA StartsMean ==
    ASSUME StreamInv, NEW c \in Nat, NEW e \in Nat, c <= e, e <= Len(stream)
    PROVE  LET buffer == SubSeq(stream, c + 1, e)
           IN  /\ MatchStarts(buffer) \in SUBSET (1..(e - c))
               /\ \A i \in MatchStarts(buffer) :
                    /\ stream[c + i].part = "start" /\ c + i < e /\ c + i \in DOMAIN stream
                    /\ Item(buffer, i) = [line |-> stream[c + i].line, whole |-> c + i + 2 <= e]
               /\ \A p \in MessageStarts(c, e) : p < e => p - c \in MatchStarts(buffer)
<1> DEFINE buffer == SubSeq(stream, c + 1, e)
           m == e - c
<1>1. Len(buffer) = m /\ DOMAIN buffer = 1..m /\ m \in Nat
  BY WindowMeans
<1>2. \A k \in 1..m : buffer[k] = stream[c + k] /\ c + k \in DOMAIN stream
  BY WindowMeans
<1>3. Len(stream) \in Nat /\ DOMAIN stream = 1..Len(stream)
  BY StreamTyped
<1> HIDE DEF buffer
<1>4. ASSUME NEW i \in MatchStarts(buffer)
      PROVE  /\ i \in 1..m /\ stream[c + i].part = "start" /\ c + i < e /\ c + i \in DOMAIN stream
             /\ Item(buffer, i) = [line |-> stream[c + i].line, whole |-> c + i + 2 <= e]
  <2>1. i \in 1..m /\ buffer[i].part = "start" /\ i < m
    BY <1>1 DEF MatchStarts
  <2>2. c + i \in DOMAIN stream /\ buffer[i] = stream[c + i] /\ c + i < e
    BY <1>2, <2>1
  <2>3. stream[c + i].part = "start"
    BY <2>1, <2>2
  <2>4. HasRest(buffer, i) <=> i + 2 <= m /\ buffer[i + 2].part = "rest"
    BY <1>1, Zenon DEF HasRest
  <2>5. i + 2 <= m <=> c + i + 2 <= e
    BY <2>1
  <2>6. i + 2 <= m => buffer[i + 2].part = "rest"
    <3> SUFFICES ASSUME i + 2 <= m PROVE buffer[i + 2].part = "rest"
      OBVIOUS
    <3>1. i + 2 \in 1..m /\ c + (i + 2) = (c + i) + 2 /\ (c + i) + 2 <= Len(stream)
      BY <1>3, <2>1
    <3>2. stream[(c + i) + 2].part = "rest"
      BY <2>2, <2>3, <3>1, MessageForward
    <3>3. buffer[i + 2] = stream[c + (i + 2)]
      BY <1>2, <3>1
    <3> QED BY <3>1, <3>2, <3>3
  <2> DEFINE complete == c + i + 2 <= e
  <2>7. HasRest(buffer, i) = complete
    <3>1. HasRest(buffer, i) <=> complete
      BY <2>4, <2>5, <2>6
    <3>2. HasRest(buffer, i) \in BOOLEAN /\ complete \in BOOLEAN
      BY DEF HasRest
    <3> HIDE DEF complete
    <3> QED BY <3>1, <3>2
  <2> HIDE DEF complete
  <2>8. Item(buffer, i) = [line |-> stream[c + i].line, whole |-> complete]
    BY <2>2, <2>7, Zenon DEF Item
  <2> QED BY <2>1, <2>2, <2>3, <2>8 DEF complete
<1>5. ASSUME NEW p \in MessageStarts(c, e), p < e PROVE p - c \in MatchStarts(buffer)
  <2>1. p \in Nat /\ p - c \in 1..m /\ p \in DOMAIN stream /\ stream[p].part = "start" /\ p > c
    BY <1>3 DEF MessageStarts
  <2>2. c + (p - c) = p /\ (p - c) + 1 \in 1..m /\ c + ((p - c) + 1) = p + 1 /\ p + 1 <= Len(stream)
    BY <1>3, <1>5, <2>1
  <2>3. buffer[p - c].part = "start" /\ p - c < m
    BY <1>2, <1>5, <2>1, <2>2
  <2>4. stream[p + 1].part = "match" /\ (p > 1 => stream[p - 1].part = "lf")
    BY <2>1, <2>2, MessageForward
  <2>5. buffer[(p - c) + 1].part = "match"
    BY <1>2, <2>2, <2>4
  <2>6. p - c = 1 \/ buffer[(p - c) - 1].part = "lf"
    <3> SUFFICES ASSUME p - c # 1 PROVE buffer[(p - c) - 1].part = "lf"
      OBVIOUS
    <3>1. (p - c) - 1 \in 1..m /\ c + ((p - c) - 1) = p - 1 /\ p > 1
      BY <2>1
    <3> QED BY <1>2, <2>4, <3>1
  <2> QED BY <1>1, <2>1, <2>3, <2>5, <2>6 DEF MatchStarts
<1>6. MatchStarts(buffer) \in SUBSET (1..m)
  BY <1>4
<1> QED BY <1>4, <1>5, <1>6 DEF buffer

\* The items of the messages that begin after c and up to d: whole, in order, all.
Parsed(matches, c, d, e) ==
    /\ matches \in Seq(ItemRecords)
    /\ \A k \in DOMAIN matches : /\ matches[k].whole
                               /\ \E p \in MessageStarts(c, d) : p + 4 <= e /\ matches[k].line = stream[p].line
    /\ \A j, k \in DOMAIN matches : j < k => matches[j].line < matches[k].line
    /\ \A p \in MessageStarts(c, d) : \E k \in DOMAIN matches : matches[k].line = stream[p].line

LEMMA ParsedFrom ==
    ASSUME StreamInv, NEW c \in Nat, NEW e \in Nat, c <= e, e <= Len(stream), NEW d \in c..e,
           NEW starts \in SUBSET MatchStarts(SubSeq(stream, c + 1, e)),
           \A i \in starts : c + i <= d /\ c + i + 4 <= e,
           \A p \in MessageStarts(c, d) : p - c \in starts
    PROVE  Parsed(Items(SubSeq(stream, c + 1, e), starts), c, d, e)
<1> DEFINE buffer == SubSeq(stream, c + 1, e)
           matches == Items(buffer, starts)
<1>1. buffer \in Seq(SentPieces) /\ DOMAIN buffer = 1..(e - c)
  BY WindowMeans
<1>2. MatchStarts(buffer) \in SUBSET (1..(e - c))
  BY StartsMean
<1>3. ComeFrom(matches, buffer, starts)
  <2> HIDE DEF buffer
  <2> QED BY <1>1, <1>2, ItemsComeFrom DEF buffer
<1>4. ASSUME NEW i \in starts
      PROVE  /\ c + i \in MessageStarts(c, d) /\ c + i + 4 <= e /\ c + i \in DOMAIN stream /\ stream[c + i].part = "start"
             /\ Item(buffer, i).whole /\ Item(buffer, i).line = stream[c + i].line
  <2>1. /\ stream[c + i].part = "start" /\ c + i \in DOMAIN stream
        /\ Item(buffer, i) = [line |-> stream[c + i].line, whole |-> c + i + 2 <= e]
    BY StartsMean
  <2>2. i \in 1..(e - c) /\ c + i <= d /\ c + i + 4 <= e
    BY <1>2
  <2>3. c + i \in (c + 1)..d /\ c + i + 2 <= e
    BY <2>2
  <2>4. Item(buffer, i).whole /\ Item(buffer, i).line = stream[c + i].line
    <3> DEFINE complete == c + i + 2 <= e
    <3>1. Item(buffer, i) = [line |-> stream[c + i].line, whole |-> complete]
      BY <2>1
    <3>2. complete
      BY <2>3
    <3> HIDE DEF buffer, complete
    <3> QED BY <3>1, <3>2
  <2> QED BY <2>1, <2>2, <2>3, <2>4 DEF MessageStarts
<1>5. \A p \in MessageStarts(c, d) : p - c \in starts /\ c + (p - c) = p
  BY DEF MessageStarts
<1>6. starts \in SUBSET Nat
  BY <1>2
<1> HIDE DEF matches, buffer
<1>7. /\ matches \in Seq(ItemRecords)
      /\ \A j \in DOMAIN matches : \E p \in starts : matches[j] = Item(buffer, p)
      /\ \A p \in starts : \E j \in DOMAIN matches : matches[j] = Item(buffer, p)
      /\ \A i, j \in DOMAIN matches :
           i < j => \E p, q \in starts : p < q /\ matches[i] = Item(buffer, p) /\ matches[j] = Item(buffer, q)
  BY <1>3 DEF ComeFrom
<1>8. ASSUME NEW k \in DOMAIN matches
      PROVE  matches[k].whole /\ \E p \in MessageStarts(c, d) : p + 4 <= e /\ matches[k].line = stream[p].line
  <2>1. PICK i \in starts : matches[k] = Item(buffer, i)
    BY <1>7
  <2> QED BY <1>4, <2>1
<1>9. ASSUME NEW j \in DOMAIN matches, NEW k \in DOMAIN matches, j < k PROVE matches[j].line < matches[k].line
  <2>1. PICK p \in starts, q \in starts : p < q /\ matches[j] = Item(buffer, p) /\ matches[k] = Item(buffer, q)
    BY <1>7, <1>9
  <2>2. c + p < c + q
    BY <1>6, <2>1
  <2>3. stream[c + p].line < stream[c + q].line
    BY <1>4, <2>2, MessageApart
  <2> QED BY <1>4, <2>1, <2>3
<1>10. ASSUME NEW p \in MessageStarts(c, d) PROVE \E k \in DOMAIN matches : matches[k].line = stream[p].line
  <2>1. PICK k \in DOMAIN matches : matches[k] = Item(buffer, p - c)
    BY <1>5, <1>7
  <2>2. Item(buffer, p - c).line = stream[p].line
    BY <1>4, <1>5
  <2> QED BY <2>1, <2>2
<1> QED BY <1>7, <1>8, <1>9, <1>10 DEF Parsed, matches, buffer

\* What _process_irc_buffer makes of a piece of the stream: it parses what begins up to
\* some place, keeps the rest, and there is no complete message in what it keeps.
LEMMA ProcessedMeans ==
    ASSUME StreamInv, NEW c \in Nat, NEW e \in Nat, c <= e, e <= Len(stream)
    PROVE  LET done == ProcessIrcBuffer(SubSeq(stream, c + 1, e))
           IN  \E d \in c..e : /\ done.remaining = SubSeq(stream, d + 1, e)
                               /\ Parsed(done.items, c, d, e)
                               /\ \A p \in MessageStarts(d, e) : e < p + 4
<1> DEFINE buffer == SubSeq(stream, c + 1, e)
           m == e - c
           starts == MatchStarts(buffer)
           done == ProcessIrcBuffer(buffer)
           Right(d) == /\ d \in c..e
                       /\ done.remaining = SubSeq(stream, d + 1, e)
                       /\ Parsed(done.items, c, d, e)
                       /\ \A p \in MessageStarts(d, e) : e < p + 4
<1> SUFFICES \E d : Right(d)
  OBVIOUS
<1>1. buffer \in Seq(SentPieces) /\ Len(buffer) = m /\ DOMAIN buffer = 1..m /\ m \in Nat
  <2>1. m \in Nat
    OBVIOUS
  <2> QED BY <2>1, WindowMeans
<1>2. Len(stream) \in Nat /\ DOMAIN stream = 1..Len(stream)
  BY StreamTyped
<1>3. /\ starts \in SUBSET (1..m)
      /\ \A i \in starts : stream[c + i].part = "start" /\ c + i < e /\ c + i \in DOMAIN stream
      /\ \A p \in MessageStarts(c, e) : p < e => p - c \in starts
  BY StartsMean
<1>4. \A i \in 1..m : IsCrlf(buffer, i) <=> c + i < e /\ stream[c + i].part = "cr" /\ stream[c + i + 1].part = "lf"
  BY CrlfMeans
<1>5. \A d \in c..e : \A p \in MessageStarts(c, d) : p \in MessageStarts(c, e) /\ p \in DOMAIN stream /\ stream[p].part = "start" /\ p > c /\ p <= d
  BY <1>2 DEF MessageStarts
<1>6. \A d \in c..e : \A p \in MessageStarts(d, e) : p \in MessageStarts(c, e) /\ p \in DOMAIN stream /\ stream[p].part = "start" /\ p > d /\ p <= e
  BY <1>2 DEF MessageStarts
<1>7. SubSeq(stream, e + 1, e) = <<>>
  <2>1. SubSeq(stream, e + 1, e) \in Seq(SentPieces) /\ Len(SubSeq(stream, e + 1, e)) = 0
    <3>1. e - e = 0 /\ e <= e
      OBVIOUS
    <3> QED BY <3>1, WindowMeans
  <2> QED BY <2>1
<1>8. \A d \in c..e : \A S \in SUBSET starts :
        (\A i \in S : c + i <= d /\ c + i + 4 <= e) /\ (\A p \in MessageStarts(c, d) : p - c \in S)
          => Parsed(Items(buffer, S), c, d, e)
  BY ParsedFrom
<1> HIDE DEF buffer, starts
<1>9. CASE EndsWithCrlf(buffer)
  <2>1. m >= 2 /\ IsCrlf(buffer, m - 1)
    BY <1>1, <1>9, Zenon DEF EndsWithCrlf
  <2>2. m - 1 \in 1..m /\ c + (m - 1) + 1 = e /\ e \in DOMAIN stream
    BY <1>1, <1>2, <2>1
  <2>3. stream[e].part = "lf"
    BY <1>4, <2>1, <2>2
  <2>4. done.remaining = <<>> /\ done.items = Items(buffer, starts)
    BY <1>9 DEF ProcessIrcBuffer, starts
  <2>5. ASSUME NEW i \in starts PROVE c + i <= e /\ c + i + 4 <= e
    <3>1. i \in 1..m /\ stream[c + i].part = "start" /\ c + i < e /\ c + i \in DOMAIN stream /\ c + i \in Nat
      BY <1>3
    <3> DEFINE p == c + i
    <3>2. p \in DOMAIN stream /\ stream[p].part = "start" /\ p \in Nat /\ p < e
      BY <3>1
    <3> HIDE DEF p
    <3>3. e # p + 1 /\ e # p + 2 /\ e # p + 3
      BY <1>2, <2>2, <2>3, <3>2, MessageForward
    <3>4. p + 4 <= e
      BY <3>2, <3>3
    <3> QED BY <3>2, <3>4 DEF p
  <2>6. ASSUME NEW p \in MessageStarts(c, e) PROVE p - c \in starts
    <3>1. p \in 1..Len(stream) /\ p <= e /\ stream[p].part = "start"
      BY <1>2 DEF MessageStarts
    <3>2. p # e
      BY <2>3, <3>1
    <3> QED BY <1>3, <3>1, <3>2
  <2>7. e \in c..e
    OBVIOUS
  <2>8. Parsed(done.items, c, e, e)
    <3> HIDE DEF done
    <3> QED BY <1>8, <2>4, <2>5, <2>6, <2>7
  <2>9. MessageStarts(e, e) = {}
    BY DEF MessageStarts
  <2>10. Right(e)
    <3> HIDE DEF done
    <3> QED BY <1>7, <2>4, <2>7, <2>8, <2>9
  <2> HIDE DEF Right
  <2> QED BY <2>10
<1>10. CASE ~EndsWithCrlf(buffer) /\ starts = {}
  <2>1. done.remaining = buffer /\ done.items = <<>>
    BY <1>10 DEF ProcessIrcBuffer, starts
  <2>2. c \in c..e /\ MessageStarts(c, c) = {}
    BY DEF MessageStarts
  <2>3. Parsed(<<>>, c, c, e)
    <3>1. <<>> \in Seq(ItemRecords) /\ DOMAIN <<>> = {}
      OBVIOUS
    <3> QED BY <2>2, <3>1 DEF Parsed
  <2>4. ASSUME NEW p \in MessageStarts(c, e) PROVE e < p + 4
    <3>1. p <= e /\ p \in Nat
      BY DEF MessageStarts
    <3>2. ~(p < e)
      BY <1>3, <1>10
    <3> QED BY <3>1, <3>2
  <2>5. Right(c)
    <3> HIDE DEF done
    <3> QED BY <2>1, <2>2, <2>3, <2>4 DEF buffer
  <2> HIDE DEF Right
  <2> QED BY <2>5
<1>11. CASE ~EndsWithCrlf(buffer) /\ starts # {}
  <2> DEFINE last == Max(starts)
             p == c + last
             cut == \E i \in last..Len(buffer) : IsCrlf(buffer, i)
  <2>1. last \in starts /\ last \in 1..m /\ \A i \in starts : i <= last
    <3>1. starts \in SUBSET Int /\ m \in Int /\ \A i \in starts : i <= m
      BY <1>1, <1>3
    <3> QED BY <1>3, <1>11, <3>1, MaxMember
  <2>2. p \in DOMAIN stream /\ stream[p].part = "start" /\ p < e /\ p > c /\ p \in Nat
    BY <1>3, <2>1
  <2>3. \A q \in MessageStarts(c, e) : q < e => q <= p
    <3> SUFFICES ASSUME NEW q \in MessageStarts(c, e), q < e PROVE q <= p
      OBVIOUS
    <3>1. q - c \in starts /\ q \in Nat
      BY <1>3 DEF MessageStarts
    <3>2. q - c <= last
      BY <2>1, <3>1
    <3> QED BY <2>1, <3>1, <3>2
  <2>4. cut <=> p + 4 <= e
    <3>1. ASSUME cut PROVE p + 4 <= e
      <4>1. PICK i \in last..m : IsCrlf(buffer, i)
        <5> HIDE DEF last
        <5> QED BY <1>1, <3>1
      <4>2. i \in 1..m /\ c + i >= p /\ c + i \in Nat
        BY <2>1, <4>1
      <4>3. c + i < e /\ stream[c + i].part = "cr"
        BY <1>4, <4>1, <4>2
      <4> DEFINE k == c + i
      <4>4. k \in Nat /\ k >= p /\ k < e /\ stream[k].part = "cr"
        BY <4>2, <4>3
      <4> HIDE DEF k, p
      <4>5. k # p /\ k # p + 1 /\ k # p + 2
        BY <1>2, <2>2, <4>4, MessageForward
      <4> QED BY <2>2, <4>4, <4>5
    <3>2. ASSUME p + 4 <= e PROVE cut
      <4> DEFINE i == last + 3
      <4>1. i \in last..m /\ i \in 1..m /\ c + i = p + 3 /\ c + i + 1 = p + 4 /\ c + i < e
        BY <2>1, <3>2
      <4>2. stream[p + 3].part = "cr" /\ stream[p + 4].part = "lf"
        <5> HIDE DEF p
        <5> QED BY <1>2, <2>2, <3>2, MessageForward
      <4>3. IsCrlf(buffer, i)
        <5> HIDE DEF i, p
        <5> QED BY <1>4, <4>1, <4>2
      <4> HIDE DEF i, last
      <4> QED BY <1>1, <4>1, <4>3
    <3> QED BY <3>1, <3>2
  <2>5. \A i \in starts \ {last} : c + i + 4 < p
    <3> SUFFICES ASSUME NEW i \in starts \ {last} PROVE c + i + 4 < p
      OBVIOUS
    <3>1. c + i \in DOMAIN stream /\ stream[c + i].part = "start" /\ c + i < p
      BY <1>3, <2>1
    <3> HIDE DEF p
    <3> QED BY <2>2, <3>1, MessageApart
  <2>6. CASE cut
    <3> DEFINE d == p + 2
    <3>1. p + 4 <= e /\ d \in c..e /\ d < e
      BY <2>2, <2>4, <2>6
    <3>2. done.remaining = SubSeq(buffer, MatchEnd(buffer, last) + 1, Len(buffer)) /\ done.items = Items(buffer, starts)
      BY <1>11, <2>6, Zenon DEF ProcessIrcBuffer, starts
    <3>3. MatchEnd(buffer, last) = last + 2
      <4>1. last + 2 \in 1..m /\ c + (last + 2) = p + 2
        BY <2>1, <3>1
      <4>2. stream[p + 2].part = "rest"
        <5> HIDE DEF p
        <5> QED BY <1>2, <2>2, <3>1, MessageForward
      <4>3. buffer[last + 2] = stream[c + (last + 2)]
        <5> HIDE DEF last
        <5> QED BY <4>1, WindowMeans DEF buffer
      <4>4. HasRest(buffer, last)
        <5> HIDE DEF last, p
        <5>1. last + 2 <= Len(buffer) /\ buffer[last + 2].part = "rest"
          BY <1>1, <4>1, <4>2, <4>3
        <5> QED BY <5>1, Zenon DEF HasRest
      <4> QED BY <4>4 DEF MatchEnd
    <3>4. done.remaining = SubSeq(stream, d + 1, e)
      <4>1. last + 3 \in 1..(e - c + 1) /\ c + (last + 3) = d + 1 /\ (last + 2) + 1 = last + 3
        BY <2>1, <3>1
      <4>2. SubSeq(buffer, last + 3, m) = SubSeq(stream, c + (last + 3), e)
        <5> HIDE DEF last
        <5> QED BY <4>1, WindowFrom DEF buffer
      <4> HIDE DEF last, p, done, d
      <4> QED BY <1>1, <3>2, <3>3, <4>1, <4>2
    <3>5. Parsed(done.items, c, d, e)
      <4>1. ASSUME NEW i \in starts PROVE c + i <= d /\ c + i + 4 <= e
        <5>1. CASE i = last
          BY <2>1, <3>1, <5>1
        <5>2. CASE i # last
          <6>1. c + i + 4 < p /\ i \in 1..m
            BY <1>3, <2>5, <5>2
          <6> HIDE DEF last, p
          <6> QED BY <2>2, <3>1, <6>1
        <5> QED BY <5>1, <5>2
      <4>2. ASSUME NEW q \in MessageStarts(c, d) PROVE q - c \in starts
        <5>1. q \in MessageStarts(c, e) /\ q <= d
          BY <1>5, <3>1
        <5>2. q < e
          <6>1. q \in Nat
            BY DEF MessageStarts
          <6> HIDE DEF d
          <6> QED BY <3>1, <5>1, <6>1
        <5> QED BY <1>3, <5>1, <5>2
      <4> HIDE DEF d, done, p
      <4> QED BY <1>8, <3>1, <3>2, <4>1, <4>2
    <3>6. ASSUME NEW q \in MessageStarts(d, e) PROVE e < q + 4
      <4>1. q \in MessageStarts(c, e) /\ q > d /\ q <= e /\ q \in Nat
        <5>1. q \in Nat
          BY <3>1 DEF MessageStarts
        <5> QED BY <1>6, <3>1, <5>1
      <4>2. ~(q < e)
        BY <2>2, <2>3, <4>1
      <4> QED BY <4>1, <4>2
    <3>7. Right(d)
      <4> HIDE DEF d, done
      <4> QED BY <3>1, <3>4, <3>5, <3>6
    <3> HIDE DEF Right
    <3> QED BY <3>7
  <2>7. CASE ~cut
    <3> DEFINE d == p - 1
               others == starts \ {last}
    <3>1. e < p + 4 /\ d \in c..e /\ d + 1 = p
      BY <2>2, <2>4, <2>7
    <3>2. done.remaining = SubSeq(buffer, last, Len(buffer)) /\ done.items = Items(buffer, others)
      BY <1>11, <2>7, Zenon DEF ProcessIrcBuffer, starts
    <3>3. done.remaining = SubSeq(stream, d + 1, e)
      <4>1. last \in 1..(e - c + 1) /\ c + last = d + 1
        BY <2>1, <3>1
      <4>2. SubSeq(buffer, last, m) = SubSeq(stream, c + last, e)
        <5> HIDE DEF last
        <5> QED BY <4>1, WindowFrom DEF buffer
      <4> HIDE DEF last, p, done, d, others
      <4> QED BY <1>1, <3>2, <4>1, <4>2
    <3>4. Parsed(done.items, c, d, e)
      <4>1. ASSUME NEW i \in others PROVE c + i <= d /\ c + i + 4 <= e
        <5>1. c + i + 4 < p /\ i \in 1..m
          BY <1>3, <2>5
        <5> HIDE DEF p, last, others
        <5> QED BY <2>2, <3>1, <5>1
      <4>2. ASSUME NEW q \in MessageStarts(c, d) PROVE q - c \in others
        <5>1. q \in MessageStarts(c, e) /\ q <= d /\ q \in Nat
          <6>1. q \in Nat
            BY DEF MessageStarts
          <6> QED BY <1>5, <3>1, <6>1
        <5>2. q < e /\ q # p
          <6> HIDE DEF p
          <6> QED BY <2>2, <3>1, <5>1
        <5>3. q - c \in starts
          BY <1>3, <5>1, <5>2
        <5>4. q - c # last
          BY <2>1, <5>1, <5>2
        <5> QED BY <5>3, <5>4
      <4>3. others \in SUBSET starts
        OBVIOUS
      <4> HIDE DEF d, done, p, others
      <4> QED BY <1>8, <3>1, <3>2, <4>1, <4>2, <4>3
    <3>5. ASSUME NEW q \in MessageStarts(d, e) PROVE e < q + 4
      <4>1. q > d /\ q \in Nat
        <5>1. q \in Nat
          BY <3>1 DEF MessageStarts
        <5> QED BY <1>6, <3>1, <5>1
      <4> HIDE DEF p
      <4> QED BY <2>2, <3>1, <4>1
    <3>6. Right(d)
      <4> HIDE DEF d, done
      <4> QED BY <3>1, <3>3, <3>4, <3>5
    <3> HIDE DEF Right
    <3> QED BY <3>6
  <2> QED BY <2>6, <2>7
<1> QED BY <1>9, <1>10, <1>11

-----------------------------------------------------------------------------
(* The connection.                                                         *)

IrcInv == StreamInv /\ CountInv /\ BufferInv

\* What BufferInv says of a place the read buffer begins after.
BufferAt(b) ==
    /\ b \in 0..received
    /\ readbuffer = SubSeq(stream, b + 1, received)
    /\ \A k \in DOMAIN parsed : /\ parsed[k].whole
                                /\ \E p \in MessageStarts(0, b) : p + 4 <= received /\ parsed[k].line = stream[p].line
    /\ \A j, k \in DOMAIN parsed : j < k => parsed[j].line < parsed[k].line
    /\ ~drained => \A p \in MessageStarts(0, b) : stream[p].line \in LinesParsed
    /\ \A p \in MessageStarts(b, received) : received < p + 4

LEMMA BufferSomewhere == BufferInv <=> \E b : BufferAt(b)
  BY DEF BufferInv, BufferAt

LEMMA IrcStarts == IrcInit => IrcInv /\ parsed \in Seq(ItemRecords)
<1> SUFFICES ASSUME IrcInit PROVE IrcInv /\ parsed \in Seq(ItemRecords)
  OBVIOUS
<1>1. /\ stream = <<>> /\ received = 0 /\ readbuffer = <<>> /\ parsed = <<>> /\ pongs = 0
      /\ frame = NoFrame
  BY DEF IrcInit
<1>2. <<>> \in Seq(SentPieces) /\ <<>> \in Seq(ItemRecords) /\ DOMAIN <<>> = {} /\ Len(<<>>) = 0
  OBVIOUS
<1>3. StreamInv
  BY <1>1, <1>2 DEF StreamInv
<1>4. CountInv
  <2>1. Ends("ping") = {}
    BY <1>1 DEF Ends
  <2>2. Cardinality(Ends("ping")) = 0
    BY <2>1, FS_EmptySet
  <2> QED BY <1>1, <1>2, <2>2 DEF CountInv
<1>5. BufferAt(0)
  <2>1. MessageStarts(0, 0) = {} /\ 0 \in 0..0
    BY DEF MessageStarts
  <2>2. SubSeq(stream, 0 + 1, received) = <<>>
    <3>1. SubSeq(stream, 0 + 1, 0) \in Seq(SentPieces) /\ Len(SubSeq(stream, 0 + 1, 0)) = 0
      <4>1. 0 - 0 = 0 /\ 0 <= Len(stream) /\ 0 <= 0
        BY <1>1, <1>2
      <4> QED BY <1>3, <4>1, WindowMeans
    <3> QED BY <1>1, <3>1
  <2> QED BY <1>1, <1>2, <2>1, <2>2 DEF BufferAt
<1>6. BufferInv
  BY <1>5, BufferSomewhere
<1> QED BY <1>1, <1>2, <1>3, <1>4, <1>6 DEF IrcInv

LEMMA FrameIs ==
    ASSUME StreamInv, received \in 0..Len(stream)
    PROVE  CountInv <=> frame = FrameAt(received) /\ pongs = Cardinality(EndsTo("ping", received))
<1>1. Ends("ping") = EndsTo("ping", received)
  BY DEF Ends, EndsTo
<1> DEFINE is == IF received = 0 THEN NoFrame
                 ELSE [prefix |-> IF stream[received].part = "lf" THEN "" ELSE First[stream[received].kind],
                       cr |-> stream[received].part = "cr"]
<1>2. (IF received = 0 THEN NoFrame
       ELSE [prefix |-> IF stream[received].part = "lf" THEN "" ELSE First[stream[received].kind],
             cr |-> stream[received].part = "cr"]) = FrameAt(received)
  <2>1. CASE received = 0
    BY <2>1 DEF FrameAt, PrefixAt, NoFrame
  <2>2. CASE received # 0
    BY <2>2 DEF FrameAt, PrefixAt
  <2> QED BY <2>1, <2>2
<1>3. CountInv <=> received \in 0..Len(stream) /\ frame = is /\ pongs = Cardinality(Ends("ping"))
  BY DEF CountInv
<1>4. is = FrameAt(received)
  BY <1>2
<1> HIDE DEF is
<1> QED BY <1>1, <1>3, <1>4

\* More is sent: nothing of what was received is touched.
LEMMA IrcSends ==
    ASSUME IrcInv, parsed \in Seq(ItemRecords), Send
    PROVE  IrcInv'
<1>1. StreamInv /\ CountInv /\ BufferInv
  BY DEF IrcInv
<1>2. UNCHANGED <<received, readbuffer, frame, parsed, pongs, drained>>
  BY DEF Send
<1>3. /\ StreamInv' /\ Len(stream') = Len(stream) + 1
      /\ \A k \in DOMAIN stream : stream'[k] = stream[k]
  BY <1>1, SentStays
<1>4. Len(stream) \in Nat /\ DOMAIN stream = 1..Len(stream) /\ received \in 0..Len(stream) /\ received \in 0..Len(stream')
  <2>1. received \in 0..Len(stream)
    BY <1>1, Zenon DEF CountInv
  <2>2. Len(stream) \in Nat /\ DOMAIN stream = 1..Len(stream)
    BY <1>1, StreamTyped
  <2> QED BY <1>3, <2>1, <2>2
<1>5. \A k \in 1..received : k \in DOMAIN stream /\ stream'[k] = stream[k]
  BY <1>3, <1>4
<1>6. CountInv'
  <2>1. Ends("ping")' = Ends("ping")
    BY <1>2, <1>5 DEF Ends
  <2>2. received # 0 => stream'[received] = stream[received]
    BY <1>4, <1>5
  <2>3. frame' = frame /\ received' = received /\ pongs' = pongs
    BY <1>2
  <2>4. frame' = IF received' = 0 THEN NoFrame
               ELSE [prefix |-> IF stream'[received'].part = "lf" THEN "" ELSE First[stream'[received'].kind],
                     cr |-> stream'[received'].part = "cr"]
    <3>1. frame = IF received = 0 THEN NoFrame
               ELSE [prefix |-> IF stream[received].part = "lf" THEN "" ELSE First[stream[received].kind],
                     cr |-> stream[received].part = "cr"]
      BY <1>1 DEF CountInv
    <3>2. CASE received = 0
      BY <2>3, <3>1, <3>2
    <3>3. CASE received # 0
      BY <2>2, <2>3, <3>1, <3>3
    <3> QED BY <3>2, <3>3
  <2>5. pongs = Cardinality(Ends("ping"))
    BY <1>1 DEF CountInv
  <2>6. pongs' = Cardinality(Ends("ping"))'
    BY <2>1, <2>3, <2>5
  <2> QED BY <1>4, <2>3, <2>4, <2>6 DEF CountInv
<1>7. PICK b : BufferAt(b)
  BY <1>1, BufferSomewhere
<1>8. BufferAt(b)'
  <2>1. b \in 0..received /\ b \in Nat /\ received \in Nat
    BY <1>4, <1>7 DEF BufferAt
  <2>2. MessageStarts(0, b)' = MessageStarts(0, b) /\ MessageStarts(b, received)' = MessageStarts(b, received)
    BY <1>2, <1>5, <2>1 DEF MessageStarts
  <2>3. \A p \in MessageStarts(0, b) : stream'[p] = stream[p]
    BY <1>5, <2>1 DEF MessageStarts
  <2>4. readbuffer' = SubSeq(stream', b + 1, received')
    <3> DEFINE A == SubSeq(stream, b + 1, received)
               B == SubSeq(stream', b + 1, received)
               m == received - b
    <3>0. b <= received /\ received <= Len(stream) /\ received <= Len(stream')
      BY <1>4, <2>1
    <3>1. A \in Seq(SentPieces) /\ Len(A) = m /\ \A i \in 1..m : A[i] = stream[b + i]
      BY <1>1, <2>1, <3>0, WindowMeans
    <3>2. stream' \in Seq(SentPieces) /\ Len(stream') \in Nat
      BY <1>3, <1>4 DEF StreamInv
    <3>3. B \in Seq(SentPieces) /\ Len(B) = m /\ \A i \in 1..m : B[i] = stream'[b + i]
      <4>1. b + 1 \in Nat /\ 1 <= b + 1
        BY <2>1
      <4> QED BY <2>1, <3>0, <3>2, <4>1
    <3>4. \A i \in 1..m : stream'[b + i] = stream[b + i]
      <4>1. \A i \in 1..m : b + i \in 1..received
        BY <2>1
      <4> QED BY <1>5, <4>1
    <3> HIDE DEF A, B, m
    <3>5. A = B
      BY <3>1, <3>3, <3>4, SeqEqual
    <3>6. readbuffer = A
      BY <1>7 DEF BufferAt, A
    <3> QED BY <1>2, <3>5, <3>6 DEF B
  <2>5. parsed' = parsed /\ drained' = drained /\ received' = received /\ LinesParsed' = LinesParsed
    BY <1>2 DEF LinesParsed
  <2>6. /\ \A k \in DOMAIN parsed : /\ parsed[k].whole
                                    /\ \E p \in MessageStarts(0, b) : p + 4 <= received /\ parsed[k].line = stream[p].line
        /\ \A j, k \in DOMAIN parsed : j < k => parsed[j].line < parsed[k].line
        /\ ~drained => \A p \in MessageStarts(0, b) : stream[p].line \in LinesParsed
        /\ \A p \in MessageStarts(b, received) : received < p + 4
    BY <1>7 DEF BufferAt
  <2> QED BY <2>1, <2>2, <2>3, <2>4, <2>5, <2>6 DEF BufferAt
<1>9. BufferInv'
  BY <1>8 DEF BufferInv, BufferAt
<1> QED BY <1>3, <1>6, <1>9 DEF IrcInv

\* A chunk: counted as a whole, and the buffer cut where a complete message ends.
LEMMA IrcReceives ==
    ASSUME IrcInv, parsed \in Seq(ItemRecords), ReceiveChunk
    PROVE  IrcInv' /\ parsed' \in Seq(ItemRecords)
<1>1. StreamInv /\ CountInv /\ BufferInv
  BY DEF IrcInv
<1> DEFINE chunk(n) == SubSeq(stream, received + 1, received + n)
           joined(n) == readbuffer \o chunk(n)
           kept(n) == IF Oversized(joined(n)) THEN DrainReadbuffer(joined(n)) ELSE joined(n)
<1>2. PICK n \in 1..(Len(stream) - received) :
        /\ received' = received + n
        /\ frame' = RecordReceivedData(frame, chunk(n)).frame
        /\ pongs' = pongs + RecordReceivedData(frame, chunk(n)).pings
        /\ readbuffer' = ProcessIrcBuffer(kept(n)).remaining
        /\ parsed' = parsed \o ProcessIrcBuffer(kept(n)).items
        /\ drained' = (drained \/ Oversized(joined(n)))
        /\ UNCHANGED stream
  BY DEF ReceiveChunk
<1>3. received \in 0..Len(stream)
  BY <1>1, Zenon DEF CountInv
<1>4. Len(stream) \in Nat /\ DOMAIN stream = 1..Len(stream)
  BY <1>1, StreamTyped
<1> DEFINE e == received + n
           done == ProcessIrcBuffer(kept(n))
<1>5. e \in Nat /\ e <= Len(stream) /\ received < e /\ received \in Nat /\ n \in Nat /\ received' = e /\ stream' = stream
  BY <1>2, <1>3, <1>4
<1>6. StreamInv'
  BY <1>1, <1>5 DEF StreamInv, Follows
<1>7. CountInv'
  <2>1. frame = FrameAt(received) /\ pongs = Cardinality(EndsTo("ping", received))
    BY <1>1, <1>3, FrameIs
  <2>2. /\ RecordReceivedData(FrameAt(received), chunk(n)).frame = FrameAt(e)
        /\ Cardinality(EndsTo("ping", received)) + RecordReceivedData(FrameAt(received), chunk(n)).pings
             = Cardinality(EndsTo("ping", e))
    BY <1>1, <1>5, RecordedMeans
  <2>3. frame' = FrameAt(e) /\ pongs' = Cardinality(EndsTo("ping", e))
    <3> HIDE DEF chunk, e
    <3> QED BY <1>2, <2>1, <2>2
  <2>4. Ends("ping")' = EndsTo("ping", e)
    BY <1>5 DEF Ends, EndsTo
  <2> DEFINE is == IF e = 0 THEN NoFrame
                   ELSE [prefix |-> IF stream[e].part = "lf" THEN "" ELSE First[stream[e].kind],
                         cr |-> stream[e].part = "cr"]
  <2>5. is = FrameAt(e)
    <3>1. e # 0
      BY <1>5
    <3> HIDE DEF e
    <3> QED BY <3>1 DEF FrameAt, PrefixAt
  <2>6. CountInv' <=> e \in 0..Len(stream) /\ frame' = is /\ pongs' = Cardinality(Ends("ping")')
    <3> HIDE DEF e
    <3> QED BY <1>5 DEF CountInv
  <2>7. e \in 0..Len(stream)
    BY <1>4, <1>5
  <2> HIDE DEF is, e
  <2> QED BY <2>3, <2>4, <2>5, <2>6, <2>7
<1>8. PICK b : BufferAt(b)
  BY <1>1, BufferSomewhere
<1> HIDE DEF e
<1>9. b \in Nat /\ b <= received
  BY <1>5, <1>8 DEF BufferAt
<1>10. joined(n) = SubSeq(stream, b + 1, e)
  <2>1. readbuffer = SubSeq(stream, b + 1, received)
    BY <1>8 DEF BufferAt
  <2>2. received + n <= Len(stream)
    BY <1>5 DEF e
  <2> QED BY <1>1, <1>5, <1>9, <2>1, <2>2, WindowsJoin DEF e
<1>11. PICK c \in b..e : kept(n) = SubSeq(stream, c + 1, e) /\ (c = b \/ Oversized(joined(n)))
  <2> HIDE DEF joined
  <2>1. CASE Oversized(joined(n))
    <3>1. \E c \in b..e : DrainReadbuffer(SubSeq(stream, b + 1, e)) = SubSeq(stream, c + 1, e)
      <4>1. b <= e
        BY <1>5, <1>9
      <4> QED BY <1>1, <1>5, <1>9, <4>1, DrainedMeans
    <3> QED BY <1>10, <2>1, <3>1
  <2>2. CASE ~Oversized(joined(n))
    <3>1. b \in b..e
      BY <1>5, <1>9
    <3> QED BY <1>10, <2>2, <3>1
  <2> QED BY <2>1, <2>2
<1>12. c \in Nat /\ b <= c /\ c <= e
  BY <1>5, <1>9
<1>13. PICK d \in c..e : /\ done.remaining = SubSeq(stream, d + 1, e)
                         /\ Parsed(done.items, c, d, e)
                         /\ \A p \in MessageStarts(d, e) : e < p + 4
  <2> DEFINE window == ProcessIrcBuffer(SubSeq(stream, c + 1, e))
  <2>1. \E d \in c..e : /\ window.remaining = SubSeq(stream, d + 1, e)
                        /\ Parsed(window.items, c, d, e)
                        /\ \A p \in MessageStarts(d, e) : e < p + 4
    BY <1>1, <1>5, <1>12, ProcessedMeans
  <2>2. done = window
    <3> HIDE DEF kept
    <3> QED BY <1>11
  <2> HIDE DEF done, window
  <2> QED BY <2>1, <2>2
<1> DEFINE matches == done.items
           over == Oversized(joined(n))
<1>14. parsed' = parsed \o matches /\ readbuffer' = SubSeq(stream, d + 1, e) /\ drained' = (drained \/ over)
  <2> HIDE DEF kept, joined
  <2>1. readbuffer' = done.remaining
    BY <1>2
  <2> QED BY <1>2, <1>13, <2>1
<1>15. Parsed(matches, c, d, e) /\ \A p \in MessageStarts(d, e) : e < p + 4
  BY <1>13
<1>16. c = b \/ over
  BY <1>11
<1> HIDE DEF matches, over, done, kept, joined, chunk
<1>17. /\ \A k \in DOMAIN parsed : /\ parsed[k].whole
                                   /\ \E p \in MessageStarts(0, b) : p + 4 <= received /\ parsed[k].line = stream[p].line
       /\ \A j, k \in DOMAIN parsed : j < k => parsed[j].line < parsed[k].line
       /\ ~drained => \A p \in MessageStarts(0, b) : stream[p].line \in LinesParsed
  BY <1>8 DEF BufferAt
<1>18. /\ matches \in Seq(ItemRecords)
       /\ \A k \in DOMAIN matches : /\ matches[k].whole
                                  /\ \E p \in MessageStarts(c, d) : p + 4 <= e /\ matches[k].line = stream[p].line
       /\ \A j, k \in DOMAIN matches : j < k => matches[j].line < matches[k].line
       /\ \A p \in MessageStarts(c, d) : \E k \in DOMAIN matches : matches[k].line = stream[p].line
  BY <1>15 DEF Parsed
<1>19. d \in Nat /\ c <= d /\ d <= e
  BY <1>12
<1> DEFINE m == Len(parsed)
           l == Len(matches)
           both == parsed \o matches
<1>20. /\ m \in Nat /\ l \in Nat /\ DOMAIN parsed = 1..m /\ DOMAIN matches = 1..l
       /\ both \in Seq(ItemRecords) /\ DOMAIN both = 1..(m + l)
       /\ \A k \in 1..m : both[k] = parsed[k]
       /\ \A k \in 1..l : both[m + k] = matches[k] /\ m + k \in DOMAIN both
  <2>1. m \in Nat /\ l \in Nat /\ DOMAIN parsed = 1..m /\ DOMAIN matches = 1..l
    BY <1>18
  <2>2. both \in Seq(ItemRecords) /\ Len(both) = m + l
    BY <1>18
  <2>3. \A k \in 1..m : both[k] = parsed[k]
    BY <1>18
  <2>4. \A k \in 1..l : both[m + k] = matches[k]
    BY <1>18
  <2>5. \A k \in 1..l : m + k \in 1..(m + l)
    BY <2>1
  <2> QED BY <2>1, <2>2, <2>3, <2>4, <2>5
<1> HIDE DEF m, l, both
<1>21. ASSUME NEW k \in DOMAIN both
       PROVE  k \in 1..m \/ \E i \in 1..l : k = m + i
  <2>1. k \in 1..(m + l)
    BY <1>20
  <2>2. k > m => k - m \in 1..l /\ k = m + (k - m)
    BY <1>20, <2>1
  <2>3. k > m \/ k \in 1..m
    BY <1>20, <2>1
  <2> QED BY <2>2, <2>3
\* Both kinds of places, complete from 0 to d.
<1>22. /\ \A p \in MessageStarts(0, b) : p \in MessageStarts(0, d)
       /\ \A p \in MessageStarts(c, d) : p \in MessageStarts(0, d)
       /\ c = b => \A p \in MessageStarts(0, d) : p \in MessageStarts(0, b) \/ p \in MessageStarts(c, d)
       /\ \A p \in MessageStarts(0, b) : p \in Nat /\ p <= b /\ p \in DOMAIN stream /\ stream[p].part = "start"
       /\ \A p \in MessageStarts(c, d) : p \in Nat /\ p > c /\ p \in DOMAIN stream /\ stream[p].part = "start"
  BY <1>4, <1>5, <1>9, <1>12, <1>19 DEF MessageStarts
<1>23. ASSUME NEW k \in DOMAIN both
       PROVE  both[k].whole /\ \E p \in MessageStarts(0, d) : p + 4 <= e /\ both[k].line = stream[p].line
  <2>1. CASE k \in 1..m
    <3>1. PICK p \in MessageStarts(0, b) : p + 4 <= received /\ parsed[k].line = stream[p].line
      BY <1>17, <1>20, <2>1
    <3>2. p + 4 <= e /\ p \in MessageStarts(0, d)
      BY <1>5, <1>22, <3>1
    <3>3. both[k] = parsed[k] /\ parsed[k].whole
      BY <1>17, <1>20, <2>1
    <3> QED BY <3>1, <3>2, <3>3
  <2>2. CASE \E i \in 1..l : k = m + i
    <3>1. PICK i \in 1..l : k = m + i
      BY <2>2
    <3>2. both[k] = matches[i] /\ i \in DOMAIN matches
      BY <1>20, <3>1
    <3>3. matches[i].whole
      BY <1>18, <3>2
    <3>4. PICK p \in MessageStarts(c, d) : p + 4 <= e /\ matches[i].line = stream[p].line
      BY <1>18, <3>2
    <3>5. p \in MessageStarts(0, d)
      BY <1>22
    <3> QED BY <3>2, <3>3, <3>4, <3>5
  <2> QED BY <1>21, <2>1, <2>2
<1>24. ASSUME NEW j \in DOMAIN both, NEW k \in DOMAIN both, j < k PROVE both[j].line < both[k].line
  <2>1. CASE k \in 1..m
    <3>1. j \in 1..m
      BY <1>20, <1>24, <2>1
    <3> QED BY <1>17, <1>20, <1>24, <2>1, <3>1
  <2>2. CASE \E i \in 1..l : k = m + i
    <3>1. PICK i \in 1..l : k = m + i
      BY <2>2
    <3>2. both[k] = matches[i] /\ i \in DOMAIN matches
      BY <1>20, <3>1
    <3>3. CASE j \in 1..m
      <4>1. PICK p \in MessageStarts(0, b) : parsed[j].line = stream[p].line
        BY <1>17, <1>20, <3>3
      <4>2. PICK q \in MessageStarts(c, d) : matches[i].line = stream[q].line
        BY <1>18, <3>2
      <4>3. p < q
        BY <1>9, <1>12, <1>22, <4>1, <4>2
      <4>4. stream[p].line < stream[q].line
        BY <1>1, <1>22, <4>1, <4>2, <4>3, MessageApart
      <4> QED BY <1>20, <3>2, <3>3, <4>1, <4>2, <4>4
    <3>4. CASE \E h \in 1..l : j = m + h
      <4>1. PICK h \in 1..l : j = m + h
        BY <3>4
      <4>2. both[j] = matches[h] /\ h \in DOMAIN matches /\ h < i
        BY <1>20, <1>24, <3>1, <4>1
      <4> QED BY <1>18, <3>2, <4>2
    <3> QED BY <1>21, <3>3, <3>4
  <2> QED BY <1>21, <2>1, <2>2
<1>25. ASSUME ~drained', NEW p \in MessageStarts(0, d) PROVE \E k \in DOMAIN both : both[k].line = stream[p].line
  <2>1. ~drained /\ c = b
    BY <1>14, <1>16, <1>25
  <2>2. CASE p \in MessageStarts(0, b)
    <3>1. stream[p].line \in LinesParsed
      BY <1>17, <2>1, <2>2
    <3>2. PICK k \in DOMAIN parsed : stream[p].line = parsed[k].line
      BY <3>1 DEF LinesParsed
    <3>3. k \in DOMAIN both /\ both[k] = parsed[k]
      BY <1>20
    <3> QED BY <3>2, <3>3
  <2>3. CASE p \in MessageStarts(c, d)
    <3>1. PICK k \in DOMAIN matches : matches[k].line = stream[p].line
      BY <1>18, <2>3
    <3>2. m + k \in DOMAIN both /\ both[m + k] = matches[k]
      BY <1>20
    <3> QED BY <3>1, <3>2
  <2> QED BY <1>22, <2>1, <2>2, <2>3
<1>26. parsed' = both
  BY <1>14 DEF both
<1>27. BufferAt(d)'
  <2>1. MessageStarts(0, d)' = MessageStarts(0, d) /\ MessageStarts(d, received)' = MessageStarts(d, e)
    BY <1>5 DEF MessageStarts
  <2>2. d \in 0..e
    BY <1>5, <1>19
  <2>3. ~drained' => \A p \in MessageStarts(0, d) : stream[p].line \in LinesParsed'
    BY <1>25, <1>26 DEF LinesParsed
  <2> HIDE DEF both
  <2> QED BY <1>5, <1>14, <1>15, <1>23, <1>24, <1>26, <2>1, <2>2, <2>3 DEF BufferAt
<1>28. BufferInv'
  BY <1>27 DEF BufferInv, BufferAt
<1> QED BY <1>6, <1>7, <1>20, <1>26, <1>28 DEF IrcInv

LEMMA IrcHolds == IrcSpec => [](IrcInv /\ parsed \in Seq(ItemRecords))
<1>1. IrcInit => IrcInv /\ parsed \in Seq(ItemRecords)
  BY IrcStarts
<1>2. IrcInv /\ parsed \in Seq(ItemRecords) /\ [IrcNext]_ircVars => (IrcInv /\ parsed \in Seq(ItemRecords))'
  <2> SUFFICES ASSUME IrcInv, parsed \in Seq(ItemRecords), [IrcNext]_ircVars
               PROVE  IrcInv' /\ parsed' \in Seq(ItemRecords)
    OBVIOUS
  <2>1. CASE Send
    <3>1. parsed' = parsed
      BY <2>1 DEF Send
    <3> QED BY <2>1, <3>1, IrcSends
  <2>2. CASE ReceiveChunk
    BY <2>2, IrcReceives
  <2>3. CASE UNCHANGED ircVars
    <3>1. /\ stream' = stream /\ received' = received /\ readbuffer' = readbuffer /\ frame' = frame
          /\ parsed' = parsed /\ pongs' = pongs /\ drained' = drained
      BY <2>3 DEF ircVars
    <3>2. StreamInv' = StreamInv
      BY <3>1, Zenon DEF StreamInv, Follows
    <3>3. CountInv'
      <4>1. Ends("ping")' = Ends("ping")
        BY <3>1, Zenon DEF Ends
      <4>2. CountInv
        BY DEF IrcInv
      <4>3. received' \in 0..Len(stream')
        BY <3>1, <4>2, Zenon DEF CountInv
      <4>4. frame' = IF received' = 0 THEN NoFrame
                     ELSE [prefix |-> IF stream'[received'].part = "lf" THEN "" ELSE First[stream'[received'].kind],
                           cr |-> stream'[received'].part = "cr"]
        BY <3>1, <4>2, Zenon DEF CountInv
      <4>5. pongs' = Cardinality(Ends("ping"))'
        BY <3>1, <4>1, <4>2, Zenon DEF CountInv
      <4> QED BY <4>3, <4>4, <4>5, Zenon DEF CountInv
    <3>4. BufferInv'
      <4>1. PICK b : BufferAt(b)
        BY BufferSomewhere DEF IrcInv
      <4>2. BufferAt(b)'
        BY <3>1, <4>1 DEF BufferAt, MessageStarts, LinesParsed
      <4> QED BY <4>2 DEF BufferInv, BufferAt
    <3> QED BY <3>1, <3>2, <3>3, <3>4 DEF IrcInv
  <2> QED BY <2>1, <2>2, <2>3 DEF IrcNext, NothingYet
<1> QED BY <1>1, <1>2, PTL DEF IrcSpec

LEMMA ChunksFollow == IrcInv => ChunksDoNotMatter
<1> SUFFICES ASSUME IrcInv PROVE ChunksDoNotMatter
  OBVIOUS
<1>1. StreamInv /\ CountInv /\ BufferInv
  BY DEF IrcInv
<1>2. received \in 0..Len(stream) /\ pongs = Cardinality(Ends("ping"))
  BY <1>1, Zenon DEF CountInv
<1>3. Len(stream) \in Nat /\ DOMAIN stream = 1..Len(stream)
  BY <1>1, StreamTyped
<1>4. PICK b : BufferAt(b)
  BY <1>1, BufferSomewhere
<1>5. /\ b \in 0..received
      /\ \A k \in DOMAIN parsed : /\ parsed[k].whole
                                  /\ \E p \in MessageStarts(0, b) : p + 4 <= received /\ parsed[k].line = stream[p].line
      /\ \A j, k \in DOMAIN parsed : j < k => parsed[j].line < parsed[k].line
      /\ ~drained => \A p \in MessageStarts(0, b) : stream[p].line \in LinesParsed
      /\ \A p \in MessageStarts(b, received) : received < p + 4
  BY <1>4 DEF BufferAt
<1>6. LinesParsed \subseteq {stream[k].line : k \in Ends("message")}
  <2> SUFFICES ASSUME NEW i \in DOMAIN parsed PROVE \E k \in Ends("message") : parsed[i].line = stream[k].line
    BY DEF LinesParsed
  <2>1. PICK p \in MessageStarts(0, b) : p + 4 <= received /\ parsed[i].line = stream[p].line
    BY <1>5
  <2>2. p \in Nat /\ p \in DOMAIN stream /\ stream[p].part = "start" /\ p + 4 <= Len(stream) /\ p + 4 \in 1..received
    BY <1>2, <1>3, <1>5, <2>1 DEF MessageStarts
  <2>3. stream[p].kind = "message"
    BY <1>1, <2>2 DEF StreamInv
  <2>4. stream[p + 4].part = "lf" /\ stream[p + 4].line = stream[p].line /\ stream[p + 4].kind = "message"
    BY <1>1, <2>2, <2>3, MessageForward
  <2> QED BY <2>1, <2>2, <2>4 DEF Ends
<1>7. ASSUME ~drained, NEW k \in Ends("message") PROVE stream[k].line \in LinesParsed
  <2>1. k \in DOMAIN stream /\ stream[k].part = "lf" /\ stream[k].kind = "message" /\ k <= received /\ k \in Nat
    BY <1>2, <1>3 DEF Ends
  <2>2. k - 4 \in DOMAIN stream /\ stream[k - 4].part = "start" /\ stream[k - 4].line = stream[k].line
    BY <1>1, <2>1, MessageBack
  <2>3. CASE k - 4 <= b
    <3>1. k - 4 \in MessageStarts(0, b)
      BY <1>3, <1>5, <2>2, <2>3 DEF MessageStarts
    <3> QED BY <1>5, <1>7, <2>2, <3>1
  <2>4. CASE ~(k - 4 <= b)
    <3>1. k - 4 \in MessageStarts(b, received)
      <4>1. b \in Nat /\ received \in Nat
        BY <1>2, <1>3, <1>5
      <4>2. k - 4 \in (b + 1)..received
        BY <2>1, <2>4, <4>1
      <4> QED BY <2>2, <4>2 DEF MessageStarts
    <3>2. received < (k - 4) + 4
      BY <1>5, <3>1
    <3> QED BY <1>2, <2>1, <3>2
  <2> QED BY <2>3, <2>4
<1> QED BY <1>2, <1>5, <1>6, <1>7 DEF ChunksDoNotMatter

\* However Twitch's lines are cut into chunks, and whatever the limit of the read buffer: all
\* complete PINGs are answered and the complete messages parsed, whole, once and in order; only
\* a buffer that was cut down at its limit can cost messages (get_chat_messages_by_stream_id).
THEOREM ChunksNeverMatter == IrcSpec => []ChunksDoNotMatter
  BY IrcHolds, ChunksFollow, PTL

=============================================================================
