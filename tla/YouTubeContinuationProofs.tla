---------------------- MODULE YouTubeContinuationProofs ----------------------
(***************************************************************************)
(* TLAPS proofs about YouTubeContinuation, for any chat, request, profiles *)
(* and limits: that a request names one client, that nothing is retrieved  *)
(* again after an accepted response, that what ends by itself is whole,    *)
(* and that tickers are completed from the right events.                   *)
(***************************************************************************)
EXTENDS YouTubeContinuation, Induction, SequenceTheorems, FiniteSetTheorems

-----------------------------------------------------------------------------
(* A page's fold over its actions.                                         *)

\* The page after each of its actions.
LEMMA Unrolled ==
    ASSUME NEW S, NEW actions \in Seq(S), NEW page, NEW req, NEW first
    PROVE  \E F : /\ F[0] = page
                  /\ \A k \in 1..Len(actions) : F[k] = ProcessAction(F[k - 1], actions[k], req, first)
                  /\ ProcessActions(actions, page, req, first) = F[Len(actions)]
<1> DEFINE Eq(f, n) == f = [s \in SUBSET (1..n) |->
                              IF s = {} THEN page
                              ELSE ProcessAction(f[s \ {Max(s)}], actions[Max(s)], req, first)]
<1> DEFINE has == {n \in Nat : \E f : Eq(f, n)}
<1>1. 0 \in has
  <2>1. SUBSET (1..0) = {{}}
    OBVIOUS
  <2>2. Eq([s \in {{}} |-> page], 0)
    BY <2>1
  <2> QED BY <2>2
<1>2. ASSUME NEW n \in Nat, n \in has PROVE n + 1 \in has
  <2>1. PICK f : Eq(f, n)
    BY <1>2
  <2> DEFINE g == [s \in SUBSET (1..(n + 1)) |->
                     IF n + 1 \in s THEN ProcessAction(f[s \ {n + 1}], actions[n + 1], req, first) ELSE f[s]]
  <2>2. ASSUME NEW s \in SUBSET (1..(n + 1))
        PROVE  g[s] = IF s = {} THEN page ELSE ProcessAction(g[s \ {Max(s)}], actions[Max(s)], req, first)
    <3>1. CASE n + 1 \in s
      <4>3. Max(s) = n + 1
        BY <3>1, MaxIsLast
      <4>4. s \ {n + 1} \in SUBSET (1..n) /\ n + 1 \notin s \ {n + 1} /\ s \ {n + 1} \in SUBSET (1..(n + 1))
        OBVIOUS
      <4>5. g[s \ {n + 1}] = f[s \ {n + 1}]
        BY <4>4
      <4> QED BY <3>1, <4>3, <4>5
    <3>2. CASE n + 1 \notin s
      <4>1. s \in SUBSET (1..n)
        BY <3>2
      <4>2. CASE s = {}
        BY <2>1, <3>2, <4>1, <4>2
      <4>3. CASE s # {}
        <5>1. s \in SUBSET Int /\ (\A x \in s : x <= n) /\ n \in Int
          BY <4>1
        <5>2. Max(s) \in s
          BY <4>3, <5>1, MaxMember
        <5>3. s \ {Max(s)} \in SUBSET (1..(n + 1)) /\ n + 1 \notin s \ {Max(s)}
          BY <3>2
        <5>4. g[s] = f[s] /\ g[s \ {Max(s)}] = f[s \ {Max(s)}]
          BY <3>2, <5>3
        <5>5. f[s] = ProcessAction(f[s \ {Max(s)}], actions[Max(s)], req, first)
          BY <2>1, <4>1, <4>3
        <5> QED BY <4>3, <5>4, <5>5
      <4> QED BY <4>2, <4>3
    <3> QED BY <3>1, <3>2
  <2>3. Eq(g, n + 1)
    BY <2>2
  <2> HIDE DEF Eq, g
  <2>4. n + 1 \in Nat /\ \E f_1 : Eq(f_1, n + 1)
    BY <2>3
  <2> QED BY <2>4
<1>3. Len(actions) \in has
  <2> HIDE DEF has
  <2>1. has = Nat
    <3>1. has \in SUBSET Nat
      BY DEF has
    <3> QED BY <1>1, <1>2, <3>1, NatInduct
  <2> QED BY <2>1
<1>4. \E f : Eq(f, Len(actions))
  BY <1>3
<1> DEFINE G == CHOOSE f : Eq(f, Len(actions))
<1>5. Eq(G, Len(actions))
  BY <1>4
<1>6. DOMAIN actions = 1..Len(actions)
  OBVIOUS
<1>7. ProcessActions(actions, page, req, first) = G[1..Len(actions)]
  BY <1>6 DEF ProcessActions, FoldLeft, MapThenFoldSet
<1> DEFINE F == [k \in 0..Len(actions) |-> G[1..k]]
<1>8. F[0] = page
  <2>1. 1..0 = {} /\ {} \in SUBSET (1..Len(actions)) /\ 0 \in 0..Len(actions)
    OBVIOUS
  <2>2. G[{}] = page
    BY <1>5, <2>1
  <2> HIDE DEF G
  <2> QED BY <2>1, <2>2
<1>9. ASSUME NEW k \in 1..Len(actions) PROVE F[k] = ProcessAction(F[k - 1], actions[k], req, first)
  <2> HIDE DEF G, F, has, Eq
  <2>1. /\ 1..k \in SUBSET (1..Len(actions)) /\ 1..k # {} /\ (1..k) \ {k} = 1..(k - 1)
        /\ k \in Nat /\ k \in 1..k /\ k \in 0..Len(actions) /\ k - 1 \in 0..Len(actions)
    <3>1. Len(actions) \in Nat /\ k \in Nat /\ 1 <= k /\ k <= Len(actions)
      OBVIOUS
    <3>2. 1..k \in SUBSET (1..Len(actions)) /\ 1..k # {} /\ k \in 1..k
      <4>1. \A m, n \in Nat : 1 <= m /\ m <= n => 1..m \in SUBSET (1..n) /\ 1..m # {} /\ m \in 1..m
        OBVIOUS
      <4> QED BY <3>1, <4>1
    <3>3. (1..k) \ {k} = 1..(k - 1)
      BY <3>1
    <3> QED BY <3>1, <3>2, <3>3
  <2>2. Max(1..k) = k
    BY <2>1, MaxIsLast
  <2>3. G[1..k] = ProcessAction(G[(1..k) \ {Max(1..k)}], actions[Max(1..k)], req, first)
    BY <1>5, <2>1 DEF Eq
  <2> QED BY <2>1, <2>2, <2>3 DEF F
<1>10. Len(actions) \in 0..Len(actions)
  OBVIOUS
<1> HIDE DEF G
<1>11. ProcessActions(actions, page, req, first) = F[Len(actions)]
  BY <1>7, <1>10
<1> QED BY <1>8, <1>9, <1>11

-----------------------------------------------------------------------------
(* One action of a page.                                                   *)

Processed == [id : Nat, as : {"yield", "skip", "stop"}, detail : Nat \cup {None}]
PageStates == [stopped : BOOLEAN, cache : Seq(Actions), offset : Nat \cup {None}, out : Seq(Processed)]

LEMMA KnownPlace ==
    ASSUME NEW cache, NEW event, Knows(cache, event)
    PROVE  PlaceOf(cache, event) \in DOMAIN cache /\ cache[PlaceOf(cache, event)].event = event
  BY DEF Knows, PlaceOf

LEMMA RemovedAt ==
    ASSUME NEW S, NEW s \in Seq(S), NEW p \in 1..Len(s)
    PROVE  /\ RemoveAt(s, p) \in Seq(S) /\ Len(RemoveAt(s, p)) = Len(s) - 1
           /\ \A i \in 1..(Len(s) - 1) : RemoveAt(s, p)[i] = IF i < p THEN s[i] ELSE s[i + 1]
<1>1. /\ SubSeq(s, 1, p - 1) \in Seq(S) /\ Len(SubSeq(s, 1, p - 1)) = p - 1
      /\ \A i \in 1..(p - 1) : SubSeq(s, 1, p - 1)[i] = s[i]
  OBVIOUS
<1>2. /\ SubSeq(s, p + 1, Len(s)) \in Seq(S) /\ Len(SubSeq(s, p + 1, Len(s))) = Len(s) - p
      /\ \A i \in 1..(Len(s) - p) : SubSeq(s, p + 1, Len(s))[i] = s[p + i]
  OBVIOUS
<1>3. RemoveAt(s, p) = SubSeq(s, 1, p - 1) \o SubSeq(s, p + 1, Len(s))
  BY DEF RemoveAt
<1> DEFINE front == SubSeq(s, 1, p - 1)
           back == SubSeq(s, p + 1, Len(s))
<1> HIDE DEF front, back
<1>4. /\ front \o back \in Seq(S) /\ Len(front \o back) = Len(s) - 1
      /\ \A i \in 1..(Len(s) - 1) : (front \o back)[i] = IF i < p THEN front[i] ELSE back[i - (p - 1)]
  <2>1. front \in Seq(S) /\ back \in Seq(S) /\ Len(front) = p - 1 /\ Len(back) = Len(s) - p /\ Len(s) \in Nat
    BY <1>1, <1>2 DEF front, back
  <2>2. /\ front \o back \in Seq(S) /\ Len(front \o back) = Len(front) + Len(back)
        /\ \A i \in 1..(Len(front) + Len(back)) :
             (front \o back)[i] = IF i <= Len(front) THEN front[i] ELSE back[i - Len(front)]
    BY <2>1, ConcatProperties
  <2>3. Len(front) + Len(back) = Len(s) - 1 /\ \A i \in 1..(Len(s) - 1) : i < p <=> i <= Len(front)
    BY <2>1
  <2> QED BY <2>1, <2>2, <2>3
<1>5. ASSUME NEW i \in 1..(Len(s) - 1) PROVE (front \o back)[i] = IF i < p THEN s[i] ELSE s[i + 1]
  <2>1. CASE i < p
    BY <1>1, <1>4, <2>1 DEF front
  <2>2. CASE ~(i < p)
    <3>1. i - (p - 1) \in 1..(Len(s) - p) /\ p + (i - (p - 1)) = i + 1
      BY <2>2
    <3> QED BY <1>2, <1>4, <2>2, <3>1 DEF back
  <2> QED BY <2>1, <2>2
<1> QED BY <1>3, <1>4, <1>5 DEF front, back

LEMMA RememberTyped ==
    ASSUME NEW cache \in Seq(Actions), Len(cache) <= PaidLimit, NEW action \in Actions
    PROVE  Remember(cache, action) \in Seq(Actions) /\ Len(Remember(cache, action)) <= PaidLimit
<1>1. PaidLimit \in Nat
  BY ChatAssumption
<1> DEFINE forgotten == Forget(cache, action.event)
<1>2. forgotten \in Seq(Actions) /\ Len(forgotten) <= Len(cache)
  <2>1. CASE Knows(cache, action.event)
    <3>1. PlaceOf(cache, action.event) \in 1..Len(cache)
      BY <2>1, KnownPlace
    <3> QED BY <2>1, <3>1, RemovedAt DEF Forget
  <2>2. CASE ~Knows(cache, action.event)
    BY <2>2 DEF Forget
  <2> QED BY <2>1, <2>2
<1> HIDE DEF forgotten
<1> DEFINE grown == Append(forgotten, action)
<1>3. grown \in Seq(Actions) /\ Len(grown) = Len(forgotten) + 1 /\ grown # <<>>
  BY <1>2
<1>4. Remember(cache, action) = IF Len(grown) > PaidLimit THEN Tail(grown) ELSE grown
  BY DEF Remember, forgotten
<1> HIDE DEF grown
<1>5. Tail(grown) \in Seq(Actions) /\ Len(Tail(grown)) = Len(grown) - 1
  BY <1>3
<1> QED BY <1>1, <1>2, <1>3, <1>4, <1>5

LEMMA DetailsTyped ==
    ASSUME NEW cache \in Seq(Actions), NEW action \in Actions
    PROVE  Details(cache, action) \in Nat \cup {None}
<1>1. CASE Knows(cache, action.event)
  <2>1. cache[PlaceOf(cache, action.event)] \in Actions
    BY <1>1, KnownPlace
  <2> QED BY <2>1 DEF Details, Actions
<1>2. CASE ~Knows(cache, action.event)
  BY <1>2 DEF Details
<1> QED BY <1>1, <1>2

LEMMA PollOffsetGrows ==
    ASSUME NEW off \in Nat \cup {None}, NEW action \in Actions, NEW req, NEW disposition
    PROVE  /\ PollOffset(off, action, req, disposition) \in Nat \cup {None}
           /\ off # None => /\ PollOffset(off, action, req, disposition) # None
                            /\ PollOffset(off, action, req, disposition) >= off
<1> DEFINE from == IF off = None THEN 0 ELSE off
<1>1. from \in Nat /\ action.time \in Int /\ None \notin Int
  BY SetupAssumption DEF Actions
<1> HIDE DEF from
<1> DEFINE times == {from, action.time, 0}
<1>2. PICK b \in Int : from <= b /\ action.time <= b /\ 0 <= b
  <2>1. CASE from <= action.time
    BY <1>1, <2>1
  <2>2. CASE ~(from <= action.time)
    BY <1>1, <2>2
  <2> QED BY <2>1, <2>2
<1>3. Max(times) \in times /\ \A t \in times : t <= Max(times)
  <2>1. times \in SUBSET Int /\ times # {} /\ \A t \in times : t <= b
    BY <1>1, <1>2
  <2> HIDE DEF times
  <2> QED BY <2>1, MaxMember
<1>4. Max(times) \in Nat /\ Max(times) >= from
  BY <1>1, <1>3
<1>5. PollOffset(off, action, req, disposition) \in {off, Max(times)}
  BY DEF PollOffset, from
<1> HIDE DEF times
<1>6. off # None => off = from
  BY DEF from
<1> QED BY <1>1, <1>4, <1>5, <1>6

LEMMA DispositionTyped ==
    ASSUME NEW action, NEW req, NEW first
    PROVE  Disposition(action, req, first) \in {"yield", "skip", "stop"}
  BY DEF Disposition, CheckTime

LEMMA ActionTyped ==
    ASSUME NEW page \in PageStates, Len(page.cache) <= PaidLimit, NEW action \in Actions, NEW req, NEW first
    PROVE  /\ ProcessAction(page, action, req, first) \in PageStates
           /\ Len(ProcessAction(page, action, req, first).cache) <= PaidLimit
<1>1. CASE page.stopped
  BY <1>1 DEF ProcessAction
<1>2. CASE ~page.stopped
  <2> DEFINE disposition == Disposition(action, req, first)
             owed == Parsed(action) /\ action.kind \in PaidKinds
             cache == IF owed THEN Remember(page.cache, action) ELSE page.cache
             detail == IF Parsed(action) THEN Details(page.cache, action) ELSE None
             offs == PollOffset(page.offset, action, req, disposition)
             entry == [id |-> action.id, as |-> disposition, detail |-> detail]
  <2>1. page.cache \in Seq(Actions) /\ page.offset \in Nat \cup {None} /\ page.out \in Seq(Processed)
    BY DEF PageStates
  <2>2. disposition \in {"yield", "skip", "stop"}
    BY DispositionTyped
  <2>3. cache \in Seq(Actions) /\ Len(cache) <= PaidLimit
    BY <2>1, RememberTyped
  <2>4. detail \in Nat \cup {None}
    BY <2>1, DetailsTyped
  <2>5. offs \in Nat \cup {None}
    BY <2>1, PollOffsetGrows
  <2>6. ProcessAction(page, action, req, first) =
          [stopped |-> disposition = "stop", cache |-> cache, offset |-> offs, out |-> Append(page.out, entry)]
    BY <1>2 DEF ProcessAction
  <2> HIDE DEF disposition, cache, detail, offs
  <2>7. Append(page.out, entry) \in Seq(Processed)
    <3>1. entry \in Processed
      BY <2>2, <2>4 DEF Processed, Actions
    <3> QED BY <2>1, <3>1
  <2> HIDE DEF entry
  <2> QED BY <2>3, <2>5, <2>6, <2>7 DEF PageStates
<1> QED BY <1>1, <1>2

-----------------------------------------------------------------------------
(* All actions of a page.                                                  *)

\* The page keeps its types, and its poll position never goes back.
LEMMA PageTyped ==
    ASSUME NEW actions \in Seq(Actions), NEW page \in PageStates, Len(page.cache) <= PaidLimit, NEW req, NEW first
    PROVE  LET after == ProcessActions(actions, page, req, first) IN
           /\ after \in PageStates /\ Len(after.cache) <= PaidLimit
           /\ page.offset # None => after.offset # None /\ after.offset >= page.offset
<1> DEFINE n == Len(actions)
           Fine(p) == /\ p \in PageStates /\ Len(p.cache) <= PaidLimit
                      /\ page.offset # None => p.offset # None /\ p.offset >= page.offset
<1>1. PICK F : /\ F[0] = page
               /\ \A k \in 1..n : F[k] = ProcessAction(F[k - 1], actions[k], req, first)
               /\ ProcessActions(actions, page, req, first) = F[n]
  BY Unrolled
<1> DEFINE S == {k \in 0..n : Fine(F[k])}
<1>2. n \in Nat
  OBVIOUS
<1>3. 0 \in S
  BY <1>1, <1>2, SetupAssumption DEF PageStates
<1>4. ASSUME NEW k \in 0..(n - 1), k \in S PROVE k + 1 \in S
  <2>1. k + 1 \in 1..n /\ k + 1 - 1 = k /\ k + 1 \in 0..n /\ actions[k + 1] \in Actions
    BY <1>2
  <2>2. F[k + 1] = ProcessAction(F[k], actions[k + 1], req, first)
    BY <1>1, <2>1
  <2>3. Fine(F[k])
    BY <1>4
  <2> DEFINE p == F[k]
             q == ProcessAction(p, actions[k + 1], req, first)
  <2> HIDE DEF p
  <2>4. q \in PageStates /\ Len(q.cache) <= PaidLimit
    BY <2>1, <2>3, ActionTyped DEF p
  <2>5. q.offset = p.offset \/ \E d : q.offset = PollOffset(p.offset, actions[k + 1], req, d)
    BY DEF ProcessAction
  <2>6. p.offset \in Nat \cup {None} /\ page.offset \in Nat \cup {None}
    BY <2>3 DEF p, PageStates
  <2>7. p.offset # None => q.offset # None /\ q.offset >= p.offset
    BY <2>1, <2>5, <2>6, PollOffsetGrows, SetupAssumption
  <2>8. q.offset \in Nat \cup {None}
    BY <2>4 DEF PageStates
  <2> HIDE DEF q
  <2>9. page.offset # None => q.offset # None /\ q.offset >= page.offset
    BY <2>3, <2>6, <2>7, <2>8, SetupAssumption DEF p
  <2>10. Fine(q)
    BY <2>4, <2>9
  <2> QED BY <2>1, <2>2, <2>10 DEF q, p
<1>5. n \in S
  <2> HIDE DEF S
  <2>1. \A k \in 0..n : k \in S
    <3> HIDE DEF n
    <3> QED BY <1>2, <1>3, <1>4, NatInductTo
  <2> QED BY <1>2, <2>1
<1>6. Fine(F[n])
  BY <1>5
<1> QED BY <1>1, <1>6

-----------------------------------------------------------------------------
(* Types.                                                                  *)

ProfileSet == {None, "web", "android", "ios"}
Agents == {"caller", "web", "android", "ios"}
Clients == {"web", "android", "ios"}
Visitors == {None, "boot", "fresh"}
Views == SUBSET {"top", "live"}
Steps == {"bootstrap", "page", "innertube", "parsed", "enriched", "build", "request"}

Sessions == [profile : ProfileSet, agent : Agents, client : ProfileSet, visitor : Visitors]
Configs == [client : Clients, visitor : Visitors, agent : Agents]
AllInfos == [status : {"live", "replay", "unknown"}, playable : {"ok", "generic", "other"},
             views : Views, supplied : BOOLEAN]

SetupTyped ==
    /\ request \in AnyRequest /\ session \in Sessions /\ cfg \in Configs /\ info \in AllInfos
    /\ attempt \in 1..MaxAttempts
    /\ pc \in Steps \cup Ended

LoopTyped ==
    /\ context \in [client : ProfileSet, visitor : Visitors]
    /\ token \in [page : 1..Len(Pages), by : ProfileSet]
    /\ offset \in Nat \cup {None} /\ accepted \in BOOLEAN
    /\ fallbacks \in 0..(MaxProfileFallbacks + 1) /\ stalled \in 0..MaxNoProgressPolls
    /\ paid \in Seq(Actions) /\ Len(paid) <= PaidLimit
    /\ out \in Seq(Processed)

\* The counts are at their limits only when the retrieval ends.
TypeInv ==
    /\ SetupTyped /\ LoopTyped
    /\ pc \notin Ended => fallbacks <= MaxProfileFallbacks /\ stalled < MaxNoProgressPolls

LEMMA Constants ==
    /\ MaxAttempts \in Nat /\ MaxAttempts >= 1 /\ MaxProfileFallbacks \in Nat
    /\ MaxNoProgressPolls \in Nat /\ MaxNoProgressPolls >= 1 /\ PaidLimit \in Nat
    /\ None \notin Int /\ None \notin {"caller", "web", "android", "ios"} /\ AutoFallback \in BOOLEAN
    /\ Pages \in Seq(Seq(Actions)) /\ Len(Pages) \in Nat /\ Len(Pages) >= 1
  BY SetupAssumption, ChatAssumption

LEMMA NoneIsNoProfile == None # "web" /\ None # "android" /\ None # "ios" /\ None # "caller"
  BY Constants

LEMMA ProfilesTyped ==
    /\ \A p \in ProfileSet : Client(p) \in Clients /\ UserAgent(p) \in Agents /\ NextProfile(p) \in {None, "android", "ios"}
  BY DEF ProfileSet, Agents, Clients, Client, UserAgent, NextProfile

LEMMA ConfigTyped ==
    ASSUME NEW c \in Configs, NEW p \in ProfileSet
    PROVE  /\ ProfiledConfig(c, p) \in Configs
           /\ ProfiledConfig(c, p).client = IF p = None THEN c.client ELSE p
           /\ ProfiledConfig(c, p).agent = IF p \in Mobile THEN p ELSE c.agent
           /\ ProfiledConfig(c, p).visitor = c.visitor
  BY DEF Configs, ProfiledConfig, ProfileSet, Agents, Clients, Mobile

LEMMA HeadersTyped ==
    ASSUME NEW s \in Sessions, NEW c \in Configs
    PROVE  /\ WithHeaders(s, c) \in Sessions
           /\ WithHeaders(s, c).profile = s.profile /\ WithHeaders(s, c).client = c.client
           /\ WithHeaders(s, c).agent = IF request.explicit THEN "caller" ELSE c.agent
  BY DEF Sessions, Configs, WithHeaders, Agents, Clients, ProfileSet

LEMMA AppliedTyped ==
    ASSUME NEW s \in Sessions, NEW p \in ProfileSet
    PROVE  /\ ApplyProfile(s, p) \in Sessions
           /\ ApplyProfile(s, p).profile = p /\ ApplyProfile(s, p).agent = UserAgent(p)
  BY ProfilesTyped DEF Sessions, ApplyProfile

LEMMA InitTyped == Init => TypeInv
<1> SUFFICES ASSUME Init PROVE TypeInv
  OBVIOUS
<1>1. request \in AnyRequest
  BY ChatAssumption DEF Init
<1>2. session \in Sessions
  BY ProfilesTyped, ChatAssumption DEF Init, Sessions, ProfileSet, Visitors
<1>3. cfg \in Configs
  BY <1>2 DEF Init, Configs, Sessions, Agents, Clients, Visitors
<1>4. info \in AllInfos
  BY DEF Init, NoInfo, AllInfos, Views
<1>5. SetupTyped
  BY <1>1, <1>2, <1>3, <1>4, Constants DEF Init, SetupTyped, Steps
<1>6. LoopTyped
  <2>1. paid \in Seq(Actions) /\ out \in Seq(Processed) /\ Len(paid) = 0
    BY DEF Init
  <2>2. token \in [page : 1..Len(Pages), by : ProfileSet]
    BY Constants DEF Init, NoToken, ProfileSet
  <2>3. context \in [client : ProfileSet, visitor : Visitors]
    BY DEF Init, ProfileSet, Visitors
  <2>4. fallbacks \in 0..(MaxProfileFallbacks + 1) /\ stalled \in 0..MaxNoProgressPolls /\ Len(paid) <= PaidLimit
    BY <2>1, Constants DEF Init
  <2>5. offset \in Nat \cup {None} /\ accepted \in BOOLEAN
    BY DEF Init
  <2> QED BY <2>1, <2>2, <2>3, <2>4, <2>5 DEF LoopTyped
<1> QED BY <1>5, <1>6, Constants DEF Init, TypeInv

LEMMA SetupKeepsTypes ==
    ASSUME TypeInv, Setup, UNCHANGED loopVars
    PROVE  TypeInv'
<1>1. LoopTyped' /\ fallbacks' = fallbacks /\ stalled' = stalled
  BY DEF TypeInv, LoopTyped, loopVars
<1>2. InnerTubeConfig \in Configs /\ [InnerTubeConfig EXCEPT !.client = "web"] \in Configs
  BY ProfilesTyped DEF InnerTubeConfig, Configs, TypeInv, SetupTyped, Sessions, Agents, Clients, Visitors
<1>3. ASSUME NEW supplied \in BOOLEAN, NEW found \in Infos(supplied), Boot(found)
      PROVE  info' \in AllInfos /\ cfg' \in Configs /\ pc' \in Steps
  <2>1. found \in AllInfos
    <3>1. InnerTubeViews \subseteq Views /\ {{}, {"top"}, {"top", "live"}} \subseteq Views
      <4>1. ASSUME NEW v \in InnerTubeViews PROVE v \in Views
        <5>1. PICK submenu \in {{}, {"top", "live"}}, filters \in FilterViews : v = submenu \cup filters
          BY DEF InnerTubeViews
        <5> QED BY <5>1 DEF Views, FilterViews
      <4> QED BY <4>1 DEF Views
    <3>2. found \in [status : {"live", "replay", "unknown"}, playable : {"ok", "generic", "other"},
                     views : IF supplied THEN InnerTubeViews ELSE {{}, {"top"}, {"top", "live"}}, supplied : {supplied}]
      BY <1>3 DEF Infos
    <3>3. found.views \in Views /\ found.supplied \in BOOLEAN
      BY <3>1, <3>2
    <3> QED BY <3>2, <3>3 DEF AllInfos
  <2> QED BY <1>2, <1>3, <2>1 DEF Boot, AllInfos, Steps
<1>4. CASE MobileBootstrap
  <2>1. info' \in AllInfos /\ cfg' \in Configs /\ pc' \in Steps \cup Ended
    BY <1>3, <1>4 DEF MobileBootstrap, TypeInv, SetupTyped, Steps, Ended
  <2> QED BY <1>1, <1>4, <2>1, Constants DEF MobileBootstrap, TypeInv, SetupTyped, Ended
<1>5. CASE PageBootstrap
  <2>1. info' \in AllInfos /\ cfg' \in Configs /\ pc' \in Steps \cup Ended
    BY <1>3, <1>5 DEF PageBootstrap, TypeInv, SetupTyped, Steps, Ended
  <2>2. attempt' \in 1..MaxAttempts
    <3>1. attempt' = 1 \/ (attempt < MaxAttempts /\ attempt' = attempt + 1)
      BY <1>5 DEF PageBootstrap
    <3> QED BY <3>1, Constants DEF TypeInv, SetupTyped
  <2> QED BY <1>1, <1>5, <2>1, <2>2 DEF PageBootstrap, TypeInv, SetupTyped, Ended
<1>6. CASE InnerTubeBootstrap
  <2>1. info' \in AllInfos /\ cfg' \in Configs /\ pc' \in Steps \cup Ended
    BY <1>3, <1>6 DEF InnerTubeBootstrap, TypeInv, SetupTyped, Steps, Ended
  <2> QED BY <1>1, <1>6, <2>1 DEF InnerTubeBootstrap, TypeInv, SetupTyped, Ended
<1>7. CASE Refused
  BY <1>1, <1>7 DEF Refused, PlayabilityError, setupVars, TypeInv, SetupTyped, Ended
<1>8. CASE Enrich
  <2>1. info' \in AllInfos /\ pc' \in Steps \cup Ended /\ pc \notin Ended
    <3>1. \/ pc' = "failed" /\ UNCHANGED info
          \/ \E views \in {{}, {"top", "live"}} :
                info' = [info EXCEPT !.views = @ \cup views] /\ pc' = "enriched"
      BY <1>8 DEF Enrich
    <3>2. info \in AllInfos /\ pc = "parsed"
      BY <1>8 DEF Enrich, TypeInv, SetupTyped
    <3> QED BY <3>1, <3>2 DEF AllInfos, Views, Steps, Ended
  <2> QED BY <1>1, <1>8, <2>1 DEF Enrich, TypeInv, SetupTyped
<1>9. CASE SetUp
  <2>1. request' \in AnyRequest
    BY <1>9 DEF SetUp, TypeInv, SetupTyped, AnyRequest
  <2> QED BY <1>1, <1>9, <2>1 DEF SetUp, setupVars, TypeInv, SetupTyped, Steps, Ended
<1>10. CASE NextBootstrap
  <2> DEFINE next == IF AutoFallback /\ (info.status = "unknown" \/ Generic) THEN NextProfile(session.profile) ELSE None
  <2>1. next \in ProfileSet
    BY ProfilesTyped DEF TypeInv, SetupTyped, Sessions, ProfileSet
  <2>2. ApplyProfile(session, next) \in Sessions
    BY <2>1, AppliedTyped DEF TypeInv, SetupTyped
  <2>3. \/ pc' = "failed" /\ UNCHANGED setupVars
        \/ session' = ApplyProfile(session, next) /\ attempt' = 1 /\ pc' = "bootstrap" /\ UNCHANGED <<cfg, info>>
    BY <1>10 DEF NextBootstrap, PlayabilityError
  <2>4. UNCHANGED request /\ pc \notin Ended
    BY <1>10 DEF NextBootstrap, Ended
  <2> HIDE DEF next
  <2> QED BY <1>1, <2>2, <2>3, <2>4, Constants DEF setupVars, TypeInv, SetupTyped, Steps, Ended
<1> QED BY <1>4, <1>5, <1>6, <1>7, <1>8, <1>9, <1>10 DEF Setup

LEMMA BuildTyped ==
    ASSUME TypeInv, Build
    PROVE  TypeInv'
<1>1. session \in Sessions /\ cfg \in Configs /\ session.profile \in ProfileSet /\ request \in AnyRequest
  BY DEF TypeInv, SetupTyped, Sessions
<1>2. cfg' \in Configs
  BY <1>1, ConfigTyped DEF Build
<1>3. session' \in Sessions
  BY <1>1, <1>2, HeadersTyped DEF Build
<1>4. UNCHANGED <<request, accepted, fallbacks, stalled, paid, out>> /\ info' \in AllInfos /\ attempt' = 1
      /\ pc \notin Ended
  BY DEF Build, NoInfo, AllInfos, Views, Ended
<1>5. CASE request.view \in info.views
  <2>1. context' = [client |-> cfg'.client, visitor |-> cfg'.visitor] /\ token' = [page |-> 1, by |-> session.profile]
        /\ offset' = StartOffset /\ pc' = "request"
    BY <1>5 DEF Build
  <2>2. StartOffset \in Nat \cup {None}
    <3>1. request.range.first \in Int \cup {None}
      BY <1>1 DEF AnyRequest
    <3>2. CASE request.range.first = None
      BY <3>2 DEF StartOffset
    <3>3. CASE request.range.first # None
      <4> DEFINE times == {request.range.first, 0}
      <4>1. times \in SUBSET Int /\ times # {} /\ 0 \in times
        BY <3>1, <3>3
      <4>2. PICK b \in Int : \A t \in times : t <= b
        <5>1. CASE request.range.first <= 0
          BY <3>1, <3>3, <5>1
        <5>2. CASE ~(request.range.first <= 0)
          BY <3>1, <3>3, <5>2
        <5> QED BY <5>1, <5>2
      <4>3. StartOffset = Max(times)
        BY <3>3 DEF StartOffset
      <4> HIDE DEF times
      <4>4. Max(times) \in times /\ 0 <= Max(times)
        BY <4>1, <4>2, MaxMember
      <4> DEFINE m == Max(times)
      <4>5. m \in Int /\ 0 <= m
        BY <4>1, <4>4
      <4> HIDE DEF m
      <4>6. m \in Nat
        BY <4>5
      <4> QED BY <4>3, <4>6 DEF m
    <3> QED BY <3>2, <3>3
  <2>3. context' \in [client : ProfileSet, visitor : Visitors]
    BY <1>2, <2>1 DEF Configs, Clients, ProfileSet
  <2>4. token' \in [page : 1..Len(Pages), by : ProfileSet]
    BY <1>1, <2>1, Constants
  <2> QED
    BY <1>1, <1>2, <1>3, <1>4, <2>1, <2>2, <2>3, <2>4, Constants DEF TypeInv, LoopTyped, SetupTyped, Steps
<1>6. CASE request.view \notin info.views
  <2>1. pc' = "failed" /\ UNCHANGED <<session, context, token, offset>>
    BY <1>6 DEF Build
  <2> QED BY <1>2, <1>4, <2>1, Constants DEF TypeInv, LoopTyped, SetupTyped, Ended
<1> QED BY <1>5, <1>6

LEMMA SwitchTyped ==
    ASSUME TypeInv, SwitchProfile(NextProfile(session.profile)), MayRecover
    PROVE  /\ session' \in Sessions /\ cfg' \in Configs /\ attempt' = 1
           /\ context' \in [client : ProfileSet, visitor : Visitors]
           /\ session'.profile = NextProfile(session.profile) /\ NextProfile(session.profile) \in {"android", "ios"}
           /\ context'.client = session'.profile /\ session'.client = session'.profile
           /\ session'.agent = UserAgent(session'.profile)
<1> DEFINE next == NextProfile(session.profile)
<1>1. session \in Sessions /\ cfg \in Configs /\ session.profile \in ProfileSet
  BY DEF TypeInv, SetupTyped, Sessions
<1>2. next \in {"android", "ios"}
  BY <1>1, ProfilesTyped DEF MayRecover
<1> HIDE DEF next
<1>3. next \in ProfileSet /\ next \in Mobile /\ next # None /\ next \in Clients
  BY <1>2, Constants DEF ProfileSet, Mobile, Clients
<1>4. cfg' = ProfiledConfig(cfg, next) /\ session' = WithHeaders(ApplyProfile(session, next), cfg')
      /\ context' = [client |-> cfg'.client, visitor |-> cfg'.visitor] /\ attempt' = 1
  BY DEF SwitchProfile, next
<1>5. ApplyProfile(session, next) \in Sessions /\ ApplyProfile(session, next).profile = next
  BY <1>1, <1>3, AppliedTyped
<1>6. cfg' \in Configs /\ cfg'.client = next /\ cfg'.agent = next
  BY <1>1, <1>3, <1>4, ConfigTyped
<1>7. session' \in Sessions /\ session'.profile = next /\ session'.client = next
      /\ session'.agent = IF request.explicit THEN "caller" ELSE next
  BY <1>4, <1>5, <1>6, HeadersTyped
<1>8. context' \in [client : ProfileSet, visitor : Visitors] /\ context'.client = next
  BY <1>3, <1>4, <1>6 DEF Configs
<1>9. UserAgent(next) = IF request.explicit THEN "caller" ELSE next
  BY <1>3 DEF UserAgent, Client
<1> QED BY <1>2, <1>4, <1>6, <1>7, <1>8, <1>9 DEF next

LEMMA RefreshedTyped ==
    ASSUME TypeInv, session' \in Refreshed(session)
    PROVE  /\ session' \in Sessions
           /\ session'.profile = session.profile /\ session'.agent = session.agent
           /\ session'.client = session.client
  BY DEF Refreshed, TypeInv, SetupTyped, Sessions, Visitors

\* What an answer holds.
AnswerSet == [actions : Seq(Actions), next : 1..(Len(Pages) + 1)]

LEMMA AnswersTyped ==
    ASSUME TypeInv, NEW answer \in Answers
    PROVE  answer \in AnswerSet /\ answer.next \in {token.page, token.page + 1}
<1>1. token.page \in 1..Len(Pages) /\ Pages[token.page] \in Seq(Actions)
  BY Constants DEF TypeInv, LoopTyped
<1>2. \/ answer = [actions |-> Pages[token.page], next |-> token.page + 1]
      \/ answer = [actions |-> <<>>, next |-> token.page]
      \/ answer = [actions |-> Pages[token.page], next |-> token.page]
  BY DEF Answers
<1>3. <<>> \in Seq(Actions)
  OBVIOUS
<1>4. token.page \in 1..(Len(Pages) + 1) /\ token.page + 1 \in 1..(Len(Pages) + 1)
  BY <1>1, Constants
<1>5. answer.next \in {token.page, token.page + 1} /\ answer.actions \in {<<>>, Pages[token.page]}
      /\ answer = [actions |-> answer.actions, next |-> answer.next]
  BY <1>2
<1> QED BY <1>1, <1>3, <1>4, <1>5 DEF AnswerSet

\* The page as it stands before its actions, and after them.
Before == [stopped |-> FALSE, cache |-> paid, offset |-> offset, out |-> out]
After(answer) == ProcessActions(answer.actions, Before, request, token.page = 1)

LEMMA AfterTyped ==
    ASSUME TypeInv, NEW answer \in Answers
    PROVE  /\ After(answer) \in PageStates /\ Len(After(answer).cache) <= PaidLimit
           /\ offset # None => After(answer).offset # None /\ After(answer).offset >= offset
<1>1. Before \in PageStates /\ Before.cache = paid /\ Before.offset = offset
  BY DEF Before, PageStates, TypeInv, LoopTyped
<1>2. Len(Before.cache) <= PaidLimit
  BY <1>1 DEF TypeInv, LoopTyped
<1>3. answer.actions \in Seq(Actions)
  BY AnswersTyped DEF AnswerSet
<1> QED BY <1>1, <1>2, <1>3, PageTyped DEF After

LEMMA AnsweredMeans ==
    ASSUME TypeInv, RequestAnswered
    PROVE  \E answer \in Answers :
             /\ accepted' = TRUE /\ paid' = After(answer).cache /\ offset' = After(answer).offset
             /\ out' = After(answer).out
             /\ IF After(answer).stopped THEN pc' = "ended" /\ UNCHANGED <<token, stalled, latest>>
                ELSE Advance(answer)
  BY DEF RequestAnswered, After, Before

LEMMA AdvanceTyped ==
    ASSUME TypeInv, NEW answer \in Answers, Advance(answer), pc = "request"
    PROVE  /\ token' \in [page : 1..Len(Pages), by : ProfileSet] /\ token'.by = token.by
           /\ token'.page >= token.page
           /\ stalled' \in 0..MaxNoProgressPolls /\ pc' \in {"ended", "failed", "request"}
           /\ pc' = "request" => stalled' < MaxNoProgressPolls
           /\ pc' = "ended" => answer.next > Len(Pages)
           /\ pc' # "ended" => token'.page = answer.next
<1>1. answer.next \in {token.page, token.page + 1} /\ token \in [page : 1..Len(Pages), by : ProfileSet]
      /\ stalled \in 0..(MaxNoProgressPolls - 1) /\ Len(Pages) \in Nat /\ MaxNoProgressPolls \in Nat
      /\ MaxNoProgressPolls >= 1
  BY AnswersTyped, Constants DEF TypeInv, LoopTyped, Ended
<1>2. CASE answer.next > Len(Pages)
  BY <1>1, <1>2 DEF Advance
<1>3. CASE ~(answer.next > Len(Pages))
  <2>1. /\ token' = [token EXCEPT !.page = answer.next]
        /\ stalled' \in {0, stalled + 1}
        /\ pc' = IF stalled' = MaxNoProgressPolls THEN "failed" ELSE "request"
    BY <1>3 DEF Advance
  <2>2. answer.next \in 1..Len(Pages) /\ answer.next >= token.page
    BY <1>1, <1>3
  <2>3. token' \in [page : 1..Len(Pages), by : ProfileSet] /\ token'.by = token.by /\ token'.page = answer.next
    BY <1>1, <2>1, <2>2
  <2> QED BY <1>1, <2>1, <2>2, <2>3
<1> QED BY <1>2, <1>3

LEMMA AnsweredTyped ==
    ASSUME TypeInv, RequestAnswered
    PROVE  TypeInv' /\ session'.profile = session.profile /\ session'.agent = session.agent
           /\ session'.client = session.client /\ token'.by = token.by /\ pc' \in {"ended", "failed", "request"}
           /\ token'.page >= token.page /\ (offset # None => offset' # None /\ offset' >= offset)
<1>1. PICK answer \in Answers :
             /\ accepted' = TRUE /\ paid' = After(answer).cache /\ offset' = After(answer).offset
             /\ out' = After(answer).out
             /\ IF After(answer).stopped THEN pc' = "ended" /\ UNCHANGED <<token, stalled, latest>>
                ELSE Advance(answer)
  BY AnsweredMeans
<1>2. pc = "request" /\ attempt' = 1 /\ session' \in Refreshed(session)
      /\ UNCHANGED <<request, cfg, info, context, fallbacks>>
  BY DEF RequestAnswered
<1>3. paid' \in Seq(Actions) /\ Len(paid') <= PaidLimit /\ offset' \in Nat \cup {None} /\ out' \in Seq(Processed)
      /\ (offset # None => offset' # None /\ offset' >= offset)
  BY <1>1, AfterTyped DEF PageStates
<1>4. /\ token' \in [page : 1..Len(Pages), by : ProfileSet] /\ token'.by = token.by
      /\ token'.page >= token.page
      /\ stalled' \in 0..MaxNoProgressPolls /\ pc' \in {"ended", "failed", "request"}
      /\ pc' = "request" => stalled' < MaxNoProgressPolls
  <2>1. CASE After(answer).stopped
    <3>1. pc' = "ended" /\ UNCHANGED <<token, stalled>>
      BY <1>1, <2>1
    <3>2. token.page \in Int
      BY Constants DEF TypeInv, LoopTyped
    <3> QED BY <3>1, <3>2 DEF TypeInv, LoopTyped
  <2>2. CASE ~After(answer).stopped
    BY <1>1, <1>2, <2>2, AdvanceTyped
  <2> QED BY <2>1, <2>2
<1>5. session' \in Sessions /\ session'.profile = session.profile /\ session'.agent = session.agent
           /\ session'.client = session.client
  BY <1>2, RefreshedTyped
<1>6. TypeInv'
  <2>1. SetupTyped'
    BY <1>2, <1>4, <1>5, Constants DEF TypeInv, SetupTyped, Steps, Ended
  <2>2. LoopTyped'
    BY <1>1, <1>2, <1>3, <1>4 DEF TypeInv, LoopTyped
  <2> QED BY <1>2, <1>4, <2>1, <2>2 DEF TypeInv, Ended
<1> QED BY <1>3, <1>4, <1>5, <1>6

LEMMA PollTyped ==
    ASSUME TypeInv, Poll
    PROVE  TypeInv'
<1>1. CASE RequestRetried
  <2>1. attempt' \in 1..MaxAttempts /\ pc' \in {"request", "failed"} /\ pc = "request"
    BY <1>1, Constants DEF RequestRetried, TypeInv, SetupTyped
  <2> QED BY <1>1, <2>1 DEF RequestRetried, loopVars, TypeInv, SetupTyped, LoopTyped, Steps, Ended
<1>2. CASE RequestRejected
  BY <1>2 DEF RequestRejected, setupVars, loopVars, TypeInv, SetupTyped, LoopTyped, Ended
<1>3. CASE ApiError
  <2>1. session' \in Sessions
    BY <1>3, RefreshedTyped DEF ApiError
  <2> QED BY <1>3, <2>1 DEF ApiError, loopVars, TypeInv, SetupTyped, LoopTyped, Ended
<1>4. CASE RequestIncomplete
  <2>1. pc = "request" /\ fallbacks \in 0..MaxProfileFallbacks /\ stalled < MaxNoProgressPolls
        /\ UNCHANGED <<request, info, token, offset, accepted, stalled, paid, out>>
    BY <1>4, Constants DEF RequestIncomplete, TypeInv, LoopTyped, Ended
  <2>2. CASE attempt < MaxAttempts /\ attempt' = attempt + 1 /\ UNCHANGED <<session, cfg, pc, context, fallbacks>>
    <3>1. attempt' \in 1..MaxAttempts
      BY <2>2, Constants DEF TypeInv, SetupTyped
    <3> QED BY <2>1, <2>2, <3>1 DEF TypeInv, SetupTyped, LoopTyped
  <2>3. CASE /\ fallbacks' = fallbacks + 1
             /\ MayRecover /\ SwitchProfile(NextProfile(session.profile)) /\ UNCHANGED pc
    <3>1. fallbacks' \in 0..MaxProfileFallbacks
      BY <2>1, <2>3, Constants DEF MayRecover
    <3>2. /\ session' \in Sessions /\ cfg' \in Configs /\ attempt' = 1
          /\ context' \in [client : ProfileSet, visitor : Visitors]
      BY <2>3, SwitchTyped
    <3> QED BY <2>1, <2>3, <3>1, <3>2, Constants DEF TypeInv, SetupTyped, LoopTyped
  <2>4. CASE fallbacks' = fallbacks + 1 /\ pc' = "failed" /\ UNCHANGED <<session, cfg, attempt, context>>
    BY <2>1, <2>4, Constants DEF TypeInv, SetupTyped, LoopTyped, Ended
  <2> QED BY <1>4, <2>2, <2>3, <2>4 DEF RequestIncomplete
<1>5. CASE RequestInvalid
  <2>1. pc = "request" /\ fallbacks \in 0..MaxProfileFallbacks /\ stalled < MaxNoProgressPolls
        /\ UNCHANGED <<request, info, token, offset, accepted, stalled, paid, out>>
    BY <1>5, Constants DEF RequestInvalid, TypeInv, LoopTyped, Ended
  <2>2. CASE MayRecover /\ SwitchProfile(NextProfile(session.profile)) /\ pc' = "bootstrap"
    <3>1. fallbacks' \in 0..MaxProfileFallbacks
      BY <1>5, <2>1, <2>2, Constants DEF MayRecover, RequestInvalid
    <3>2. /\ session' \in Sessions /\ cfg' \in Configs /\ attempt' = 1
          /\ context' \in [client : ProfileSet, visitor : Visitors]
      BY <2>2, SwitchTyped
    <3> QED BY <2>1, <2>2, <3>1, <3>2, Constants DEF TypeInv, SetupTyped, LoopTyped, Steps
  <2>3. CASE pc' = "failed" /\ UNCHANGED <<session, cfg, attempt, context>>
    <3>1. fallbacks' \in 0..(MaxProfileFallbacks + 1)
      BY <1>5, <2>1, Constants DEF RequestInvalid
    <3> QED BY <2>1, <2>3, <3>1 DEF TypeInv, SetupTyped, LoopTyped, Ended
  <2> QED BY <1>5, <2>2, <2>3 DEF RequestInvalid
<1>6. CASE RequestAnswered
  BY <1>6, AnsweredTyped
<1> QED BY <1>1, <1>2, <1>3, <1>4, <1>5, <1>6 DEF Poll

LEMMA TypeNext == TypeInv /\ [Next]_vars => TypeInv'
<1>1. ASSUME TypeInv, UNCHANGED vars PROVE TypeInv'
  BY <1>1 DEF TypeInv, SetupTyped, LoopTyped, vars
<1> QED BY <1>1, SetupKeepsTypes, BuildTyped, PollTyped DEF Next, Done

\* Every reachable state of a retrieval is well typed: its counts keep within their
\* limits, and no more paid events are remembered than may be.
THEOREM TypeCorrect == Spec => []TypeOK
<1>1. TypeInv => TypeOK
  <2> SUFFICES ASSUME TypeInv PROVE TypeOK
    OBVIOUS
  <2>1. session \in Sessions /\ token \in [page : 1..Len(Pages), by : ProfileSet]
    BY DEF TypeInv, SetupTyped, LoopTyped
  <2>2. /\ session.profile \in {None, "web"} \cup Mobile /\ session.agent \in {"caller", "web"} \cup Mobile
        /\ session.client \in {None, "web"} \cup Mobile /\ session.visitor \in {None, "boot", "fresh"}
    BY <2>1 DEF Sessions, ProfileSet, Agents, Visitors, Mobile
  <2>3. token.page \in 1..Len(Pages)
    BY <2>1
  <2> QED BY <2>2, <2>3 DEF TypeInv, SetupTyped, LoopTyped, TypeOK, Steps
<1> QED BY <1>1, InitTyped, TypeNext, PTL DEF Spec

-----------------------------------------------------------------------------
(* One client.                                                             *)

\* The order in which the profiles are tried.
Rank(profile) == CASE profile = "ios" -> 2 [] profile = "android" -> 1 [] OTHER -> 0

\* The session's User-Agent is that of its profile at every step, and a profile that
\* names none finds the page's own; a profile whose token was refused comes before
\* the one in use, and so does the one that the token at hand was given to.
FingerprintInv ==
    /\ session.agent = UserAgent(session.profile)
    /\ session.profile = None => cfg.client = "web"
    /\ session.profile \notin Mobile /\ ~request.explicit => cfg.agent = "web"
    /\ pc \notin Ended => \A p \in refused : Rank(p) < Rank(session.profile)
    /\ pc = "request" =>
         /\ context.client = Client(session.profile) /\ session.client = context.client
         /\ Rank(token.by) <= Rank(session.profile) /\ token.by \notin refused

LEMMA Ranks ==
    /\ \A p : Rank(p) \in {0, 1, 2}
    /\ \A p \in ProfileSet : NextProfile(p) # None => Rank(p) < Rank(NextProfile(p))
  BY Constants DEF Rank, NextProfile, ProfileSet

LEMMA InitFingerprint == Init => FingerprintInv
<1> SUFFICES ASSUME Init PROVE FingerprintInv
  OBVIOUS
<1>1. PICK profile \in {None, "web", "android", "ios"} :
        session = [profile |-> profile, agent |-> UserAgent(profile), client |-> None, visitor |-> None]
  BY ChatAssumption DEF Init
<1>2. session.profile = profile /\ session.agent = UserAgent(profile)
  BY <1>1
<1>3. cfg.client = "web" /\ cfg.agent = session.agent /\ pc = "bootstrap" /\ refused = {}
  BY DEF Init
<1>4. profile \notin Mobile /\ ~request.explicit => UserAgent(profile) = "web"
  BY DEF Mobile, UserAgent, Client
<1> QED BY <1>2, <1>3, <1>4 DEF FingerprintInv

LEMMA SetupFingerprint ==
    ASSUME TypeInv, FingerprintInv, Setup, UNCHANGED loopVars
    PROVE  FingerprintInv'
<1>1. pc' # "request" /\ pc \notin Ended /\ UNCHANGED refused /\ request'.explicit = request.explicit
  <2>1. pc' # "request" /\ pc \notin Ended
    BY DEF Setup, MobileBootstrap, PageBootstrap, InnerTubeBootstrap, Boot, Refused, PlayabilityError, Enrich, SetUp,
       NextBootstrap, Ended
  <2>2. request'.explicit = request.explicit
    <3>1. UNCHANGED request \/ request' = [request EXCEPT !.replay = IF request.known THEN @ ELSE info.status = "replay",
                                  !.known = TRUE, !.clipPage = FALSE]
      BY DEF Setup, MobileBootstrap, PageBootstrap, InnerTubeBootstrap, Refused, Enrich, SetUp, NextBootstrap
    <3> QED BY <3>1 DEF TypeInv, SetupTyped, AnyRequest
  <2> QED BY <2>1, <2>2 DEF loopVars
<1>2. session \in Sessions /\ session.profile \in ProfileSet /\ cfg \in Configs
  BY DEF TypeInv, SetupTyped, Sessions
<1>3. CASE UNCHANGED <<session, cfg>>
  BY <1>1, <1>3 DEF FingerprintInv, UserAgent
<1>4. CASE UNCHANGED session /\ cfg' \in {InnerTubeConfig, [InnerTubeConfig EXCEPT !.client = "web"]}
  BY <1>1, <1>2, <1>4, Constants DEF FingerprintInv, InnerTubeConfig, UserAgent, Client, ProfileSet, Mobile
<1>5. CASE UNCHANGED cfg /\ \E next \in {"android", "ios"} : next = NextProfile(session.profile) /\ session' = ApplyProfile(session, next)
  <2>1. PICK next \in {"android", "ios"} : next = NextProfile(session.profile) /\ session' = ApplyProfile(session, next)
    BY <1>5, Zenon
  <2>2. session'.profile = next /\ session'.agent = UserAgent(next) /\ next \in ProfileSet /\ next # None /\ next \in Mobile
    BY <1>2, <2>1, AppliedTyped, Constants DEF ProfileSet, Mobile
  <2>3. Rank(session.profile) < Rank(next)
    BY <1>2, <2>1, <2>2, Ranks
  <2>4. \A p \in refused : Rank(p) < Rank(next)
    BY <1>1, <2>3, Ranks DEF FingerprintInv
  <2> QED BY <1>1, <2>2, <2>4 DEF FingerprintInv, UserAgent
<1>6. \/ UNCHANGED <<session, cfg>>
      \/ UNCHANGED session /\ cfg' \in {InnerTubeConfig, [InnerTubeConfig EXCEPT !.client = "web"]}
      \/ UNCHANGED cfg /\ \E next \in {"android", "ios"} : next = NextProfile(session.profile) /\ session' = ApplyProfile(session, next)
  <2>1. CASE MobileBootstrap \/ PageBootstrap \/ InnerTubeBootstrap
    BY <2>1 DEF MobileBootstrap, PageBootstrap, InnerTubeBootstrap, Boot
  <2>2. CASE Refused \/ Enrich \/ SetUp
    BY <2>2 DEF Refused, Enrich, SetUp, setupVars
  <2>3. CASE NextBootstrap
    <3> DEFINE next == IF AutoFallback /\ (info.status = "unknown" \/ Generic) THEN NextProfile(session.profile) ELSE None
    <3>1. \/ UNCHANGED setupVars
          \/ next # None /\ session' = ApplyProfile(session, next) /\ UNCHANGED cfg
      BY <2>3 DEF NextBootstrap
    <3>2. next # None => next = NextProfile(session.profile) /\ next \in {"android", "ios"}
      BY <1>2, ProfilesTyped
    <3> HIDE DEF next
    <3> QED BY <3>1, <3>2 DEF setupVars
  <2> QED BY <2>1, <2>2, <2>3 DEF Setup
<1> QED BY <1>3, <1>4, <1>5, <1>6

LEMMA BuildFingerprint ==
    ASSUME TypeInv, FingerprintInv, Build
    PROVE  FingerprintInv'
<1>1. session \in Sessions /\ session.profile \in ProfileSet /\ cfg \in Configs
  BY DEF TypeInv, SetupTyped, Sessions
<1>2. /\ cfg' \in Configs
      /\ cfg'.client = IF session.profile = None THEN cfg.client ELSE session.profile
      /\ cfg'.agent = IF session.profile \in Mobile THEN session.profile ELSE cfg.agent
  BY <1>1, ConfigTyped DEF Build
<1>3. UNCHANGED <<request, refused>> /\ pc \notin Ended
  BY DEF Build, Ended
<1>4. cfg'.client = Client(session.profile)
  BY <1>2 DEF Client, FingerprintInv
<1>5. ~request.explicit => cfg'.agent = Client(session.profile)
  BY <1>1, <1>2, Constants DEF FingerprintInv, Client, ProfileSet, Mobile
  \* the web profile and none at all are the web client's
<1>6. CASE request.view \in info.views
  <2>1. /\ session' = WithHeaders(session, cfg') /\ context' = [client |-> cfg'.client, visitor |-> cfg'.visitor]
        /\ token' = [page |-> 1, by |-> session.profile] /\ pc' = "request"
    BY <1>6 DEF Build
  <2>2. /\ session'.profile = session.profile /\ session'.client = cfg'.client
        /\ session'.agent = IF request.explicit THEN "caller" ELSE cfg'.agent
    BY <1>1, <1>2, <2>1, HeadersTyped
  <2>3. session'.agent = UserAgent(session.profile)
    BY <1>5, <2>2 DEF UserAgent
  <2>4. session.profile \notin refused /\ Rank(session.profile) <= Rank(session.profile)
    BY <1>3, Ranks DEF FingerprintInv
  <2>5. token'.by = session.profile /\ context'.client = cfg'.client
    BY <2>1
  <2>6. session.profile = None => cfg'.client = "web"
    BY <1>4 DEF Client
  <2>7. session.profile \notin Mobile /\ ~request.explicit => cfg'.agent = "web"
    BY <1>2 DEF FingerprintInv
  <2> QED BY <1>3, <1>4, <2>2, <2>3, <2>4, <2>5, <2>6, <2>7 DEF FingerprintInv, UserAgent
<1>7. CASE request.view \notin info.views
  <2>1. UNCHANGED session /\ pc' = "failed"
    BY <1>7 DEF Build
  <2> QED BY <1>2, <1>3, <1>4, <2>1 DEF FingerprintInv, UserAgent, Client, Ended
<1> QED BY <1>6, <1>7

LEMMA SwitchFingerprint ==
    ASSUME TypeInv, FingerprintInv, pc = "request", MayRecover, SwitchProfile(NextProfile(session.profile)), UNCHANGED <<request, token>>,
           pc' # "request" \/ UNCHANGED refused, refused' \subseteq refused \cup {token.by}
    PROVE  FingerprintInv'
<1> DEFINE next == NextProfile(session.profile)
<1>1. /\ session'.profile = next /\ next \in {"android", "ios"} /\ context'.client = next /\ session'.client = next
      /\ session'.agent = UserAgent(next)
  BY SwitchTyped
<1>2. session.profile \in ProfileSet /\ next # None
  BY <1>1, Constants DEF TypeInv, SetupTyped, Sessions
<1>3. Rank(session.profile) < Rank(next) /\ pc \notin Ended
  BY <1>2, Ranks DEF Ended
<1>4. Rank(token.by) < Rank(next)
  BY <1>3, Ranks DEF FingerprintInv
<1>5. \A p \in refused' : Rank(p) < Rank(next)
  <2>1. \A p \in refused : Rank(p) < Rank(next)
    BY <1>3, Ranks DEF FingerprintInv
  <2> QED BY <1>4, <2>1
<1>6. next \in Mobile /\ Client(next) = next
  BY <1>1, <1>2 DEF Mobile, Client
<1> HIDE DEF next
<1>7. pc' = "request" => token'.by \notin refused' /\ Rank(token'.by) <= Rank(next)
  BY <1>4, Ranks DEF FingerprintInv
<1> QED BY <1>1, <1>2, <1>5, <1>6, <1>7 DEF FingerprintInv, UserAgent

LEMMA PollFingerprint ==
    ASSUME TypeInv, FingerprintInv, Poll
    PROVE  FingerprintInv'
<1>1. CASE RequestRetried \/ RequestRejected
  BY <1>1 DEF RequestRetried, RequestRejected, setupVars, loopVars, FingerprintInv, Ended, UserAgent
<1>2. CASE ApiError
  <2>1. session'.profile = session.profile /\ session'.agent = session.agent
    BY <1>2, RefreshedTyped DEF ApiError
  <2> QED BY <1>2, <2>1 DEF ApiError, FingerprintInv, Ended, UserAgent
<1>3. CASE RequestIncomplete
  <2>1. pc = "request" /\ UNCHANGED <<request, token, refused>>
    BY <1>3 DEF RequestIncomplete
  <2>2. \/ UNCHANGED <<session, cfg, context>> /\ pc' \in {pc, "failed"}
        \/ MayRecover /\ SwitchProfile(NextProfile(session.profile)) /\ UNCHANGED pc
    BY <1>3 DEF RequestIncomplete
  <2>3. CASE UNCHANGED <<session, cfg, context>> /\ pc' \in {pc, "failed"}
    BY <2>1, <2>3 DEF FingerprintInv, UserAgent, Ended
  <2> QED BY <2>1, <2>2, <2>3, SwitchFingerprint
<1>4. CASE RequestInvalid
  <2>1. pc = "request" /\ UNCHANGED <<request, token>> /\ refused' = refused \cup {token.by}
    BY <1>4 DEF RequestInvalid
  <2>2. \/ UNCHANGED <<session, cfg, context>> /\ pc' = "failed"
        \/ MayRecover /\ SwitchProfile(NextProfile(session.profile)) /\ pc' = "bootstrap"
    BY <1>4 DEF RequestInvalid
  <2>3. CASE UNCHANGED <<session, cfg, context>> /\ pc' = "failed"
    BY <2>1, <2>3 DEF FingerprintInv, UserAgent, Ended
  <2> QED BY <2>1, <2>2, <2>3, SwitchFingerprint
<1>5. CASE RequestAnswered
  <2>1. pc = "request" /\ UNCHANGED <<request, cfg, context, refused>>
    BY <1>5 DEF RequestAnswered
  <2>2. session'.profile = session.profile /\ session'.agent = session.agent
           /\ session'.client = session.client /\ token'.by = token.by
    BY <1>5, AnsweredTyped
  <2> QED BY <2>1, <2>2 DEF FingerprintInv, UserAgent, Ended
<1> QED BY <1>1, <1>2, <1>3, <1>4, <1>5 DEF Poll

\* A chat request names one client in its context, its headers and its profile,
\* and its token is not one that was refused (client_requests_errors.py,
\* request_profiles.py): for every chat, request, first profile and limit.
THEOREM RequestsNameOneClient == Spec => []OneFingerprint
<1>1. Init => TypeInv /\ FingerprintInv
  BY InitTyped, InitFingerprint
<1>2. TypeInv /\ FingerprintInv /\ [Next]_vars => TypeInv' /\ FingerprintInv'
  <2>1. ASSUME FingerprintInv, UNCHANGED vars PROVE FingerprintInv'
    BY <2>1 DEF FingerprintInv, UserAgent, vars
  <2> QED BY <2>1, TypeNext, SetupFingerprint, BuildFingerprint, PollFingerprint DEF Next, Done
<1>3. FingerprintInv => OneFingerprint
  BY DEF FingerprintInv, OneFingerprint
<1> QED BY <1>1, <1>2, <1>3, PTL DEF Spec

-----------------------------------------------------------------------------
(* Nothing is retrieved again.                                             *)

\* The response that is accepted ends the set-up for good.
AcceptedInv == accepted => pc \in {"request"} \cup Ended

LEMMA AcceptedNext ==
    ASSUME TypeInv, AcceptedInv, [Next]_vars
    PROVE  /\ AcceptedInv'
           /\ accepted => /\ accepted' /\ token'.page >= token.page
                          /\ offset # None => offset' # None /\ offset' >= offset
                          /\ pc' # "bootstrap"
<1>1. token.page \in Int /\ offset \in Nat \cup {None}
  BY Constants DEF TypeInv, LoopTyped
<1>2. CASE Setup /\ UNCHANGED loopVars
  <2>1. ~accepted
    BY <1>2 DEF AcceptedInv, Setup, MobileBootstrap, PageBootstrap, InnerTubeBootstrap, Refused, Enrich, SetUp,
       NextBootstrap, Ended
  <2> QED BY <1>2, <2>1 DEF loopVars, AcceptedInv
<1>3. CASE Build
  BY <1>3 DEF Build, AcceptedInv, Ended
<1>4. CASE RequestAnswered
  <2>1. accepted' = TRUE /\ pc' \in {"ended", "failed", "request"}
        /\ token'.page >= token.page /\ (offset # None => offset' # None /\ offset' >= offset)
    BY <1>4, AnsweredTyped DEF RequestAnswered
  <2> QED BY <2>1 DEF AcceptedInv, Ended
<1>5. CASE RequestInvalid
  <2>1. accepted => pc' = "failed"
    BY <1>5 DEF RequestInvalid, RestartAllowed
  <2>2. UNCHANGED <<token, offset, accepted>>
    BY <1>5 DEF RequestInvalid
  <2> QED BY <1>1, <2>1, <2>2 DEF AcceptedInv, Ended
<1>6. CASE RequestRetried \/ RequestRejected \/ ApiError \/ RequestIncomplete
  <2>1. pc = "request" /\ pc' \in {"request", "failed"} /\ UNCHANGED <<token, offset, accepted>>
    BY <1>6 DEF RequestRetried, RequestRejected, ApiError, RequestIncomplete, loopVars
  <2> QED BY <1>1, <2>1 DEF AcceptedInv, Ended
<1>7. CASE UNCHANGED vars
  <2>1. UNCHANGED <<token, offset, accepted, pc>>
    BY <1>7 DEF vars
  <2> QED BY <1>1, <2>1 DEF AcceptedInv, Ended
<1> QED BY <1>2, <1>3, <1>4, <1>5, <1>6, <1>7 DEF Next, Poll, Done

\* After an accepted response no recovery takes the retrieval back, neither its place
\* in the chat nor its poll position (_retry_rejected_initial_replay,
\* _recover_incomplete_continuation).
THEOREM AcceptedIsFinal == Spec => NoRestart
<1>1. Init => TypeInv /\ AcceptedInv
  BY InitTyped DEF Init, AcceptedInv
<1>2. TypeInv /\ AcceptedInv /\ [Next]_vars => TypeInv' /\ AcceptedInv'
  BY TypeNext, AcceptedNext
<1>3. TypeInv /\ AcceptedInv /\ [Next]_vars =>
        [accepted => /\ accepted'
                     /\ token'.page >= token.page
                     /\ offset # None => (offset' # None /\ offset' >= offset)
                     /\ pc' # "bootstrap"]_vars
  BY AcceptedNext
<1> QED BY <1>1, <1>2, <1>3, PTL DEF Spec, NoRestart

-----------------------------------------------------------------------------
(* The chat as its pages.                                                  *)

LEMMA Flattened ==
    ASSUME NEW S, NEW seqs \in Seq(Seq(S)), seqs # <<>>
    PROVE  /\ FlattenSeq(seqs) \in Seq(S)
           /\ \A a : a \in ToSet(FlattenSeq(seqs)) <=>
                       \E p \in 1..Len(seqs) : \E i \in 1..Len(seqs[p]) : a = seqs[p][i]
<1> DEFINE Eq(f, n) == f = [i \in 1..n |-> IF i = 1 THEN seqs[i] ELSE f[i - 1] \o seqs[i]]
           has == {n \in Nat : \E f : Eq(f, n)}
           N == Len(seqs)
<1>1. 0 \in has
  <2>1. 1..0 = {}
    OBVIOUS
  <2>2. Eq([i \in {} |-> 0], 0)
    BY <2>1
  <2> QED BY <2>2
<1>2. ASSUME NEW n \in Nat, n \in has PROVE n + 1 \in has
  <2>1. PICK f : Eq(f, n)
    BY <1>2
  <2> DEFINE g == [i \in 1..(n + 1) |-> IF i = n + 1 THEN (IF i = 1 THEN seqs[i] ELSE f[n] \o seqs[i]) ELSE f[i]]
  <2>2. ASSUME NEW i \in 1..(n + 1) PROVE g[i] = IF i = 1 THEN seqs[i] ELSE g[i - 1] \o seqs[i]
    <3>1. CASE i = n + 1
      <4>1. CASE i = 1
        BY <3>1, <4>1
      <4>2. CASE i # 1
        <5>1. n \in 1..(n + 1) /\ n # n + 1 /\ i - 1 = n
          BY <3>1, <4>2
        <5>2. g[n] = f[n]
          BY <5>1
        <5> QED BY <3>1, <4>2, <5>1, <5>2
      <4> QED BY <4>1, <4>2
    <3>2. CASE i # n + 1
      <4>1. i \in 1..n /\ g[i] = f[i]
        BY <3>2
      <4>2. f[i] = IF i = 1 THEN seqs[i] ELSE f[i - 1] \o seqs[i]
        BY <2>1, <4>1
      <4>3. i # 1 => i - 1 \in 1..(n + 1) /\ i - 1 # n + 1
        BY <4>1
      <4>4. i # 1 => g[i - 1] = f[i - 1]
        BY <4>3
      <4> QED BY <4>1, <4>2, <4>4
    <3> QED BY <3>1, <3>2
  <2>3. Eq(g, n + 1)
    BY <2>2
  <2> HIDE DEF Eq, g
  <2>4. n + 1 \in Nat /\ \E f_1 : Eq(f_1, n + 1)
    BY <2>3
  <2> QED BY <2>4
<1>3. N \in Nat /\ N >= 1 /\ N # 0
  OBVIOUS
<1>4. N \in has
  <2> HIDE DEF has
  <2>1. has = Nat
    <3>1. has \in SUBSET Nat
      BY DEF has
    <3> QED BY <1>1, <1>2, <3>1, NatInduct
  <2> QED BY <1>3, <2>1
<1> DEFINE G == CHOOSE f : Eq(f, N)
<1>5. Eq(G, N)
  BY <1>4
<1>6. FlattenSeq(seqs) = G[N]
  BY <1>3 DEF FlattenSeq
<1> HIDE DEF G
<1> DEFINE Fine(k) == /\ G[k] \in Seq(S)
                      /\ \A a : a \in ToSet(G[k]) <=> \E p \in 1..k : \E i \in 1..Len(seqs[p]) : a = seqs[p][i]
           T == {k \in 0..N : k = 0 \/ Fine(k)}
<1>7. ASSUME NEW k \in 0..(N - 1), k \in T PROVE k + 1 \in T
  <2>1. k + 1 \in 1..N /\ k + 1 \in 0..N /\ k \in Nat /\ k + 1 - 1 = k /\ seqs[k + 1] \in Seq(S)
    BY <1>3
  <2>2. G[k + 1] = IF k + 1 = 1 THEN seqs[k + 1] ELSE G[k] \o seqs[k + 1]
    <3>1. \A i \in 1..N : G[i] = IF i = 1 THEN seqs[i] ELSE G[i - 1] \o seqs[i]
      BY <1>5
    <3> QED BY <2>1, <3>1
  <2> DEFINE s == seqs[k + 1]
  <2>3. \A a : a \in ToSet(s) <=> \E i \in 1..Len(s) : a = s[i]
    BY <2>1 DEF ToSet
  <2>4. CASE k = 0
    <3>1. G[k + 1] = s /\ 1..(k + 1) = {k + 1}
      BY <2>2, <2>4
    <3>2. Fine(k + 1)
      BY <2>1, <2>3, <3>1
    <3> QED BY <2>1, <3>2
  <2>5. CASE k # 0
    <3> DEFINE f == G[k]
    <3>1. f \in Seq(S) /\ \A a : a \in ToSet(f) <=> \E p \in 1..k : \E i \in 1..Len(seqs[p]) : a = seqs[p][i]
      BY <1>7, <2>5
    <3>2. G[k + 1] = f \o s /\ s \in Seq(S)
      <4>1. k + 1 # 1
        BY <2>1, <2>5
      <4> QED BY <2>1, <2>2, <4>1
    <3> HIDE DEF f, s
    <3>3. /\ f \o s \in Seq(S) /\ Len(f \o s) = Len(f) + Len(s)
          /\ \A i \in 1..(Len(f) + Len(s)) : (f \o s)[i] = IF i <= Len(f) THEN f[i] ELSE s[i - Len(f)]
      BY <3>1, <3>2, ConcatProperties
    <3>4. \A a : a \in ToSet(f \o s) <=> a \in ToSet(f) \/ a \in ToSet(s)
      <4>1. DOMAIN f = 1..Len(f) /\ DOMAIN s = 1..Len(s) /\ DOMAIN (f \o s) = 1..(Len(f) + Len(s))
            /\ Len(f) \in Nat /\ Len(s) \in Nat
        BY <3>1, <3>2, <3>3
      <4>2. ASSUME NEW a, a \in ToSet(f \o s) PROVE a \in ToSet(f) \/ a \in ToSet(s)
        <5>1. PICK i \in 1..(Len(f) + Len(s)) : a = (f \o s)[i]
          BY <4>1, <4>2 DEF ToSet
        <5>2. i <= Len(f) => i \in 1..Len(f)
          BY <4>1
        <5>3. ~(i <= Len(f)) => i - Len(f) \in 1..Len(s)
          BY <4>1
        <5> QED BY <3>3, <4>1, <5>1, <5>2, <5>3 DEF ToSet
      <4>3. ASSUME NEW a, a \in ToSet(f) PROVE a \in ToSet(f \o s)
        <5>1. PICK i \in 1..Len(f) : a = f[i]
          BY <4>1, <4>3 DEF ToSet
        <5>2. i \in 1..(Len(f) + Len(s)) /\ i <= Len(f)
          BY <4>1
        <5>3. (f \o s)[i] = f[i]
          BY <3>3, <5>2
        <5> QED BY <4>1, <5>1, <5>2, <5>3 DEF ToSet
      <4>4. ASSUME NEW a, a \in ToSet(s) PROVE a \in ToSet(f \o s)
        <5>1. PICK i \in 1..Len(s) : a = s[i]
          BY <4>1, <4>4 DEF ToSet
        <5>2. i + Len(f) \in 1..(Len(f) + Len(s)) /\ ~(i + Len(f) <= Len(f)) /\ i + Len(f) - Len(f) = i
          BY <4>1
        <5>3. (f \o s)[i + Len(f)] = s[i]
          BY <3>3, <5>2
        <5> QED BY <4>1, <5>1, <5>2, <5>3 DEF ToSet
      <4> QED BY <4>2, <4>3, <4>4
    <3>5. \A p : p \in 1..(k + 1) <=> p \in 1..k \/ p = k + 1
      BY <2>1
    <3>6. \A a : a \in ToSet(f \o s) <=> \E p \in 1..(k + 1) : \E i \in 1..Len(seqs[p]) : a = seqs[p][i]
      <4>1. \A a : a \in ToSet(s) <=> \E i \in 1..Len(seqs[k + 1]) : a = seqs[k + 1][i]
        BY <2>3 DEF s
      <4>2. ASSUME NEW a, a \in ToSet(f \o s)
            PROVE  \E p \in 1..(k + 1) : \E i \in 1..Len(seqs[p]) : a = seqs[p][i]
        <5>1. k + 1 \in 1..(k + 1)
          BY <2>1
        <5>2. CASE a \in ToSet(s)
          BY <4>1, <5>1, <5>2
        <5>3. CASE a \in ToSet(f)
          <6>1. PICK p \in 1..k : \E i \in 1..Len(seqs[p]) : a = seqs[p][i]
            BY <3>1, <5>3
          <6>2. p \in 1..(k + 1)
            BY <3>5
          <6> QED BY <6>1, <6>2
        <5> QED BY <3>4, <4>2, <5>2, <5>3
      <4>3. ASSUME NEW a, NEW p \in 1..(k + 1), \E i \in 1..Len(seqs[p]) : a = seqs[p][i] PROVE a \in ToSet(f \o s)
        <5>1. CASE p \in 1..k
          BY <3>1, <3>4, <4>3, <5>1
        <5>2. CASE p = k + 1
          BY <3>4, <4>1, <4>3, <5>2
        <5> QED BY <3>5, <5>1, <5>2
      <4> QED BY <4>2, <4>3
    <3>7. Fine(k + 1)
      BY <3>2, <3>3, <3>6
    <3> QED BY <2>1, <3>7
  <2> QED BY <2>4, <2>5
<1>8. N \in T
  <2> HIDE DEF T
  <2>1. 0 \in T
    BY <1>3 DEF T
  <2>2. \A k \in 0..N : k \in T
    <3> HIDE DEF N
    <3> QED BY <1>3, <1>7, <2>1, NatInductTo
  <2> QED BY <1>3, <2>2
<1>9. Fine(N)
  BY <1>3, <1>8
<1> QED BY <1>6, <1>9

LEMMA ChatIsItsPages ==
    \A a : a \in ToSet(Chat) <=> \E p \in 1..Len(Pages) : \E i \in 1..Len(Pages[p]) : a = Pages[p][i]
<1>1. Pages \in Seq(Seq(Actions)) /\ Pages # <<>>
  BY ChatAssumption
<1> QED BY <1>1, Flattened DEF Chat

-----------------------------------------------------------------------------
(* What is emitted of a page.                                              *)

\* The hypothesis: the provider tells the chat in the order of its times, on which
\* the code relies when it stops at the first message after the range.
TimeOrdered ==
    \A p, q \in 1..Len(Pages) : \A i \in 1..Len(Pages[p]), j \in 1..Len(Pages[q]) :
      p < q \/ (p = q /\ i < j) => Pages[p][i].time <= Pages[q][j].time

\* An action that was asked for, and one after which nothing is.
Wanted(a, req) ==
    /\ a.kind \in req.kinds \ {"control"}
    /\ req.replay => /\ req.range.first = None \/ a.time >= req.range.first
                     /\ req.range.last = None \/ a.time <= req.range.last
Beyond(a, req) == req.replay /\ req.range.last # None /\ a.time > req.range.last

Emitted(o) == {o[i].id : i \in {j \in DOMAIN o : o[j].as = "yield"}}

LEMMA DispositionMeans ==
    ASSUME NEW a \in Actions, NEW req \in AnyRequest, NEW first
    PROVE  /\ Disposition(a, req, first) = "yield" <=> Wanted(a, req)
           /\ Disposition(a, req, first) = "stop" => Beyond(a, req)
<1>1. a.time \in Int /\ req.clip \in Int /\ req.range.first \in Int \cup {None} /\ req.range.last \in Int \cup {None}
  BY DEF Actions, AnyRequest
<1>2. a.time - req.clip + req.clip = a.time
  BY <1>1
<1>3. CheckTime(a, req.clip, req.range, first) =
        IF req.range.last # None /\ a.time > req.range.last THEN "stop"
        ELSE IF req.range.first # None /\ a.time < req.range.first THEN "skip" ELSE "yield"
  BY <1>2 DEF CheckTime, Presented
<1>4. /\ (req.range.last # None => (a.time > req.range.last <=> ~(a.time <= req.range.last)))
      /\ (req.range.first # None => (a.time < req.range.first <=> ~(a.time >= req.range.first)))
  BY <1>1
<1> DEFINE in == CheckTime(a, req.clip, req.range, first)
<1>5. /\ in \in {"stop", "skip", "yield"}
      /\ in = "stop" <=> req.range.last # None /\ a.time > req.range.last
      /\ in = "yield" <=> /\ req.range.first = None \/ a.time >= req.range.first
                          /\ req.range.last = None \/ a.time <= req.range.last
  BY <1>3, <1>4
<1> HIDE DEF in
<1>6. Disposition(a, req, first) =
        IF a.kind = "control" THEN "skip"
        ELSE IF req.replay /\ in = "stop" THEN "stop"
        ELSE IF a.kind \notin req.kinds THEN "skip"
        ELSE IF req.replay THEN in ELSE "yield"
  BY DEF Disposition, Parsed, in
<1> QED BY <1>5, <1>6 DEF Wanted, Beyond

LEMMA EmittedAppend ==
    ASSUME NEW o \in Seq(Processed), NEW entry \in Processed
    PROVE  Emitted(Append(o, entry)) = Emitted(o) \cup (IF entry.as = "yield" THEN {entry.id} ELSE {})
<1> DEFINE n == Len(o) + 1
           o2 == Append(o, entry)
<1>1. /\ Len(o) \in Nat /\ DOMAIN o = 1..Len(o) /\ DOMAIN o2 = 1..n
      /\ o2[n] = entry /\ \A i \in 1..Len(o) : o2[i] = o[i]
  OBVIOUS
<1>2. \A i : i \in 1..n <=> i \in 1..Len(o) \/ i = n
  BY <1>1
<1> HIDE DEF o2, n
<1>3. \A x : x \in Emitted(o2) <=> \E i \in 1..n : o2[i].as = "yield" /\ x = o2[i].id
  BY <1>1 DEF Emitted
<1>4. \A x : x \in Emitted(o) <=> \E i \in 1..Len(o) : o[i].as = "yield" /\ x = o[i].id
  BY <1>1 DEF Emitted
<1>5. \A x : x \in Emitted(o2) <=> x \in Emitted(o) \/ (entry.as = "yield" /\ x = entry.id)
  BY <1>1, <1>2, <1>3, <1>4
<1> QED BY <1>5 DEF o2

\* One action: what it adds, and that it stops the page only beyond the range.
LEMMA ActionEmits ==
    ASSUME NEW p \in PageStates, ~p.stopped, NEW a \in Actions, NEW req \in AnyRequest, NEW first
    PROVE  LET q == ProcessAction(p, a, req, first) IN
           /\ Emitted(q.out) = Emitted(p.out) \cup (IF Wanted(a, req) THEN {a.id} ELSE {})
           /\ q.stopped => Beyond(a, req)
<1> DEFINE disposition == Disposition(a, req, first)
           detail == IF Parsed(a) THEN Details(p.cache, a) ELSE None
           entry == [id |-> a.id, as |-> disposition, detail |-> detail]
           q == ProcessAction(p, a, req, first)
<1>1. q.out = Append(p.out, entry) /\ (q.stopped <=> disposition = "stop")
  BY DEF ProcessAction
<1>2. p.out \in Seq(Processed) /\ p.cache \in Seq(Actions)
  BY DEF PageStates
<1>3. disposition \in {"yield", "skip", "stop"} /\ detail \in Nat \cup {None}
  BY <1>2, DispositionTyped, DetailsTyped
<1> HIDE DEF disposition, detail
<1>4. entry \in Processed /\ entry.as = disposition /\ entry.id = a.id
  BY <1>3 DEF Processed, Actions
<1>5. (disposition = "yield" <=> Wanted(a, req)) /\ (disposition = "stop" => Beyond(a, req))
  BY DispositionMeans DEF disposition
<1> HIDE DEF entry, q
<1>6. Emitted(q.out) = Emitted(p.out) \cup (IF Wanted(a, req) THEN {a.id} ELSE {})
  BY <1>1, <1>2, <1>4, <1>5, EmittedAppend
<1> QED BY <1>1, <1>5, <1>6 DEF q

\* All actions of a page: what was emitted stays, what is added was wanted, and what
\* was wanted up to where the page stops is there.
Grew(page, after, actions, req) ==
    /\ Emitted(page.out) \subseteq Emitted(after.out)
    /\ \A x \in Emitted(after.out) :
         x \in Emitted(page.out) \/ \E j \in 1..Len(actions) : Wanted(actions[j], req) /\ x = actions[j].id
    /\ \E m \in 0..Len(actions) :
         /\ \A j \in 1..m : Wanted(actions[j], req) => actions[j].id \in Emitted(after.out)
         /\ IF after.stopped THEN m < Len(actions) /\ Beyond(actions[m + 1], req) ELSE m = Len(actions)

LEMMA PageEmits ==
    ASSUME NEW actions \in Seq(Actions), NEW page \in PageStates, Len(page.cache) <= PaidLimit, ~page.stopped,
           NEW req \in AnyRequest, NEW first
    PROVE  Grew(page, ProcessActions(actions, page, req, first), actions, req)
<1> DEFINE n == Len(actions)
<1>1. PICK F : /\ F[0] = page
               /\ \A k \in 1..n : F[k] = ProcessAction(F[k - 1], actions[k], req, first)
               /\ ProcessActions(actions, page, req, first) = F[n]
  BY Unrolled
<1> DEFINE Upto(p, m) == \A j \in 1..m : Wanted(actions[j], req) => actions[j].id \in Emitted(p.out)
           Fine(p, k) ==
             /\ p \in PageStates /\ Len(p.cache) <= PaidLimit
             /\ Emitted(page.out) \subseteq Emitted(p.out)
             /\ \A x \in Emitted(p.out) : x \in Emitted(page.out) \/ \E j \in 1..n : Wanted(actions[j], req) /\ x = actions[j].id
             /\ IF p.stopped THEN \E m \in 0..(n - 1) : Upto(p, m) /\ Beyond(actions[m + 1], req)
                             ELSE Upto(p, k)
           S == {k \in 0..n : Fine(F[k], k)}
<1>2. n \in Nat
  OBVIOUS
<1>3. 0 \in S
  <2>1. 0 \in 0..n /\ 1..0 = {}
    BY <1>2
  <2>2. Upto(page, 0)
    BY <2>1
  <2>3. Fine(page, 0)
    BY <2>2
  <2> QED BY <1>1, <2>1, <2>3
<1>4. ASSUME NEW k \in 0..(n - 1), k \in S PROVE k + 1 \in S
  <2>1. k + 1 \in 1..n /\ k + 1 - 1 = k /\ k + 1 \in 0..n /\ actions[k + 1] \in Actions
    BY <1>2
  <2>2. F[k + 1] = ProcessAction(F[k], actions[k + 1], req, first)
    BY <1>1, <2>1
  <2> DEFINE p == F[k]
             a == actions[k + 1]
             q == ProcessAction(p, a, req, first)
  <2>3. Fine(p, k)
    BY <1>4
  <2>4. CASE p.stopped
    <3>1. q = p
      BY <2>4 DEF ProcessAction
    <3>2. Fine(p, k + 1)
      BY <2>3, <2>4
    <3> QED BY <2>1, <2>2, <3>1, <3>2
  <2>5. CASE ~p.stopped
    <3> HIDE DEF p
    <3>1. /\ p \in PageStates /\ Len(p.cache) <= PaidLimit
          /\ Emitted(page.out) \subseteq Emitted(p.out)
          /\ \A x \in Emitted(p.out) : x \in Emitted(page.out) \/ \E j \in 1..n : Wanted(actions[j], req) /\ x = actions[j].id
          /\ Upto(p, k)
      BY <2>3, <2>5
    <3>2. q \in PageStates /\ Len(q.cache) <= PaidLimit
      BY <2>1, <3>1, ActionTyped
    <3>3. Emitted(q.out) = Emitted(p.out) \cup (IF Wanted(a, req) THEN {a.id} ELSE {}) /\ (q.stopped => Beyond(a, req))
      BY <2>1, <2>5, <3>1, ActionEmits
    <3> HIDE DEF q
    <3>4. \A x \in Emitted(q.out) : x \in Emitted(page.out) \/ \E j \in 1..n : Wanted(actions[j], req) /\ x = actions[j].id
      BY <2>1, <3>1, <3>3
    <3>5. Upto(q, k + 1)
      <4>1. \A j \in 1..(k + 1) : j \in 1..k \/ j = k + 1
        BY <2>1
      <4> QED BY <3>1, <3>3, <4>1
    <3>6. Upto(q, k)
      BY <3>1, <3>3
    <3>7. Emitted(page.out) \subseteq Emitted(q.out)
      BY <3>1, <3>3
    <3>8. q.stopped => \E m \in 0..(n - 1) : Upto(q, m) /\ Beyond(actions[m + 1], req)
      BY <3>3, <3>6
    <3> HIDE DEF Upto
    <3>9. Fine(q, k + 1)
      BY <3>2, <3>4, <3>5, <3>7, <3>8
    <3> HIDE DEF Fine
    <3> QED BY <2>1, <2>2, <3>9 DEF q, p
  <2> QED BY <2>4, <2>5
<1>5. n \in S
  <2> HIDE DEF S
  <2>1. \A k \in 0..n : k \in S
    <3> HIDE DEF n
    <3> QED BY <1>2, <1>3, <1>4, NatInductTo
  <2> QED BY <1>2, <2>1
<1> DEFINE after == F[n]
<1>6. Fine(after, n)
  BY <1>5
<1> HIDE DEF after
<1>7. \E m \in 0..n : Upto(after, m) /\ IF after.stopped THEN m < n /\ Beyond(actions[m + 1], req) ELSE m = n
  <2>1. CASE after.stopped
    <3>1. PICK m \in 0..(n - 1) : Upto(after, m) /\ Beyond(actions[m + 1], req)
      BY <1>6, <2>1
    <3>2. m \in 0..n /\ m < n
      BY <1>2
    <3> QED BY <2>1, <3>1, <3>2
  <2>2. CASE ~after.stopped
    <3>1. n \in 0..n /\ Upto(after, n)
      BY <1>2, <1>6, <2>2
    <3> QED BY <2>2, <3>1
  <2> QED BY <2>1, <2>2
<1>8. /\ Emitted(page.out) \subseteq Emitted(after.out)
      /\ \A x \in Emitted(after.out) : x \in Emitted(page.out) \/ \E j \in 1..n : Wanted(actions[j], req) /\ x = actions[j].id
  BY <1>6
<1>9. ProcessActions(actions, page, req, first) = after
  BY <1>1 DEF after
<1> QED BY <1>7, <1>8, <1>9 DEF Grew

-----------------------------------------------------------------------------
(* The whole chat.                                                         *)

UptoPage(n, o, req) ==
    \A p \in 1..n : \A i \in 1..Len(Pages[p]) : Wanted(Pages[p][i], req) => Pages[p][i].id \in Emitted(o)

\* Only what was wanted is emitted; and of the pages before the token's, all of it.
\* Nothing is before the first response.
WholeInv ==
    /\ AcceptedInv
    /\ ~accepted => out = <<>> /\ token.page = 1 /\ pc # "ended"
    /\ \A x \in Emitted(out) : \E p \in 1..Len(Pages) : \E i \in 1..Len(Pages[p]) :
         Wanted(Pages[p][i], request) /\ x = Pages[p][i].id
    /\ pc = "request" => UptoPage(token.page - 1, out, request)
    /\ pc = "ended" => UptoPage(Len(Pages), out, request)

LEMMA NothingEmitted == Emitted(<<>>) = {}
  BY DEF Emitted

LEMMA SetupWhole ==
    ASSUME WholeInv, Setup, UNCHANGED loopVars
    PROVE  WholeInv'
<1>1. pc \notin {"request"} \cup Ended /\ pc' \notin {"request", "ended"}
  BY DEF Setup, MobileBootstrap, PageBootstrap, InnerTubeBootstrap, Boot, Refused, PlayabilityError, Enrich, SetUp,
         NextBootstrap, Ended
<1>2. ~accepted /\ UNCHANGED <<accepted, out, token>>
  BY <1>1 DEF WholeInv, AcceptedInv, loopVars
<1>3. out = <<>> /\ out' = <<>>
  BY <1>2 DEF WholeInv
<1> QED BY <1>1, <1>2, <1>3, NothingEmitted DEF WholeInv, AcceptedInv

LEMMA BuildWhole ==
    ASSUME WholeInv, Build
    PROVE  WholeInv'
<1>1. ~accepted /\ UNCHANGED <<accepted, out, request>> /\ pc' # "ended"
  BY DEF WholeInv, AcceptedInv, Build, Ended
<1>2. out = <<>> /\ out' = <<>> /\ token.page = 1
  BY <1>1 DEF WholeInv
<1>3. token'.page = 1
  BY <1>2 DEF Build
<1>4. UptoPage(0, out', request)
  BY DEF UptoPage
<1>5. UptoPage(token'.page - 1, out', request)
  BY <1>3, <1>4
<1> QED BY <1>1, <1>2, <1>3, <1>5, NothingEmitted DEF WholeInv, AcceptedInv

\* Nothing after an action beyond the range is wanted.
LEMMA NothingBeyond ==
    ASSUME TypeInv, TimeOrdered, NEW p \in 1..Len(Pages), NEW i \in 1..Len(Pages[p]), Beyond(Pages[p][i], request),
           NEW q \in 1..Len(Pages), NEW j \in 1..Len(Pages[q]), p < q \/ (p = q /\ i <= j)
    PROVE  ~Wanted(Pages[q][j], request)
<1>1. Pages[p][i] \in Actions /\ Pages[q][j] \in Actions
  <2>1. Pages[p] \in Seq(Actions) /\ Pages[q] \in Seq(Actions)
    BY Constants
  <2> QED BY <2>1
<1>2. Pages[p][i].time \in Int /\ Pages[q][j].time \in Int /\ request.range.last \in Int \cup {None}
  BY <1>1 DEF Actions, TypeInv, SetupTyped, AnyRequest
<1>3. Pages[p][i].time <= Pages[q][j].time
  <2>1. CASE p = q /\ i = j
    BY <1>2, <2>1
  <2>2. CASE ~(p = q /\ i = j)
    <3>1. p < q \/ (p = q /\ i < j)
      <4>1. i \in Int /\ j \in Int
        <5>1. Pages[p] \in Seq(Actions) /\ Pages[q] \in Seq(Actions)
          BY Constants
        <5> QED BY <5>1
      <4> QED BY <2>2, <4>1
    <3> QED BY <3>1 DEF TimeOrdered
  <2> QED BY <2>1, <2>2
<1> QED BY <1>2, <1>3 DEF Beyond, Wanted

LEMMA AnsweredWhole ==
    ASSUME TypeInv, WholeInv, TimeOrdered, RequestAnswered
    PROVE  WholeInv'
<1>1. PICK answer \in Answers :
             /\ accepted' = TRUE /\ paid' = After(answer).cache /\ offset' = After(answer).offset
             /\ out' = After(answer).out
             /\ IF After(answer).stopped THEN pc' = "ended" /\ UNCHANGED <<token, stalled, latest>>
                ELSE Advance(answer)
  BY AnsweredMeans
<1> DEFINE now == token.page
           page == Pages[now]
           actions == answer.actions
           after == After(answer)
<1>2. now \in 1..Len(Pages) /\ page \in Seq(Actions) /\ Len(Pages) \in Nat /\ request \in AnyRequest
  BY Constants DEF TypeInv, LoopTyped, SetupTyped
<1>3. \/ actions = page /\ answer.next \in {now, now + 1}
      \/ actions = <<>> /\ answer.next = now
  BY DEF Answers
<1>4. actions \in Seq(Actions)
  BY AnswersTyped DEF AnswerSet
<1>5. Before \in PageStates /\ Len(Before.cache) <= PaidLimit /\ ~Before.stopped /\ Before.out = out
  BY DEF Before, PageStates, TypeInv, LoopTyped
<1> HIDE DEF actions, after
<1>6. /\ Emitted(out) \subseteq Emitted(after.out)
      /\ \A x \in Emitted(after.out) : x \in Emitted(out) \/
           \E j \in 1..Len(actions) : Wanted(actions[j], request) /\ x = actions[j].id
      /\ \E m \in 0..Len(actions) :
           /\ \A j \in 1..m : Wanted(actions[j], request) => actions[j].id \in Emitted(after.out)
           /\ IF after.stopped THEN m < Len(actions) /\ Beyond(actions[m + 1], request) ELSE m = Len(actions)
  <2>1. after = ProcessActions(actions, Before, request, token.page = 1)
    BY DEF after, After, actions
  <2> DEFINE first == token.page = 1
             state == Before
  <2> HIDE DEF first, state
  <2>2. after = ProcessActions(actions, state, request, first) /\ state.out = out
    BY <1>5, <2>1 DEF first, state
  <2>3. state \in PageStates /\ Len(state.cache) <= PaidLimit /\ ~state.stopped
    BY <1>5 DEF state
  <2>4. Grew(state, after, actions, request)
    BY <1>2, <1>4, <2>2, <2>3, PageEmits
  <2> QED BY <2>2, <2>4 DEF Grew
<1>7. out' = after.out /\ UNCHANGED request /\ accepted' = TRUE /\ pc = "request"
      /\ (after.stopped => pc' = "ended") /\ (~after.stopped => Advance(answer))
  BY <1>1 DEF RequestAnswered, after
<1>8. UptoPage(now - 1, out, request)
  BY <1>7 DEF WholeInv
<1>9. Emitted(out) \subseteq Emitted(out')
  BY <1>6, <1>7
<1>10. UptoPage(now - 1, out', request)
  BY <1>7, <1>8, <1>9 DEF UptoPage
<1>11. \A x \in Emitted(out') : \E p \in 1..Len(Pages) : \E i \in 1..Len(Pages[p]) :
         Wanted(Pages[p][i], request') /\ x = Pages[p][i].id
  <2>1. SUFFICES ASSUME NEW x \in Emitted(out')
                 PROVE  \E p \in 1..Len(Pages) : \E i \in 1..Len(Pages[p]) :
                          Wanted(Pages[p][i], request) /\ x = Pages[p][i].id
    BY <1>7
  <2>2. CASE x \in Emitted(out)
    BY <2>2 DEF WholeInv
  <2>3. CASE \E j \in 1..Len(actions) : Wanted(actions[j], request) /\ x = actions[j].id
    <3>1. actions = page
      BY <1>3, <2>3
    <3> QED BY <1>2, <2>3, <3>1
  <2> QED BY <1>6, <1>7, <2>2, <2>3
\* Every page up to the one at hand, unless the answer brought nothing or stopped.
<1>12. ASSUME ~after.stopped, actions = page PROVE UptoPage(now, out', request)
  <2>1. \A j \in 1..Len(page) : Wanted(page[j], request) => page[j].id \in Emitted(out')
    BY <1>6, <1>7, <1>12
  <2>2. \A p \in 1..now : p \in 1..(now - 1) \/ p = now
    BY <1>2
  <2> QED BY <1>7, <1>10, <2>1, <2>2 DEF UptoPage
<1>13. ASSUME after.stopped PROVE UptoPage(Len(Pages), out', request)
  <2>1. PICK m \in 0..Len(actions) :
           /\ \A j \in 1..m : Wanted(actions[j], request) => actions[j].id \in Emitted(after.out)
           /\ m < Len(actions) /\ Beyond(actions[m + 1], request)
    BY <1>6, <1>13
  <2>2. actions = page
    <3>1. actions # <<>>
      BY <2>1
    <3> QED BY <1>3, <3>1
  <2>3. m + 1 \in 1..Len(page) /\ m \in Nat /\ Len(page) \in Nat
    BY <1>2, <2>1, <2>2
  <2>4. SUFFICES ASSUME NEW p \in 1..Len(Pages), NEW i \in 1..Len(Pages[p]), Wanted(Pages[p][i], request)
                 PROVE  Pages[p][i].id \in Emitted(out')
    BY <1>7 DEF UptoPage
  <2>5. CASE p < now
    <3>1. p \in 1..(now - 1)
      BY <1>2, <2>5
    <3> QED BY <1>7, <1>10, <2>4, <3>1 DEF UptoPage
  <2>6. CASE p = now /\ i <= m
    <3>1. i \in 1..m
      BY <2>3, <2>6
    <3> QED BY <1>7, <2>1, <2>2, <2>4, <2>6, <3>1
  <2>7. CASE now < p \/ (now = p /\ m + 1 <= i)
    BY <1>2, <2>1, <2>2, <2>3, <2>4, <2>7, NothingBeyond
  <2>8. i \in Int
    <3>1. Pages[p] \in Seq(Actions)
      BY Constants
    <3> QED BY <3>1
  <2>9. p < now \/ (p = now /\ i <= m) \/ now < p \/ (now = p /\ m + 1 <= i)
    BY <1>2, <2>3, <2>8
  <2> QED BY <2>5, <2>6, <2>7, <2>9
<1>14. pc' = "request" => UptoPage(token'.page - 1, out', request)
  <2>1. SUFFICES ASSUME pc' = "request" PROVE UptoPage(token'.page - 1, out', request)
    OBVIOUS
  <2>2. ~after.stopped /\ token'.page = answer.next
    BY <1>7, <2>1, AdvanceTyped
  <2>3. CASE actions = page /\ answer.next = now + 1
    <3>1. token'.page - 1 = now
      BY <1>2, <2>2, <2>3
    <3> QED BY <1>12, <2>2, <2>3, <3>1 DEF UptoPage
  <2>4. CASE answer.next = now
    BY <1>10, <2>2, <2>4 DEF UptoPage
  <2> QED BY <1>3, <2>3, <2>4
<1>15. pc' = "ended" => UptoPage(Len(Pages), out', request)
  <2>1. CASE after.stopped
    BY <1>13, <2>1
  <2>2. CASE ~after.stopped /\ pc' = "ended"
    <3>1. answer.next > Len(Pages)
      BY <1>7, <2>2, AdvanceTyped
    <3>2. actions = page /\ now = Len(Pages)
      BY <1>2, <1>3, <3>1
    <3> QED BY <1>12, <2>2, <3>2
  <2> QED BY <2>1, <2>2
<1>16. pc' \in {"request"} \cup Ended
  <2>1. pc' \in {"ended", "failed", "request"}
    BY AnsweredTyped
  <2> QED BY <2>1 DEF Ended
<1> QED BY <1>7, <1>11, <1>14, <1>15, <1>16 DEF WholeInv, AcceptedInv

LEMMA PollWhole ==
    ASSUME TypeInv, WholeInv, TimeOrdered, Poll
    PROVE  WholeInv'
<1>1. CASE RequestRetried \/ RequestRejected \/ ApiError \/ RequestIncomplete \/ RequestInvalid
  <2>1. pc = "request" /\ UNCHANGED <<token, out, accepted, request>> /\ (pc' \in {"request", "failed"} \/ (~accepted /\ pc' = "bootstrap"))
    BY <1>1 DEF RequestRetried, RequestRejected, ApiError, RequestIncomplete, RequestInvalid, RestartAllowed, loopVars
  <2>2. UptoPage(token'.page - 1, out', request)
    BY <2>1 DEF WholeInv, UptoPage
  <2> QED BY <2>1, <2>2 DEF WholeInv, AcceptedInv, Ended
<1> QED BY <1>1, AnsweredWhole DEF Poll

\* A retrieval of a chat told in order of time that ends by itself has emitted every
\* message in the range and of a kind asked for, and nothing else, whatever was
\* retried, recovered or repeated on the way (_process_actions, TimeRangeFilter,
\* _advance_continuation_loop).
THEOREM EndedRetrievalsAreWhole == ASSUME TimeOrdered PROVE Spec => []EndedIsWhole
<1>1. Init => TypeInv /\ WholeInv
  <2>1. ASSUME Init PROVE WholeInv
    BY <2>1, NothingEmitted DEF Init, WholeInv, AcceptedInv, NoToken
  <2> QED BY <2>1, InitTyped
<1>2. TypeInv /\ WholeInv /\ [Next]_vars => TypeInv' /\ WholeInv'
  <2>1. ASSUME WholeInv, UNCHANGED vars PROVE WholeInv'
    BY <2>1 DEF WholeInv, AcceptedInv, UptoPage, vars
  <2> QED BY <2>1, TypeNext, SetupWhole, BuildWhole, PollWhole DEF Next, Done
<1>3. WholeInv => EndedIsWhole
  <2> SUFFICES ASSUME WholeInv, pc = "ended"
               PROVE  \A x : x \in Emitted(out) <=>
                             \E a \in ToSet(Chat) : Wanted(a, request) /\ x = a.id
    BY DEF EndedIsWhole, Emitted, Wanted
  <2>1. ASSUME NEW x \in Emitted(out) PROVE \E a \in ToSet(Chat) : Wanted(a, request) /\ x = a.id
    BY ChatIsItsPages DEF WholeInv
  <2>2. ASSUME NEW a \in ToSet(Chat), Wanted(a, request) PROVE a.id \in Emitted(out)
    BY <2>2, ChatIsItsPages DEF WholeInv, UptoPage
  <2> QED BY <2>1, <2>2
<1> QED BY <1>1, <1>2, <1>3, PTL DEF Spec

-----------------------------------------------------------------------------
(* The paid events that are remembered, as places in what was processed.   *)

\* Each remembered event is the newest with its ID, in the order they came; what is
\* not remembered any longer is older than all that are, and there is no more room.
Placed(pos, cache, h) ==
    /\ pos \in [1..Len(cache) -> 1..Len(h)]
    /\ \A k \in 1..Len(cache) : cache[k] = h[pos[k]] /\ cache[k].kind \in PaidKinds
    /\ \A k, l \in 1..Len(cache) : k < l => pos[k] < pos[l]
    /\ \A k \in 1..Len(cache), j \in 1..Len(h) :
         h[j].kind \in PaidKinds /\ h[j].event = cache[k].event => j <= pos[k]
    /\ \A j \in 1..Len(h) : h[j].kind \in PaidKinds =>
         \/ \E k \in 1..Len(cache) : h[j].event = cache[k].event
         \/ Len(cache) >= PaidLimit /\ \A k \in 1..Len(cache) : j < pos[k]

Follows(cache, h) == \E pos : Placed(pos, cache, h)

\* Where what is left of a cache without an event was in it.
Kept(up, left, cache, event) ==
    /\ up \in [1..Len(left) -> 1..Len(cache)]
    /\ \A k \in 1..Len(left) : left[k] = cache[up[k]] /\ cache[up[k]].event # event
    /\ \A k, l \in 1..Len(left) : k < l => up[k] < up[l]
    /\ \A k \in 1..Len(cache) : cache[k].event = event \/ \E l \in 1..Len(left) : up[l] = k

LEMMA Appended ==
    ASSUME NEW S, NEW s \in Seq(S), NEW x \in S
    PROVE  /\ Append(s, x) \in Seq(S) /\ Len(Append(s, x)) = Len(s) + 1 /\ Len(s) \in Nat
           /\ Append(s, x)[Len(s) + 1] = x /\ \A i \in 1..Len(s) : Append(s, x)[i] = s[i]
  OBVIOUS

\* Two remembered events differ.
LEMMA PlacesDiffer ==
    ASSUME NEW cache \in Seq(Actions), NEW h \in Seq(Actions), NEW pos, Placed(pos, cache, h),
           NEW k \in 1..Len(cache), NEW l \in 1..Len(cache), cache[k].event = cache[l].event
    PROVE  k = l
<1>1. Len(cache) \in Nat /\ Len(h) \in Nat /\ pos[k] \in 1..Len(h) /\ pos[l] \in 1..Len(h)
  BY DEF Placed
<1>2. pos[k] <= pos[l] /\ pos[l] <= pos[k]
  <2>1. /\ h[pos[k]].kind \in PaidKinds /\ h[pos[k]].event = cache[l].event
        /\ h[pos[l]].kind \in PaidKinds /\ h[pos[l]].event = cache[k].event
    BY DEF Placed
  <2> QED BY <1>1, <2>1 DEF Placed
<1>3. ~(k < l) /\ ~(l < k)
  BY <1>1, <1>2 DEF Placed
<1> QED BY <1>3

\* The oldest is dropped for want of room.
LEMMA DroppedFollows ==
    ASSUME NEW cache \in Seq(Actions), NEW h \in Seq(Actions), Follows(cache, h), Len(cache) = PaidLimit + 1,
           PaidLimit \in Nat
    PROVE  Follows(Tail(cache), h)
<1>1. PICK pos : Placed(pos, cache, h)
  BY DEF Follows
<1> DEFINE rest == Tail(cache)
           n == Len(h)
           back == [k \in 1..PaidLimit |-> pos[k + 1]]
<1>2. /\ rest \in Seq(Actions) /\ Len(rest) = PaidLimit /\ n \in Nat
      /\ \A k \in 1..PaidLimit : rest[k] = cache[k + 1]
  OBVIOUS
<1>3. \A k \in 1..PaidLimit : k + 1 \in 1..Len(cache) /\ 1 \in 1..Len(cache) /\ 1 < k + 1 /\ back[k] = pos[k + 1]
  OBVIOUS
<1>4. \A k \in 1..Len(cache) : k = 1 \/ (k - 1 \in 1..PaidLimit /\ k - 1 + 1 = k)
  OBVIOUS
<1>5. \A k \in 1..Len(cache) : pos[k] \in 1..n
  BY <1>1 DEF Placed
<1>6. back \in [1..Len(rest) -> 1..n]
  BY <1>2, <1>3, <1>5
<1> HIDE DEF rest, back, n
<1>7. \A k \in 1..Len(rest) : rest[k] = h[back[k]] /\ rest[k].kind \in PaidKinds
  BY <1>1, <1>2, <1>3 DEF Placed
<1>8. \A k, l \in 1..Len(rest) : k < l => back[k] < back[l]
  <2> SUFFICES ASSUME NEW k \in 1..PaidLimit, NEW l \in 1..PaidLimit, k < l PROVE back[k] < back[l]
    BY <1>2
  <2>1. k + 1 < l + 1
    OBVIOUS
  <2> QED BY <1>1, <1>3, <2>1 DEF Placed
<1>9. \A k \in 1..Len(rest), j \in 1..n : h[j].kind \in PaidKinds /\ h[j].event = rest[k].event => j <= back[k]
  BY <1>1, <1>2, <1>3 DEF Placed, n
<1>10. ASSUME NEW j \in 1..n, h[j].kind \in PaidKinds
       PROVE  \/ \E k \in 1..Len(rest) : h[j].event = rest[k].event
              \/ Len(rest) >= PaidLimit /\ \A k \in 1..Len(rest) : j < back[k]
  <2>0. \A k \in 1..PaidLimit : pos[1] < back[k] /\ pos[1] \in Int /\ back[k] \in Int /\ j \in Int
    <3> SUFFICES ASSUME NEW k \in 1..PaidLimit PROVE pos[1] < back[k] /\ pos[1] \in Int /\ back[k] \in Int /\ j \in Int
      OBVIOUS
    <3>1. k + 1 \in 1..Len(cache) /\ 1 \in 1..Len(cache) /\ 1 < k + 1 /\ back[k] = pos[k + 1]
      BY <1>3
    <3>2. pos[1] < pos[k + 1]
      BY <1>1, <3>1 DEF Placed
    <3>3. pos[1] \in 1..n /\ pos[k + 1] \in 1..n
      BY <1>5, <3>1
    <3> QED BY <1>2, <3>1, <3>2, <3>3
  <2>1. CASE \E k \in 1..Len(cache) : h[j].event = cache[k].event
    <3>1. PICK k \in 1..Len(cache) : h[j].event = cache[k].event
      BY <2>1
    <3>2. CASE k = 1
      <4>1. j <= pos[1]
        BY <1>1, <1>10, <3>1, <3>2 DEF Placed, n
      <4>2. \A l \in 1..PaidLimit : j < back[l]
        BY <2>0, <4>1
      <4> QED BY <1>2, <4>2
    <3>3. CASE k # 1
      <4>1. k - 1 \in 1..PaidLimit /\ rest[k - 1] = cache[k]
        BY <1>2, <1>4, <3>3
      <4> QED BY <1>2, <3>1, <4>1
    <3> QED BY <3>2, <3>3
  <2>2. CASE \A k \in 1..Len(cache) : j < pos[k]
    <3>1. \A k \in 1..PaidLimit : j < back[k]
      BY <1>3, <2>2
    <3> QED BY <1>2, <3>1
  <2> QED BY <1>1, <1>10, <2>1, <2>2 DEF Placed, n
<1>11. Placed(back, rest, h)
  BY <1>6, <1>7, <1>8, <1>9, <1>10 DEF Placed, n
<1> QED BY <1>11 DEF Follows, rest

\* A paid event takes the place after all others.
LEMMA GrownFollows ==
    ASSUME NEW cache \in Seq(Actions), NEW h \in Seq(Actions), Follows(cache, h), NEW a \in Actions, a.kind \in PaidKinds
    PROVE  Follows(Append(Forget(cache, a.event), a), Append(h, a))
<1>1. PICK pos : Placed(pos, cache, h)
  BY DEF Follows
<1> DEFINE n == Len(h)
           L == Len(cache)
           f == Forget(cache, a.event)
           m == Len(f)
           g == Append(f, a)
           h2 == Append(h, a)
           Back(up) == [k \in 1..(m + 1) |-> IF k = m + 1 THEN n + 1 ELSE pos[up[k]]]
<1>2. L \in Nat /\ n \in Nat /\ (\A k \in 1..L : pos[k] \in 1..n)
  <2>1. L \in Nat /\ n \in Nat
    OBVIOUS
  <2>2. pos \in [1..L -> 1..n]
    BY <1>1 DEF Placed
  <2> HIDE DEF L, n
  <2> QED BY <2>1, <2>2
\* Where what is kept was.
<1>3. f \in Seq(Actions) /\ m \in Nat /\ m + 1 >= L /\ \E up : Kept(up, f, cache, a.event)
  <2>1. CASE Knows(cache, a.event)
    <3> DEFINE q == PlaceOf(cache, a.event)
               up == [k \in 1..(L - 1) |-> IF k < q THEN k ELSE k + 1]
    <3>1. q \in 1..L /\ cache[q].event = a.event
      BY <2>1, KnownPlace
    <3> HIDE DEF q
    <3>2. f = RemoveAt(cache, q)
      BY <2>1 DEF Forget, q
    <3>3. f \in Seq(Actions) /\ m = L - 1 /\ (\A k \in 1..(L - 1) : f[k] = IF k < q THEN cache[k] ELSE cache[k + 1])
      BY <3>1, <3>2, RemovedAt
    <3> HIDE DEF f
    <3>4. /\ up \in [1..(L - 1) -> 1..L] /\ (\A k \in 1..(L - 1) : up[k] # q /\ up[k] = IF k < q THEN k ELSE k + 1)
          /\ \A k, l \in 1..(L - 1) : k < l => up[k] < up[l]
      BY <1>2, <3>1
    <3>5. ASSUME NEW k \in 1..L PROVE k = q \/ \E l \in 1..(L - 1) : up[l] = k
      <4>1. CASE k < q
        <5>1. k \in 1..(L - 1) /\ up[k] = k
          BY <1>2, <3>1, <4>1
        <5> QED BY <5>1
      <4>2. CASE q < k
        <5>1. k - 1 \in 1..(L - 1) /\ up[k - 1] = k
          BY <1>2, <3>1, <4>2
        <5> QED BY <5>1
      <4> QED BY <1>2, <3>1, <4>1, <4>2
    <3> HIDE DEF up
    <3>6. \A k \in 1..(L - 1) : f[k] = cache[up[k]] /\ up[k] \in 1..L
      BY <3>3, <3>4
    <3>7. \A k \in 1..(L - 1) : cache[up[k]].event # a.event
      BY <1>1, <3>1, <3>4, <3>6, PlacesDiffer
    <3> DEFINE left == f
    <3> HIDE DEF left
    <3>8. Len(left) = L - 1 /\ left = f
      BY <3>3 DEF left
    <3>9. Kept(up, left, cache, a.event)
      BY <3>1, <3>4, <3>5, <3>6, <3>7, <3>8 DEF Kept, L
    <3>10. m + 1 >= L /\ m \in Nat
      BY <1>2, <3>1, <3>3
    <3> QED BY <3>3, <3>8, <3>9, <3>10
  <2>2. CASE ~Knows(cache, a.event)
    <3>1. f = cache
      BY <2>2 DEF Forget
    <3>2. \A k \in 1..L : cache[k].event # a.event
      BY <2>2 DEF Knows
    <3> DEFINE up == [k \in 1..L |-> k]
    <3>3. /\ up \in [1..L -> 1..L] /\ (\A k \in 1..L : up[k] = k)
          /\ \A k, l \in 1..L : k < l => up[k] < up[l]
      OBVIOUS
    <3> HIDE DEF up
    <3>4. Kept(up, cache, cache, a.event)
      BY <3>2, <3>3 DEF Kept
    <3>5. L + 1 >= L
      BY <1>2
    <3> QED BY <1>2, <3>1, <3>4, <3>5
  <2> QED BY <2>1, <2>2
<1>4. PICK up : /\ up \in [1..m -> 1..L]
                /\ \A k \in 1..m : f[k] = cache[up[k]] /\ cache[up[k]].event # a.event
                /\ \A k, l \in 1..m : k < l => up[k] < up[l]
                /\ \A k \in 1..L : cache[k].event = a.event \/ \E l \in 1..m : up[l] = k
  BY <1>3 DEF Kept
<1> DEFINE back == Back(up)
<1> HIDE DEF f
<1>5. /\ Len(g) = m + 1 /\ g[m + 1] = a /\ \A k \in 1..m : g[k] = f[k]
  BY <1>3, Appended
<1>6. /\ Len(h2) = n + 1 /\ h2[n + 1] = a /\ \A j \in 1..n : h2[j] = h[j]
  BY Appended
<1>7. /\ \A k \in 1..(m + 1) : k \in 1..m \/ k = m + 1
      /\ \A j \in 1..(n + 1) : j \in 1..n \/ j = n + 1
      /\ m + 1 \notin 1..m /\ m + 1 \in 1..(m + 1) /\ n + 1 \in 1..(n + 1) /\ 1..n \subseteq 1..(n + 1) /\ 1..m \subseteq 1..(m + 1)
  BY <1>2, <1>3
<1>8. back[m + 1] = n + 1 /\ \A k \in 1..m : back[k] = pos[up[k]] /\ back[k] \in 1..n /\ up[k] \in 1..L
  BY <1>2, <1>4, <1>7
<1>9. back \in [1..Len(g) -> 1..Len(h2)]
  <2>1. \A k \in 1..(m + 1) : (IF k = m + 1 THEN n + 1 ELSE pos[up[k]]) \in 1..(n + 1)
    BY <1>2, <1>4, <1>7
  <2> HIDE DEF g, h2
  <2> QED BY <1>5, <1>6, <2>1
<1> HIDE DEF g, h2, back, m, n, L
<1>10. \A k \in 1..Len(g) : g[k] = h2[back[k]] /\ g[k].kind \in PaidKinds
  <2>1. SUFFICES ASSUME NEW k \in 1..(m + 1) PROVE g[k] = h2[back[k]] /\ g[k].kind \in PaidKinds
    BY <1>5
  <2>2. CASE k = m + 1
    BY <1>5, <1>6, <1>8, <2>2
  <2>3. CASE k \in 1..m
    <3>1. g[k] = cache[up[k]] /\ h2[back[k]] = h[pos[up[k]]] /\ up[k] \in 1..L
      BY <1>4, <1>5, <1>6, <1>8, <2>3
    <3> QED BY <1>1, <3>1 DEF Placed, L
  <2> QED BY <1>7, <2>2, <2>3
<1>11. ASSUME NEW k \in 1..Len(g), NEW l \in 1..Len(g), k < l PROVE back[k] < back[l]
  <2>1. k \in 1..m
    BY <1>3, <1>5, <1>11
  <2>2. CASE l \in 1..m
    BY <1>1, <1>4, <1>8, <1>11, <2>1, <2>2 DEF Placed, L
  <2>3. CASE l = m + 1
    BY <1>2, <1>8, <2>1, <2>3
  <2> QED BY <1>5, <1>7, <2>2, <2>3
<1>12. ASSUME NEW k \in 1..Len(g), NEW j \in 1..Len(h2), h2[j].kind \in PaidKinds, h2[j].event = g[k].event
       PROVE  j <= back[k]
  <2>1. CASE k = m + 1
    BY <1>2, <1>6, <1>8, <2>1
  <2>2. CASE k \in 1..m
    <3>1. j \in 1..n
      BY <1>4, <1>5, <1>6, <1>7, <1>12, <2>2
    <3>2. h[j].kind \in PaidKinds /\ h[j].event = cache[up[k]].event
      BY <1>4, <1>5, <1>6, <1>12, <2>2, <3>1
    <3> QED BY <1>1, <1>8, <2>2, <3>1, <3>2 DEF Placed, n, L
  <2> QED BY <1>5, <1>7, <2>1, <2>2
<1>13. ASSUME NEW j \in 1..Len(h2), h2[j].kind \in PaidKinds
       PROVE  \/ \E k \in 1..Len(g) : h2[j].event = g[k].event
              \/ Len(g) >= PaidLimit /\ \A k \in 1..Len(g) : j < back[k]
  <2>1. CASE h2[j].event = a.event
    BY <1>5, <1>7, <2>1
  <2>2. CASE h2[j].event # a.event
    <3>1. j \in 1..n /\ h[j].kind \in PaidKinds /\ h[j].event # a.event /\ h2[j] = h[j]
      BY <1>6, <1>7, <1>13, <2>2
    <3>2. CASE \E k \in 1..L : h[j].event = cache[k].event
      <4>1. PICK k \in 1..L : h[j].event = cache[k].event
        BY <3>2
      <4>2. PICK l \in 1..m : up[l] = k
        BY <1>4, <3>1, <4>1
      <4>3. g[l] = cache[k] /\ l \in 1..Len(g)
        BY <1>4, <1>5, <1>7, <4>2
      <4> QED BY <3>1, <4>1, <4>3
    <3>3. CASE L >= PaidLimit /\ \A k \in 1..L : j < pos[k]
      <4>1. \A k \in 1..m : j < back[k]
        BY <1>8, <3>3
      <4>2. j < back[m + 1]
        BY <1>2, <1>8, <3>1
      <4>3. Len(g) >= PaidLimit
        <5>1. PaidLimit \in Nat
          BY ChatAssumption
        <5> QED BY <1>2, <1>3, <1>5, <3>3, <5>1
      <4> QED BY <1>5, <1>7, <4>1, <4>2, <4>3
    <3> QED BY <1>1, <3>1, <3>2, <3>3 DEF Placed, n, L
  <2> QED BY <2>1, <2>2
<1>14. Placed(back, g, h2)
  BY <1>9, <1>10, <1>11, <1>12, <1>13 DEF Placed
<1> QED BY <1>14 DEF Follows, g, h2, f

LEMMA RememberFollows ==
    ASSUME NEW cache \in Seq(Actions), Len(cache) <= PaidLimit, NEW h \in Seq(Actions), Follows(cache, h),
           NEW a \in Actions, a.kind \in PaidKinds
    PROVE  Follows(Remember(cache, a), Append(h, a))
<1> DEFINE f == Forget(cache, a.event)
           grown == Append(f, a)
<1>1. PaidLimit \in Nat
  BY ChatAssumption
<1>2. Follows(grown, Append(h, a)) /\ Append(h, a) \in Seq(Actions)
  BY GrownFollows
<1>3. f \in Seq(Actions) /\ Len(f) <= Len(cache)
  <2>1. CASE Knows(cache, a.event)
    <3>1. PlaceOf(cache, a.event) \in 1..Len(cache)
      BY <2>1, KnownPlace
    <3> QED BY <2>1, <3>1, RemovedAt DEF Forget
  <2>2. CASE ~Knows(cache, a.event)
    BY <2>2 DEF Forget
  <2> QED BY <2>1, <2>2
<1>4. Remember(cache, a) = IF Len(grown) > PaidLimit THEN Tail(grown) ELSE grown
  BY DEF Remember
<1> HIDE DEF f
<1>5. grown \in Seq(Actions) /\ Len(grown) = Len(f) + 1 /\ Len(f) \in Nat /\ Len(cache) \in Nat
  BY <1>3
<1> HIDE DEF grown
<1>6. Len(grown) > PaidLimit => Len(grown) = PaidLimit + 1
  BY <1>1, <1>3, <1>5
<1> QED BY <1>1, <1>2, <1>4, <1>5, <1>6, DroppedFollows

LEMMA OtherFollows ==
    ASSUME NEW cache \in Seq(Actions), NEW h \in Seq(Actions), Follows(cache, h), NEW a \in Actions, a.kind \notin PaidKinds
    PROVE  Follows(cache, Append(h, a))
<1>1. PICK pos : Placed(pos, cache, h)
  BY DEF Follows
<1> DEFINE h2 == Append(h, a)
           n == Len(h)
<1>2. Len(h2) = n + 1 /\ h2[n + 1] = a /\ n \in Nat /\ \A j \in 1..n : h2[j] = h[j]
  BY Appended
<1>3. 1..n \subseteq 1..(n + 1) /\ \A j \in 1..(n + 1) : j \in 1..n \/ j = n + 1
  BY <1>2
<1> HIDE DEF h2, n
<1>4. \A j \in 1..Len(h2) : h2[j].kind \in PaidKinds => j \in 1..n /\ h2[j] = h[j]
  BY <1>2, <1>3
<1>5. pos \in [1..Len(cache) -> 1..n]
  BY <1>1 DEF Placed, n
<1>6. pos \in [1..Len(cache) -> 1..Len(h2)] /\ \A k \in 1..Len(cache) : h2[pos[k]] = h[pos[k]]
  BY <1>2, <1>3, <1>5
<1>7. Placed(pos, cache, h2)
  BY <1>1, <1>4, <1>6, SMTT(30) DEF Placed, n
<1> QED BY <1>7 DEF Follows, h2

-----------------------------------------------------------------------------
(* A ticker's details.                                                     *)

LEMMA ImageSize ==
    ASSUME NEW S, IsFiniteSet(S), NEW f
    PROVE  IsFiniteSet({f[x] : x \in S}) /\ Cardinality({f[x] : x \in S}) <= Cardinality(S)
<1> DEFINE T == {f[x] : x \in S}
           g == [x \in S |-> f[x]]
<1>1. g \in Surjection(S, T)
  BY DEF Surjection
<1> HIDE DEF T, g
<1>2. IsFiniteSet(T) /\ Cardinality(T) <= Cardinality(S)
  BY <1>1, FS_Surjection
<1> QED BY <1>2 DEF T

\* What TickerDetails asks for, of what was processed before.
Newest(h, n, a) ==
    LET before == {j \in 1..n : h[j].kind \in PaidKinds}
        own == {j \in before : h[j].event = a.event}
        newest == Max(own)
        after == {h[j].event : j \in {k \in before : k > newest}}
    IN  IF /\ own # {} /\ Cardinality(after) < PaidLimit
           /\ Announces[a.kind] = h[newest].kind
           /\ SameAuthor(a.author, h[newest].author)
        THEN h[newest].id ELSE None

LEMMA DetailsAreNewest ==
    ASSUME NEW cache \in Seq(Actions), Len(cache) <= PaidLimit, NEW h \in Seq(Actions), Follows(cache, h),
           NEW a \in Actions, a.kind \in DOMAIN Announces
    PROVE  Details(cache, a) = Newest(h, Len(h), a)
<1>1. PICK pos : Placed(pos, cache, h)
  BY DEF Follows
<1> DEFINE n == Len(h)
           L == Len(cache)
           before == {j \in 1..n : h[j].kind \in PaidKinds}
           own == {j \in before : h[j].event = a.event}
           newest == Max(own)
           later == {k \in before : k > newest}
           after == {h[j].event : j \in later}
<1>2. n \in Nat /\ L \in Nat /\ PaidLimit \in Nat /\ own \in SUBSET (1..n) /\ \A k \in 1..L : pos[k] \in 1..n
  <2>1. PaidLimit \in Nat
    BY ChatAssumption
  <2>2. own \in SUBSET (1..n)
    OBVIOUS
  <2>3. \A k \in 1..L : pos[k] \in 1..n
    BY <1>1 DEF Placed
  <2> QED BY <2>1, <2>2, <2>3
<1>3. \A k \in 1..L : pos[k] \in before /\ cache[k] = h[pos[k]]
  BY <1>1, <1>2 DEF Placed
<1>4. Newest(h, n, a) = IF /\ own # {} /\ Cardinality(after) < PaidLimit
                           /\ Announces[a.kind] = h[newest].kind
                           /\ SameAuthor(a.author, h[newest].author)
                        THEN h[newest].id ELSE None
  BY DEF Newest
<1>5. CASE own = {}
  <2>1. ~Knows(cache, a.event)
    BY <1>3, <1>5 DEF Knows
  <2> HIDE DEF own
  <2> QED BY <1>4, <1>5, <2>1 DEF Details
<1>6. CASE own # {}
  <2>1. newest \in own /\ \A j \in own : j <= newest
    <3>1. own \in SUBSET Int /\ n \in Int /\ \A j \in own : j <= n
      BY <1>2
    <3> HIDE DEF own
    <3> QED BY <1>6, <3>1, MaxMember
  <2> HIDE DEF newest
  <2>2. newest \in 1..n /\ h[newest].kind \in PaidKinds /\ h[newest].event = a.event
    BY <2>1
  <2>3. IsFiniteSet(1..n) /\ IsFiniteSet(later) /\ later \in SUBSET (1..n)
    <3>1. IsFiniteSet(1..n)
      BY <1>2, FS_Interval
    <3>2. later \in SUBSET (1..n)
      OBVIOUS
    <3> HIDE DEF later
    <3> QED BY <3>1, <3>2, FS_Subset
  <2>4. CASE Knows(cache, a.event)
    <3> DEFINE k == PlaceOf(cache, a.event)
    <3>1. k \in 1..L /\ cache[k].event = a.event
      BY <2>4, KnownPlace
    <3> HIDE DEF k
    <3>2. pos[k] = newest
      <4>1. pos[k] \in own
        BY <1>3, <3>1
      <4>2. newest <= pos[k]
        BY <1>1, <2>2, <3>1 DEF Placed
      <4>3. pos[k] <= newest
        BY <2>1, <4>1
      <4> QED BY <1>2, <2>2, <3>1, <4>2, <4>3
    <3>3. cache[k] = h[newest]
      BY <1>3, <3>1, <3>2
    <3>4. after \subseteq {cache[l].event : l \in (k + 1)..L}
      <4> SUFFICES ASSUME NEW j \in later PROVE \E l \in (k + 1)..L : h[j].event = cache[l].event
        OBVIOUS
      <4>1. j \in 1..n /\ h[j].kind \in PaidKinds /\ j > newest
        OBVIOUS
      <4>2. ~(j < pos[k])
        BY <1>2, <2>2, <3>2, <4>1
      <4>3. PICK l \in 1..L : h[j].event = cache[l].event
        BY <1>1, <3>1, <4>1, <4>2 DEF Placed
      <4>4. j <= pos[l]
        BY <1>1, <4>1, <4>3 DEF Placed
      <4>5. pos[k] < pos[l]
        BY <1>2, <2>2, <3>2, <4>1, <4>4
      <4>6. ~(l < k) /\ l # k
        BY <1>1, <1>2, <3>1, <4>5 DEF Placed
      <4>7. l \in (k + 1)..L
        BY <1>2, <3>1, <4>6
      <4> QED BY <4>3, <4>7
    <3>5. Cardinality(after) < PaidLimit
      <4> DEFINE R == (k + 1)..L
                 of == [l \in 1..L |-> cache[l].event]
                 img == {of[l] : l \in R}
      <4>1. IsFiniteSet(R) /\ Cardinality(R) <= L - k
        <5>1. k + 1 \in Int /\ L \in Int /\ L - (k + 1) + 1 = L - k /\ (k + 1 > L => 0 <= L - k) /\ L - k <= L - k
          BY <1>2, <3>1
        <5> HIDE DEF L
        <5> QED BY <5>1, FS_Interval
      <4> HIDE DEF R
      <4>2. IsFiniteSet(img) /\ Cardinality(img) <= Cardinality(R) /\ Cardinality(R) \in Nat
        BY <4>1, ImageSize, FS_CardinalityType
      <4>3. after \in SUBSET img
        <5>1. \A l \in R : of[l] = cache[l].event
          BY <1>2, <3>1 DEF R
        <5>2. after \subseteq {cache[l].event : l \in R}
          BY <3>4 DEF R
        <5> HIDE DEF of, after
        <5> QED BY <5>1, <5>2
      <4> HIDE DEF img, after
      <4>4. Cardinality(after) <= Cardinality(img) /\ IsFiniteSet(after)
        BY <4>2, <4>3, FS_Subset
      <4>5. Cardinality(after) \in Nat /\ Cardinality(img) \in Nat
        BY <4>2, <4>4, FS_CardinalityType
      <4> QED BY <1>2, <3>1, <4>1, <4>2, <4>4, <4>5
    <3>6. Details(cache, a) = IF Announces[a.kind] = h[newest].kind /\ SameAuthor(a.author, h[newest].author)
                              THEN h[newest].id ELSE None
      BY <2>4, <3>3 DEF Details, k
    <3> HIDE DEF after, own
    <3> QED BY <1>4, <1>6, <3>5, <3>6
  <2>5. CASE ~Knows(cache, a.event)
    <3>1. ~\E k \in 1..L : h[newest].event = cache[k].event
      BY <2>2, <2>5 DEF Knows
    <3>2. L >= PaidLimit /\ \A k \in 1..L : newest < pos[k]
      BY <1>1, <2>2, <3>1 DEF Placed
    <3> DEFINE img == {cache[l].event : l \in 1..L}
               ev == [l \in 1..L |-> cache[l].event]
    <3>3. Cardinality(img) = L /\ IsFiniteSet(img)
      <4>1. ev \in Bijection(1..L, img)
        <5>1. ev \in [1..L -> img] /\ \A e \in img : \E l \in 1..L : ev[l] = e
          OBVIOUS
        <5>2. \A l, m \in 1..L : ev[l] = ev[m] => l = m
          BY <1>1, PlacesDiffer
        <5> HIDE DEF ev, img
        <5> QED BY <5>1, <5>2 DEF Bijection, Injection, Surjection, IsInjective
      <4>2. IsFiniteSet(1..L) /\ Cardinality(1..L) = L
        <5>1. 1 \in Int /\ L \in Int /\ L - 1 + 1 = L /\ (1 > L => L = 0)
          BY <1>2
        <5> HIDE DEF L
        <5> QED BY <5>1, FS_Interval
      <4>3. ExistsBijection(1..L, img)
        BY <4>1 DEF ExistsBijection
      <4> HIDE DEF img
      <4> QED BY <4>2, <4>3, FS_Bijection
    <3>4. img \subseteq after
      <4> SUFFICES ASSUME NEW l \in 1..L PROVE cache[l].event \in after
        OBVIOUS
      <4>1. pos[l] \in later /\ h[pos[l]].event = cache[l].event
        BY <1>2, <1>3, <2>2, <3>2
      <4> HIDE DEF later
      <4> QED BY <4>1
    <3>5. IsFiniteSet(after)
      <4> DEFINE of == [j \in 1..n |-> h[j].event]
      <4>1. \A j \in later : h[j].event = of[j]
        BY <2>3
      <4> HIDE DEF later, of
      <4>2. IsFiniteSet({of[j] : j \in later})
        BY <2>3, ImageSize
      <4> QED BY <4>1, <4>2
    <3>6. ~(Cardinality(after) < PaidLimit)
      <4> HIDE DEF after, img
      <4>1. Cardinality(img) <= Cardinality(after) /\ Cardinality(after) \in Nat
        BY <3>4, <3>5, FS_Subset, FS_CardinalityType
      <4> QED BY <1>2, <3>2, <3>3, <4>1
    <3> HIDE DEF after, own
    <3> QED BY <1>4, <2>5, <3>6 DEF Details
  <2> QED BY <2>4, <2>5
<1> QED BY <1>5, <1>6

LEMMA NewestOfAnother ==
    ASSUME NEW h, NEW g, NEW n \in Nat, \A j \in 1..n : h[j] = g[j], NEW a
    PROVE  Newest(h, n, a) = Newest(g, n, a)
<1> DEFINE PaidOf(s) == {j \in 1..n : s[j].kind \in PaidKinds}
           OwnOf(s) == {j \in PaidOf(s) : s[j].event = a.event}
           EventsAfter(s) == {s[j].event : j \in {k \in PaidOf(s) : k > Max(OwnOf(s))}}
<1>1. PaidOf(h) = PaidOf(g)
  OBVIOUS
<1>2. OwnOf(h) = OwnOf(g)
  OBVIOUS
<1>3. EventsAfter(h) = EventsAfter(g)
  BY <1>2
<1>4. OwnOf(h) # {} => Max(OwnOf(h)) \in 1..n
  <2> DEFINE S == OwnOf(h)
  <2>1. S \in SUBSET (1..n)
    OBVIOUS
  <2> HIDE DEF S
  <2> QED BY <2>1, MaxAmong DEF S
<1>5. OwnOf(h) # {} => h[Max(OwnOf(h))] = g[Max(OwnOf(h))]
  BY <1>4
<1>6. \A s : Newest(s, n, a) =
         IF /\ OwnOf(s) # {} /\ Cardinality(EventsAfter(s)) < PaidLimit
            /\ Announces[a.kind] = s[Max(OwnOf(s))].kind
            /\ SameAuthor(a.author, s[Max(OwnOf(s))].author)
         THEN s[Max(OwnOf(s))].id ELSE None
  BY DEF Newest
<1> DEFINE own == OwnOf(h)
           m == Max(own)
           af == EventsAfter(h)
<1>7. Newest(h, n, a) =
         IF own # {} /\ Cardinality(af) < PaidLimit /\ Announces[a.kind] = h[m].kind /\ SameAuthor(a.author, h[m].author)
         THEN h[m].id ELSE None
  BY <1>6
<1>8. Newest(g, n, a) =
         IF own # {} /\ Cardinality(af) < PaidLimit /\ Announces[a.kind] = g[m].kind /\ SameAuthor(a.author, g[m].author)
         THEN g[m].id ELSE None
  BY <1>2, <1>3, <1>6
<1>9. own # {} => h[m] = g[m]
  BY <1>5
<1> HIDE DEF own, m, af
<1> QED BY <1>7, <1>8, <1>9

-----------------------------------------------------------------------------
(* What was processed, action by action.                                   *)

\* The hypothesis: actions of the chat are told apart by their numbers.
NumbersDiffer == \A a, b \in ToSet(Chat) : a.id = b.id => a = b

Acted(o) == [j \in 1..Len(o) |-> ById(o[j].id)]

\* What was processed is of the chat, the cache follows it, and a ticker has the
\* details it should have.
Tracked(o, cache) ==
    /\ \A j \in 1..Len(o) : \E a \in ToSet(Chat) : o[j].id = a.id
    /\ Follows(cache, Acted(o))
    /\ \A j \in 1..Len(o) :
         Acted(o)[j].kind \in DOMAIN Announces => o[j].detail = Newest(Acted(o), j - 1, Acted(o)[j])

LEMMA ChatTyped == ToSet(Chat) \subseteq Actions
<1>1. Pages \in Seq(Seq(Actions))
  BY ChatAssumption
<1>2. \A p \in 1..Len(Pages) : \A i \in 1..Len(Pages[p]) : Pages[p][i] \in Actions
  <2>1. \A p \in 1..Len(Pages) : Pages[p] \in Seq(Actions)
    BY <1>1
  <2> QED BY <2>1
<1> QED BY <1>2, ChatIsItsPages

LEMMA Identified ==
    ASSUME NumbersDiffer, NEW a \in ToSet(Chat), NEW id, id = a.id
    PROVE  ById(id) = a
  BY DEF ById, NumbersDiffer

LEMMA ActedTyped ==
    ASSUME NumbersDiffer, NEW o \in Seq(Processed), \A j \in 1..Len(o) : \E a \in ToSet(Chat) : o[j].id = a.id
    PROVE  Acted(o) \in Seq(Actions) /\ Len(Acted(o)) = Len(o)
<1>1. Len(o) \in Nat
  OBVIOUS
<1>2. ASSUME NEW j \in 1..Len(o) PROVE ById(o[j].id) \in Actions
  BY Identified, ChatTyped
<1> QED BY <1>1, <1>2 DEF Acted

LEMMA ActedAppend ==
    ASSUME NumbersDiffer, NEW o \in Seq(Processed), NEW entry \in Processed, NEW a \in ToSet(Chat), entry.id = a.id,
           \A j \in 1..Len(o) : \E b \in ToSet(Chat) : o[j].id = b.id
    PROVE  Acted(Append(o, entry)) = Append(Acted(o), a)
<1> DEFINE o2 == Append(o, entry)
           n == Len(o)
           h == Acted(o)
           h2 == Append(h, a)
<1>1. /\ Len(o2) = n + 1 /\ n \in Nat /\ o2[n + 1] = entry /\ \A j \in 1..n : o2[j] = o[j]
  BY Appended
<1>2. h \in Seq(Actions) /\ Len(h) = n /\ a \in Actions /\ \A j \in 1..n : h[j] = ById(o[j].id)
  <2>1. h \in Seq(Actions) /\ Len(h) = n
    BY ActedTyped
  <2> QED BY <2>1, ChatTyped DEF Acted
<1> HIDE DEF o2, h, n
<1>3. h2 \in Seq(Actions) /\ Len(h2) = n + 1 /\ h2[n + 1] = a /\ \A j \in 1..n : h2[j] = h[j]
  <2>1. Append(h, a) \in Seq(Actions) /\ Len(Append(h, a)) = Len(h) + 1 /\ Append(h, a)[Len(h) + 1] = a
        /\ \A j \in 1..Len(h) : Append(h, a)[j] = h[j]
    BY <1>2, Appended
  <2> QED BY <1>2, <2>1
<1> HIDE DEF h2
<1>4. \A j \in 1..(n + 1) : j \in 1..n \/ j = n + 1
  BY <1>1
<1>5. \A j \in 1..(n + 1) : ById(o2[j].id) = h2[j]
  BY <1>1, <1>2, <1>3, <1>4, Identified
<1>6. Acted(o2) = [j \in 1..(n + 1) |-> ById(o2[j].id)]
  BY <1>1 DEF Acted
<1>7. h2 = [j \in 1..(n + 1) |-> h2[j]]
  BY <1>1, <1>3
<1>8. Acted(o2) = h2
  BY <1>5, <1>6, <1>7
<1> QED BY <1>8 DEF o2, h2, h

LEMMA ActionTracked ==
    ASSUME NumbersDiffer, NEW p \in PageStates, Len(p.cache) <= PaidLimit, ~p.stopped, NEW a \in ToSet(Chat),
           NEW req, NEW first, Tracked(p.out, p.cache)
    PROVE  LET q == ProcessAction(p, a, req, first) IN Tracked(q.out, q.cache)
<1> DEFINE disposition == Disposition(a, req, first)
           detail == IF Parsed(a) THEN Details(p.cache, a) ELSE None
           entry == [id |-> a.id, as |-> disposition, detail |-> detail]
           owed == Parsed(a) /\ a.kind \in PaidKinds
           cache == IF owed THEN Remember(p.cache, a) ELSE p.cache
           q == ProcessAction(p, a, req, first)
           o == p.out
           o2 == Append(o, entry)
           n == Len(o)
           h == Acted(o)
           h2 == Append(h, a)
<1>1. q.out = o2 /\ q.cache = cache
  BY DEF ProcessAction
<1>2. o \in Seq(Processed) /\ p.cache \in Seq(Actions) /\ a \in Actions
  BY ChatTyped DEF PageStates
<1>3. disposition \in {"yield", "skip", "stop"} /\ detail \in Nat \cup {None}
  BY <1>2, DispositionTyped, DetailsTyped
<1>4. owed <=> a.kind \in PaidKinds
  BY DEF Parsed, PaidKinds
<1>5. a.kind \in DOMAIN Announces => detail = Details(p.cache, a)
  BY DEF Parsed, Announces
<1> HIDE DEF disposition, detail
<1>6. entry \in Processed /\ entry.id = a.id /\ entry.detail = detail
  BY <1>2, <1>3 DEF Processed, Actions
<1> HIDE DEF entry, q, o
<1>7. \A j \in 1..n : \E b \in ToSet(Chat) : o[j].id = b.id
  BY DEF Tracked, o
<1>8. h \in Seq(Actions) /\ Len(h) = n /\ n \in Nat
  BY <1>2, <1>7, ActedTyped
<1>9. Acted(o2) = h2
  BY <1>2, <1>6, <1>7, ActedAppend
<1>10. Follows(p.cache, h)
  BY DEF Tracked, o
<1>11. \A j \in 1..n : h[j].kind \in DOMAIN Announces => o[j].detail = Newest(h, j - 1, h[j])
  BY DEF Tracked, o
<1>12. /\ Len(o2) = n + 1 /\ o2[n + 1] = entry /\ \A j \in 1..n : o2[j] = o[j]
  BY <1>2, <1>6, Appended
<1> HIDE DEF h, n
<1>13. Len(h2) = n + 1 /\ h2[n + 1] = a /\ \A j \in 1..n : h2[j] = h[j]
  <2>1. Len(Append(h, a)) = Len(h) + 1 /\ Append(h, a)[Len(h) + 1] = a /\ \A j \in 1..Len(h) : Append(h, a)[j] = h[j]
    BY <1>2, <1>8, Appended
  <2> QED BY <1>8, <2>1
<1>14. Follows(cache, h2)
  BY <1>2, <1>4, <1>8, <1>10, RememberFollows, OtherFollows
<1> HIDE DEF cache, o2, h2, owed
<1>15. \A j \in 1..(n + 1) : j \in 1..n \/ j = n + 1
  BY <1>8
<1>16. \A j \in 1..(n + 1) : \E b \in ToSet(Chat) : o2[j].id = b.id
  BY <1>6, <1>7, <1>12, <1>15
<1>17. ASSUME NEW j \in 1..(n + 1), h2[j].kind \in DOMAIN Announces
       PROVE  o2[j].detail = Newest(h2, j - 1, h2[j])
  <2>1. CASE j \in 1..n
    <3>1. o2[j].detail = Newest(h, j - 1, h2[j])
      BY <1>11, <1>12, <1>13, <1>17, <2>1
    <3>2. j - 1 \in Nat /\ \A i \in 1..(j - 1) : i \in 1..n
      BY <1>8, <2>1
    <3>3. \A i \in 1..(j - 1) : h[i] = h2[i]
      BY <1>13, <3>2
    <3> DEFINE b == h2[j]
               i == j - 1
    <3>4. i \in Nat /\ \A l \in 1..i : h[l] = h2[l]
      BY <3>2, <3>3
    <3> HIDE DEF b, i
    <3>5. Newest(h, i, b) = Newest(h2, i, b)
      BY <3>4, NewestOfAnother
    <3> QED BY <3>1, <3>5 DEF b, i
  <2>2. CASE j = n + 1
    <3>1. a.kind \in DOMAIN Announces /\ h2[j] = a /\ o2[j].detail = Details(p.cache, a) /\ j - 1 = n
      BY <1>5, <1>6, <1>8, <1>12, <1>13, <1>17, <2>2
    <3>2. Details(p.cache, a) = Newest(h, n, a)
      BY <1>2, <1>8, <1>10, <3>1, DetailsAreNewest
    <3>3. Newest(h, n, a) = Newest(h2, n, a)
      BY <1>8, <1>13, NewestOfAnother
    <3> QED BY <3>1, <3>2, <3>3
  <2> QED BY <1>15, <2>1, <2>2
<1>18. Tracked(o2, cache)
  BY <1>9, <1>12, <1>14, <1>16, <1>17 DEF Tracked
<1> QED BY <1>1, <1>18 DEF q

LEMMA PageTracked ==
    ASSUME NumbersDiffer, NEW actions \in Seq(ToSet(Chat)), NEW page \in PageStates, Len(page.cache) <= PaidLimit,
           Tracked(page.out, page.cache), NEW req, NEW first
    PROVE  LET after == ProcessActions(actions, page, req, first) IN Tracked(after.out, after.cache)
<1> DEFINE n == Len(actions)
           Fine(p) == p \in PageStates /\ Len(p.cache) <= PaidLimit /\ Tracked(p.out, p.cache)
<1>1. PICK F : /\ F[0] = page
               /\ \A k \in 1..n : F[k] = ProcessAction(F[k - 1], actions[k], req, first)
               /\ ProcessActions(actions, page, req, first) = F[n]
  <2>1. actions \in Seq(Actions)
    BY ChatTyped
  <2> QED BY <2>1, Unrolled
<1> DEFINE S == {k \in 0..n : Fine(F[k])}
<1>2. n \in Nat
  OBVIOUS
<1>3. 0 \in S
  BY <1>1, <1>2
<1>4. ASSUME NEW k \in 0..(n - 1), k \in S PROVE k + 1 \in S
  <2>1. k + 1 \in 1..n /\ k + 1 - 1 = k /\ k + 1 \in 0..n /\ actions[k + 1] \in ToSet(Chat)
    BY <1>2
  <2> DEFINE p == F[k]
             a == actions[k + 1]
             q == ProcessAction(p, a, req, first)
  <2>2. F[k + 1] = q
    BY <1>1, <2>1
  <2>3. Fine(p)
    BY <1>4
  <2> HIDE DEF p, a
  <2>4. a \in ToSet(Chat) /\ a \in Actions
    BY <2>1, ChatTyped DEF a
  <2>5. q \in PageStates /\ Len(q.cache) <= PaidLimit
    BY <2>3, <2>4, ActionTyped
  <2>6. CASE p.stopped
    <3>1. q = p
      BY <2>6 DEF ProcessAction
    <3> QED BY <2>1, <2>2, <2>3, <3>1
  <2>7. CASE ~p.stopped
    <3>1. Tracked(q.out, q.cache)
      BY <2>3, <2>4, <2>7, ActionTracked
    <3> HIDE DEF q
    <3>2. Fine(q)
      BY <2>5, <3>1
    <3> HIDE DEF Fine
    <3> QED BY <2>1, <2>2, <3>2
  <2> QED BY <2>6, <2>7
<1>5. n \in S
  <2> HIDE DEF S
  <2>1. \A k \in 0..n : k \in S
    <3> HIDE DEF n
    <3> QED BY <1>2, <1>3, <1>4, NatInductTo
  <2> QED BY <1>2, <2>1
<1>6. Fine(F[n])
  BY <1>5
<1> QED BY <1>1, <1>6

LEMMA AnsweredTracked ==
    ASSUME NumbersDiffer, TypeInv, Tracked(out, paid), RequestAnswered
    PROVE  Tracked(out', paid')
<1>1. PICK answer \in Answers : paid' = After(answer).cache /\ out' = After(answer).out
  BY AnsweredMeans
<1> DEFINE actions == answer.actions
           state == Before
           first == token.page = 1
<1>2. token.page \in 1..Len(Pages) /\ Pages[token.page] \in Seq(Actions)
  BY Constants DEF TypeInv, LoopTyped
<1>3. actions = Pages[token.page] \/ actions = <<>>
  BY DEF Answers
<1>4. Pages[token.page] \in Seq(ToSet(Chat))
  <2> DEFINE s == Pages[token.page]
  <2>1. \A i \in 1..Len(s) : s[i] \in ToSet(Chat)
    BY <1>2, ChatIsItsPages
  <2> HIDE DEF s
  <2>2. s \in Seq(Actions) => s \in Seq(ToSet(Chat))
    BY <2>1
  <2> QED BY <1>2, <2>2 DEF s
<1>5. actions \in Seq(ToSet(Chat))
  <2>1. <<>> \in Seq(ToSet(Chat))
    OBVIOUS
  <2> QED BY <1>3, <1>4, <2>1
<1>6. state \in PageStates /\ Len(state.cache) <= PaidLimit /\ Tracked(state.out, state.cache)
  BY DEF Before, PageStates, TypeInv, LoopTyped
<1>7. After(answer) = ProcessActions(actions, state, request, first)
  BY DEF After
<1> HIDE DEF actions, state, first
<1> DEFINE after == ProcessActions(actions, state, request, first)
<1>8. Tracked(after.out, after.cache)
  BY <1>5, <1>6, PageTracked
<1> QED BY <1>1, <1>7, <1>8

TrackedInv == Tracked(out, paid)

LEMMA TrackedMeans ==
    ASSUME TypeInv, TrackedInv
    PROVE  TickerDetails
<1>1. DOMAIN out = 1..Len(out) /\ Len(out) \in Nat
  BY DEF TypeInv, LoopTyped
<1>2. SUFFICES ASSUME NEW i \in 1..Len(out), ById(out[i].id).kind \in DOMAIN Announces
               PROVE  LET Event(j) == ById(out[j].id).event
                          before == {j \in 1..(i - 1) : ById(out[j].id).kind \in PaidKinds}
                          own == {j \in before : Event(j) = ById(out[i].id).event}
                          newest == Max(own)
                          after == {Event(j) : j \in {k \in before : k > newest}}
                      IN  out[i].detail =
                            IF /\ own # {} /\ Cardinality(after) < PaidLimit
                               /\ Announces[ById(out[i].id).kind] = ById(out[newest].id).kind
                               /\ SameAuthor(ById(out[i].id).author, ById(out[newest].id).author)
                            THEN out[newest].id ELSE None
  BY <1>1 DEF TickerDetails
<1> DEFINE h == Acted(out)
           n == i - 1
           a == ById(out[i].id)
           before == {j \in 1..n : ById(out[j].id).kind \in PaidKinds}
           own == {j \in before : ById(out[j].id).event = a.event}
           newest == Max(own)
           after == {ById(out[j].id).event : j \in {k \in before : k > newest}}
           rightly == IF /\ own # {} /\ Cardinality(after) < PaidLimit
                         /\ Announces[a.kind] = ById(out[newest].id).kind
                         /\ SameAuthor(a.author, ById(out[newest].id).author)
                      THEN out[newest].id ELSE None
<1>3. n \in Nat /\ (\A j \in 1..n : j \in 1..Len(out)) /\ (\A j \in 1..Len(out) : h[j] = ById(out[j].id))
  BY <1>1 DEF Acted
<1>4. out[i].detail = Newest(h, n, a)
  BY <1>2, <1>3 DEF TrackedInv, Tracked
<1>5. before = {j \in 1..n : h[j].kind \in PaidKinds}
  <2> HIDE DEF h, n
  <2> QED BY <1>3
<1>6. own = {j \in before : h[j].event = a.event}
  <2> HIDE DEF h, n, a
  <2> QED BY <1>3
<1>7. after = {h[j].event : j \in {k \in before : k > newest}}
  <2> HIDE DEF h, n, a, newest
  <2> QED BY <1>3
<1>8. own # {} => newest \in 1..n
  <2>1. own \in SUBSET (1..n)
    OBVIOUS
  <2> HIDE DEF own, n
  <2> QED BY <1>3, <2>1, MaxAmong
<1>9. own # {} => h[newest] = ById(out[newest].id) /\ h[newest].id = out[newest].id
  <2>1. \A j \in 1..Len(out) : ById(out[j].id).id = out[j].id
    BY DEF TrackedInv, Tracked, ById
  <2> HIDE DEF h, own, n, newest
  <2> QED BY <1>3, <1>8, <2>1
<1>10. Newest(h, n, a) = IF /\ own # {} /\ Cardinality(after) < PaidLimit
                            /\ Announces[a.kind] = h[newest].kind
                            /\ SameAuthor(a.author, h[newest].author)
                         THEN h[newest].id ELSE None
  <2> HIDE DEF h, n, a
  <2> QED BY <1>5, <1>6, <1>7 DEF Newest
<1>11. Newest(h, n, a) = rightly
  <2> HIDE DEF h, n, a, own, after, newest
  <2> QED BY <1>9, <1>10
<1> QED BY <1>4, <1>11

\* In a chat whose actions are told apart by their numbers, a ticker is completed from
\* the newest paid event with its ID, if that is of the type it announces, not another
\* author's, and still among the last PaidLimit that came, whatever was repeated or
\* recovered (PaidEventCache, _process_actions).
THEOREM TickersAreCompleted == ASSUME NumbersDiffer PROVE Spec => []TickerDetails
<1>1. Init => TypeInv /\ TrackedInv
  <2>1. ASSUME Init PROVE TrackedInv
    <3>1. out = <<>> /\ paid = <<>> /\ Len(<<>>) = 0 /\ 1..0 = {}
      BY <2>1 DEF Init
    <3>2. Acted(<<>>) = <<>>
      BY <3>1 DEF Acted
    <3>3. Placed(<<>>, <<>>, <<>>)
      BY <3>1 DEF Placed
    <3> QED BY <3>1, <3>2, <3>3 DEF TrackedInv, Tracked, Follows
  <2> QED BY <2>1, InitTyped
<1>2. TypeInv /\ TrackedInv /\ [Next]_vars => TypeInv' /\ TrackedInv'
  <2>1. ASSUME [Next]_vars, ~RequestAnswered PROVE UNCHANGED <<out, paid>>
    BY <2>1 DEF Next, Done, Build, Poll, RequestRetried, RequestRejected, ApiError, RequestIncomplete, RequestInvalid,
                loopVars, vars
  <2>2. TrackedInv /\ UNCHANGED <<out, paid>> => TrackedInv'
    BY DEF TrackedInv
  <2>3. TypeInv /\ TrackedInv /\ RequestAnswered => TrackedInv'
    BY AnsweredTracked DEF TrackedInv
  <2> QED BY <2>1, <2>2, <2>3, TypeNext
<1>3. TypeInv /\ TrackedInv => TickerDetails
  BY TrackedMeans
<1> QED BY <1>1, <1>2, <1>3, PTL DEF Spec
===============================================================================
