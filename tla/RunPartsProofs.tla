---------------------------- MODULE RunPartsProofs ----------------------------
(***************************************************************************)
(* TLAPS proofs about parts that a run stands on, for any values of their  *)
(* constants.  SitePool: through any calls in any order, cleared cookies   *)
(* stay cleared, what the owner sets reaches every session, no open        *)
(* session is lost, and a chat's session closes only on demand.            *)
(* DeletedMessageCache: its books agree with what it holds, within its     *)
(* budgets.  OutputFiles: through any runs, kills and failures no file     *)
(* loses, doubles or mixes a record.  CaptureAudit: a capture is accepted  *)
(* exactly when its text file is the rendering of its raw one.             *)
(* RunVerdict: what a run says of its capture is true.  TimedGenerator: a  *)
(* source is never closed under a pending next(), every deadline decision  *)
(* is true, every prefetched item is accounted for, and it implements      *)
(* BoundedStream.                                                          *)
(***************************************************************************)
EXTENDS SitePool, DeletedMessageCache, OutputFiles, CaptureAudit, RunVerdict, TimedGenerator,
        Induction, SequenceTheorems, FiniteSetTheorems

-----------------------------------------------------------------------------
(* SitePool.                                                               *)

Session == [open : BOOLEAN, cookies : [CookieNames -> Nat]]

PoolType ==
    /\ cookieFile \in BOOLEAN
    /\ jar \in [CookieNames -> Nat]
    /\ made \in Seq(Session)
    /\ cached \in [Sites -> Nat] /\ Pooled \subseteq DOMAIN made
    /\ chats \in Seq([session : Nat, since : SUBSET Nat])
    /\ stamp \in Nat /\ clearedAt \in Int /\ dismissed \subseteq Nat

\* No cookie is newer than the stamp, and the file, which holds the value 1, is
\* forgotten with the first clearing.
JarInv ==
    /\ 1 <= stamp /\ clearedAt <= stamp
    /\ cookieFile => clearedAt < 1
    /\ \A c \in CookieNames : jar[c] <= stamp /\ (jar[c] = 0 \/ jar[c] > clearedAt)

CookieInv ==
    \A k \in Pooled, c \in CookieNames :
        /\ made[k].cookies[c] = 0 \/ made[k].cookies[c] > clearedAt
        /\ made[k].cookies[c] >= jar[c]

\* Sessions that were given up are closed, and so none that a chat reads through and
\* that is open can be among those given up before.
SessionInv ==
    /\ NothingLeaks
    /\ \A k \in dismissed : k \in DOMAIN made /\ ~made[k].open

ChatInv ==
    \A n \in DOMAIN chats :
        /\ chats[n].session \in DOMAIN made /\ chats[n].since \subseteq dismissed
        /\ made[chats[n].session].open \/ chats[n].session \in dismissed \ chats[n].since

PoolInv == PoolType /\ JarInv /\ CookieInv /\ SessionInv /\ ChatInv

-----------------------------------------------------------------------------
(* What the helpers make of the sessions.                                  *)

\* A function with the domain of a sequence is one of the same length.
LEMMA Remade ==
    ASSUME NEW S, NEW s \in Seq(S), NEW t \in [DOMAIN s -> S]
    PROVE  t \in Seq(S) /\ DOMAIN t = DOMAIN s /\ Len(t) = Len(s)
<1>1. Len(s) \in Nat /\ DOMAIN s = 1..Len(s)
  BY LenProperties
<1>2. t \in Seq(S)
  BY <1>1, SeqDef
<1>3. Len(t) = Len(s)
  BY <1>1, <1>2, LenProperties
<1> QED BY <1>2, <1>3

LEMMA EmptiedSessions ==
    ASSUME made \in Seq(Session), NEW which
    PROVE  /\ Emptied(which) \in Seq(Session) /\ DOMAIN Emptied(which) = DOMAIN made
           /\ \A k \in DOMAIN made :
                /\ Emptied(which)[k].open = made[k].open
                /\ Emptied(which)[k].cookies = IF k \in which THEN Nothing ELSE made[k].cookies
<1>1. Nothing \in [CookieNames -> Nat]
  BY DEF Nothing
<1>2. \A k \in DOMAIN made : made[k] \in Session
  BY ElementOfSeq, LenProperties
<1>3. Emptied(which) \in [DOMAIN made -> Session]
  BY <1>1, <1>2 DEF Emptied, Session
<1>4. \A k \in DOMAIN made :
        /\ Emptied(which)[k].open = made[k].open
        /\ Emptied(which)[k].cookies = IF k \in which THEN Nothing ELSE made[k].cookies
  BY <1>2 DEF Emptied, Session
<1> QED BY <1>3, <1>4, Remade

LEMMA ClosedSessions ==
    ASSUME made \in Seq(Session), NEW which
    PROVE  /\ Closed(which) \in Seq(Session) /\ DOMAIN Closed(which) = DOMAIN made
           /\ Len(Closed(which)) = Len(made)
           /\ \A k \in DOMAIN made :
                /\ Closed(which)[k].open <=> made[k].open /\ k \notin which
                /\ Closed(which)[k].cookies = made[k].cookies
<1>1. \A k \in DOMAIN made : made[k] \in Session
  BY ElementOfSeq, LenProperties
<1>2. Closed(which) \in [DOMAIN made -> Session]
  BY <1>1 DEF Closed, Session
<1>3. \A k \in DOMAIN made :
        /\ Closed(which)[k].open <=> made[k].open /\ k \notin which
        /\ Closed(which)[k].cookies = made[k].cookies
  BY <1>1 DEF Closed, Session
<1> QED BY <1>2, <1>3, Remade

LEMMA PoolInitial == PoolInit => PoolInv
<1> SUFFICES ASSUME PoolInit PROVE PoolInv
  OBVIOUS
<1>1. Pooled = {} /\ made = <<>> /\ chats = <<>> /\ DOMAIN made = {} /\ DOMAIN chats = {}
  BY DEF PoolInit, Pooled
<1>2. PoolType
  BY <1>1, EmptySeq DEF PoolInit, PoolType, Nothing
<1>3. JarInv /\ CookieInv /\ SessionInv /\ ChatInv
  BY <1>1 DEF PoolInit, JarInv, CookieInv, SessionInv, NothingLeaks, ChatInv, Nothing
<1> QED BY <1>2, <1>3 DEF PoolInv

-----------------------------------------------------------------------------
(* Cookies.                                                                *)

LEMMA ClearCookiesStep == PoolInv /\ ClearCookies => PoolInv'
<1> SUFFICES ASSUME PoolInv, ClearCookies PROVE PoolInv'
  OBVIOUS
<1> USE DEF PoolInv
<1>1. /\ Pooled' = Pooled /\ made' \in Seq(Session) /\ DOMAIN made' = DOMAIN made
      /\ \A k \in DOMAIN made :
           /\ made'[k].open = made[k].open
           /\ made'[k].cookies = IF k \in Pooled THEN Nothing ELSE made[k].cookies
  BY EmptiedSessions DEF PoolType, ClearCookies, Pooled
<1>2. jar' \in [CookieNames -> Nat] /\ cookieFile' \in BOOLEAN
  BY DEF ClearCookies, Nothing
<1>5. PoolType'
  BY <1>1, <1>2 DEF PoolType, ClearCookies
<1>3. JarInv' /\ CookieInv'
  BY <1>1 DEF PoolType, JarInv, CookieInv, ClearCookies, Nothing
<1>4. SessionInv' /\ ChatInv'
  BY <1>1 DEF SessionInv, NothingLeaks, ChatInv, ClearCookies
<1> QED BY <1>5, <1>3, <1>4

LEMMA SetCookieStep ==
    ASSUME NEW c \in CookieNames PROVE PoolInv /\ SetCookie(c) => PoolInv'
<1> SUFFICES ASSUME PoolInv, SetCookie(c) PROVE PoolInv'
  OBVIOUS
<1> USE DEF PoolInv
<1>0. stamp + 1 \in Nat
  BY DEF PoolType
<1>1. /\ Pooled' = Pooled /\ made' \in Seq(Session) /\ DOMAIN made' = DOMAIN made
      /\ \A k \in DOMAIN made :
           /\ made'[k].open = made[k].open
           /\ \A d \in CookieNames :
                made'[k].cookies[d] = IF k \in Pooled /\ d = c THEN stamp + 1 ELSE made[k].cookies[d]
  <2>1. made \in Seq(Session) /\ Pooled' = Pooled /\ made' = WithCookie(Pooled, c, stamp + 1)
    BY DEF PoolType, SetCookie, Pooled
  <2>2. \A k \in DOMAIN made : made[k] \in Session
    BY <2>1, ElementOfSeq, LenProperties
  <2>3. made' \in [DOMAIN made -> Session]
    BY <1>0, <2>1, <2>2 DEF WithCookie, Session
  <2>4. \A k \in DOMAIN made :
          /\ made'[k].open = made[k].open
          /\ \A d \in CookieNames :
               made'[k].cookies[d] = IF k \in Pooled /\ d = c THEN stamp + 1 ELSE made[k].cookies[d]
    BY <2>1, <2>2 DEF WithCookie, Session
  <2> QED BY <2>1, <2>3, <2>4, Remade
<1>2. PoolType'
  BY <1>1 DEF PoolType, SetCookie
<1>3. JarInv'
  BY DEF PoolType, JarInv, SetCookie
<1>4. CookieInv'
  <2> SUFFICES ASSUME NEW k \in Pooled, NEW d \in CookieNames
               PROVE  /\ made'[k].cookies[d] = 0 \/ made'[k].cookies[d] > clearedAt'
                      /\ made'[k].cookies[d] >= jar'[d]
    BY <1>1 DEF CookieInv
  <2>1. k \in DOMAIN made /\ clearedAt' = clearedAt /\ jar' = [jar EXCEPT ![c] = stamp + 1]
        /\ jar \in [CookieNames -> Nat] /\ stamp \in Nat /\ clearedAt \in Int /\ clearedAt <= stamp
    BY DEF PoolType, JarInv, SetCookie
  <2>2. CASE d = c
    <3>1. made'[k].cookies[d] = stamp + 1 /\ jar'[d] = stamp + 1
      BY <1>1, <2>1, <2>2
    <3> QED BY <2>1, <3>1
  <2>3. CASE d # c
    <3>1. made'[k].cookies[d] = made[k].cookies[d] /\ jar'[d] = jar[d]
      BY <1>1, <2>1, <2>3
    <3> QED BY <2>1, <3>1 DEF CookieInv
  <2> QED BY <2>2, <2>3
<1>5. SessionInv' /\ ChatInv'
  BY <1>1 DEF SessionInv, NothingLeaks, ChatInv, SetCookie
<1> QED BY <1>2, <1>3, <1>4, <1>5

LEMMA RequestStep ==
    ASSUME NEW j \in DOMAIN made, NEW c \in CookieNames PROVE PoolInv /\ Request(j, c) => PoolInv'
<1> SUFFICES ASSUME PoolInv, Request(j, c) PROVE PoolInv'
  OBVIOUS
<1> USE DEF PoolInv
<1>1. \A k \in DOMAIN made : made[k] \in Session
  BY ElementOfSeq, LenProperties DEF PoolType
<1> DEFINE session == [made[j] EXCEPT !.cookies = [@ EXCEPT ![c] = stamp + 1]]
<1>a. session \in Session
  <2>1. made[j] \in Session /\ stamp + 1 \in Nat
    BY <1>1 DEF PoolType
  <2>2. [made[j].cookies EXCEPT ![c] = stamp + 1] \in [CookieNames -> Nat]
    BY <2>1 DEF Session
  <2> QED BY <2>1, <2>2 DEF Session
<1>b. made' = [made EXCEPT ![j] = session]
  BY DEF Request
<1>2. made' \in [DOMAIN made -> Session]
  <2>1. made \in [DOMAIN made -> Session]
    BY LenProperties DEF PoolType
  <2> HIDE DEF session
  <2> QED BY <1>a, <1>b, <2>1
<1>3. made' \in Seq(Session) /\ DOMAIN made' = DOMAIN made /\ Pooled' = Pooled
  BY <1>2, Remade DEF PoolType, Request, Pooled
<1>4. \A k \in DOMAIN made :
        /\ made'[k].open = made[k].open
        /\ \A d \in CookieNames :
             made'[k].cookies[d] = IF k = j /\ d = c THEN stamp + 1 ELSE made[k].cookies[d]
  BY <1>1, <1>3 DEF Request, Session
<1>5. PoolType'
  BY <1>3 DEF PoolType, Request
<1>6. JarInv' /\ CookieInv'
  BY <1>3, <1>4 DEF PoolType, JarInv, CookieInv, Request
<1>7. SessionInv' /\ ChatInv'
  BY <1>3, <1>4 DEF SessionInv, NothingLeaks, ChatInv, Request
<1> QED BY <1>5, <1>6, <1>7

-----------------------------------------------------------------------------
(* Sessions.                                                               *)

\* Of the sessions there were, those that close are given up.
GivenUpOrOpen ==
    /\ DOMAIN made \subseteq DOMAIN made' /\ dismissed \subseteq dismissed'
    /\ \A k \in DOMAIN made : made[k].open => made'[k].open \/ k \in dismissed'

\* A chat whose session closes has begun before it was given up.
LEMMA ChatsKept == ChatInv /\ SessionInv /\ GivenUpOrOpen /\ UNCHANGED chats => ChatInv'
<1> SUFFICES ASSUME ChatInv, SessionInv, GivenUpOrOpen, chats' = chats, NEW n \in DOMAIN chats
             PROVE  /\ chats[n].session \in DOMAIN made' /\ chats[n].since \subseteq dismissed'
                    /\ \/ made'[chats[n].session].open
                       \/ chats[n].session \in dismissed' \ chats[n].since
  BY DEF ChatInv
<1>1. /\ chats[n].session \in DOMAIN made /\ chats[n].since \subseteq dismissed
      /\ made[chats[n].session].open \/ chats[n].session \in dismissed \ chats[n].since
  BY DEF ChatInv
<1>2. made[chats[n].session].open => chats[n].session \notin chats[n].since
  BY <1>1 DEF SessionInv
<1> QED BY <1>1, <1>2 DEF GivenUpOrOpen

\* Some sessions are closed and given up, and the pool keeps the others.
LEMMA CloseSome ==
    ASSUME PoolInv, NEW which, made' = Closed(which), dismissed' = GivenUp(which),
           cached' \in [Sites -> Nat], Pooled' \subseteq Pooled, Pooled \subseteq Pooled' \cup which,
           which \subseteq DOMAIN made, UNCHANGED <<cookieFile, jar, stamp, clearedAt>>
    PROVE  /\ made' \in Seq(Session) /\ Pooled' \subseteq DOMAIN made' /\ dismissed' \subseteq Nat
           /\ JarInv' /\ CookieInv' /\ SessionInv' /\ GivenUpOrOpen
<1> USE DEF PoolInv
<1>1. /\ made' \in Seq(Session) /\ DOMAIN made' = DOMAIN made
      /\ \A k \in DOMAIN made :
           /\ made'[k].open <=> made[k].open /\ k \notin which
           /\ made'[k].cookies = made[k].cookies
  BY ClosedSessions DEF PoolType
<1>2. dismissed' = dismissed \cup {k \in which : made[k].open}
  BY DEF GivenUp
<1>3. DOMAIN made \subseteq Nat
  BY LenProperties DEF PoolType
<1>4. Pooled' \subseteq DOMAIN made' /\ dismissed' \subseteq Nat
  BY <1>1, <1>2, <1>3 DEF PoolType
<1>5. JarInv' /\ CookieInv'
  BY <1>1 DEF PoolType, JarInv, CookieInv
<1>6. SessionInv'
  BY <1>1, <1>2 DEF SessionInv, NothingLeaks
<1>7. GivenUpOrOpen
  BY <1>1, <1>2 DEF GivenUpOrOpen
<1> QED BY <1>1, <1>4, <1>5, <1>6, <1>7

\* The session that a creation without an error leaves is open, whether it is the one
\* there was or a new one.
LEMMA CreateKeeps ==
    ASSUME PoolInv, NEW site \in Sites, NEW overwrite \in BOOLEAN, NEW raises \in BOOLEAN,
           Create(site, overwrite, raises), UNCHANGED <<cookieFile, jar, stamp, clearedAt>>
    PROVE  /\ made' \in Seq(Session) /\ cached' \in [Sites -> Nat] /\ Pooled' \subseteq DOMAIN made'
           /\ dismissed' \subseteq Nat
           /\ JarInv' /\ CookieInv' /\ SessionInv' /\ GivenUpOrOpen
           /\ ~raises => cached'[site] \in DOMAIN made' /\ made'[cached'[site]].open
<1> USE DEF PoolInv
<1> DEFINE old == {cached[site]} \ {0}
<1>0. old \subseteq Pooled /\ Pooled \subseteq DOMAIN made /\ DOMAIN made = 1..Len(made) /\ Len(made) \in Nat
  BY LenProperties DEF Pooled, PoolType
<1>1. CASE Reusable(site, overwrite)
  <2>1. ~raises /\ UNCHANGED <<made, cached, dismissed>> /\ Pooled' = Pooled
    BY <1>1 DEF Create, Pooled
  <2>2. cached[site] \in Pooled /\ made[cached[site]].open
    BY <1>1 DEF Reusable, Pooled
  <2>3. JarInv' /\ CookieInv' /\ SessionInv' /\ GivenUpOrOpen
    BY <2>1 DEF JarInv, CookieInv, SessionInv, NothingLeaks, GivenUpOrOpen
  <2> QED BY <2>1, <2>2, <2>3, <1>0 DEF PoolType
<1>2. CASE ~Reusable(site, overwrite) /\ raises
  <2>1. made' = Closed(old) /\ dismissed' = GivenUp(old) /\ cached' = cached /\ Pooled' = Pooled
    BY <1>2 DEF Create, Pooled
  <2>2. cached' \in [Sites -> Nat] /\ Pooled \subseteq Pooled' \cup old /\ Pooled' \subseteq Pooled
        /\ old \subseteq DOMAIN made
    BY <1>0, <2>1 DEF PoolType
  <2> HIDE DEF old
  <2> QED BY <1>2, <2>1, <2>2, CloseSome
<1>3. CASE ~Reusable(site, overwrite) /\ ~raises
  <2> DEFINE new == [open |-> TRUE, cookies |-> FirstCookies]
             last == Len(made) + 1
  <2>1. /\ made' = Append(Closed(old), new) /\ dismissed' = GivenUp(old)
        /\ cached' = [cached EXCEPT ![site] = last]
    BY <1>3 DEF Create
  <2>2. new \in Session
    <3>1. \A c \in CookieNames : jar[c] \in Nat
      BY DEF PoolType
    <3> QED BY <3>1 DEF Session, FirstCookies
  <2>3. /\ Closed(old) \in Seq(Session) /\ Len(Closed(old)) = Len(made)
        /\ DOMAIN Closed(old) = DOMAIN made
        /\ \A k \in DOMAIN made :
             /\ Closed(old)[k].open <=> made[k].open /\ k \notin old
             /\ Closed(old)[k].cookies = made[k].cookies
    BY ClosedSessions DEF PoolType
  <2> HIDE DEF new, old
  <2>4. /\ made' \in Seq(Session) /\ DOMAIN made' = DOMAIN made \cup {last} /\ made'[last] = new
        /\ \A k \in DOMAIN made :
             /\ made'[k].open <=> made[k].open /\ k \notin old
             /\ made'[k].cookies = made[k].cookies
    <3>1. /\ made' \in Seq(Session) /\ Len(made') = last /\ made'[last] = new
          /\ \A k \in 1..Len(made) : made'[k] = Closed(old)[k]
      BY <2>1, <2>2, <2>3, AppendProperties
    <3>2. DOMAIN made' = 1..last
      BY <3>1, LenProperties
    <3>3. 1..last = DOMAIN made \cup {last}
      BY <1>0
    <3> QED BY <3>1, <3>2, <3>3, <1>0, <2>3
  <2>5. /\ cached' \in [Sites -> Nat] /\ cached'[site] = last
        /\ Pooled' \subseteq Pooled \cup {last} /\ Pooled \subseteq Pooled' \cup old /\ last \in Pooled'
    <3>1. cached' \in [Sites -> Nat] /\ last # 0 /\ cached'[site] = last
      BY <1>0, <2>1 DEF PoolType
    <3>2. \A s \in Sites : s # site => cached'[s] = cached[s]
      BY <2>1 DEF PoolType
    <3> QED BY <3>1, <3>2 DEF Pooled, old
  <2>6. dismissed' = dismissed \cup {k \in old : made[k].open}
    BY <2>1 DEF GivenUp
  <2>7. last \notin DOMAIN made /\ DOMAIN made \subseteq Nat
    BY <1>0
  <2>8. Pooled' \subseteq DOMAIN made' /\ dismissed' \subseteq Nat
    BY <1>0, <2>4, <2>5, <2>6, <2>7 DEF PoolType
  <2>9. JarInv'
    BY DEF JarInv
  <2>10. CookieInv'
    <3>1. \A c \in CookieNames :
            /\ new.cookies[c] = 0 \/ new.cookies[c] > clearedAt
            /\ new.cookies[c] >= jar[c]
      BY DEF PoolType, JarInv, FirstCookies, new
    <3> QED BY <3>1, <1>0, <2>4, <2>5 DEF CookieInv
  <2>11. SessionInv'
    <3>1. new.open
      BY DEF new
    <3>2. \A k \in dismissed' : k \in DOMAIN made' /\ ~made'[k].open
      BY <1>0, <2>4, <2>6 DEF SessionInv, old
    <3>3. NothingLeaks'
      BY <2>4, <2>5 DEF SessionInv, NothingLeaks
    <3> QED BY <3>2, <3>3 DEF SessionInv
  <2>12. GivenUpOrOpen
    BY <2>4, <2>6 DEF GivenUpOrOpen
  <2>13. cached'[site] \in DOMAIN made' /\ made'[cached'[site]].open
    BY <2>4, <2>5 DEF new
  <2> QED BY <2>4, <2>5, <2>8, <2>9, <2>10, <2>11, <2>12, <2>13
<1> QED BY <1>1, <1>2, <1>3

LEMMA CreateSessionStep ==
    ASSUME NEW site \in Sites, NEW overwrite \in BOOLEAN, NEW raises \in BOOLEAN
    PROVE  PoolInv /\ CreateSession(site, overwrite, raises) => PoolInv'
<1> SUFFICES ASSUME PoolInv, CreateSession(site, overwrite, raises) PROVE PoolInv'
  OBVIOUS
<1>1. /\ made' \in Seq(Session) /\ cached' \in [Sites -> Nat] /\ Pooled' \subseteq DOMAIN made'
      /\ dismissed' \subseteq Nat /\ JarInv' /\ CookieInv' /\ SessionInv' /\ GivenUpOrOpen
  BY CreateKeeps DEF CreateSession
<1>2. ChatInv'
  BY <1>1, ChatsKept DEF PoolInv, CreateSession
<1> QED BY <1>1, <1>2 DEF PoolInv, PoolType, CreateSession

LEMMA GetChatStep ==
    ASSUME NEW site \in Sites, NEW raises \in BOOLEAN, NEW fails \in BOOLEAN
    PROVE  PoolInv /\ GetChat(site, raises, fails) => PoolInv'
<1> SUFFICES ASSUME PoolInv, GetChat(site, raises, fails) PROVE PoolInv'
  OBVIOUS
<1>1. /\ made' \in Seq(Session) /\ cached' \in [Sites -> Nat] /\ Pooled' \subseteq DOMAIN made'
      /\ dismissed' \subseteq Nat /\ JarInv' /\ CookieInv' /\ SessionInv' /\ GivenUpOrOpen
      /\ ~raises => cached'[site] \in DOMAIN made' /\ made'[cached'[site]].open
  BY CreateKeeps DEF GetChat
<1> DEFINE Chat == [session : Nat, since : SUBSET Nat]
<1>2. chats' \in Seq(Chat) /\ ChatInv'
  <2>1. CASE raises \/ fails
    <3>1. chats' = chats
      BY <2>1 DEF GetChat
    <3> QED BY <1>1, <3>1, ChatsKept DEF PoolInv, PoolType
  <2>2. CASE ~(raises \/ fails)
    <3> DEFINE chat == [session |-> cached'[site], since |-> dismissed']
    <3>1. chats' = Append(chats, chat)
      BY <2>2 DEF GetChat
    <3>2. chat \in Chat
      BY <1>1
    <3>3. chats \in Seq(Chat)
      BY DEF PoolInv, PoolType
    <3> HIDE DEF Chat, chat
    <3>4. /\ chats' \in Seq(Chat) /\ DOMAIN chats = 1..Len(chats) /\ DOMAIN chats' = 1..(Len(chats) + 1)
          /\ Len(chats) \in Nat
          /\ chats'[Len(chats) + 1] = chat /\ \A n \in 1..Len(chats) : chats'[n] = chats[n]
      BY <3>1, <3>2, <3>3, AppendProperties, LenProperties
    <3>5. /\ chat.session \in DOMAIN made' /\ chat.since \subseteq dismissed' /\ made'[chat.session].open
      BY <1>1, <2>2 DEF chat
    <3>6. ASSUME NEW n \in DOMAIN chats
          PROVE  /\ chats[n].session \in DOMAIN made' /\ chats[n].since \subseteq dismissed'
                 /\ \/ made'[chats[n].session].open
                    \/ chats[n].session \in dismissed' \ chats[n].since
      <4>1. /\ chats[n].session \in DOMAIN made /\ chats[n].since \subseteq dismissed
            /\ made[chats[n].session].open \/ chats[n].session \in dismissed \ chats[n].since
        BY DEF PoolInv, ChatInv
      <4>2. made[chats[n].session].open => chats[n].session \notin chats[n].since
        BY <4>1 DEF PoolInv, SessionInv
      <4> QED BY <1>1, <4>1, <4>2 DEF GivenUpOrOpen
    <3>7. \A n \in DOMAIN chats' : n \in DOMAIN chats \/ n = Len(chats) + 1
      BY <3>4
    <3>8. ChatInv'
      BY <3>4, <3>5, <3>6, <3>7 DEF ChatInv
    <3> QED BY <3>4, <3>8
  <2> QED BY <2>1, <2>2
<1> QED BY <1>1, <1>2 DEF PoolInv, PoolType, GetChat

LEMMA CloseSessionStep ==
    ASSUME NEW k \in DOMAIN made PROVE PoolInv /\ CloseSession(k) => PoolInv'
<1> SUFFICES ASSUME PoolInv, CloseSession(k) PROVE PoolInv'
  OBVIOUS
<1>1. Pooled' = Pooled /\ cached' \in [Sites -> Nat]
  BY DEF CloseSession, Pooled, PoolInv, PoolType
<1>2. /\ made' \in Seq(Session) /\ Pooled' \subseteq DOMAIN made' /\ dismissed' \subseteq Nat
      /\ JarInv' /\ CookieInv' /\ SessionInv' /\ GivenUpOrOpen
  BY <1>1, CloseSome DEF CloseSession
<1>3. ChatInv'
  BY <1>2, ChatsKept DEF PoolInv, CloseSession
<1> QED BY <1>1, <1>2, <1>3 DEF PoolInv, PoolType, CloseSession

LEMMA ClosePoolStep == PoolInv /\ ClosePool => PoolInv'
<1> SUFFICES ASSUME PoolInv, ClosePool PROVE PoolInv'
  OBVIOUS
<1>1. Pooled' = {} /\ cached' \in [Sites -> Nat] /\ Pooled \subseteq DOMAIN made
  BY DEF ClosePool, Pooled, PoolInv, PoolType
<1>2. /\ made' \in Seq(Session) /\ Pooled' \subseteq DOMAIN made' /\ dismissed' \subseteq Nat
      /\ JarInv' /\ CookieInv' /\ SessionInv' /\ GivenUpOrOpen
  BY <1>1, CloseSome DEF ClosePool
<1>3. ChatInv'
  BY <1>2, ChatsKept DEF PoolInv, ClosePool
<1> QED BY <1>1, <1>2, <1>3 DEF PoolInv, PoolType, ClosePool

LEMMA PoolStep == PoolInv /\ [PoolNext]_poolVars => PoolInv'
<1> SUFFICES ASSUME PoolInv, [PoolNext]_poolVars PROVE PoolInv'
  OBVIOUS
<1>1. CASE ClearCookies
  BY <1>1, ClearCookiesStep
<1>2. ASSUME NEW c \in CookieNames, SetCookie(c) PROVE PoolInv'
  BY <1>2, SetCookieStep
<1>3. ASSUME NEW k \in DOMAIN made, NEW c \in CookieNames, Request(k, c) PROVE PoolInv'
  BY <1>3, RequestStep
<1>4. ASSUME NEW s \in Sites, NEW overwrite \in BOOLEAN, NEW raises \in BOOLEAN,
             CreateSession(s, overwrite, raises)
      PROVE  PoolInv'
  BY <1>4, CreateSessionStep
<1>5. ASSUME NEW s \in Sites, NEW raises \in BOOLEAN, NEW fails \in BOOLEAN, GetChat(s, raises, fails)
      PROVE  PoolInv'
  BY <1>5, GetChatStep
<1>6. ASSUME NEW k \in DOMAIN made, CloseSession(k) PROVE PoolInv'
  BY <1>6, CloseSessionStep
<1>7. CASE ClosePool
  BY <1>7, ClosePoolStep
<1>8. CASE UNCHANGED poolVars
  BY <1>8 DEF poolVars, PoolInv, PoolType, JarInv, CookieInv, SessionInv, NothingLeaks, ChatInv, Pooled
<1> QED BY <1>1, <1>2, <1>3, <1>4, <1>5, <1>6, <1>7, <1>8 DEF PoolNext

-----------------------------------------------------------------------------
(* The property.                                                           *)

\* What get_cookie() answers is the pool's or one of its sessions'.
LEMMA PoolInvSound == PoolInv => PoolSound
<1> SUFFICES ASSUME PoolInv PROVE PoolSound
  OBVIOUS
<1>1. \A c \in CookieNames : \A v \in CookieValues(c) : v > clearedAt
  BY DEF PoolInv, PoolType, JarInv, CookieInv, CookieValues
<1>2. ClearedStayCleared
  BY <1>1 DEF PoolInv, PoolType, JarInv, CookieInv, ClearedStayCleared
<1>3. SetReachesAll
  BY DEF PoolInv, CookieInv, SetReachesAll
<1>4. NothingLeaks /\ ClosedOnDemand
  BY DEF PoolInv, SessionInv, ChatInv, ClosedOnDemand
<1> QED BY <1>2, <1>3, <1>4 DEF PoolSound

\* Through any calls in any order, however many sites, cookies, sessions and chats:
\* cookies that were cleared are gone for good, those that were set reach every session,
\* every open session is the pool's, and no chat loses its session unless the owner
\* wants it (session_lifecycle.py:27-148).
THEOREM PoolIsSound == PoolSpec => []PoolSound
<1>1. PoolInit => PoolInv
  BY PoolInitial
<1>2. PoolInv /\ [PoolNext]_poolVars => PoolInv'
  BY PoolStep
<1>3. PoolInv => PoolSound
  BY PoolInvSound
<1> QED BY <1>1, <1>2, <1>3, PTL DEF PoolSpec

-----------------------------------------------------------------------------
(* DeletedMessageCache: the sizes of its entries.                          *)

\* The sizes added up one after the other.
LEMMA AddedUp ==
    ASSUME NEW s \in Seq(Messages)
    PROVE  \E F : /\ F[0] = 0
                  /\ \A k \in 1..Len(s) : F[k] = F[k - 1] + s[k].size
                  /\ Sum(s) = F[Len(s)]
<1> DEFINE n == Len(s)
           Step == [p \in Nat \X Messages |-> p[1] + p[2].size]
           G == CHOOSE f : f = [t \in SUBSET (1..n) |-> IF t = {} THEN 0 ELSE f[t \ {Max(t)}] + s[Max(t)].size]
           F == [k \in 0..n |-> G[1..k]]
<1>1. n \in Nat /\ DOMAIN s = 1..n /\ 1..n = 1..n
  OBVIOUS
<1>2. Sum(s) = G[1..n]
  BY <1>1 DEF Sum, FoldLeft, MapThenFoldSet
<1>3. PICK f : Iterates(f, Nat, 0, s, Step)
  <2>1. Step \in [Nat \X Messages -> Nat] /\ 0 \in Nat
    BY CacheAssumption
  <2> HIDE DEF Step, G, F
  <2> QED BY <2>1, IterationExists
<1>4. f = [t \in SUBSET (1..n) |-> IF t = {} THEN 0 ELSE f[t \ {Max(t)}] + s[Max(t)].size]
  <2>1. ASSUME NEW t \in SUBSET (1..n), t # {}
        PROVE  Step[<<f[t \ {Max(t)}], s[Max(t)]>>] = f[t \ {Max(t)}] + s[Max(t)].size
    <3>1. Max(t) \in 1..n /\ t \ {Max(t)} \in SUBSET (1..n)
      <4> HIDE DEF n, G, F
      <4> QED BY <1>1, <2>1, MaxAmong
    <3>2. s[Max(t)] \in Messages /\ f[t \ {Max(t)}] \in Nat
      BY <1>3, <3>1 DEF Iterates
    <3> QED BY <3>2
  <2> HIDE DEF Step
  <2> QED BY <1>3, <2>1 DEF Iterates
<1>5. G = [t \in SUBSET (1..n) |-> IF t = {} THEN 0 ELSE G[t \ {Max(t)}] + s[Max(t)].size]
  BY <1>4
<1> HIDE DEF G
<1>6. F[0] = 0
  BY <1>1, <1>5
<1>7. ASSUME NEW k \in 1..n PROVE F[k] = F[k - 1] + s[k].size
  <2>1. 1..k \in SUBSET (1..n) /\ 1..k # {} /\ (1..k) \ {k} = 1..(k - 1) /\ Max(1..k) = k
    BY <1>1, Peeled
  <2>2. k \in 0..n /\ k - 1 \in 0..n
    BY <1>1
  <2> QED BY <1>5, <2>1, <2>2
<1>8. n \in 0..n
  BY <1>1
<1> QED BY <1>2, <1>6, <1>7, <1>8

\* The sums up to each entry: what they say of either part of a sequence cut in two.
LEMMA PartialSums ==
    ASSUME NEW s \in Seq(Messages)
    PROVE  \E F \in [0..Len(s) -> Nat] :
             /\ Sum(s) = F[Len(s)] /\ F[0] = 0
             /\ \A k \in 0..Len(s) : /\ Sum(SubSeq(s, 1, k)) = F[k]
                                     /\ Sum(SubSeq(s, k + 1, Len(s))) = F[Len(s)] - F[k]
<1> DEFINE n == Len(s)
<1>1. n \in Nat /\ \A k \in 1..n : s[k] \in Messages /\ s[k].size \in Nat
  BY CacheAssumption
<1>2. PICK G : /\ G[0] = 0
               /\ \A k \in 1..n : G[k] = G[k - 1] + s[k].size
               /\ Sum(s) = G[n]
  BY AddedUp
<1>3. \A k \in 0..n : G[k] \in Nat
  <2> DEFINE T == {k \in 0..n : G[k] \in Nat}
  <2>1. 0 \in T
    BY <1>1, <1>2
  <2>2. ASSUME NEW k \in 0..(n - 1), k \in T PROVE k + 1 \in T
    <3>1. k + 1 \in 1..n /\ (k + 1) - 1 = k
      BY <1>1
    <3> QED BY <1>1, <1>2, <2>2, <3>1
  <2> HIDE DEF T
  <2>3. \A k \in 0..n : k \in T
    BY <1>1, <2>1, <2>2, NatInductTo
  <2> QED BY <2>3 DEF T
<1> DEFINE F == [k \in 0..n |-> G[k]]
<1>4. F \in [0..n -> Nat] /\ F[0] = 0 /\ Sum(s) = F[n] /\ \A k \in 1..n : F[k] = F[k - 1] + s[k].size
  BY <1>1, <1>2, <1>3
<1> HIDE DEF F
<1>5. ASSUME NEW k \in 0..n PROVE Sum(SubSeq(s, k + 1, n)) = F[n] - F[k]
  <2> DEFINE r == SubSeq(s, k + 1, n)
  <2>1. r \in Seq(Messages) /\ Len(r) = n - k /\ \A j \in 1..(n - k) : r[j] = s[k + j]
    BY <1>1
  <2> HIDE DEF r
  <2>2. PICK H : H[0] = 0 /\ (\A j \in 1..Len(r) : H[j] = H[j - 1] + r[j].size) /\ Sum(r) = H[Len(r)]
    BY <2>1, AddedUp
  <2> DEFINE T == {j \in 0..(n - k) : H[j] = F[k + j] - F[k]}
  <2>3. 0 \in T
    BY <1>1, <1>4, <2>2
  <2>4. ASSUME NEW j \in 0..((n - k) - 1), j \in T PROVE j + 1 \in T
    <3>1. j + 1 \in 1..(n - k) /\ (j + 1) - 1 = j /\ k + (j + 1) \in 1..n /\ (k + (j + 1)) - 1 = k + j
          /\ k + j \in 0..n
      <4>1. n \in Nat /\ k \in Nat /\ k <= n
        BY <1>1
      <4> HIDE DEF n
      <4>2. j \in Nat /\ j + 1 <= n - k
        BY <4>1
      <4>3. j + 1 \in 1..(n - k) /\ (j + 1) - 1 = j
        BY <4>1, <4>2
      <4>4. k + (j + 1) \in 1..n /\ (k + (j + 1)) - 1 = k + j
        BY <4>1, <4>2
      <4>5. k + j \in 0..n
        BY <4>1, <4>2
      <4> QED BY <4>3, <4>4, <4>5
    <3>2. H[j + 1] = H[j] + s[k + (j + 1)].size
      BY <2>1, <2>2, <3>1
    <3>3. F[k + (j + 1)] = F[k + j] + s[k + (j + 1)].size
      BY <1>4, <3>1
    <3>4. H[j] = F[k + j] - F[k] /\ F[k] \in Nat /\ F[k + j] \in Nat /\ s[k + (j + 1)].size \in Nat
      BY <1>1, <1>4, <2>4, <3>1
    <3>5. H[j + 1] = F[k + (j + 1)] - F[k]
      BY <3>2, <3>3, <3>4
    <3>6. j + 1 \in 0..(n - k)
      BY <1>1, <3>1
    <3> QED BY <3>5, <3>6
  <2> HIDE DEF T
  <2>5. n - k \in Nat /\ n - k \in 0..(n - k)
    BY <1>1
  <2>6. n - k \in T
    BY <2>3, <2>4, <2>5, NatInductTo
  <2> QED BY <1>1, <2>1, <2>2, <2>6 DEF T, r
<1>6. ASSUME NEW k \in 0..n PROVE Sum(SubSeq(s, 1, k)) = F[k]
  <2> DEFINE r == SubSeq(s, 1, k)
  <2>1. r \in Seq(Messages) /\ Len(r) = k /\ \A j \in 1..k : r[j] = s[j]
    BY <1>1
  <2> HIDE DEF r
  <2>2. PICK H : H[0] = 0 /\ (\A j \in 1..Len(r) : H[j] = H[j - 1] + r[j].size) /\ Sum(r) = H[Len(r)]
    BY <2>1, AddedUp
  <2> DEFINE T == {j \in 0..k : H[j] = F[j]}
  <2>3. 0 \in T
    BY <1>1, <1>4, <2>2
  <2>4. ASSUME NEW j \in 0..(k - 1), j \in T PROVE j + 1 \in T
    <3>1. j + 1 \in 1..k /\ j + 1 \in 1..n /\ (j + 1) - 1 = j
      BY <1>1
    <3>2. H[j + 1] = H[j] + s[j + 1].size
      BY <2>1, <2>2, <3>1
    <3>3. F[j + 1] = F[j] + s[j + 1].size
      BY <1>4, <3>1
    <3>4. H[j + 1] = F[j + 1]
      BY <2>4, <3>2, <3>3
    <3> QED BY <3>1, <3>4
  <2> HIDE DEF T
  <2>5. k \in Nat /\ k \in 0..k
    BY <1>1
  <2>6. k \in T
    BY <2>3, <2>4, <2>5, NatInductTo
  <2> QED BY <1>1, <2>1, <2>2, <2>6 DEF T, r
<1> QED BY <1>4, <1>5, <1>6

LEMMA SumOfAppended ==
    ASSUME NEW s \in Seq(Messages), NEW message \in Messages
    PROVE  Sum(Append(s, message)) = Sum(s) + message.size
<1> DEFINE t == Append(s, message)
<1>1. t \in Seq(Messages) /\ Len(t) = Len(s) + 1 /\ Len(s) \in Nat /\ t[Len(t)] = message
  OBVIOUS
<1>2. SubSeq(t, 1, Len(s)) = s
  OBVIOUS
<1> HIDE DEF t
<1>3. PICK F \in [0..Len(t) -> Nat] :
        /\ Sum(t) = F[Len(t)] /\ F[0] = 0
        /\ \A k \in 0..Len(t) : /\ Sum(SubSeq(t, 1, k)) = F[k]
                                /\ Sum(SubSeq(t, k + 1, Len(t))) = F[Len(t)] - F[k]
  BY <1>1, PartialSums
<1>4. PICK G : G[0] = 0 /\ (\A k \in 1..Len(t) : G[k] = G[k - 1] + t[k].size) /\ Sum(t) = G[Len(t)]
  BY <1>1, AddedUp
<1>5. PICK H : H[0] = 0 /\ (\A k \in 1..Len(s) : H[k] = H[k - 1] + s[k].size) /\ Sum(s) = H[Len(s)]
  BY AddedUp
<1> DEFINE T == {k \in 0..Len(s) : G[k] = H[k]}
<1>6. 0 \in T
  BY <1>1, <1>4, <1>5
<1>7. ASSUME NEW k \in 0..(Len(s) - 1), k \in T PROVE k + 1 \in T
  <2>1. k + 1 \in 1..Len(s) /\ k + 1 \in 1..Len(t) /\ (k + 1) - 1 = k /\ t[k + 1] = s[k + 1]
    BY <1>1, <1>7 DEF t
  <2>2. G[k + 1] = G[k] + t[k + 1].size
    BY <1>4, <2>1
  <2>3. H[k + 1] = H[k] + s[k + 1].size
    BY <1>5, <2>1
  <2>4. G[k + 1] = H[k + 1]
    BY <1>7, <2>1, <2>2, <2>3
  <2> QED BY <1>1, <2>1, <2>4
<1>8. Len(s) \in T
  <2> HIDE DEF T
  <2>1. \A k \in 0..Len(s) : k \in T
    BY <1>1, <1>6, <1>7, NatInductTo
  <2> QED BY <1>1, <2>1
<1> QED BY <1>1, <1>4, <1>5, <1>8 DEF t

-----------------------------------------------------------------------------
(* The cache.                                                              *)

CacheInv ==
    /\ entries \in Seq(Messages) /\ said \in Seq(Messages)
    /\ CacheInStep

\* As many entries go as must, the oldest first, and what goes is taken off the books.
LEMMA Evicts ==
    ASSUME CacheInv, NEW size \in Nat, size <= CacheBytes
    PROVE  LET k == Evicted(size) IN
           /\ k \in 0..Len(entries)
           /\ Sum(SubSeq(entries, k + 1, Len(entries))) = BytesAfter(k)
           /\ BytesAfter(k) \in Nat /\ BytesAfter(k) + size <= CacheBytes
           /\ Len(entries) - k < CacheLimit
<1> DEFINE n == Len(entries)
           S == {k \in 0..n : Fits(k, size)}
<1>1. n \in Nat /\ entries \in Seq(Messages) /\ bytes = Sum(entries)
  BY DEF CacheInv, CacheInStep
<1>2. \E k \in 0..n : Fits(k, size) /\ \A j \in 0..(k - 1) : ~Fits(j, size)
  <2>1. S \in SUBSET Nat /\ n \in S
    BY <1>1 DEF Fits
  <2>2. PICK k \in S : \A j \in S : k <= j
    <3> HIDE DEF S
    <3> QED BY <2>1, LeastMember
  <2>3. \A j \in 0..(k - 1) : ~Fits(j, size)
    BY <1>1, <2>2
  <2> QED BY <2>2, <2>3
<1> DEFINE k == Evicted(size)
<1>3. k \in 0..n /\ Fits(k, size)
  BY <1>2 DEF Evicted
<1> HIDE DEF k
<1>4. PICK F \in [0..n -> Nat] :
        /\ Sum(entries) = F[n] /\ F[0] = 0
        /\ \A j \in 0..n : /\ Sum(SubSeq(entries, 1, j)) = F[j]
                           /\ Sum(SubSeq(entries, j + 1, n)) = F[n] - F[j]
  BY <1>1, PartialSums
<1>5. BytesAfter(k) = F[n] - F[k] /\ Sum(SubSeq(entries, k + 1, n)) = BytesAfter(k)
  BY <1>1, <1>3, <1>4 DEF BytesAfter
<1>6. BytesAfter(k) \in Nat
  <2>1. SubSeq(entries, k + 1, n) \in Seq(Messages)
    BY <1>1, <1>3
  <2> DEFINE r == SubSeq(entries, k + 1, n)
  <2>2. Sum(r) \in Nat
    <3> HIDE DEF r
    <3>1. r \in Seq(Messages)
      BY <2>1 DEF r
    <3>2. Len(r) \in Nat /\ Len(r) \in 0..Len(r)
      BY <3>1
    <3> QED BY <3>1, <3>2, PartialSums
  <2> QED BY <1>5, <2>2
<1>7. BytesAfter(k) + size <= CacheBytes /\ n - k < CacheLimit
  <2>1. CASE k = n
    <3>1. BytesAfter(k) = 0
      BY <1>1, <1>4, <1>5, <2>1
    <3> QED BY <1>1, <2>1, <3>1, CacheAssumption
  <2>2. CASE k # n
    BY <1>3, <2>2 DEF Fits
  <2> QED BY <2>1, <2>2
<1> QED BY <1>3, <1>5, <1>6, <1>7 DEF k

\* The books of the cache agree with what it holds, both budgets are kept, and what came
\* last is there if it can be there at all, whatever messages of whatever sizes come
\* (deleted_message_cache.py:51-69).
THEOREM CacheStaysInStep == CacheSpec => []CacheInStep
<1>1. CacheInit => CacheInv
  <2> SUFFICES ASSUME CacheInit PROVE CacheInv
    OBVIOUS
  <2>1. entries = <<>> /\ bytes = 0 /\ said = <<>> /\ <<>> \in Seq(Messages)
    BY DEF CacheInit
  <2>2. Sum(<<>>) = 0
    <3>1. <<>> \in Seq(Messages) /\ Len(<<>>) = 0
      OBVIOUS
    <3>2. PICK F : F[0] = 0 /\ Sum(<<>>) = F[Len(<<>>)]
      BY <3>1, AddedUp
    <3> QED BY <3>1, <3>2
  <2> QED BY <2>1, <2>2, CacheAssumption DEF CacheInv, CacheInStep
<1>2. CacheInv /\ [CacheNext]_cacheVars => CacheInv'
  <2> SUFFICES ASSUME CacheInv, [CacheNext]_cacheVars PROVE CacheInv'
    OBVIOUS
  <2>1. CASE UNCHANGED cacheVars
    BY <2>1 DEF cacheVars, CacheInv, CacheInStep, Retains
  <2>2. ASSUME NEW message \in Messages, Remember(message) PROVE CacheInv'
    <3>1. said' = Append(said, message) /\ said' \in Seq(Messages) /\ said' # <<>> /\ Last(said') = message
      <4>1. said \in Seq(Messages) /\ said' = Append(said, message)
        BY <2>2 DEF Remember, CacheInv
      <4> QED BY <4>1 DEF Last
    <3>2. entries \in Seq(Messages) /\ message.size \in Nat /\ CacheInStep
      BY CacheAssumption DEF CacheInv
    <3>3. CASE Retains(message.id) \/ message.size > CacheBytes \/ CacheLimit <= 0
      <4>1. UNCHANGED <<entries, bytes>>
        BY <2>2, <3>3 DEF Remember
      <4>2. message.size <= CacheBytes => Retains(message.id)'
        BY <3>2, <3>3, <4>1, CacheAssumption DEF Retains
      <4> QED BY <3>1, <3>2, <4>1, <4>2 DEF CacheInv, CacheInStep, Retains
    <3>4. CASE ~Retains(message.id) /\ message.size <= CacheBytes /\ CacheLimit > 0
      <4> DEFINE k == Evicted(message.size)
                 rest == SubSeq(entries, k + 1, Len(entries))
      <4>1. entries' = Append(rest, message) /\ bytes' = BytesAfter(k) + message.size
        <5>1. ~(Retains(message.id) \/ message.size > CacheBytes \/ CacheLimit <= 0)
          BY <3>2, <3>4, CacheAssumption
        <5> QED BY <2>2, <5>1 DEF Remember
      <4>2. /\ k \in 0..Len(entries) /\ Sum(rest) = BytesAfter(k)
            /\ BytesAfter(k) \in Nat /\ BytesAfter(k) + message.size <= CacheBytes
            /\ Len(entries) - k < CacheLimit
        <5>1. message.size \in Nat /\ message.size <= CacheBytes
          BY <3>2, <3>4
        <5> QED BY <3>2, <5>1, Evicts, Zenon
      <4> HIDE DEF k
      <4>3. /\ rest \in Seq(Messages) /\ Len(rest) = Len(entries) - k /\ Len(entries) \in Nat
            /\ \A j \in 1..Len(rest) : rest[j] = entries[k + j]
        <5>1. entries \in Seq(Messages) /\ k + 1 \in 1..(Len(entries) + 1) /\ Len(entries) \in Nat /\ k \in Nat
          BY <3>2, <4>2
        <5>2. \A i \in (k + 1)..Len(entries) : entries[i] \in Messages
          BY <5>1
        <5>3. /\ rest \in Seq(Messages)
              /\ Len(rest) = (IF k + 1 <= Len(entries) THEN Len(entries) - (k + 1) + 1 ELSE 0)
              /\ \A j \in 1..(Len(entries) - (k + 1) + 1) : rest[j] = entries[(k + 1) + j - 1]
          BY <5>1, <5>2, SubSeqProperties
        <5> HIDE DEF rest
        <5> QED BY <5>1, <5>3
      <4> HIDE DEF rest
      <4>4. /\ entries' \in Seq(Messages) /\ Len(entries') = Len(rest) + 1
            /\ \A j \in 1..Len(rest) : entries'[j] = rest[j]
            /\ entries'[Len(rest) + 1] = message
        BY <4>1, <4>3
      <4>5. Sum(entries') = bytes'
        BY <4>1, <4>2, <4>3, SumOfAppended
      <4>6. bytes' <= CacheBytes /\ Len(entries') <= CacheLimit
        BY <4>1, <4>2, <4>3, <4>4, CacheAssumption
      <4>7. \A j \in 1..Len(rest) : k + j \in DOMAIN entries /\ rest[j].id # message.id
        BY <3>2, <3>4, <4>2, <4>3 DEF Retains
      <4>8. \A i, j \in DOMAIN entries' : entries'[i].id = entries'[j].id => i = j
        <5> SUFFICES ASSUME NEW i \in 1..(Len(rest) + 1), NEW j \in 1..(Len(rest) + 1),
                            entries'[i].id = entries'[j].id
                     PROVE  i = j
          BY <4>4
        <5>1. CASE i \in 1..Len(rest) /\ j \in 1..Len(rest)
          <6>1. entries[k + i].id = entries[k + j].id /\ k + i \in DOMAIN entries /\ k + j \in DOMAIN entries
            BY <4>3, <4>4, <4>7, <5>1
          <6>2. k + i = k + j
            BY <3>2, <6>1 DEF CacheInStep
          <6> QED BY <4>2, <6>2
        <5>2. CASE i = Len(rest) + 1 \/ j = Len(rest) + 1
          <6>1. Len(rest) \in Nat
            BY <4>3
          <6> QED BY <4>4, <4>7, <5>2, <6>1
        <5>3. Len(rest) \in Nat
          BY <4>3
        <5> QED BY <5>1, <5>2, <5>3
      <4>9. Retains(message.id)'
        <5>1. Len(rest) + 1 \in DOMAIN entries'
          BY <4>3, <4>4
        <5> QED BY <4>4, <5>1 DEF Retains
      <4>10. Retains(Last(said).id)'
        BY <3>1, <4>9 DEF Retains
      <4> QED BY <3>1, <4>4, <4>5, <4>6, <4>8, <4>10 DEF CacheInv, CacheInStep
    <3>5. CacheLimit > 0 \/ CacheLimit <= 0
      BY CacheAssumption
    <3>6. message.size > CacheBytes \/ message.size <= CacheBytes
      BY <3>2, CacheAssumption
    <3> QED BY <3>3, <3>4, <3>5, <3>6
  <2> QED BY <2>1, <2>2 DEF CacheNext
<1>3. CacheInv => CacheInStep
  BY DEF CacheInv
<1> QED BY <1>1, <1>2, <1>3, PTL DEF CacheSpec

-----------------------------------------------------------------------------
(* OutputFiles: files and their records.                                   *)

FileLine == [of : Int, ended : BOOLEAN]

\* The records of a file, read line by line.
LEMMA RecordsRead ==
    ASSUME NEW s \in Seq(FileLine)
    PROVE  \E F : /\ F[0] = <<>>
                  /\ \A k \in 1..Len(s) : F[k] = (IF s[k].of = Broken THEN F[k - 1] ELSE Append(F[k - 1], s[k].of))
                  /\ Records(s) = F[Len(s)]
                  /\ \A k \in 0..Len(s) : F[k] \in Seq(Int)
<1> DEFINE n == Len(s)
           Step == [p \in Seq(Int) \X FileLine |-> (IF p[2].of = Broken THEN p[1] ELSE Append(p[1], p[2].of))]
           G == CHOOSE f : f = [t \in SUBSET (1..n) |->
                                  IF t = {} THEN <<>> ELSE (IF s[Max(t)].of = Broken THEN f[t \ {Max(t)}] ELSE Append(f[t \ {Max(t)}], s[Max(t)].of))]
           F == [k \in 0..n |-> G[1..k]]
<1>1. n \in Nat /\ DOMAIN s = 1..n /\ n \in 0..n
  OBVIOUS
<1>2. Records(s) = G[1..n]
  BY <1>1 DEF Records, FoldLeft, MapThenFoldSet
<1>3. Step \in [Seq(Int) \X FileLine -> Seq(Int)] /\ <<>> \in Seq(Int)
  BY DEF FileLine
<1>4. PICK f : Iterates(f, Seq(Int), <<>>, s, Step)
  <2> HIDE DEF Step, G, F
  <2> QED BY <1>3, IterationExists
<1>5. f = [t \in SUBSET (1..n) |-> IF t = {} THEN <<>> ELSE (IF s[Max(t)].of = Broken THEN f[t \ {Max(t)}] ELSE Append(f[t \ {Max(t)}], s[Max(t)].of))]
  <2>1. ASSUME NEW t \in SUBSET (1..n), t # {}
        PROVE  Step[<<f[t \ {Max(t)}], s[Max(t)]>>] = (IF s[Max(t)].of = Broken THEN f[t \ {Max(t)}] ELSE Append(f[t \ {Max(t)}], s[Max(t)].of))
    <3>1. Max(t) \in 1..n /\ t \ {Max(t)} \in SUBSET (1..n)
      <4> HIDE DEF n, G, F
      <4> QED BY <1>1, <2>1, MaxAmong
    <3>2. s[Max(t)] \in FileLine /\ f[t \ {Max(t)}] \in Seq(Int)
      BY <1>4, <3>1 DEF Iterates
    <3> QED BY <3>2
  <2> HIDE DEF Step
  <2> QED BY <1>4, <2>1 DEF Iterates
<1>6. G = [t \in SUBSET (1..n) |-> IF t = {} THEN <<>> ELSE (IF s[Max(t)].of = Broken THEN G[t \ {Max(t)}] ELSE Append(G[t \ {Max(t)}], s[Max(t)].of))]
  BY <1>5
<1> HIDE DEF G
<1>7. F[0] = <<>>
  BY <1>1, <1>6
<1>8. ASSUME NEW k \in 1..n PROVE F[k] = (IF s[k].of = Broken THEN F[k - 1] ELSE Append(F[k - 1], s[k].of))
  <2>1. 1..k \in SUBSET (1..n) /\ 1..k # {} /\ (1..k) \ {k} = 1..(k - 1) /\ Max(1..k) = k
    BY <1>1, Peeled
  <2>2. k \in 0..n /\ k - 1 \in 0..n
    BY <1>1
  <2> QED BY <1>6, <2>1, <2>2
<1> HIDE DEF F
<1>9. \A k \in 0..n : F[k] \in Seq(Int)
  <2> DEFINE T == {k \in 0..n : F[k] \in Seq(Int)}
  <2>1. 0 \in T
    <3>1. 0 \in 0..n /\ <<>> \in Seq(Int)
      BY <1>1, <1>3
    <3> HIDE DEF Step, n
    <3> QED BY <1>7, <3>1
  <2>2. ASSUME NEW k \in 0..(n - 1), k \in T PROVE k + 1 \in T
    <3>1. k + 1 \in 1..n /\ (k + 1) - 1 = k
      BY <1>1
    <3>2. F[k + 1] = (IF s[k + 1].of = Broken THEN F[k] ELSE Append(F[k], s[k + 1].of)) /\ F[k] \in Seq(Int) /\ s[k + 1] \in FileLine
      BY <1>8, <2>2, <3>1
    <3>3. Step[<<F[k], s[k + 1]>>] = (IF s[k + 1].of = Broken THEN F[k] ELSE Append(F[k], s[k + 1].of))
      BY <3>2
    <3> HIDE DEF Step
    <3>4. F[k + 1] \in Seq(Int)
      BY <1>3, <3>2, <3>3
    <3> QED BY <1>1, <3>1, <3>4
  <2> HIDE DEF T
  <2>3. \A k \in 0..n : k \in T
    BY <1>1, <2>1, <2>2, NatInductTo
  <2> QED BY <2>3 DEF T
<1> QED BY <1>1, <1>2, <1>7, <1>8, <1>9 DEF F

LEMMA RecordsOf ==
    /\ Records(<<>>) = <<>>
    /\ \A s \in Seq(FileLine) :
         /\ Records(s) \in Seq(Int)
         /\ \A line \in FileLine :
              Records(Append(s, line)) = IF line.of = Broken THEN Records(s) ELSE Append(Records(s), line.of)
<1>1. <<>> \in Seq(FileLine) /\ Len(<<>>) = 0
  OBVIOUS
<1>2. Records(<<>>) = <<>>
  <2>1. PICK F : F[0] = <<>> /\ Records(<<>>) = F[Len(<<>>)]
    BY <1>1, RecordsRead
  <2> QED BY <1>1, <2>1
<1>3. ASSUME NEW s \in Seq(FileLine)
      PROVE  /\ Records(s) \in Seq(Int)
             /\ \A line \in FileLine :
                  Records(Append(s, line)) = IF line.of = Broken THEN Records(s) ELSE Append(Records(s), line.of)
  <2>1. PICK F : /\ F[0] = <<>>
                 /\ \A k \in 1..Len(s) : F[k] = (IF s[k].of = Broken THEN F[k - 1] ELSE Append(F[k - 1], s[k].of))
                 /\ Records(s) = F[Len(s)]
                 /\ \A k \in 0..Len(s) : F[k] \in Seq(Int)
    BY RecordsRead
  <2>2. Len(s) \in Nat /\ Len(s) \in 0..Len(s)
    OBVIOUS
  <2>3. ASSUME NEW line \in FileLine
        PROVE  Records(Append(s, line)) = IF line.of = Broken THEN Records(s) ELSE Append(Records(s), line.of)
    <3> DEFINE t == Append(s, line)
    <3>1. /\ t \in Seq(FileLine) /\ Len(t) = Len(s) + 1 /\ t[Len(s) + 1] = line
          /\ \A k \in 1..Len(s) : t[k] = s[k]
      OBVIOUS
    <3> HIDE DEF t
    <3>2. PICK H : /\ H[0] = <<>>
                   /\ \A k \in 1..Len(t) : H[k] = (IF t[k].of = Broken THEN H[k - 1] ELSE Append(H[k - 1], t[k].of))
                   /\ Records(t) = H[Len(t)]
      BY <3>1, RecordsRead
    <3>3. \A k \in 1..Len(s) : F[k - 1] = H[k - 1] => F[k] = H[k]
      <4> SUFFICES ASSUME NEW k \in 1..Len(s), F[k - 1] = H[k - 1] PROVE F[k] = H[k]
        OBVIOUS
      <4>1. k \in 1..Len(t) /\ t[k] = s[k]
        BY <2>2, <3>1
      <4>2. H[k] = (IF s[k].of = Broken THEN F[k - 1] ELSE Append(F[k - 1], s[k].of))
        BY <3>2, <4>1
      <4> QED BY <2>1, <4>2
    <3>4. F[Len(s)] = H[Len(s)]
      <4>1. F[0] = H[0]
        BY <2>1, <3>2
      <4> QED BY <2>2, <3>3, <4>1, InStepTo
    <3>5. H[Len(s) + 1] = (IF line.of = Broken THEN H[Len(s)] ELSE Append(H[Len(s)], line.of))
      <4>1. Len(s) + 1 \in 1..Len(t) /\ (Len(s) + 1) - 1 = Len(s)
        BY <2>2, <3>1
      <4> QED BY <3>1, <3>2, <4>1
    <3> QED BY <2>1, <3>1, <3>2, <3>4, <3>5 DEF t
  <2> QED BY <2>1, <2>2, <2>3
<1> QED BY <1>2, <1>3

-----------------------------------------------------------------------------
(* The invariant of OutputFiles.                                           *)

Rng(names) == {names[k] : k \in DOMAIN names}
PathOf(name) == name.path[task.title]

FilesType ==
    /\ present \subseteq Paths
    /\ DOMAIN disk = Paths /\ DOMAIN kept = Paths
    /\ task \in [pc : {"down", "ready", "open", "write"}, outcome : {"none", "refused", "failed", "killed", "success"},
                 writers : Seq(Names), overwrite : BOOLEAN, verify : BOOLEAN, title : Titles \cup {"none"},
                 from : Nat, runs : Nat]
    /\ opened \subseteq Names /\ due \in Seq(Names) /\ record \in Nat
    /\ task.pc # "down" \/ opened # {} => task.title \in Titles

\* A file of which every record is in its place, none of them after `top'.
FileSound(p, file, records, top) ==
    /\ file \in Seq(FileLine) /\ records \in Seq(Int) /\ Records(file) = records
    /\ \A k \in 1..(Len(records) - 1) : records[k] < records[k + 1]
    /\ \A k \in DOMAIN records : records[k] <= top
    /\ \A k \in 1..(Len(file) - 1) : file[k].ended /\ (p \in RawPaths => file[k].of # Broken)
    /\ p \in RawPaths => \A k \in DOMAIN file : file[k].of = Broken => ~file[k].ended

\* The record in hand has not reached this path yet.
Awaits(p) ==
    \/ task.pc = "open"
    \/ task.pc = "write" /\ \E name \in Rng(due) : PathOf(name) = p

LastAt(p) == IF Awaits(p) THEN record - 1 ELSE record

\* The names that a run writes to are files of their own, and no text goes where a raw
\* file may be.
Apart(names, title) ==
    /\ \A m, n \in Rng(names) : m.path[title] = n.path[title] => m = n
    /\ \A j, k \in DOMAIN names : names[j] = names[k] => j = k
TextOnRaw(names, title) == \E n \in Rng(names) : n.format # "jsonl" /\ n.path[title] \in RawPaths

WritersInv ==
    /\ task.pc = "ready" /\ opened = {} =>
          /\ TextOnRaw(task.writers, task.title) => Conflict(task.writers, task.title, FALSE)
          /\ task.writers # <<>> => task.from = record
    /\ task.pc = "ready" => opened = {} \/ opened = Rng(task.writers)
    /\ task.pc \in {"open", "write"} \/ (task.pc = "ready" /\ opened # {}) =>
          Apart(task.writers, task.title) /\ ~TextOnRaw(task.writers, task.title)
    /\ task.pc \in {"open", "write"} => Apart(due, task.title) /\ record > 0
    /\ task.pc = "open" =>
          /\ opened \cup Rng(due) = Rng(task.writers) /\ opened \cap Rng(due) = {}
          /\ task.writers # <<>> => task.from = record - 1
    /\ task.pc = "write" => Rng(due) \subseteq opened /\ opened = Rng(task.writers)

\* The records of this run, the last one being r.
Own(r) == [k \in 1..(r - task.from) |-> [of |-> task.from + k, ended |-> TRUE]]

OwnInv ==
    /\ task.verify => task.overwrite
    /\ \A name \in opened, p \in Paths : p = PathOf(name) =>
          /\ task.pc # "down" => ~Unended(disk[p])
          /\ (task.pc # "down" \/ task.outcome = "success") /\ task.overwrite =>
                task.from <= LastAt(p) /\ disk[p] = Own(LastAt(p))

FilesInv ==
    /\ FilesType
    /\ \A p \in Paths : FileSound(p, disk[p], kept[p], LastAt(p))
    /\ WritersInv /\ OwnInv

\* A file whose last line is taken away, and its records.
LEMMA LastLine ==
    ASSUME NEW file \in Seq(FileLine), file # <<>>
    PROVE  /\ Front(file) \in Seq(FileLine) /\ Last(file) \in FileLine
           /\ Len(file) \in Nat \ {0} /\ Len(Front(file)) = Len(file) - 1
           /\ \A k \in 1..(Len(file) - 1) : Front(file)[k] = file[k]
           /\ Last(file) = file[Len(file)]
           /\ file = Append(Front(file), Last(file))
<1>1. Len(file) \in Nat \ {0} /\ Len(file) \in 1..Len(file)
  OBVIOUS
<1>2. Front(file) = SubSeq(file, 1, Len(file) - 1) /\ Last(file) = file[Len(file)]
  BY DEF Front, Last
<1>3. /\ Front(file) \in Seq(FileLine) /\ Len(Front(file)) = Len(file) - 1
      /\ \A k \in 1..(Len(file) - 1) : Front(file)[k] = file[k]
  <2> DEFINE m == Len(file) - 1
  <2>1. m \in 0..Len(file) /\ m \in Nat
    BY <1>1
  <2> HIDE DEF m
  <2>2. /\ SubSeq(file, 1, m) \in Seq(FileLine) /\ Len(SubSeq(file, 1, m)) = m
        /\ \A k \in 1..m : SubSeq(file, 1, m)[k] = file[k]
    BY <2>1
  <2> QED BY <1>2, <2>2 DEF m
<1>4. Last(file) \in FileLine
  BY <1>1, <1>2
<1> DEFINE whole == Append(Front(file), Last(file))
<1>5. whole \in Seq(FileLine) /\ Len(whole) = Len(file) /\ \A k \in 1..Len(file) : whole[k] = file[k]
  BY <1>1, <1>2, <1>3, <1>4
<1> HIDE DEF whole
<1>6. whole = file
  BY <1>5
<1> QED BY <1>1, <1>2, <1>3, <1>4, <1>6 DEF whole

LEMMA EmptySound == ASSUME NEW p, NEW top \in Int PROVE FileSound(p, <<>>, <<>>, top)
<1>1. <<>> \in Seq(FileLine) /\ <<>> \in Seq(Int) /\ Len(<<>>) = 0 /\ DOMAIN <<>> = {}
  OBVIOUS
<1> QED BY <1>1, RecordsOf DEF FileSound

LEMMA LaterSound ==
    ASSUME NEW p, NEW file, NEW records, NEW top \in Int, NEW later \in Int, top <= later,
           FileSound(p, file, records, top)
    PROVE  FileSound(p, file, records, later)
<1>1. records \in Seq(Int) /\ \A k \in DOMAIN records : records[k] <= top
  BY DEF FileSound
<1>2. \A k \in DOMAIN records : records[k] <= later
  <2> SUFFICES ASSUME NEW k \in DOMAIN records PROVE records[k] <= later
    OBVIOUS
  <2>1. records[k] \in Int /\ records[k] <= top
    BY <1>1
  <2> QED BY <2>1
<1> QED BY <1>2 DEF FileSound

\* A line after whole lines.
LEMMA LineSound ==
    ASSUME NEW p, NEW file, NEW records, NEW top \in Int, NEW line \in FileLine, NEW later \in Int,
           FileSound(p, file, records, top), top <= later,
           \A k \in DOMAIN file : file[k].ended,
           line.of # Broken => top < line.of /\ line.of <= later,
           line.of = Broken => ~line.ended
    PROVE  FileSound(p, Append(file, line), IF line.of = Broken THEN records ELSE Append(records, line.of), later)
<1> DEFINE longer == Append(file, line)
           more == IF line.of = Broken THEN records ELSE Append(records, line.of)
<1>1. /\ file \in Seq(FileLine) /\ records \in Seq(Int) /\ Records(file) = records
      /\ Len(file) \in Nat /\ Len(records) \in Nat /\ line.of \in Int
  BY DEF FileSound, FileLine
<1>2. /\ longer \in Seq(FileLine) /\ Len(longer) = Len(file) + 1 /\ longer[Len(file) + 1] = line
      /\ \A k \in 1..Len(file) : longer[k] = file[k] /\ file[k].ended
  BY <1>1
<1>3. Records(longer) = more
  BY <1>1, RecordsOf
<1>4. /\ more \in Seq(Int)
      /\ \A k \in 1..(Len(more) - 1) : more[k] < more[k + 1]
      /\ \A k \in DOMAIN more : more[k] <= later
  <2>1. CASE line.of = Broken
    <3>1. FileSound(p, file, records, later)
      BY LaterSound
    <3> QED BY <2>1, <3>1 DEF FileSound
  <2>2. CASE line.of # Broken
    <3>1. /\ more \in Seq(Int) /\ Len(more) = Len(records) + 1 /\ more[Len(records) + 1] = line.of
          /\ \A k \in 1..Len(records) : more[k] = records[k] /\ records[k] \in Int /\ records[k] <= top
          /\ DOMAIN more = 1..(Len(records) + 1)
      BY <1>1, <2>2 DEF FileSound
    <3> HIDE DEF more
    <3>2. ASSUME NEW k \in DOMAIN more PROVE more[k] <= later
      <4>1. k \in 1..Len(records) \/ k = Len(records) + 1
        BY <1>1, <3>1
      <4>2. CASE k \in 1..Len(records)
        <5>1. more[k] \in Int /\ more[k] <= top
          BY <3>1, <4>2
        <5> QED BY <5>1
      <4> QED BY <2>2, <3>1, <4>1, <4>2
    <3>3. ASSUME NEW k \in 1..(Len(more) - 1) PROVE more[k] < more[k + 1]
      <4>1. k \in 1..Len(records) /\ k + 1 \in 1..(Len(records) + 1)
        BY <1>1, <3>1
      <4>2. CASE k = Len(records)
        BY <1>1, <2>2, <3>1, <4>1, <4>2
      <4>3. CASE k # Len(records)
        <5>1. k + 1 \in 1..Len(records) /\ k \in 1..(Len(records) - 1)
          BY <1>1, <4>1, <4>3
        <5>2. records[k] < records[k + 1]
          BY <5>1 DEF FileSound
        <5> QED BY <3>1, <4>1, <5>1, <5>2
      <4> QED BY <4>2, <4>3
    <3> QED BY <3>1, <3>2, <3>3
  <2> QED BY <2>1, <2>2
<1>5. ASSUME NEW k \in 1..(Len(longer) - 1)
      PROVE  longer[k].ended /\ (p \in RawPaths => longer[k].of # Broken)
  <2>1. k \in 1..Len(file) /\ k \in DOMAIN file
    BY <1>1, <1>2
  <2>2. longer[k] = file[k] /\ file[k].ended
    BY <1>2, <2>1
  <2> QED BY <2>1, <2>2 DEF FileSound
<1>6. ASSUME p \in RawPaths, NEW k \in DOMAIN longer, longer[k].of = Broken PROVE ~longer[k].ended
  <2>1. k \in 1..Len(file) \/ k = Len(file) + 1
    BY <1>1, <1>2
  <2>2. CASE k \in 1..Len(file)
    <3>1. longer[k] = file[k] /\ k \in DOMAIN file
      BY <1>1, <1>2, <2>2
    <3> QED BY <1>6, <3>1 DEF FileSound
  <2>3. CASE k = Len(file) + 1
    BY <1>2, <1>6, <2>3
  <2> QED BY <2>1, <2>2, <2>3
<1> HIDE DEF longer, more
<1>7. FileSound(p, longer, more, later)
  BY <1>2, <1>3, <1>4, <1>5, <1>6 DEF FileSound
<1> QED BY <1>7 DEF longer, more

\* All lines of a file are ended if its last line is.
LEMMA AllEnded ==
    ASSUME NEW p, NEW file, NEW records, NEW top, FileSound(p, file, records, top), ~Unended(file)
    PROVE  \A k \in DOMAIN file : file[k].ended
<1> SUFFICES ASSUME NEW k \in DOMAIN file PROVE file[k].ended
  OBVIOUS
<1>1. file \in Seq(FileLine) /\ k \in 1..Len(file) /\ Len(file) \in Nat
  BY DEF FileSound
<1>2. CASE k = Len(file)
  <2>1. file # <<>>
    BY <1>1
  <2>2. Last(file) = file[k]
    BY <1>2 DEF Last
  <2> QED BY <2>1, <2>2 DEF Unended
<1>3. CASE k # Len(file)
  <2>1. k \in 1..(Len(file) - 1)
    BY <1>1, <1>3
  <2> QED BY <2>1 DEF FileSound
<1> QED BY <1>2, <1>3

LEMMA EndedAfter ==
    ASSUME NEW file \in Seq(FileLine), NEW line \in FileLine
    PROVE  Unended(Append(file, line)) <=> ~line.ended
<1> DEFINE longer == Append(file, line)
<1>1. Len(longer) = Len(file) + 1 /\ longer[Len(file) + 1] = line /\ Len(file) \in Nat /\ longer # <<>>
  OBVIOUS
<1>2. Last(longer) = line
  BY <1>1 DEF Last
<1> HIDE DEF longer
<1>3. Unended(longer) <=> ~line.ended
  BY <1>1, <1>2 DEF Unended
<1> QED BY <1>3 DEF longer

\* What is left of a sound file without its last line.
LEMMA FrontSound ==
    ASSUME NEW p, NEW file, NEW records, NEW top \in Int, FileSound(p, file, records, top), file # <<>>,
           Last(file).of = Broken
    PROVE  FileSound(p, Front(file), records, top) /\ ~Unended(Front(file))
<1> DEFINE rest == Front(file)
<1>1. /\ rest \in Seq(FileLine) /\ Last(file) \in FileLine
      /\ Len(file) \in Nat \ {0} /\ Len(rest) = Len(file) - 1
      /\ \A k \in 1..(Len(file) - 1) : rest[k] = file[k]
      /\ file = Append(rest, Last(file))
  BY LastLine DEF FileSound
<1>2. Records(rest) = records
  BY <1>1, RecordsOf DEF FileSound
<1> HIDE DEF rest
<1>3. \A k \in 1..Len(rest) : k \in 1..(Len(file) - 1) /\ rest[k] = file[k] /\ k \in DOMAIN file
  BY <1>1
<1>4. \A k \in 1..Len(rest) : rest[k].ended /\ (p \in RawPaths => rest[k].of # Broken)
  BY <1>3 DEF FileSound
<1>5. DOMAIN rest = 1..Len(rest) /\ \A k \in 1..(Len(rest) - 1) : k \in 1..Len(rest)
  BY <1>1
<1>6. FileSound(p, rest, records, top)
  BY <1>1, <1>2, <1>4, <1>5 DEF FileSound
<1>7. ~Unended(rest)
  <2> SUFFICES ASSUME rest # <<>> PROVE Last(rest).ended
    BY DEF Unended
  <2>1. Len(rest) \in 1..Len(rest)
    BY <1>1
  <2> QED BY <1>4, <2>1 DEF Last
<1> QED BY <1>6, <1>7 DEF rest

\* The last line is given its end.
LEMMA TerminatedSound ==
    ASSUME NEW p, NEW file, NEW records, NEW top \in Int, FileSound(p, file, records, top), file # <<>>,
           p \in RawPaths => Last(file).of # Broken
    PROVE  FileSound(p, Terminated(file), records, top) /\ ~Unended(Terminated(file))
<1> DEFINE rest == Front(file)
           line == [Last(file) EXCEPT !.ended = TRUE]
           whole == Append(rest, line)
<1>1. /\ file \in Seq(FileLine) /\ rest \in Seq(FileLine) /\ Last(file) \in FileLine
      /\ Len(file) \in Nat \ {0} /\ Len(rest) = Len(file) - 1
      /\ \A k \in 1..(Len(file) - 1) : rest[k] = file[k]
      /\ file = Append(rest, Last(file))
  BY LastLine DEF FileSound
<1>2. line \in FileLine /\ line.of = Last(file).of /\ line.ended
  BY <1>1 DEF FileLine
<1>3. Records(Append(rest, line)) = Records(Append(rest, Last(file)))
  <2> HIDE DEF rest, line
  <2>1. Records(Append(rest, line)) =
          IF line.of = Broken THEN Records(rest) ELSE Append(Records(rest), line.of)
    BY <1>1, <1>2, RecordsOf
  <2>2. Records(Append(rest, Last(file))) =
          IF Last(file).of = Broken THEN Records(rest) ELSE Append(Records(rest), Last(file).of)
    BY <1>1, RecordsOf
  <2> QED BY <1>2, <2>1, <2>2
<1> HIDE DEF rest, line
<1>4. Records(whole) = records
  BY <1>1, <1>3 DEF FileSound
<1>5. /\ whole \in Seq(FileLine) /\ Len(whole) = Len(file) /\ whole[Len(file)] = line
      /\ \A k \in 1..(Len(file) - 1) : whole[k] = file[k]
      /\ DOMAIN whole = 1..Len(file)
  BY <1>1, <1>2
<1>6. ~Unended(whole)
  BY <1>1, <1>2, EndedAfter
<1> HIDE DEF whole
<1>7. \A k \in 1..(Len(whole) - 1) : whole[k].ended /\ (p \in RawPaths => whole[k].of # Broken)
  <2>1. \A k \in 1..(Len(whole) - 1) : k \in 1..(Len(file) - 1)
    BY <1>5
  <2> QED BY <1>5, <2>1 DEF FileSound
<1>8. ASSUME p \in RawPaths, NEW k \in DOMAIN whole PROVE whole[k].of # Broken
  <2>1. k \in 1..(Len(file) - 1) \/ k = Len(file)
    BY <1>1, <1>5
  <2> QED BY <1>2, <1>5, <1>8, <2>1 DEF FileSound
<1>9. FileSound(p, whole, records, top)
  BY <1>4, <1>5, <1>7, <1>8 DEF FileSound
<1> QED BY <1>6, <1>9 DEF whole, rest, line, Terminated

\* A repair leaves a sound file, with its records, that can be appended to.
LEMMA RepairSound ==
    ASSUME NEW p, NEW file, NEW records, NEW top \in Int, FileSound(p, file, records, top)
    PROVE  /\ FileSound(p, RepairRaw(file), records, top) /\ ~Unended(RepairRaw(file))
           /\ p \notin RawPaths =>
                FileSound(p, RepairText(file), records, top) /\ ~Unended(RepairText(file))
<1>1. CASE ~Unended(file)
  BY <1>1 DEF RepairRaw, RepairText
<1>2. CASE Unended(file)
  <2>1. file # <<>>
    BY <1>2 DEF Unended
  <2>2. Last(file).of = Broken => FileSound(p, Front(file), records, top) /\ ~Unended(Front(file))
    BY <2>1, FrontSound
  <2>3. Last(file).of # Broken \/ p \notin RawPaths =>
          FileSound(p, Terminated(file), records, top) /\ ~Unended(Terminated(file))
    BY <2>1, TerminatedSound
  <2> QED BY <1>2, <2>2, <2>3 DEF RepairRaw, RepairText
<1> QED BY <1>1, <1>2

\* What others left is sound.
LEMMA LeftoverSound ==
    ASSUME NEW p, NEW file \in Leftovers
    PROVE  FileSound(p, file, Records(file), 0)
<1> DEFINE n == Len(file)
           Part(k) == SubSeq(file, 1, k)
           Good(k) == \E top \in Int : /\ top <= 0 /\ FileSound(p, Part(k), Records(Part(k)), top)
                                       /\ \A j \in (k + 1)..n : file[j].of = Broken \/ top < file[j].of
           T == {k \in 0..n : Good(k)}
<1>1. file \in Seq(FileLine) /\ n \in Nat
  BY FilesAssumption DEF FileLine, LeftInOrder
<1>2. \A k \in 1..n : /\ file[k] \in FileLine /\ file[k].of \in Int /\ file[k].of <= 0
                      /\ (k < n => file[k].ended) /\ (file[k].of = Broken => ~file[k].ended)
                      /\ \A j \in 1..(k - 1) : file[k].of = Broken \/ file[j].of < file[k].of
  <2>1. \A k \in 1..n : file[k] \in FileLine /\ file[k].of \in Int
    <3>1. \A line \in FileLine : line.of \in Int
      BY DEF FileLine
    <3>2. \A k \in 1..n : file[k] \in FileLine
      BY <1>1
    <3> QED BY <3>1, <3>2
  <2>2. DOMAIN file = 1..n
    BY <1>1
  <2> QED BY <2>1, <2>2, FilesAssumption DEF LeftInOrder
<1>3. 0 \in T
  <2>1. Part(0) = <<>>
    BY <1>1
  <2>2. Part(0) = <<>> /\ Records(Part(0)) = <<>>
    BY <2>1, RecordsOf
  <2> DEFINE top == IF n = 0 THEN 0 ELSE file[1].of - 1
  <2>3. top \in Int /\ top <= 0
    BY <1>1, <1>2
  <2>4. ASSUME NEW j \in 1..n PROVE file[j].of = Broken \/ top < file[j].of
    <3>1. n # 0 /\ 1 \in 1..n /\ top = file[1].of - 1
      BY <1>1
    <3>2. CASE j = 1
      BY <1>2, <3>1, <3>2
    <3>3. CASE j # 1
      <4>1. 1 \in 1..(j - 1)
        BY <1>1, <3>3
      <4>2. file[j].of = Broken \/ file[1].of < file[j].of
        BY <1>2, <4>1
      <4> QED BY <1>2, <3>1, <4>2
    <3> QED BY <3>2, <3>3
  <2> HIDE DEF top, Part
  <2>5. FileSound(p, Part(0), Records(Part(0)), top)
    BY <2>2, <2>3, EmptySound
  <2>6. Good(0)
    BY <2>3, <2>4, <2>5
  <2> HIDE DEF Good
  <2> QED BY <1>1, <2>6
<1>4. ASSUME NEW k \in 0..(n - 1), k \in T PROVE k + 1 \in T
  <2>1. k + 1 \in 1..n /\ k \in 0..n /\ k < n /\ k + 1 \in 0..n
    BY <1>1
  <2> DEFINE line == file[k + 1]
  <2>2. PICK top \in Int : /\ top <= 0 /\ FileSound(p, Part(k), Records(Part(k)), top)
                           /\ \A j \in (k + 1)..n : file[j].of = Broken \/ top < file[j].of
    BY <1>4
  <2> DEFINE later == IF line.of = Broken THEN top ELSE line.of
  <2>3. /\ line \in FileLine /\ line.of \in Int /\ line.of <= 0
        /\ (line.of = Broken => ~line.ended)
        /\ (line.of = Broken \/ top < line.of)
    BY <1>1, <1>2, <2>1, <2>2
  <2>4. Part(k) \in Seq(FileLine) /\ Len(Part(k)) = k /\ \A j \in 1..k : Part(k)[j] = file[j]
    BY <1>1, <2>1
  <2>5. /\ Part(k + 1) \in Seq(FileLine) /\ Len(Part(k + 1)) = k + 1
        /\ \A j \in 1..(k + 1) : Part(k + 1)[j] = file[j]
    BY <1>1, <2>1
  <2> HIDE DEF Part, later
  <2>6. \A j \in DOMAIN Part(k) : Part(k)[j].ended
    <3>1. \A j \in 1..k : j \in 1..n /\ j < n
      BY <1>1, <2>1
    <3>2. DOMAIN Part(k) = 1..k
      BY <2>4
    <3> QED BY <1>2, <2>4, <3>1, <3>2
  <2>7. Part(k + 1) = Append(Part(k), line)
    <3> HIDE DEF line
    <3>1. /\ Append(Part(k), line) \in Seq(FileLine) /\ Len(Append(Part(k), line)) = k + 1
          /\ \A j \in 1..(k + 1) : Append(Part(k), line)[j] = IF j = k + 1 THEN line ELSE Part(k)[j]
      BY <2>1, <2>3, <2>4
    <3>2. \A j \in 1..(k + 1) : Append(Part(k), line)[j] = Part(k + 1)[j]
      BY <2>1, <2>4, <2>5, <3>1 DEF line
    <3> QED BY <2>1, <2>5, <3>1, <3>2
  <2>8. later \in Int /\ later <= 0 /\ top <= later /\ (line.of # Broken => top < line.of /\ line.of <= later)
    BY <2>2, <2>3 DEF later
  <2> HIDE DEF line
  <2>9. FileSound(p, Part(k + 1), IF line.of = Broken THEN Records(Part(k)) ELSE Append(Records(Part(k)), line.of), later)
    BY <2>2, <2>3, <2>6, <2>7, <2>8, LineSound
  <2>10. Records(Part(k + 1)) = IF line.of = Broken THEN Records(Part(k)) ELSE Append(Records(Part(k)), line.of)
    BY <2>3, <2>4, <2>7, RecordsOf
  <2>11. ASSUME NEW j \in (k + 2)..n PROVE file[j].of = Broken \/ later < file[j].of
    <3>1. j \in (k + 1)..n /\ j \in 1..n /\ k + 1 \in 1..(j - 1)
      BY <1>1, <2>1
    <3> QED BY <1>2, <2>2, <3>1 DEF later, line
  <2>12. \A j \in ((k + 1) + 1)..n : j \in (k + 2)..n
    BY <1>1, <2>1
  <2>13. Good(k + 1)
    <3> HIDE DEF n
    <3> QED BY <2>8, <2>9, <2>10, <2>11, <2>12
  <2> HIDE DEF Good
  <2> QED BY <2>1, <2>13
<1>5. n \in T
  <2> HIDE DEF T, n
  <2>1. \A k \in 0..n : k \in T
    BY <1>1, <1>3, <1>4, NatInductTo
  <2> QED BY <1>1, <2>1
<1>6. Part(n) = file
  BY <1>1
<1>7. PICK top \in Int : top <= 0 /\ FileSound(p, file, Records(file), top)
  BY <1>5, <1>6
<1> QED BY <1>7, LaterSound

\* F[k] are the writers that stand once the first k names of a run are registered.
Registers(F, s, title, pending) ==
    /\ F[0] = <<>>
    /\ \A k \in 1..Len(s) : F[k] = (IF Taken(F[k - 1], s[k], title, pending) THEN F[k - 1] ELSE Append(F[k - 1], s[k]))
    /\ Distinct(s, title, pending) = F[Len(s)]
    /\ \A k \in 0..Len(s) : F[k] \in Seq(Names)

\* The names of a run are registered one after the other.
LEMMA NamesTaken ==
    ASSUME NEW title, NEW pending, NEW s \in Seq(Names)
    PROVE  \E F : Registers(F, s, title, pending)
<1> DEFINE n == Len(s)
           Step == [p \in Seq(Names) \X Names |-> (IF Taken(p[1], p[2], title, pending) THEN p[1] ELSE Append(p[1], p[2]))]
           G == CHOOSE f : f = [t \in SUBSET (1..n) |->
                                  IF t = {} THEN <<>> ELSE (IF Taken(f[t \ {Max(t)}], s[Max(t)], title, pending) THEN f[t \ {Max(t)}] ELSE Append(f[t \ {Max(t)}], s[Max(t)]))]
           F == [k \in 0..n |-> G[1..k]]
<1>1. n \in Nat /\ DOMAIN s = 1..n /\ n \in 0..n
  OBVIOUS
<1>2. Distinct(s, title, pending) = G[1..n]
  BY <1>1 DEF Distinct, FoldLeft, MapThenFoldSet
<1>3. Step \in [Seq(Names) \X Names -> Seq(Names)] /\ <<>> \in Seq(Names)
  OBVIOUS
<1>4. PICK f : Iterates(f, Seq(Names), <<>>, s, Step)
  <2> HIDE DEF Step, G, F
  <2> QED BY <1>3, IterationExists
<1>5. f = [t \in SUBSET (1..n) |-> IF t = {} THEN <<>> ELSE (IF Taken(f[t \ {Max(t)}], s[Max(t)], title, pending) THEN f[t \ {Max(t)}] ELSE Append(f[t \ {Max(t)}], s[Max(t)]))]
  <2>1. ASSUME NEW t \in SUBSET (1..n), t # {}
        PROVE  Step[<<f[t \ {Max(t)}], s[Max(t)]>>] = (IF Taken(f[t \ {Max(t)}], s[Max(t)], title, pending) THEN f[t \ {Max(t)}] ELSE Append(f[t \ {Max(t)}], s[Max(t)]))
    <3>1. Max(t) \in 1..n /\ t \ {Max(t)} \in SUBSET (1..n)
      <4> HIDE DEF n, G, F
      <4> QED BY <1>1, <2>1, MaxAmong
    <3>2. s[Max(t)] \in Names /\ f[t \ {Max(t)}] \in Seq(Names)
      BY <1>4, <3>1 DEF Iterates
    <3> QED BY <3>2
  <2> HIDE DEF Step
  <2> QED BY <1>4, <2>1 DEF Iterates
<1>6. G = [t \in SUBSET (1..n) |-> IF t = {} THEN <<>> ELSE (IF Taken(G[t \ {Max(t)}], s[Max(t)], title, pending) THEN G[t \ {Max(t)}] ELSE Append(G[t \ {Max(t)}], s[Max(t)]))]
  BY <1>5
<1> HIDE DEF G
<1>7. F[0] = <<>>
  BY <1>1, <1>6
<1>8. ASSUME NEW k \in 1..n PROVE F[k] = (IF Taken(F[k - 1], s[k], title, pending) THEN F[k - 1] ELSE Append(F[k - 1], s[k]))
  <2>1. 1..k \in SUBSET (1..n) /\ 1..k # {} /\ (1..k) \ {k} = 1..(k - 1) /\ Max(1..k) = k
    BY <1>1, Peeled
  <2>2. k \in 0..n /\ k - 1 \in 0..n
    BY <1>1
  <2> QED BY <1>6, <2>1, <2>2
<1> HIDE DEF F
<1>9. \A k \in 0..n : F[k] \in Seq(Names)
  <2> DEFINE T == {k \in 0..n : F[k] \in Seq(Names)}
  <2>1. 0 \in T
    <3>1. 0 \in 0..n /\ <<>> \in Seq(Names)
      BY <1>1, <1>3
    <3> HIDE DEF Step, n
    <3> QED BY <1>7, <3>1
  <2>2. ASSUME NEW k \in 0..(n - 1), k \in T PROVE k + 1 \in T
    <3>1. k + 1 \in 1..n /\ (k + 1) - 1 = k
      BY <1>1
    <3>2. F[k + 1] = (IF Taken(F[k], s[k + 1], title, pending) THEN F[k] ELSE Append(F[k], s[k + 1])) /\ F[k] \in Seq(Names) /\ s[k + 1] \in Names
      BY <1>8, <2>2, <3>1
    <3>3. Step[<<F[k], s[k + 1]>>] = (IF Taken(F[k], s[k + 1], title, pending) THEN F[k] ELSE Append(F[k], s[k + 1]))
      BY <3>2
    <3> HIDE DEF Step
    <3>4. F[k + 1] \in Seq(Names)
      BY <1>3, <3>2, <3>3
    <3> QED BY <1>1, <3>1, <3>4
  <2> HIDE DEF T
  <2>3. \A k \in 0..n : k \in T
    BY <1>1, <2>1, <2>2, NatInductTo
  <2> QED BY <2>3 DEF T
<1>10. Registers(F, s, title, pending)
  BY <1>1, <1>2, <1>7, <1>8, <1>9 DEF F, Registers
<1> QED BY <1>10

\* The names that stand: from among those given, each at a place of its own, and no place
\* is left out.
LEMMA DistinctOf ==
    ASSUME NEW title, NEW pending, NEW names \in Seq(Names)
    PROVE  /\ Distinct(names, title, pending) \in Seq(Names)
           /\ Rng(Distinct(names, title, pending)) \subseteq Rng(names)
           /\ \A i, j \in DOMAIN Distinct(names, title, pending) :
                Place(Distinct(names, title, pending)[i], title, pending) =
                  Place(Distinct(names, title, pending)[j], title, pending) => i = j
           /\ \A j \in DOMAIN names : Taken(Distinct(names, title, pending), names[j], title, pending)
<1>a. PICK F : Registers(F, names, title, pending)
  BY NamesTaken
<1>1. /\ F[0] = <<>>
      /\ \A k \in 1..Len(names) : F[k] = (IF Taken(F[k - 1], names[k], title, pending) THEN F[k - 1] ELSE Append(F[k - 1], names[k]))
      /\ Distinct(names, title, pending) = F[Len(names)]
      /\ \A k \in 0..Len(names) : F[k] \in Seq(Names)
  BY <1>a DEF Registers
<1> DEFINE n == Len(names)
           At(name) == Place(name, title, pending)
           Has(w, name) == Taken(w, name, title, pending)
           Good(w, k) == /\ w \in Seq(Names) /\ Rng(w) \subseteq Rng(names)
                         /\ \A i, j \in DOMAIN w : At(w[i]) = At(w[j]) => i = j
                         /\ \A j \in 1..k : Has(w, names[j])
<1>2. n \in Nat /\ n \in 0..n /\ DOMAIN names = 1..n
  OBVIOUS
<1> DEFINE T == {k \in 0..n : Good(F[k], k)}
<1>3. 0 \in T
  <2>1. <<>> \in Seq(Names) /\ DOMAIN <<>> = {} /\ 1..0 = {}
    OBVIOUS
  <2>2. Good(<<>>, 0)
    BY <2>1 DEF Rng
  <2> QED BY <1>1, <1>2, <2>2
<1>4. ASSUME NEW k \in 0..(n - 1), k \in T PROVE k + 1 \in T
  <2>1. k + 1 \in 1..n /\ (k + 1) - 1 = k /\ k + 1 \in 0..n /\ 1..(k + 1) = 1..k \cup {k + 1}
    BY <1>2
  <2> DEFINE w == F[k]
             name == names[k + 1]
  <2>2. Good(w, k) /\ name \in Names /\ name \in Rng(names)
    <3>1. Good(w, k)
      <4> HIDE DEF Good
      <4> QED BY <1>4
    <3>2. name \in Names /\ k + 1 \in DOMAIN names
      BY <1>2, <2>1
    <3> QED BY <3>1, <3>2 DEF Rng
  <2>3. F[k + 1] = IF Has(w, name) THEN w ELSE Append(w, name)
    BY <1>1, <2>1
  <2> HIDE DEF w, name
  <2>4. CASE Has(w, name)
    <3>1. \A j \in 1..(k + 1) : Has(w, names[j])
      BY <2>1, <2>2, <2>4 DEF name
    <3> QED BY <2>1, <2>2, <2>3, <2>4, <3>1
  <2>5. CASE ~Has(w, name)
    <3> DEFINE v == Append(w, name)
    <3>1. /\ v \in Seq(Names) /\ Len(v) = Len(w) + 1 /\ v[Len(w) + 1] = name /\ Len(w) \in Nat
          /\ DOMAIN w = 1..Len(w) /\ DOMAIN v = 1..(Len(w) + 1) /\ \A i \in 1..Len(w) : v[i] = w[i]
      BY <2>2
    <3> HIDE DEF v, At, Has
    <3>2. Rng(v) \subseteq Rng(names)
      <4> SUFFICES ASSUME NEW i \in DOMAIN v PROVE v[i] \in Rng(names)
        BY DEF Rng
      <4>1. i \in 1..Len(w) \/ i = Len(w) + 1
        BY <3>1
      <4>2. CASE i \in 1..Len(w)
        <5>1. v[i] = w[i] /\ w[i] \in Rng(w)
          BY <3>1, <4>2 DEF Rng
        <5> QED BY <2>2, <5>1
      <4> QED BY <2>2, <3>1, <4>1, <4>2
    <3>3. \A i \in 1..Len(w) : At(w[i]) # At(name)
      BY <2>5, <3>1 DEF Has, At, Taken
    <3>4. ASSUME NEW i \in DOMAIN v, NEW j \in DOMAIN v, At(v[i]) = At(v[j]) PROVE i = j
      <4>1. (i \in 1..Len(w) \/ i = Len(w) + 1) /\ (j \in 1..Len(w) \/ j = Len(w) + 1)
        BY <3>1
      <4>2. CASE i \in 1..Len(w) /\ j \in 1..Len(w)
        BY <2>2, <3>1, <3>4, <4>2
      <4>3. CASE i \in 1..Len(w) /\ j = Len(w) + 1
        BY <3>1, <3>3, <3>4, <4>3
      <4>4. CASE j \in 1..Len(w) /\ i = Len(w) + 1
        BY <3>1, <3>3, <3>4, <4>4
      <4> QED BY <4>1, <4>2, <4>3, <4>4
    <3>5. ASSUME NEW j \in 1..(k + 1) PROVE Has(v, names[j])
      <4>1. CASE j = k + 1
        <5>1. Len(w) + 1 \in DOMAIN v /\ v[Len(w) + 1] = names[j]
          BY <3>1, <4>1 DEF name
        <5> QED BY <5>1 DEF Has, Taken
      <4>2. CASE j # k + 1
        <5>1. Has(w, names[j])
          BY <2>1, <2>2, <4>2
        <5>2. PICK i \in DOMAIN w : Place(w[i], title, pending) = Place(names[j], title, pending)
          BY <5>1 DEF Has, Taken
        <5>3. i \in DOMAIN v /\ v[i] = w[i]
          BY <3>1
        <5> QED BY <5>2, <5>3 DEF Has, Taken
      <4> QED BY <4>1, <4>2
    <3>6. F[k + 1] = v
      BY <2>3, <2>5 DEF v
    <3> QED BY <2>1, <3>1, <3>2, <3>4, <3>5, <3>6
  <2> QED BY <2>4, <2>5
<1>5. n \in T
  <2> HIDE DEF T, n
  <2>1. \A k \in 0..n : k \in T
    BY <1>2, <1>3, <1>4, NatInductTo
  <2> QED BY <1>2, <2>1
<1>6. Good(F[n], n)
  BY <1>5
<1> QED BY <1>1, <1>2, <1>6

\* The names that stand once the title is known are files of their own.
LEMMA ResolvedApart ==
    ASSUME NEW title, NEW names \in Seq(Names)
    PROVE  Apart(Distinct(names, title, FALSE), title)
<1> DEFINE w == Distinct(names, title, FALSE)
<1>1. \A i, j \in DOMAIN w : w[i].path[title] = w[j].path[title] => i = j
  BY DistinctOf DEF Place
<1> QED BY <1>1 DEF Apart, Rng

\* A text file where a raw file may be is seen before anything is opened.
LEMMA TextOnRawRefused ==
    ASSUME NEW names \in OutputLists, NEW title \in Titles, NEW pending \in BOOLEAN,
           ~Conflict(names, title, pending), TextOnRaw(Distinct(names, title, pending), title)
    PROVE  Conflict(Distinct(names, title, pending), title, FALSE)
<1> DEFINE w == Distinct(names, title, pending)
<1>1. names \in Seq(Names)
  BY FilesAssumption DEF TextBesideRaw
<1>2. Rng(w) \subseteq Rng(names) /\ \A j \in DOMAIN names : Taken(w, names[j], title, pending)
  BY <1>1, DistinctOf
<1> HIDE DEF w
<1>3. PICK n \in Rng(w) : n.format # "jsonl" /\ n.path[title] \in RawPaths
  BY DEF TextOnRaw, w
<1>4. PICK k \in DOMAIN names : names[k] = n
  BY <1>2, <1>3 DEF Rng
<1>5. Conflict(names, title, FALSE)
  BY <1>3, <1>4, FilesAssumption DEF TextBesideRaw
<1>6. PICK i, j \in DOMAIN names : names[i].path[title] = names[j].path[title] /\ names[i].format # names[j].format
  BY <1>5 DEF Conflict, Place
<1>7. \A l \in DOMAIN names : \E m \in DOMAIN w :
        w[m].path[title] = names[l].path[title] /\ w[m].format = names[l].format
  <2> SUFFICES ASSUME NEW l \in DOMAIN names
               PROVE  \E m \in DOMAIN w : w[m].path[title] = names[l].path[title] /\ w[m].format = names[l].format
    OBVIOUS
  <2>1. PICK m \in DOMAIN w : Place(w[m], title, pending) = Place(names[l], title, pending)
    BY <1>2 DEF Taken
  <2>2. w[m].path[title] = names[l].path[title]
    BY <2>1 DEF Place
  <2>3. PICK h \in DOMAIN names : names[h] = w[m]
    BY <1>2 DEF Rng
  <2>4. names[h].format = names[l].format
    BY <2>1, <2>3 DEF Conflict
  <2> QED BY <2>2, <2>3, <2>4
<1>8. PICK a \in DOMAIN w : w[a].path[title] = names[i].path[title] /\ w[a].format = names[i].format
  BY <1>7
<1>9. PICK b \in DOMAIN w : w[b].path[title] = names[j].path[title] /\ w[b].format = names[j].format
  BY <1>7
<1>10. Conflict(w, title, FALSE)
  BY <1>6, <1>8, <1>9 DEF Conflict, Place
<1> QED BY <1>10 DEF w

-----------------------------------------------------------------------------
(* Every step of OutputFiles.                                              *)

LEMMA Tails ==
    ASSUME NEW names \in Seq(Names), names # <<>>, NEW title, Apart(names, title)
    PROVE  /\ Head(names) \in Names /\ Head(names) \in Rng(names) /\ Tail(names) \in Seq(Names)
           /\ Rng(Tail(names)) = Rng(names) \ {Head(names)}
           /\ Apart(Tail(names), title)
<1> DEFINE tail == Tail(names)
<1>1. /\ Len(names) \in Nat \ {0} /\ 1 \in DOMAIN names /\ DOMAIN names = 1..Len(names)
      /\ Head(names) = names[1] /\ tail \in Seq(Names) /\ Len(tail) = Len(names) - 1
      /\ DOMAIN tail = 1..(Len(names) - 1)
      /\ \A k \in 1..(Len(names) - 1) : tail[k] = names[k + 1]
  OBVIOUS
<1> HIDE DEF tail
<1>2. \A j, k \in DOMAIN names : names[j] = names[k] => j = k
  BY DEF Apart
<1>3. Rng(tail) \subseteq Rng(names) \ {Head(names)}
  <2> SUFFICES ASSUME NEW k \in DOMAIN tail PROVE tail[k] \in Rng(names) \ {Head(names)}
    BY DEF Rng
  <2>1. k + 1 \in DOMAIN names /\ k + 1 # 1 /\ tail[k] = names[k + 1]
    BY <1>1
  <2> QED BY <1>1, <1>2, <2>1 DEF Rng
<1>4. Rng(names) \ {Head(names)} \subseteq Rng(tail)
  <2> SUFFICES ASSUME NEW k \in DOMAIN names, names[k] # Head(names) PROVE names[k] \in Rng(tail)
    BY DEF Rng
  <2>1. k - 1 \in DOMAIN tail /\ (k - 1) + 1 = k /\ k - 1 \in 1..(Len(names) - 1)
    BY <1>1
  <2>2. tail[k - 1] = names[k]
    BY <1>1, <2>1
  <2> QED BY <2>1, <2>2 DEF Rng
<1>5. ASSUME NEW j \in DOMAIN tail, NEW k \in DOMAIN tail, tail[j] = tail[k] PROVE j = k
  <2>1. /\ j + 1 \in DOMAIN names /\ k + 1 \in DOMAIN names
        /\ tail[j] = names[j + 1] /\ tail[k] = names[k + 1]
    BY <1>1
  <2>2. j + 1 = k + 1
    BY <1>2, <1>5, <2>1
  <2> QED BY <1>1, <2>2
<1>6. Apart(tail, title)
  BY <1>3, <1>5 DEF Apart
<1>7. Head(names) \in Names /\ Head(names) \in Rng(names)
  BY <1>1 DEF Rng
<1> QED BY <1>1, <1>3, <1>4, <1>6, <1>7 DEF tail

LEMMA NoneLeft == /\ \A names : names = <<>> => Rng(names) = {}
                  /\ \A names \in Seq(Names) : Rng(names) = {} => names = <<>>
<1>1. DOMAIN <<>> = {}
  OBVIOUS
<1>2. \A names \in Seq(Names) : names # <<>> => 1 \in DOMAIN names
  OBVIOUS
<1> QED BY <1>1, <1>2 DEF Rng

LEMMA FilesStart ==
    ASSUME FilesInit
    PROVE  FilesInv
<1>1. present \subseteq Paths /\ disk \in [Paths -> Leftovers] /\ kept = [p \in Paths |-> Records(disk[p])]
      /\ task = Down /\ opened = {} /\ record = 0 /\ due = <<>>
  BY DEF FilesInit
<1>2. FilesType
  <2>1. <<>> \in Seq(Names)
    OBVIOUS
  <2> QED BY <1>1, <2>1 DEF FilesType, Down
<1>3. ASSUME NEW p \in Paths PROVE FileSound(p, disk[p], kept[p], LastAt(p))
  <2>1. LastAt(p) = 0
    BY <1>1 DEF LastAt, Awaits, Down
  <2>2. disk[p] \in Leftovers /\ kept[p] = Records(disk[p])
    BY <1>1
  <2> QED BY <2>1, <2>2, LeftoverSound
<1>4. WritersInv /\ OwnInv
  BY <1>1 DEF WritersInv, OwnInv, Down
<1> QED BY <1>2, <1>3, <1>4 DEF FilesInv

\* Nothing is written, and no path waits for a record that it was not waiting for.
LEMMA FilesKept ==
    ASSUME FilesInv, FilesType', UNCHANGED <<disk, kept>>, \A p \in Paths : LastAt(p) <= LastAt(p)'
    PROVE  \A p \in Paths : FileSound(p, disk[p], kept[p], LastAt(p))'
<1> SUFFICES ASSUME NEW p \in Paths PROVE FileSound(p, disk'[p], kept'[p], LastAt(p)')
  BY DEF FileSound
<1>1. LastAt(p) \in Int /\ LastAt(p)' \in Int
  BY DEF FilesInv, FilesType, LastAt
<1>2. FileSound(p, disk'[p], kept'[p], LastAt(p))
  BY DEF FilesInv
<1> QED BY <1>1, <1>2, LaterSound

LEMMA StartRunStep ==
    ASSUME FilesInv, NEW names \in OutputLists, NEW overwrite \in BOOLEAN, NEW verify \in BOOLEAN,
           NEW pending \in BOOLEAN, NEW title \in Titles,
           StartRun(names, overwrite, verify, title, pending)
    PROVE  FilesInv'
<1> DEFINE writers == Distinct(names, title, pending)
<1>1. FilesType /\ WritersInv /\ OwnInv /\ names \in Seq(Names)
  BY FilesAssumption DEF FilesInv, TextBesideRaw
<1>2. task.pc = "down" /\ opened' = {} /\ due' = <<>> /\ UNCHANGED <<present, disk, record, kept>>
  BY DEF StartRun
<1>3. CASE Conflict(names, title, pending) \/ (verify /\ ~Verifiable(writers, overwrite))
  <2>1. task' = [Down EXCEPT !.runs = task.runs + 1, !.outcome = "refused"]
    BY <1>3 DEF StartRun
  <2>2. task'.pc = "down" /\ task'.verify = FALSE
    BY <2>1 DEF Down
  <2>3. FilesType'
    <3>1. <<>> \in Seq(Names) /\ task.runs + 1 \in Nat
      BY <1>1 DEF FilesType
    <3> QED BY <1>1, <1>2, <2>1, <3>1 DEF FilesType, Down
  <2>4. \A p \in Paths : FileSound(p, disk[p], kept[p], LastAt(p))'
    <3>1. \A p \in Paths : LastAt(p)' = record /\ LastAt(p) = record /\ record \in Nat
      BY <1>1, <1>2, <2>2 DEF LastAt, Awaits, FilesType
    <3> QED BY <1>2, <2>3, <3>1, FilesKept
  <2>5. WritersInv' /\ OwnInv'
    BY <1>2, <2>2 DEF WritersInv, OwnInv
  <2> QED BY <2>3, <2>4, <2>5 DEF FilesInv
<1>4. CASE ~Conflict(names, title, pending) /\ (verify => Verifiable(writers, overwrite))
  <2>1. task' = [pc |-> "ready", outcome |-> "none", writers |-> writers,
                 overwrite |-> overwrite, verify |-> verify, title |-> title,
                 from |-> record, runs |-> task.runs + 1]
    BY <1>4 DEF StartRun
  <2>2. writers \in Seq(Names)
    BY <1>1, DistinctOf
  <2>3. TextOnRaw(writers, title) => Conflict(writers, title, FALSE)
    BY <1>4, TextOnRawRefused
  <2> HIDE DEF writers
  <2>4. FilesType'
    <3>1. task.runs + 1 \in Nat /\ record \in Nat
      BY <1>1 DEF FilesType
    <3> QED BY <1>1, <1>2, <2>1, <2>2, <3>1 DEF FilesType
  <2>5. \A p \in Paths : FileSound(p, disk[p], kept[p], LastAt(p))'
    <3>1. \A p \in Paths : LastAt(p)' = record /\ LastAt(p) = record /\ record \in Nat
      BY <1>1, <1>2, <2>1 DEF LastAt, Awaits, FilesType
    <3> QED BY <1>2, <2>4, <3>1, FilesKept
  <2>6. WritersInv'
    BY <1>2, <2>1, <2>3 DEF WritersInv
  <2>7. OwnInv'
    BY <1>2, <1>4, <2>1 DEF OwnInv, Verifiable
  <2> QED BY <2>4, <2>5, <2>6, <2>7 DEF FilesInv
<1> QED BY <1>3, <1>4

LEMMA FirstRecordStep == ASSUME FilesInv, FirstRecord PROVE FilesInv'
<1>1. FilesType /\ WritersInv /\ OwnInv
  BY DEF FilesInv
<1>2. /\ task.pc = "ready" /\ opened = {} /\ record' = record + 1 /\ record \in Nat
      /\ UNCHANGED <<present, disk, opened, kept>>
  BY <1>1 DEF FirstRecord, FilesType
<1>3. \A p \in Paths : LastAt(p) = record
  BY <1>2 DEF LastAt, Awaits
<1>4. CASE Conflict(task.writers, task.title, FALSE)
  <2>1. task' = [task EXCEPT !.pc = "down", !.outcome = "failed"] /\ due' = due
    BY <1>4 DEF FirstRecord, End
  <2>2. FilesType'
    <3>1. task' \in [pc : {"down", "ready", "open", "write"}, outcome : {"none", "refused", "failed", "killed", "success"},
                     writers : Seq(Names), overwrite : BOOLEAN, verify : BOOLEAN, title : Titles \cup {"none"},
                     from : Nat, runs : Nat]
      BY <1>1, <2>1 DEF FilesType
    <3>2. task'.pc = "down" /\ record' \in Nat
      BY <1>1, <1>2, <2>1 DEF FilesType
    <3> QED BY <1>1, <1>2, <2>1, <3>1, <3>2 DEF FilesType
  <2>3. task'.pc = "down"
    BY <1>1, <2>1 DEF FilesType
  <2>4. \A p \in Paths : FileSound(p, disk[p], kept[p], LastAt(p))'
    <3>1. \A p \in Paths : LastAt(p)' = record + 1
      BY <1>2, <2>3 DEF LastAt, Awaits
    <3>2. record <= record + 1
      BY <1>2
    <3> QED BY <1>2, <1>3, <2>2, <3>1, <3>2, FilesKept
  <2>5. WritersInv' /\ OwnInv'
    BY <1>1, <1>2, <2>1, <2>3 DEF WritersInv, OwnInv, FilesType
  <2> QED BY <2>2, <2>4, <2>5 DEF FilesInv
<1>5. CASE ~Conflict(task.writers, task.title, FALSE)
  <2> DEFINE writers == Distinct(task.writers, task.title, FALSE)
  <2>1. task' = [task EXCEPT !.pc = "open", !.writers = writers] /\ due' = writers
    BY <1>5 DEF FirstRecord, Resolved
  <2>2. /\ task.writers \in Seq(Names) /\ writers \in Seq(Names) /\ Rng(writers) \subseteq Rng(task.writers)
        /\ Apart(writers, task.title)
    BY <1>1, DistinctOf, ResolvedApart DEF FilesType
  <2>3. ~TextOnRaw(writers, task.title)
    <3>1. TextOnRaw(writers, task.title) => TextOnRaw(task.writers, task.title)
      BY <2>2 DEF TextOnRaw
    <3> QED BY <1>1, <1>2, <1>5, <3>1 DEF WritersInv
  <2>4. writers # <<>> => task.writers # <<>>
    BY <2>2, NoneLeft
  <2> HIDE DEF writers
  <2>5. /\ task'.pc = "open" /\ task'.writers = writers /\ task'.title = task.title /\ task'.from = task.from
        /\ task'.verify = task.verify /\ task'.overwrite = task.overwrite
    BY <1>1, <2>1 DEF FilesType
  <2>6. FilesType'
    <3>1. task' \in [pc : {"down", "ready", "open", "write"}, outcome : {"none", "refused", "failed", "killed", "success"},
                     writers : Seq(Names), overwrite : BOOLEAN, verify : BOOLEAN, title : Titles \cup {"none"},
                     from : Nat, runs : Nat]
      BY <1>1, <2>1, <2>2 DEF FilesType
    <3>2. task'.title \in Titles /\ record' \in Nat
      BY <1>1, <1>2, <2>5 DEF FilesType
    <3> QED BY <1>1, <1>2, <2>1, <2>2, <3>1, <3>2 DEF FilesType
  <2>7. \A p \in Paths : FileSound(p, disk[p], kept[p], LastAt(p))'
    <3>1. \A p \in Paths : LastAt(p)' = (record + 1) - 1
      BY <1>2, <2>5 DEF LastAt, Awaits
    <3>2. record <= (record + 1) - 1
      BY <1>2
    <3> QED BY <1>2, <1>3, <2>6, <3>1, <3>2, FilesKept
  <2>8. WritersInv'
    <3>1. task.from = record \/ writers = <<>>
      BY <1>1, <1>2, <2>4 DEF WritersInv
    <3>2. record' > 0 /\ record' - 1 = record
      BY <1>2
    <3> QED BY <1>2, <2>1, <2>2, <2>3, <2>5, <3>1, <3>2 DEF WritersInv
  <2>9. OwnInv'
    BY <1>1, <1>2, <2>5 DEF OwnInv
  <2> QED BY <2>6, <2>7, <2>8, <2>9 DEF FilesInv
<1> QED BY <1>4, <1>5

LEMMA NextRecordStep == ASSUME FilesInv, NextRecord PROVE FilesInv'
<1>1. FilesType /\ WritersInv /\ OwnInv
  BY DEF FilesInv
<1>2. /\ task.pc = "ready" /\ opened # {} /\ record' = record + 1 /\ record \in Nat /\ due' = task.writers
      /\ task' = [task EXCEPT !.pc = "write"] /\ UNCHANGED <<present, disk, opened, kept>>
  BY <1>1 DEF NextRecord, FilesType
<1>3. /\ task'.pc = "write" /\ task'.writers = task.writers /\ task'.title = task.title /\ task'.from = task.from
      /\ task'.verify = task.verify /\ task'.overwrite = task.overwrite
  BY <1>1, <1>2 DEF FilesType
<1>4. opened = Rng(task.writers) /\ Apart(task.writers, task.title) /\ ~TextOnRaw(task.writers, task.title)
  BY <1>1, <1>2 DEF WritersInv
<1>5. FilesType'
  BY <1>1, <1>2, SMTT(30) DEF FilesType
<1>6. \A p : LastAt(p) = record
  BY <1>2 DEF LastAt, Awaits
<1>7. \A p \in Paths : FileSound(p, disk[p], kept[p], LastAt(p))'
  <2>1. \A p \in Paths : LastAt(p)' = record \/ LastAt(p)' = record + 1
    BY <1>2 DEF LastAt
  <2>2. \A p \in Paths : LastAt(p) <= LastAt(p)'
    BY <1>2, <1>6, <2>1
  <2> QED BY <1>2, <1>5, <2>2, FilesKept
<1>8. WritersInv'
  <2>1. record' > 0
    BY <1>2
  <2> QED BY <1>2, <1>3, <1>4, <2>1 DEF WritersInv
<1>9. OwnInv'
  <2> SUFFICES ASSUME NEW name \in opened, NEW p \in Paths, p = PathOf(name)
               PROVE  /\ ~Unended(disk[p])
                      /\ task.overwrite => task.from <= LastAt(p)' /\ disk[p] = Own(LastAt(p))'
    BY <1>1, <1>2, <1>3 DEF OwnInv, PathOf
  <2>1. Awaits(p)'
    BY <1>2, <1>3, <1>4 DEF Awaits, PathOf
  <2>2. LastAt(p)' = record /\ LastAt(p) = record
    BY <1>2, <1>6, <2>1 DEF LastAt
  <2> QED BY <1>1, <1>2, <1>3, <2>2 DEF OwnInv, Own
<1> QED BY <1>5, <1>7, <1>8, <1>9 DEF FilesInv

\* A run that ends without a word of success says nothing of its files but what it left.
LEMMA RunEnds ==
    ASSUME FilesInv, NEW outcome \in {"failed", "killed", "success"}, End(outcome),
           UNCHANGED <<present, opened, record, due>>,
           UNCHANGED <<disk, kept>>,
           outcome = "success" => task.pc = "ready"
    PROVE  FilesInv'
<1>1. FilesType /\ WritersInv /\ OwnInv
  BY DEF FilesInv
<1>2. task' = [task EXCEPT !.pc = "down", !.outcome = outcome]
  BY DEF End
<1>3. /\ task'.pc = "down" /\ task'.outcome = outcome /\ task'.title = task.title /\ task'.from = task.from
      /\ task'.verify = task.verify /\ task'.overwrite = task.overwrite
  BY <1>1, <1>2 DEF FilesType
<1>4. \A p : LastAt(p)' = record /\ record \in Nat /\ (task.pc = "ready" => LastAt(p) = record)
  BY <1>1, <1>3 DEF LastAt, Awaits, FilesType
<1>5. FilesType'
  <2>1. task' \in [pc : {"down", "ready", "open", "write"}, outcome : {"none", "refused", "failed", "killed", "success"},
                   writers : Seq(Names), overwrite : BOOLEAN, verify : BOOLEAN, title : Titles \cup {"none"},
                   from : Nat, runs : Nat]
    BY <1>1, <1>2 DEF FilesType
  <2>2. opened # {} => task'.title \in Titles
    BY <1>1, <1>3 DEF FilesType
  <2> QED BY <1>1, <1>3, <2>1, <2>2 DEF FilesType
<1>6. \A p \in Paths : FileSound(p, disk[p], kept[p], LastAt(p))'
  <2>1. \A p \in Paths : LastAt(p) <= LastAt(p)'
    <3>1. \A p \in Paths : LastAt(p) = record \/ LastAt(p) = record - 1
      BY DEF LastAt
    <3> QED BY <1>4, <3>1
  <2> QED BY <1>5, <2>1, FilesKept
<1>7. WritersInv'
  BY <1>3 DEF WritersInv
<1>8. OwnInv'
  <2> SUFFICES ASSUME NEW name \in opened, NEW p \in Paths, p = PathOf(name), outcome = "success", task.overwrite
               PROVE  task.from <= LastAt(p)' /\ disk[p] = Own(LastAt(p))'
    BY <1>1, <1>3 DEF OwnInv, PathOf
  <2>1. LastAt(p)' = record /\ LastAt(p) = record
    BY <1>4
  <2> QED BY <1>1, <1>3, <2>1 DEF OwnInv, Own
<1> QED BY <1>5, <1>6, <1>7, <1>8 DEF FilesInv

LEMMA OpenStep == ASSUME FilesInv, Open PROVE FilesInv'
<1> DEFINE name == Head(due)
           path == name.path[task.title]
<1>1. FilesType /\ WritersInv /\ OwnInv
  BY DEF FilesInv
<1>2. /\ task.pc = "open" /\ due # <<>> /\ due \in Seq(Names) /\ record \in Nat /\ task.title \in Titles
      /\ present' = present \cup {path} /\ opened' = opened \cup {name} /\ due' = Tail(due)
      /\ UNCHANGED <<task, record>>
  BY <1>1 DEF Open, FilesType
<1>3. /\ Apart(task.writers, task.title) /\ ~TextOnRaw(task.writers, task.title) /\ Apart(due, task.title)
      /\ opened \cup Rng(due) = Rng(task.writers) /\ opened \cap Rng(due) = {} /\ record > 0
      /\ task.writers # <<>> => task.from = record - 1
  BY <1>1, <1>2 DEF WritersInv
<1>4. /\ name \in Names /\ name \in Rng(due) /\ Tail(due) \in Seq(Names)
      /\ Rng(Tail(due)) = Rng(due) \ {name} /\ Apart(Tail(due), task.title)
  BY <1>2, <1>3, Tails
<1>5. path \in Paths /\ (name.format # "jsonl" => path \notin RawPaths)
  <2>1. path \in Paths
    BY <1>2, <1>4 DEF Paths
  <2> QED BY <1>3, <1>4, <2>1 DEF TextOnRaw
<1>6. task.writers # <<>>
  BY <1>3, <1>4, NoneLeft
<1> DEFINE anew == path \notin present \/ task.overwrite
           file == IF anew THEN <<>>
                   ELSE IF name.format = "jsonl" THEN RepairRaw(disk[path]) ELSE RepairText(disk[path])
           records == IF anew THEN <<>> ELSE kept[path]
<1>7. /\ DOMAIN disk' = Paths /\ DOMAIN kept' = Paths /\ disk'[path] = file /\ kept'[path] = records
      /\ \A p \in Paths : p # path => disk'[p] = disk[p] /\ kept'[p] = kept[p]
  <2>1. DOMAIN disk = Paths /\ DOMAIN kept = Paths
    BY <1>1 DEF FilesType
  <2>2. CASE anew
    <3>1. disk' = [disk EXCEPT ![path] = <<>>] /\ kept' = [kept EXCEPT ![path] = <<>>]
      BY <2>2 DEF Open
    <3> QED BY <1>5, <2>1, <2>2, <3>1
  <2>3. CASE ~anew
    <3>1. disk' = [disk EXCEPT ![path] = file] /\ kept' = kept
      BY <2>3 DEF Open
    <3> QED BY <1>5, <2>1, <2>3, <3>1
  <2> QED BY <2>2, <2>3
<1>8. \A p \in Paths : LastAt(p) = record - 1 /\ LastAt(p)' = record - 1
  BY <1>2 DEF LastAt, Awaits
<1>9. FileSound(path, file, records, record - 1) /\ ~Unended(file)
  <2>1. CASE anew
    BY <1>2, <2>1, EmptySound DEF Unended
  <2>2. CASE ~anew
    <3>1. FileSound(path, disk[path], kept[path], record - 1)
      BY <1>5, <1>8 DEF FilesInv
    <3>2. record - 1 \in Int
      BY <1>2
    <3> HIDE DEF path
    <3> QED BY <1>5, <2>2, <3>1, <3>2, RepairSound
  <2> QED BY <2>1, <2>2
<1> HIDE DEF file, records, path, name
<1>11. FilesType'
  BY <1>1, <1>2, <1>4, <1>5, <1>7 DEF FilesType
<1>12. \A p \in Paths : FileSound(p, disk[p], kept[p], LastAt(p))'
  <2> SUFFICES ASSUME NEW p \in Paths PROVE FileSound(p, disk'[p], kept'[p], LastAt(p)')
    BY DEF FileSound
  <2>1. CASE p = path
    BY <1>8, <1>9, <1>7, <2>1
  <2>2. CASE p # path
    BY <1>8, <1>7, <2>2 DEF FilesInv
  <2> QED BY <2>1, <2>2
<1>13. WritersInv'
  <2>1. opened' \cup Rng(due') = Rng(task.writers) /\ opened' \cap Rng(due') = {}
    BY <1>2, <1>3, <1>4
  <2> QED BY <1>2, <1>3, <1>4, <2>1 DEF WritersInv
<1>14. OwnInv'
  <2> SUFFICES ASSUME NEW m \in opened', NEW p \in Paths, p = m.path[task.title]
               PROVE  /\ ~Unended(disk'[p])
                      /\ task.overwrite => task.from <= LastAt(p)' /\ disk'[p] = Own(LastAt(p))'
    BY <1>1, <1>2 DEF OwnInv, PathOf
  <2>1. CASE m = name
    <3>1. p = path /\ disk'[p] = file
      BY <1>7, <2>1 DEF path
    <3>2. ASSUME task.overwrite PROVE task.from <= LastAt(p)' /\ disk'[p] = Own(LastAt(p))'
      <4>1. file = <<>>
        BY <3>2 DEF file
      <4>2. task.from = record - 1 /\ LastAt(p)' = record - 1 /\ (record - 1) - task.from = 0
        BY <1>2, <1>3, <1>6, <1>8
      <4>3. Own(LastAt(p))' = <<>>
        BY <1>2, <4>2 DEF Own
      <4>4. task.from <= LastAt(p)'
        BY <1>2, <4>2
      <4> QED BY <3>1, <4>1, <4>3, <4>4
    <3> QED BY <1>9, <3>1, <3>2
  <2>2. CASE m # name
    <3>1. m \in opened /\ m \in Rng(task.writers) /\ name \in Rng(task.writers)
      BY <1>2, <1>3, <1>4, <2>2
    <3>2. p # path
      BY <1>3, <2>2, <3>1 DEF Apart, path
    <3>3. disk'[p] = disk[p] /\ LastAt(p)' = LastAt(p)
      BY <1>8, <1>7, <3>2
    <3>4. ~Unended(disk[p]) /\ (task.overwrite => task.from <= LastAt(p) /\ disk[p] = Own(LastAt(p)))
      BY <1>1, <1>2, <3>1 DEF OwnInv, PathOf
    <3> QED BY <1>2, <3>3, <3>4 DEF Own
  <2> QED BY <2>1, <2>2
<1> QED BY <1>11, <1>12, <1>13, <1>14 DEF FilesInv

LEMMA AllOpenStep == ASSUME FilesInv, AllOpen PROVE FilesInv'
<1>1. FilesType /\ WritersInv /\ OwnInv
  BY DEF FilesInv
<1>2. /\ task.pc = "open" /\ due = <<>> /\ record \in Nat /\ due' = task.writers
      /\ task' = [task EXCEPT !.pc = "write"] /\ UNCHANGED <<present, disk, opened, record, kept>>
  BY <1>1 DEF AllOpen, FilesType
<1>3. /\ task'.pc = "write" /\ task'.writers = task.writers /\ task'.title = task.title /\ task'.from = task.from
      /\ task'.verify = task.verify /\ task'.overwrite = task.overwrite
  BY <1>1, <1>2 DEF FilesType
<1>4. /\ opened = Rng(task.writers) /\ Apart(task.writers, task.title) /\ ~TextOnRaw(task.writers, task.title)
      /\ record > 0
  BY <1>1, <1>2, NoneLeft DEF WritersInv
<1>5. FilesType'
  BY <1>1, <1>2 DEF FilesType
<1>6. \A p : LastAt(p) = record - 1
  BY <1>2 DEF LastAt, Awaits
<1>7. \A p \in Paths : FileSound(p, disk[p], kept[p], LastAt(p))'
  <2>1. \A p \in Paths : LastAt(p)' = record \/ LastAt(p)' = record - 1
    BY <1>2 DEF LastAt
  <2>2. \A p \in Paths : LastAt(p) <= LastAt(p)'
    BY <1>2, <1>6, <2>1
  <2> QED BY <1>2, <1>5, <2>2, FilesKept
<1>8. WritersInv'
  BY <1>2, <1>3, <1>4 DEF WritersInv
<1>9. OwnInv'
  <2> SUFFICES ASSUME NEW name \in opened, NEW p \in Paths, p = PathOf(name)
               PROVE  /\ ~Unended(disk[p])
                      /\ task.overwrite => task.from <= LastAt(p)' /\ disk[p] = Own(LastAt(p))'
    BY <1>1, <1>2, <1>3 DEF OwnInv, PathOf
  <2>1. Awaits(p)'
    BY <1>2, <1>3, <1>4 DEF Awaits, PathOf
  <2>2. LastAt(p)' = record - 1 /\ LastAt(p) = record - 1
    BY <1>2, <1>6, <2>1 DEF LastAt
  <2> QED BY <1>1, <1>2, <1>3, <2>2 DEF OwnInv, Own
<1> QED BY <1>5, <1>7, <1>8, <1>9 DEF FilesInv

LEMMA RecordDoneStep == ASSUME FilesInv, RecordDone PROVE FilesInv'
<1>1. FilesType /\ WritersInv /\ OwnInv
  BY DEF FilesInv
<1>2. /\ task.pc = "write" /\ due = <<>> /\ record \in Nat
      /\ task' = [task EXCEPT !.pc = "ready"] /\ UNCHANGED <<present, disk, opened, record, due, kept>>
  BY <1>1 DEF RecordDone, FilesType
<1>3. /\ task'.pc = "ready" /\ task'.writers = task.writers /\ task'.title = task.title /\ task'.from = task.from
      /\ task'.verify = task.verify /\ task'.overwrite = task.overwrite
  BY <1>1, <1>2 DEF FilesType
<1>4. opened = Rng(task.writers) /\ Apart(task.writers, task.title) /\ ~TextOnRaw(task.writers, task.title)
  BY <1>1, <1>2 DEF WritersInv
<1>5. FilesType'
  BY <1>1, <1>2 DEF FilesType
<1>6. \A p : LastAt(p) = record /\ LastAt(p)' = record
  <2>1. Rng(due) = {}
    BY <1>2, NoneLeft
  <2> QED BY <1>2, <1>3, <2>1 DEF LastAt, Awaits
<1>7. \A p \in Paths : FileSound(p, disk[p], kept[p], LastAt(p))'
  <2>1. \A p \in Paths : LastAt(p) <= LastAt(p)'
    BY <1>2, <1>6
  <2> QED BY <1>2, <1>5, <2>1, FilesKept
<1>8. WritersInv'
  <2>1. task.writers \in Seq(Names)
    BY <1>1 DEF FilesType
  <2>2. opened = {} => task.writers = <<>>
    BY <1>4, <2>1, NoneLeft
  <2> QED BY <1>2, <1>3, <1>4, <2>2 DEF WritersInv
<1>9. OwnInv'
  <2> SUFFICES ASSUME NEW name \in opened, NEW p \in Paths, p = PathOf(name)
               PROVE  /\ ~Unended(disk[p])
                      /\ task.overwrite => task.from <= LastAt(p)' /\ disk[p] = Own(LastAt(p))'
    BY <1>1, <1>2, <1>3 DEF OwnInv, PathOf
  <2> QED BY <1>1, <1>2, <1>3, <1>6 DEF OwnInv, Own
<1> QED BY <1>5, <1>7, <1>8, <1>9 DEF FilesInv

\* A line of the record in hand, or what a kill left of it, after the lines of a file.
LEMMA PutSound ==
    ASSUME FilesInv, task.pc = "write", due # <<>>, NEW line \in FileLine,
           line.of = record \/ (line.of = Broken /\ ~line.ended),
           Put(Head(due).path[task.title], line)
    PROVE  LET path == Head(due).path[task.title] IN
           /\ Head(due) \in opened /\ path \in Paths /\ LastAt(path) = record - 1
           /\ DOMAIN disk' = Paths /\ DOMAIN kept' = Paths
           /\ disk'[path] = Append(disk[path], line) /\ (Unended(disk'[path]) <=> ~line.ended)
           /\ FileSound(path, disk'[path], kept'[path], record)
           /\ \A p \in Paths : p # path => disk'[p] = disk[p] /\ kept'[p] = kept[p]
<1> DEFINE path == Head(due).path[task.title]
           records == IF line.of = Broken THEN kept[path] ELSE Append(kept[path], line.of)
<1>1. FilesType /\ WritersInv /\ OwnInv
  BY DEF FilesInv
<1>2. due \in Seq(Names) /\ record \in Nat /\ task.title \in Titles /\ DOMAIN disk = Paths /\ DOMAIN kept = Paths
  BY <1>1 DEF FilesType
<1>3. Head(due) \in Names /\ Head(due) \in Rng(due) /\ Head(due) \in opened
  BY <1>1, <1>2, Tails DEF WritersInv
<1>4. path \in Paths
  BY <1>2, <1>3 DEF Paths
<1>5. LastAt(path) = record - 1
  BY <1>3 DEF LastAt, Awaits, PathOf
<1>6. ~Unended(disk[path])
  BY <1>1, <1>3, <1>4 DEF OwnInv, PathOf
<1>7. disk' = [disk EXCEPT ![path] = Append(disk[path], line)]
  BY <1>6 DEF Put, Written
<1>8. /\ DOMAIN kept' = Paths /\ kept'[path] = records
      /\ \A p \in Paths : p # path => kept'[p] = kept[p]
  <2>1. CASE line.of = Broken
    BY <1>2, <2>1 DEF Put
  <2>2. CASE line.of # Broken
    <3>1. kept' = [kept EXCEPT ![path] = Append(kept[path], line.of)]
      BY <2>2 DEF Put
    <3> QED BY <1>2, <1>4, <2>2, <3>1
  <2> QED BY <2>1, <2>2
<1>9. FileSound(path, disk[path], kept[path], record - 1)
  BY <1>4, <1>5 DEF FilesInv
<1> HIDE DEF path, records
<1>10. /\ DOMAIN disk' = Paths /\ DOMAIN kept' = Paths
       /\ disk'[path] = Append(disk[path], line) /\ kept'[path] = records
       /\ \A p \in Paths : p # path => disk'[p] = disk[p] /\ kept'[p] = kept[p]
  BY <1>2, <1>4, <1>7, <1>8
<1>11. \A k \in DOMAIN disk[path] : disk[path][k].ended
  BY <1>6, <1>9, AllEnded
<1>12. record - 1 \in Int /\ record \in Int /\ record - 1 <= record /\ record - 1 < record /\ record # Broken
  BY <1>2 DEF Broken
<1>13. /\ line.of # Broken => record - 1 < line.of /\ line.of <= record
       /\ line.of = Broken => ~line.ended
  BY <1>12
<1>14. FileSound(path, Append(disk[path], line),
                 IF line.of = Broken THEN kept[path] ELSE Append(kept[path], line.of), record)
  BY <1>9, <1>11, <1>12, <1>13, LineSound
<1>15. FileSound(path, disk'[path], kept'[path], record)
  BY <1>10, <1>14 DEF records
<1>16. Unended(disk'[path]) <=> ~line.ended
  <2>1. disk[path] \in Seq(FileLine)
    BY <1>9 DEF FileSound
  <2> QED BY <1>10, <2>1, EndedAfter
<1> QED BY <1>3, <1>4, <1>5, <1>10, <1>15, <1>16 DEF path

LEMMA OneMore ==
    ASSUME NEW f \in Nat, NEW r \in Nat, f <= r - 1,
           NEW file, file = [k \in 1..((r - 1) - f) |-> [of |-> f + k, ended |-> TRUE]]
    PROVE  Append(file, [of |-> r, ended |-> TRUE]) = [k \in 1..(r - f) |-> [of |-> f + k, ended |-> TRUE]]
<1> DEFINE n == (r - 1) - f
           line == [of |-> r, ended |-> TRUE]
           whole == [k \in 1..(n + 1) |-> [of |-> f + k, ended |-> TRUE]]
<1>1. n \in Nat /\ n + 1 = r - f /\ f + (n + 1) = r
  OBVIOUS
<1>2. file = [k \in 1..n |-> [of |-> f + k, ended |-> TRUE]]
  OBVIOUS
<1> HIDE DEF n
<1>3. file \in Seq([of : Int, ended : BOOLEAN]) /\ Len(file) = n /\ line \in [of : Int, ended : BOOLEAN]
  BY <1>1, <1>2
<1>4. whole \in Seq([of : Int, ended : BOOLEAN]) /\ Len(whole) = n + 1
  BY <1>1
<1> DEFINE longer == Append(file, line)
<1>5. longer \in Seq([of : Int, ended : BOOLEAN]) /\ Len(longer) = n + 1
  BY <1>1, <1>3
<1>6. ASSUME NEW k \in 1..(n + 1) PROVE longer[k] = whole[k]
  <2>1. CASE k = n + 1
    <3>1. longer[k] = line
      BY <1>1, <1>3, <2>1
    <3>2. whole[k] = [of |-> f + (n + 1), ended |-> TRUE]
      BY <1>1, <2>1
    <3> QED BY <1>1, <3>1, <3>2
  <2>2. CASE k # n + 1
    <3>1. k \in 1..n
      BY <1>1, <2>2
    <3>2. longer[k] = file[k]
      BY <1>1, <1>3, <3>1
    <3> QED BY <1>2, <3>1, <3>2
  <2> QED BY <2>1, <2>2
<1> HIDE DEF longer, whole
<1>7. longer = whole
  BY <1>1, <1>4, <1>5, <1>6
<1> QED BY <1>1, <1>7 DEF longer, whole

LEMMA WriteStep == ASSUME FilesInv, Write PROVE FilesInv'
<1> DEFINE name == Head(due)
           path == name.path[task.title]
           line == [of |-> record, ended |-> TRUE]
<1>1. FilesType /\ WritersInv /\ OwnInv
  BY DEF FilesInv
<1>2. /\ task.pc = "write" /\ due # <<>> /\ due \in Seq(Names) /\ record \in Nat /\ task.title \in Titles
      /\ due' = Tail(due) /\ UNCHANGED <<present, task, opened, record>> /\ Put(path, line)
  BY <1>1 DEF Write, FilesType
<1>3. line \in FileLine /\ line.of = record /\ line.ended
  BY <1>2 DEF FileLine
<1>4. /\ Apart(task.writers, task.title) /\ ~TextOnRaw(task.writers, task.title) /\ Apart(due, task.title)
      /\ Rng(due) \subseteq opened /\ opened = Rng(task.writers) /\ record > 0
  BY <1>1, <1>2 DEF WritersInv
<1>5. /\ name \in Names /\ name \in Rng(due) /\ Tail(due) \in Seq(Names)
      /\ Rng(Tail(due)) = Rng(due) \ {name} /\ Apart(Tail(due), task.title)
  BY <1>2, <1>4, Tails
<1> HIDE DEF line
<1>6. /\ name \in opened /\ path \in Paths /\ LastAt(path) = record - 1
      /\ DOMAIN disk' = Paths /\ DOMAIN kept' = Paths
      /\ disk'[path] = Append(disk[path], line) /\ ~Unended(disk'[path])
      /\ FileSound(path, disk'[path], kept'[path], record)
      /\ \A p \in Paths : p # path => disk'[p] = disk[p] /\ kept'[p] = kept[p]
  BY <1>2, <1>3, PutSound
<1>7. \A p \in Paths : LastAt(p)' = IF p = path THEN record ELSE LastAt(p)
  <2> SUFFICES ASSUME NEW p \in Paths PROVE LastAt(p)' = IF p = path THEN record ELSE LastAt(p)
    OBVIOUS
  <2>1. Awaits(p)' <=> \E n \in Rng(due) \ {name} : n.path[task.title] = p
    BY <1>2, <1>5 DEF Awaits, PathOf
  <2>2. Awaits(p) <=> \E n \in Rng(due) : n.path[task.title] = p
    BY <1>2 DEF Awaits, PathOf
  <2>3. CASE p = path
    <3>1. ~Awaits(p)'
      BY <1>4, <1>5, <2>1, <2>3 DEF Apart
    <3> QED BY <1>2, <2>3, <3>1 DEF LastAt
  <2>4. CASE p # path
    <3>1. Awaits(p)' <=> Awaits(p)
      BY <2>1, <2>2, <2>4
    <3> QED BY <1>2, <2>4, <3>1 DEF LastAt
  <2> QED BY <2>3, <2>4
<1>8. FilesType'
  BY <1>1, <1>2, <1>5, <1>6 DEF FilesType
<1>9. \A p \in Paths : FileSound(p, disk[p], kept[p], LastAt(p))'
  <2> SUFFICES ASSUME NEW p \in Paths PROVE FileSound(p, disk'[p], kept'[p], LastAt(p)')
    BY DEF FileSound
  <2> HIDE DEF path
  <2>1. CASE p = path
    BY <1>6, <1>7, <2>1
  <2>2. CASE p # path
    BY <1>6, <1>7, <2>2 DEF FilesInv
  <2> QED BY <2>1, <2>2
<1>10. WritersInv'
  <2>1. Rng(due') \subseteq opened'
    BY <1>2, <1>4, <1>5
  <2> QED BY <1>2, <1>4, <1>5, <2>1 DEF WritersInv
<1>11. OwnInv'
  <2> SUFFICES ASSUME NEW m \in opened, NEW p \in Paths, p = m.path[task.title]
               PROVE  /\ ~Unended(disk'[p])
                      /\ task.overwrite => task.from <= LastAt(p)' /\ disk'[p] = Own(LastAt(p))'
    BY <1>1, <1>2 DEF OwnInv, PathOf
  <2>1. ~Unended(disk[p]) /\ (task.overwrite => task.from <= LastAt(p) /\ disk[p] = Own(LastAt(p)))
    BY <1>1, <1>2 DEF OwnInv, PathOf
  <2>2. CASE m = name
    <3>1. p = path
      BY <2>2
    <3>2. ASSUME task.overwrite PROVE task.from <= LastAt(p)' /\ disk'[p] = Own(LastAt(p))'
      <4> DEFINE f == task.from
      <4>1. f \in Nat /\ f <= record - 1 /\ disk[path] = [k \in 1..((record - 1) - f) |-> [of |-> f + k, ended |-> TRUE]]
        BY <1>1, <1>6, <2>1, <3>1, <3>2 DEF Own, FilesType
      <4>2. Own(LastAt(p))' = [k \in 1..(record - f) |-> [of |-> f + k, ended |-> TRUE]]
        <5>1. LastAt(p)' = record
          BY <1>6, <1>7, <3>1
        <5> QED BY <1>2, <5>1 DEF Own
      <4>3. disk'[path] = Append(disk[path], [of |-> record, ended |-> TRUE])
        BY <1>6 DEF line
      <4>6. LastAt(p)' = record
        BY <1>6, <1>7, <3>1
      <4> HIDE DEF path, f
      <4>4. Append(disk[path], [of |-> record, ended |-> TRUE]) =
              [k \in 1..(record - f) |-> [of |-> f + k, ended |-> TRUE]]
        BY <1>2, <4>1, OneMore
      <4>5. f <= LastAt(p)'
        BY <1>2, <4>1, <4>6
      <4> QED BY <3>1, <4>2, <4>3, <4>4, <4>5 DEF f
    <3> QED BY <1>6, <3>1, <3>2
  <2>3. CASE m # name
    <3>1. p # path
      BY <1>4, <1>6, <2>3 DEF Apart
    <3>2. disk'[p] = disk[p] /\ LastAt(p)' = LastAt(p)
      BY <1>6, <1>7, <3>1
    <3> QED BY <1>2, <2>1, <3>2 DEF Own
  <2> QED BY <2>2, <2>3
<1> QED BY <1>8, <1>9, <1>10, <1>11 DEF FilesInv

LEMMA WriteStopsStep ==
    ASSUME FilesInv, NEW outcome \in {"failed", "killed"}, WriteStops(outcome)
    PROVE  FilesInv'
<1> DEFINE path == Head(due).path[task.title]
<1>1. FilesType /\ WritersInv /\ OwnInv
  BY DEF FilesInv
<1>2. /\ task.pc = "write" /\ due # <<>> /\ record \in Nat
      /\ task' = [task EXCEPT !.pc = "down", !.outcome = outcome]
      /\ UNCHANGED <<present, opened, record, due>>
  BY <1>1 DEF WriteStops, FilesType, End
<1>3. PICK line \in {[of |-> Broken, ended |-> FALSE]} \cup [of : {record}, ended : BOOLEAN] : Put(path, line)
  BY DEF WriteStops
<1>4. line \in FileLine /\ (line.of = record \/ (line.of = Broken /\ ~line.ended))
  <2>1. CASE line = [of |-> Broken, ended |-> FALSE]
    BY <2>1 DEF FileLine, Broken
  <2>2. CASE line \in [of : {record}, ended : BOOLEAN]
    BY <1>2, <2>2 DEF FileLine
  <2> QED BY <1>3, <2>1, <2>2
<1>5. /\ DOMAIN disk' = Paths /\ DOMAIN kept' = Paths
      /\ FileSound(path, disk'[path], kept'[path], record)
      /\ \A p \in Paths : p # path => disk'[p] = disk[p] /\ kept'[p] = kept[p]
  BY <1>2, <1>3, <1>4, PutSound
<1> HIDE DEF path
<1>6. /\ task'.pc = "down" /\ task'.outcome = outcome /\ task'.title = task.title
      /\ task'.verify = task.verify /\ task'.overwrite = task.overwrite
  BY <1>1, <1>2 DEF FilesType
<1>7. FilesType'
  <2>1. task' \in [pc : {"down", "ready", "open", "write"}, outcome : {"none", "refused", "failed", "killed", "success"},
                   writers : Seq(Names), overwrite : BOOLEAN, verify : BOOLEAN, title : Titles \cup {"none"},
                   from : Nat, runs : Nat]
    BY <1>1, <1>2 DEF FilesType
  <2>2. opened # {} => task'.title \in Titles
    BY <1>1, <1>6 DEF FilesType
  <2> QED BY <1>1, <1>2, <1>5, <1>6, <2>1, <2>2 DEF FilesType
<1>8. \A p \in Paths : FileSound(p, disk[p], kept[p], LastAt(p))'
  <2> SUFFICES ASSUME NEW p \in Paths PROVE FileSound(p, disk'[p], kept'[p], LastAt(p)')
    BY DEF FileSound
  <2>1. LastAt(p)' = record
    BY <1>2, <1>6 DEF LastAt, Awaits
  <2>2. CASE p = path
    BY <1>5, <2>1, <2>2
  <2>3. CASE p # path
    <3>1. FileSound(p, disk[p], kept[p], LastAt(p))
      BY DEF FilesInv
    <3>2. LastAt(p) \in Int /\ record \in Int /\ LastAt(p) <= record
      BY <1>2 DEF LastAt
    <3>3. FileSound(p, disk[p], kept[p], record)
      BY <3>1, <3>2, LaterSound
    <3> QED BY <1>5, <2>1, <2>3, <3>3
  <2> QED BY <2>2, <2>3
<1>9. WritersInv'
  BY <1>6 DEF WritersInv
<1>10. OwnInv'
  BY <1>1, <1>6 DEF OwnInv
<1> QED BY <1>7, <1>8, <1>9, <1>10 DEF FilesInv

LEMMA FilesStep == ASSUME FilesInv, FilesNext PROVE FilesInv'
<1>1. ASSUME NEW names \in OutputLists, NEW overwrite \in BOOLEAN, NEW verify \in BOOLEAN,
             NEW pending \in BOOLEAN, NEW title \in Titles,
             StartRun(names, overwrite, verify, title, pending)
      PROVE  FilesInv'
  BY <1>1, StartRunStep
<1>2. CASE FirstRecord
  BY <1>2, FirstRecordStep
<1>3. CASE NextRecord
  BY <1>3, NextRecordStep
<1>4. CASE Open
  BY <1>4, OpenStep
<1>5. CASE AllOpen
  BY <1>5, AllOpenStep
<1>6. CASE OpenRefused
  BY <1>6, RunEnds DEF OpenRefused
<1>7. CASE Write
  BY <1>7, WriteStep
<1>8. CASE RecordDone
  BY <1>8, RecordDoneStep
<1>9. ASSUME NEW outcome \in {"killed", "failed"}, WriteStops(outcome) PROVE FilesInv'
  BY <1>9, WriteStopsStep
<1>10. CASE Kill
  BY <1>10, RunEnds DEF Kill
<1>11. CASE FinishRun
  <2>1. \E outcome \in {"failed", "success"} : End(outcome)
    BY <1>11 DEF FinishRun
  <2>2. task.pc = "ready" /\ UNCHANGED <<present, opened, record, due>> /\ UNCHANGED <<disk, kept>>
    BY <1>11 DEF FinishRun
  <2> QED BY <2>1, <2>2, RunEnds
<1> QED BY <1>1, <1>2, <1>3, <1>4, <1>5, <1>6, <1>7, <1>8, <1>9, <1>10, <1>11 DEF FilesNext

LEMMA FilesInvSound == FilesInv => OutputsSound
<1> SUFFICES ASSUME FilesInv PROVE OutputsSound
  OBVIOUS
<1>1. AppendKeepsRecords
  BY DEF FilesInv, FileSound, AppendKeepsRecords
<1>2. OwnRecords
  <2> SUFFICES ASSUME task.pc = "down", task.outcome = "success", task.overwrite \/ task.verify, NEW name \in opened
               PROVE  disk[name.path[task.title]] =
                        [k \in 1..(record - task.from) |-> [of |-> task.from + k, ended |-> TRUE]]
    BY DEF OwnRecords
  <2>1. name.path[task.title] \in Paths
    BY DEF FilesInv, FilesType, Paths
  <2>2. task.overwrite
    BY DEF FilesInv, OwnInv
  <2>3. LastAt(name.path[task.title]) = record
    BY DEF LastAt, Awaits
  <2> QED BY <2>1, <2>2, <2>3 DEF FilesInv, OwnInv, PathOf, Own
<1> QED BY <1>1, <1>2 DEF OutputsSound

\* Over any runs that append or replace, whatever names turn out to be one file, are killed
\* or fail inside a line: no file loses, doubles or mixes a record that was put there, and
\* a run that succeeds with new files leaves the same records, its own, in each
\* (writers.py:27-94, continuous_write.py:131-152, output_dispatch.py:126-159).
THEOREM FilesAreSound == FilesSpec => []OutputsSound
<1>1. FilesInit => FilesInv
  BY FilesStart
<1>2. FilesInv /\ [FilesNext]_diskVars => FilesInv'
  <2> SUFFICES ASSUME FilesInv, [FilesNext]_diskVars PROVE FilesInv'
    OBVIOUS
  <2>1. CASE FilesNext
    BY <2>1, FilesStep
  <2>2. CASE UNCHANGED diskVars
    <3>1. UNCHANGED <<present, disk, task, opened, record, due, kept>>
      BY <2>2 DEF diskVars
    <3>2. FilesType' /\ WritersInv'
      BY <3>1 DEF FilesInv, FilesType, WritersInv
    <3>3. \A p : LastAt(p)' = LastAt(p)
      BY <3>1 DEF LastAt, Awaits, PathOf
    <3>4. \A p \in Paths : FileSound(p, disk[p], kept[p], LastAt(p))'
      BY <3>1, <3>3 DEF FilesInv, FileSound
    <3>5. OwnInv'
      BY <3>1, <3>3 DEF FilesInv, OwnInv, PathOf, Own
    <3> QED BY <3>2, <3>4, <3>5 DEF FilesInv
  <2> QED BY <2>1, <2>2
<1>3. FilesInv => OutputsSound
  BY FilesInvSound
<1> QED BY <1>1, <1>2, <1>3, PTL DEF FilesSpec

-----------------------------------------------------------------------------
(* CaptureAudit.                                                           *)

AuditLine == [of : Nat \cup {Unreadable}, end : {"lf", "crlf", "none"}]

\* What Shown says of a line, for any function in its place.
ShownRule(f, n, raw, resets) ==
    \/ raw[n].of = 0
    \/ \A m \in Segment(n, resets) \ {n} :
         raw[m].of = raw[n].of /\ f[m] => Cardinality({k \in (m + 1)..(n - 1) : raw[k].of > 0 /\ f[k]}) >= SeenEvents

\* The rule for a line only looks at lines before it.
LEMMA RuleLooksBack ==
    ASSUME NEW raw, NEW resets, NEW n \in Nat, NEW f, NEW g, \A m \in 1..(n - 1) : f[m] = g[m]
    PROVE  ShownRule(f, n, raw, resets) = ShownRule(g, n, raw, resets)
<1>1. ASSUME NEW m \in Segment(n, resets) \ {n}
      PROVE  /\ f[m] = g[m]
             /\ {k \in (m + 1)..(n - 1) : raw[k].of > 0 /\ f[k]} = {k \in (m + 1)..(n - 1) : raw[k].of > 0 /\ g[k]}
  <2>1. m \in 1..n /\ m # n
    BY DEF Segment
  <2>2. m \in 1..(n - 1) /\ (m + 1)..(n - 1) \subseteq 1..(n - 1)
    BY <2>1
  <2> QED BY <2>2
<1> QED BY <1>1 DEF ShownRule

\* The recursive definition of Shown is what it says, line by line.
LEMMA ShownObeys ==
    ASSUME NEW raw \in Seq(AuditLine), NEW resets
    PROVE  /\ Shown(raw, resets) \in [1..Len(raw) -> BOOLEAN]
           /\ \A n \in 1..Len(raw) : Shown(raw, resets)[n] <=> ShownRule(Shown(raw, resets), n, raw, resets)
<1> DEFINE Eq(f, n) == f = [i \in 1..n |-> ShownRule(f, i, raw, resets)]
           has == {n \in Nat : \E f : Eq(f, n)}
           N == Len(raw)
<1>0. N \in Nat /\ DOMAIN raw = 1..N
  OBVIOUS
<1>1. 0 \in has
  <2>1. 1..0 = {}
    OBVIOUS
  <2>2. Eq([i \in {} |-> 0], 0)
    BY <2>1
  <2> QED BY <2>2
<1>2. ASSUME NEW n \in Nat, n \in has PROVE n + 1 \in has
  <2>1. PICK f : Eq(f, n)
    BY <1>2
  <2> DEFINE g == [i \in 1..(n + 1) |-> IF i = n + 1 THEN ShownRule(f, n + 1, raw, resets) ELSE f[i]]
  <2>2. \A i \in 1..n : g[i] = f[i] /\ i \in 1..(n + 1)
    OBVIOUS
  <2>3. g[n + 1] = ShownRule(f, n + 1, raw, resets)
    OBVIOUS
  <2>4. \A i \in 1..n : f[i] = ShownRule(f, i, raw, resets)
    <3> HIDE DEF g
    <3> QED BY <2>1
  <2>5. DOMAIN g = 1..(n + 1) /\ g = [i \in DOMAIN g |-> g[i]]
    OBVIOUS
  <2> HIDE DEF g
  <2>6. ASSUME NEW i \in 1..(n + 1) PROVE g[i] = ShownRule(g, i, raw, resets)
    <3>1. i \in Nat /\ \A m \in 1..(i - 1) : m \in 1..n
      OBVIOUS
    <3>2. ShownRule(f, i, raw, resets) = ShownRule(g, i, raw, resets)
      BY <2>2, <3>1, RuleLooksBack
    <3>3. CASE i = n + 1
      BY <2>3, <3>2, <3>3
    <3>4. CASE i \in 1..n
      BY <2>2, <2>4, <3>2, <3>4
    <3> QED BY <3>3, <3>4
  <2>7. Eq(g, n + 1)
    BY <2>5, <2>6
  <2> HIDE DEF Eq
  <2>8. n + 1 \in Nat /\ \E f_1 : Eq(f_1, n + 1)
    BY <2>7
  <2> QED BY <2>8
<1>3. N \in has
  <2> HIDE DEF has
  <2>1. has \in SUBSET Nat
    BY DEF has
  <2>2. has = Nat
    BY <1>1, <1>2, <2>1, NatInduct
  <2> QED BY <1>0, <2>2
<1>4. \E f : Eq(f, N)
  BY <1>3
<1> DEFINE S == CHOOSE f : Eq(f, N)
<1>5. Eq(S, N)
  BY <1>4
<1>6. Shown(raw, resets) = S
  BY <1>0 DEF Shown, ShownRule
<1> HIDE DEF S
<1>7. \A n \in 1..N : S[n] = ShownRule(S, n, raw, resets)
  BY <1>5
<1>8. \A n \in 1..N : ShownRule(S, n, raw, resets) \in BOOLEAN
  BY DEF ShownRule
<1>9. S = [n \in 1..N |-> ShownRule(S, n, raw, resets)]
  BY <1>5
<1>10. S \in [1..N -> BOOLEAN]
  BY <1>8, <1>9
<1> QED BY <1>6, <1>7, <1>10

-----------------------------------------------------------------------------
(* The bounded cache of the events that were shown.                        *)

\* The cache holds the last of the shown paid events of a set of lines.
Cached(pos, seen, S, raw, sh) ==
    /\ pos \in [1..Len(seen) -> S]
    /\ \A k \in 1..Len(seen) : seen[k] = raw[pos[k]].of /\ raw[pos[k]].of > 0 /\ sh[pos[k]]
    /\ \A k, l \in 1..Len(seen) : k < l => pos[k] < pos[l]
    /\ \A m \in S : raw[m].of > 0 /\ sh[m] =>
         \/ \E k \in 1..Len(seen) : pos[k] = m
         \/ Len(seen) >= SeenEvents /\ \A k \in 1..Len(seen) : m < pos[k]

LastSeen(seen, S, raw, sh) == \E pos : Cached(pos, seen, S, raw, sh)

\* What is mapped one to one keeps its number.
LEMMA ImageCardinality ==
    ASSUME NEW S, IsFiniteSet(S), NEW f, \A x, y \in S : f[x] = f[y] => x = y
    PROVE  IsFiniteSet({f[x] : x \in S}) /\ Cardinality({f[x] : x \in S}) = Cardinality(S)
<1> DEFINE T == {f[x] : x \in S}
           g == [x \in S |-> f[x]]
<1>1. g \in Bijection(S, T)
  <2>1. g \in [S -> T] /\ (\A t \in T : \E x \in S : g[x] = t) /\ \A x, y \in S : g[x] = g[y] => x = y
    OBVIOUS
  <2> HIDE DEF g, T
  <2> QED BY <2>1 DEF Bijection, Injection, Surjection, IsInjective
<1>2. ExistsBijection(S, T)
  BY <1>1 DEF ExistsBijection
<1> HIDE DEF T, g
<1>3. IsFiniteSet(T) /\ Cardinality(T) = Cardinality(S)
  BY <1>2, FS_Bijection
<1> QED BY <1>3 DEF T

\* A paid line is shown exactly if its event is not in the cache.
LEMMA ShownUnlessCached ==
    ASSUME NEW raw \in Seq(AuditLine), NEW n \in 1..Len(raw), raw[n].of > 0, NEW resets \in Seq(Nat), NEW sh, NEW seen \in Seq(Nat),
           LastSeen(seen, Segment(n, resets) \ {n}, raw, sh), Len(seen) <= SeenEvents, SeenEvents \in Nat
    PROVE  ShownRule(sh, n, raw, resets) <=> ~Known(seen, raw[n].of)
<1> DEFINE S == Segment(n, resets) \ {n}
           L == Len(seen)
           Later(m) == {k \in (m + 1)..(n - 1) : raw[k].of > 0 /\ sh[k]}
<1>1. PICK pos : Cached(pos, seen, S, raw, sh)
  BY DEF LastSeen
<1>2. L \in Nat /\ n \in Nat /\ raw[n].of # 0 /\ raw[n] \in AuditLine
  <2>1. raw[n] \in AuditLine /\ n \in Nat /\ L \in Nat
    OBVIOUS
  <2>2. raw[n].of \in Int
    BY <2>1 DEF AuditLine, Unreadable
  <2> QED BY <2>1, <2>2
\* The lines around which nothing was reset reach up to this one.
<1>3. S \subseteq 1..(n - 1) /\ \A m \in S : \A k \in (m + 1)..(n - 1) : k \in S
  <2>1. \A m \in Segment(n, resets) : m \in 1..n
    BY DEF Segment
  <2>2. S \subseteq 1..(n - 1)
    BY <1>2, <2>1
  <2>3. ASSUME NEW m \in S, NEW k \in (m + 1)..(n - 1) PROVE k \in S
    <3>1. k \in 1..n /\ k # n /\ k > m /\ m \in Nat /\ k \in Nat
      BY <1>2, <2>2
    <3>2. ~\E i \in DOMAIN resets : m < resets[i] /\ resets[i] <= n
      BY DEF Segment
    <3>3. ~\E i \in DOMAIN resets : k < resets[i] /\ resets[i] <= n
      <4>1. \A i \in DOMAIN resets : resets[i] \in Nat
        OBVIOUS
      <4> QED BY <3>1, <3>2, <4>1
    <3> QED BY <3>1, <3>3 DEF Segment
  <2> QED BY <2>2, <2>3
<1>4. \A k \in 1..L : pos[k] \in S /\ pos[k] \in 1..(n - 1)
  BY <1>1, <1>3 DEF Cached
<1>5. \A k, l \in 1..L : pos[k] = pos[l] => k = l
  <2> SUFFICES ASSUME NEW k \in 1..L, NEW l \in 1..L, pos[k] = pos[l], k # l PROVE FALSE
    OBVIOUS
  <2>1. pos[k] \in Int /\ pos[l] \in Int
    BY <1>2, <1>4
  <2>2. k < l \/ l < k
    BY <1>2
  <2>3. pos[k] < pos[l] \/ pos[l] < pos[k]
    BY <1>1, <2>2 DEF Cached
  <2> QED BY <2>1, <2>3
<1>6. ShownRule(sh, n, raw, resets) <=>
        \A m \in S : raw[m].of = raw[n].of /\ sh[m] => Cardinality(Later(m)) >= SeenEvents
  BY <1>2 DEF ShownRule
<1> HIDE DEF S, L, Later
<1>7. ASSUME NEW a \in Int, NEW b \in Int
      PROVE  IsFiniteSet(a..b) /\ Cardinality(a..b) \in Nat /\ (a <= b + 1 => Cardinality(a..b) = b + 1 - a)
  <2>1. IsFiniteSet(a..b) /\ Cardinality(a..b) = IF a > b THEN 0 ELSE b - a + 1
    BY FS_Interval
  <2> QED BY <2>1
<1>8. CASE Known(seen, raw[n].of)
  <2>1. PICK k \in 1..L : seen[k] = raw[n].of
    BY <1>8 DEF Known, L
  <2> DEFINE m == pos[k]
  <2>2. m \in S /\ raw[m].of = raw[n].of /\ sh[m] /\ m \in 1..(n - 1)
    BY <1>1, <1>4, <2>1 DEF Cached, L
  <2>3. ASSUME NEW j \in Later(m) PROVE \E l \in (k + 1)..L : pos[l] = j
    <3>1. j \in (m + 1)..(n - 1) /\ raw[j].of > 0 /\ sh[j]
      BY DEF Later
    <3>2. j \in S /\ j > m /\ j \in Int /\ m \in Int
      BY <1>2, <1>3, <2>2, <3>1
    <3>3. ~(j < pos[k])
      BY <3>2
    <3>4. PICK l \in 1..L : pos[l] = j
      BY <1>1, <2>1, <3>1, <3>2, <3>3 DEF Cached, L
    <3>5. ~(l < k) /\ l # k
      BY <1>1, <2>1, <3>2, <3>4 DEF Cached, L
    <3>6. l \in (k + 1)..L
      BY <1>2, <2>1, <3>4, <3>5
    <3> QED BY <3>4, <3>6
  <2> HIDE DEF m
  <2> DEFINE R == (k + 1)..L
             img == {pos[l] : l \in R}
  <2>4. IsFiniteSet(R) /\ Cardinality(R) = L - k
    <3>1. k + 1 \in Int /\ L \in Int /\ k + 1 <= L + 1 /\ L + 1 - (k + 1) = L - k
      BY <1>2, <2>1
    <3> QED BY <1>7, <3>1
  <2>5. IsFiniteSet(img) /\ Cardinality(img) = L - k
    <3>1. \A x, y \in R : pos[x] = pos[y] => x = y
      BY <1>2, <1>5, <2>1
    <3> HIDE DEF R
    <3> QED BY <2>4, <3>1, ImageCardinality
  <2>6. Later(m) \in SUBSET img
    BY <2>3
  <2> HIDE DEF img
  <2>7. Cardinality(Later(m)) <= L - k /\ Cardinality(Later(m)) \in Nat
    BY <2>5, <2>6, FS_Subset, FS_CardinalityType
  <2>8. ~(Cardinality(Later(m)) >= SeenEvents)
    BY <1>2, <2>1, <2>7 DEF L
  <2> QED BY <1>6, <1>8, <2>2, <2>8
<1>9. CASE ~Known(seen, raw[n].of)
  <2> SUFFICES ASSUME NEW m \in S, raw[m].of = raw[n].of, sh[m] PROVE Cardinality(Later(m)) >= SeenEvents
    BY <1>6, <1>9
  <2>1. m \in 1..(n - 1) /\ raw[m].of > 0
    BY <1>3
  <2>2. ~\E k \in 1..L : pos[k] = m
    <3>1. DOMAIN seen = 1..L
      BY DEF L
    <3>2. \A k \in 1..L : seen[k] # raw[n].of /\ seen[k] = raw[pos[k]].of
      BY <1>1, <1>9, <3>1 DEF Cached, Known, L
    <3> QED BY <3>2
  <2>3. L >= SeenEvents /\ \A k \in 1..L : m < pos[k]
    BY <1>1, <2>1, <2>2 DEF Cached, L
  <2> DEFINE R == 1..L
             img == {pos[l] : l \in R}
  <2>4. IsFiniteSet(R) /\ Cardinality(R) = L
    <3>1. 1 \in Int /\ L \in Int /\ 1 <= L + 1 /\ L + 1 - 1 = L
      BY <1>2
    <3> QED BY <1>7, <3>1
  <2>5. IsFiniteSet(img) /\ Cardinality(img) = L
    <3> HIDE DEF R
    <3>1. \A x, y \in R : pos[x] = pos[y] => x = y
      BY <1>5 DEF R
    <3> QED BY <2>4, <3>1, ImageCardinality
  <2>6. img \in SUBSET Later(m)
    <3> SUFFICES ASSUME NEW l \in 1..L PROVE pos[l] \in Later(m)
      OBVIOUS
    <3>1. pos[l] \in (m + 1)..(n - 1)
      BY <1>2, <1>4, <2>1, <2>3
    <3> QED BY <1>1, <3>1 DEF Cached, L, Later
  <2>7. IsFiniteSet(Later(m))
    <3>1. IsFiniteSet((m + 1)..(n - 1))
      BY <1>2, <1>7, <2>1
    <3>2. Later(m) \in SUBSET ((m + 1)..(n - 1))
      BY DEF Later
    <3> QED BY <3>1, <3>2, FS_Subset
  <2> HIDE DEF img
  <2>8. L <= Cardinality(Later(m)) /\ Cardinality(Later(m)) \in Nat
    BY <2>5, <2>6, <2>7, FS_Subset, FS_CardinalityType
  <2> QED BY <1>2, <2>3, <2>8
<1> QED BY <1>8, <1>9

\* A line that changes nothing in the cache.
LEMMA CachedWith ==
    ASSUME NEW raw, NEW S, NEW sh, NEW seen, LastSeen(seen, S, raw, sh), NEW n, ~(raw[n].of > 0) \/ ~sh[n]
    PROVE  LastSeen(seen, S \cup {n}, raw, sh)
<1>1. PICK pos : Cached(pos, seen, S, raw, sh)
  BY DEF LastSeen
<1>2. pos \in [1..Len(seen) -> S \cup {n}]
  BY <1>1 DEF Cached
<1>3. Cached(pos, seen, S \cup {n}, raw, sh)
  BY <1>1, <1>2 DEF Cached
<1> QED BY <1>3 DEF LastSeen

\* One that is put into it.
LEMMA RegisteredSeen ==
    ASSUME NEW raw \in Seq(AuditLine), NEW n \in 1..Len(raw), raw[n].of > 0, NEW S \in SUBSET (1..(n - 1)), NEW sh, sh[n],
           NEW seen \in Seq(Nat), LastSeen(seen, S, raw, sh), Len(seen) <= SeenEvents, SeenEvents \in Nat \ {0},
           ~Known(seen, raw[n].of)
    PROVE  LET after == Registered(seen, raw[n].of, SeenEvents) IN
           after \in Seq(Nat) /\ Len(after) <= SeenEvents /\ LastSeen(after, S \cup {n}, raw, sh)
<1> DEFINE L == Len(seen)
           event == raw[n].of
           grown == Append(seen, event)
           after == IF L + 1 > SeenEvents THEN Tail(grown) ELSE grown
<1>1. PICK pos : Cached(pos, seen, S, raw, sh)
  BY DEF LastSeen
<1>2. event \in Nat
  <2>1. raw[n] \in AuditLine
    OBVIOUS
  <2> QED BY <2>1 DEF AuditLine, Unreadable
<1>3. L \in Nat /\ n \in Nat /\ \A k \in 1..L : pos[k] \in S /\ pos[k] \in Int /\ pos[k] < n
  <2>1. L \in Nat /\ n \in Nat
    OBVIOUS
  <2>2. \A k \in 1..L : pos[k] \in S
    BY <1>1 DEF Cached
  <2>3. \A x \in S : x \in Int /\ x < n
    OBVIOUS
  <2> HIDE DEF L
  <2> QED BY <2>1, <2>2, <2>3
<1>4. grown \in Seq(Nat) /\ Len(grown) = L + 1 /\ grown[L + 1] = event /\ \A k \in 1..L : grown[k] = seen[k]
  <2> HIDE DEF event
  <2> QED BY <1>2
<1>5. Registered(seen, event, SeenEvents) = after
  BY DEF Registered
<1> HIDE DEF event, grown
<1> DEFINE gpos == [k \in 1..(L + 1) |-> IF k = L + 1 THEN n ELSE pos[k]]
<1>6. gpos \in [1..(L + 1) -> S \cup {n}] /\ gpos[L + 1] = n /\ \A k \in 1..L : gpos[k] = pos[k] /\ gpos[k] \in S
  <2> HIDE DEF L
  <2> QED BY <1>3
<1> HIDE DEF gpos
<1>7. \A k \in 1..(L + 1) : k \in 1..L \/ k = L + 1
  BY <1>3
<1>8. \A k \in 1..(L + 1) : grown[k] = raw[gpos[k]].of /\ raw[gpos[k]].of > 0 /\ sh[gpos[k]]
  BY <1>1, <1>4, <1>6, <1>7 DEF Cached, event
<1>9. ASSUME NEW k \in 1..(L + 1), NEW l \in 1..(L + 1), k < l PROVE gpos[k] < gpos[l]
  <2>1. k \in 1..L
    BY <1>3, <1>9
  <2>2. CASE l \in 1..L
    BY <1>1, <1>6, <1>9, <2>1, <2>2 DEF Cached
  <2>3. CASE l = L + 1
    BY <1>3, <1>6, <2>1, <2>3
  <2> QED BY <1>7, <2>2, <2>3
<1>10. ASSUME NEW m \in S \cup {n}, raw[m].of > 0, sh[m]
       PROVE  \/ \E k \in 1..(L + 1) : gpos[k] = m
              \/ L >= SeenEvents /\ \A k \in 1..(L + 1) : m < gpos[k]
  <2>1. CASE m = n
    BY <1>3, <1>6, <2>1
  <2>2. CASE m \in S
    <3>1. CASE \E k \in 1..L : pos[k] = m
      BY <1>3, <1>6, <3>1
    <3>2. CASE L >= SeenEvents /\ \A k \in 1..L : m < pos[k]
      <4>1. m < n
        BY <2>2
      <4>2. \A k \in 1..(L + 1) : m < gpos[k]
        BY <1>6, <1>7, <3>2, <4>1
      <4> QED BY <3>2, <4>2
    <3> QED BY <1>1, <1>10, <2>2, <3>1, <3>2 DEF Cached
  <2> QED BY <2>1, <2>2
<1>11. CASE L + 1 <= SeenEvents
  <2>1. after = grown /\ Len(grown) <= SeenEvents
    BY <1>3, <1>4, <1>11
  <2>2. ~(L >= SeenEvents)
    BY <1>3, <1>11
  <2>3. Cached(gpos, grown, S \cup {n}, raw, sh)
    BY <1>4, <1>6, <1>8, <1>9, <1>10, <2>2 DEF Cached
  <2> QED BY <1>4, <1>5, <2>1, <2>3 DEF LastSeen, event
<1>12. CASE ~(L + 1 <= SeenEvents)
  <2> DEFINE rest == Tail(grown)
             tpos == [k \in 1..L |-> gpos[k + 1]]
  <2>1. after = rest /\ L = SeenEvents
    BY <1>3, <1>12
  <2>2. rest \in Seq(Nat) /\ Len(rest) = L /\ \A k \in 1..L : rest[k] = grown[k + 1]
    BY <1>3, <1>4
  <2>3. \A k \in 1..L : k + 1 \in 1..(L + 1) /\ 1 \in 1..(L + 1) /\ 1 < k + 1 /\ tpos[k] = gpos[k + 1]
    BY <1>3
  <2>4. tpos \in [1..L -> S \cup {n}]
    BY <1>6, <2>3
  <2> HIDE DEF rest, tpos
  <2>5. \A k \in 1..L : rest[k] = raw[tpos[k]].of /\ raw[tpos[k]].of > 0 /\ sh[tpos[k]]
    BY <1>8, <2>2, <2>3
  <2>6. \A k, l \in 1..L : k < l => tpos[k] < tpos[l]
    <3> SUFFICES ASSUME NEW k \in 1..L, NEW l \in 1..L, k < l PROVE tpos[k] < tpos[l]
      OBVIOUS
    <3>1. k + 1 < l + 1
      BY <1>3
    <3> QED BY <1>9, <2>3, <3>1
  <2>7. ASSUME NEW m \in S \cup {n}, raw[m].of > 0, sh[m]
        PROVE  \/ \E k \in 1..L : tpos[k] = m
               \/ \A k \in 1..L : m < tpos[k]
    <3>1. CASE \E k \in 1..(L + 1) : gpos[k] = m
      <4>1. PICK k \in 1..(L + 1) : gpos[k] = m
        BY <3>1
      <4>2. CASE k = 1
        BY <1>9, <2>3, <4>1, <4>2
      <4>3. CASE k # 1
        <5>1. k - 1 \in 1..L /\ k - 1 + 1 = k
          BY <1>3, <4>3
        <5>2. tpos[k - 1] = gpos[k - 1 + 1]
          BY <2>3, <5>1
        <5> QED BY <4>1, <5>1, <5>2
      <4> QED BY <4>2, <4>3
    <3>2. CASE \A k \in 1..(L + 1) : m < gpos[k]
      BY <2>3, <3>2
    <3> QED BY <1>10, <2>7, <3>1, <3>2
  <2>8. L >= SeenEvents
    BY <1>3, <2>1
  <2>9. Cached(tpos, rest, S \cup {n}, raw, sh)
    BY <2>2, <2>4, <2>5, <2>6, <2>7, <2>8 DEF Cached
  <2> QED BY <1>3, <1>5, <2>1, <2>2, <2>9 DEF LastSeen, event
<1> QED BY <1>3, <1>11, <1>12

-----------------------------------------------------------------------------
(* How many lines are shown.                                               *)

\* How many of the first lines are shown.
Count(sh, n) == Cardinality({m \in 1..n : sh[m]})

\* Line by line.
LEMMA Counts ==
    ASSUME NEW n \in Nat, NEW sh
    PROVE  /\ Count(sh, n) \in Nat /\ Count(sh, 0) = 0
           /\ Count(sh, n + 1) = IF sh[n + 1] THEN Count(sh, n) + 1 ELSE Count(sh, n)
<1> DEFINE S(k) == {m \in 1..k : sh[m]}
<1>1. IsFiniteSet(S(n))
  <2>1. IsFiniteSet(1..n)
    BY FS_Interval
  <2>2. S(n) \in SUBSET (1..n)
    OBVIOUS
  <2> HIDE DEF S
  <2> QED BY <2>1, <2>2, FS_Subset
<1>2. Cardinality(S(n)) \in Nat
  <2> HIDE DEF S
  <2> QED BY <1>1, FS_CardinalityType
<1>3. S(0) = {}
  OBVIOUS
<1>4. S(n + 1) = IF sh[n + 1] THEN S(n) \cup {n + 1} ELSE S(n)
  <2>1. \A m : m \in 1..(n + 1) <=> m \in 1..n \/ m = n + 1
    OBVIOUS
  <2> QED BY <2>1
<1>5. n + 1 \notin S(n)
  OBVIOUS
<1>6. \A k : Count(sh, k) = Cardinality(S(k))
  BY DEF Count
<1> HIDE DEF S
<1>7. sh[n + 1] => Cardinality(S(n) \cup {n + 1}) = Cardinality(S(n)) + 1
  BY <1>1, <1>5, FS_AddElement
<1> QED BY <1>2, <1>3, <1>4, <1>6, <1>7, FS_EmptySet

\* A later shown line is counted later.
LEMMA CountGrows ==
    ASSUME NEW m \in Nat, NEW n \in Nat, m < n, NEW sh
    PROVE  Count(sh, m) <= Count(sh, n) /\ (sh[n] => Count(sh, m) < Count(sh, n))
<1> DEFINE S(k) == {i \in 1..k : sh[i]}
<1>1. ASSUME NEW k \in Nat, m <= k PROVE Count(sh, m) <= Count(sh, k)
  <2>1. IsFiniteSet(1..k)
    BY FS_Interval
  <2>2. S(k) \in SUBSET (1..k)
    OBVIOUS
  <2>3. S(m) \in SUBSET S(k)
    BY <1>1
  <2>4. \A j : Count(sh, j) = Cardinality(S(j))
    BY DEF Count
  <2> HIDE DEF S
  <2>5. IsFiniteSet(S(k))
    BY <2>1, <2>2, FS_Subset
  <2> QED BY <2>3, <2>4, <2>5, FS_Subset
<1>2. n - 1 \in Nat /\ m <= n - 1 /\ n - 1 + 1 = n /\ m <= n
  OBVIOUS
<1>3. Count(sh, n) = IF sh[n] THEN Count(sh, n - 1) + 1 ELSE Count(sh, n - 1)
  BY <1>2, Counts
<1>4. Count(sh, m) \in Nat /\ Count(sh, n - 1) \in Nat /\ Count(sh, m) <= Count(sh, n - 1)
  BY <1>1, <1>2, Counts
<1> QED BY <1>3, <1>4

\* Every number up to the count is some shown line's.
LEMMA CountReaches ==
    ASSUME NEW N \in Nat, NEW sh, NEW c \in 1..Count(sh, N)
    PROVE  \E n \in 1..N : sh[n] /\ Count(sh, n) = c
<1> DEFINE Reached(k) == c <= Count(sh, k) => \E n \in 1..k : sh[n] /\ Count(sh, n) = c
           S == {k \in 0..N : Reached(k)}
<1>1. 0 \in S
  <2>1. Count(sh, 0) = 0 /\ c >= 1
    BY Counts
  <2> QED BY <2>1
<1>2. ASSUME NEW k \in 0..(N - 1), k \in S PROVE k + 1 \in S
  <2>1. k \in Nat /\ k + 1 \in 0..N /\ k + 1 \in 1..(k + 1) /\ 1..k \subseteq 1..(k + 1)
    OBVIOUS
  <2>2. Count(sh, k) \in Nat /\ Count(sh, k + 1) = IF sh[k + 1] THEN Count(sh, k) + 1 ELSE Count(sh, k)
    BY <2>1, Counts
  <2>3. CASE c <= Count(sh, k)
    BY <1>2, <2>1, <2>3
  <2>4. CASE ~(c <= Count(sh, k)) /\ c <= Count(sh, k + 1)
    <3>1. c \in Nat
      OBVIOUS
    <3>2. sh[k + 1] /\ Count(sh, k + 1) = c
      BY <2>2, <2>4, <3>1
    <3> QED BY <2>1, <3>2
  <2> QED BY <2>1, <2>3, <2>4
<1> HIDE DEF S
<1>3. N \in S
  BY <1>1, <1>2, NatInductTo
<1> QED BY <1>3, Counts DEF S

-----------------------------------------------------------------------------
(* One line of the audit.                                                  *)

AuditRecords == [line : Nat, seen : Seq(Nat), reset : Nat, expected : Nat, read : Nat, complete : BOOLEAN,
                 errors : Nat, mismatches : Nat, verdict : {"open", "passed", "failed"}]

\* The changes the audit makes to its record.
LEMMA Changed ==
    ASSUME NEW acc \in AuditRecords, NEW s \in Seq(Nat), NEW a \in Nat, NEW b \in Nat, NEW c \in Nat
    PROVE  /\ [acc EXCEPT !.seen = s] \in AuditRecords /\ [acc EXCEPT !.seen = s, !.reset = a] \in AuditRecords
           /\ [acc EXCEPT !.expected = a] \in AuditRecords
           /\ [acc EXCEPT !.expected = a, !.mismatches = b] \in AuditRecords
           /\ [acc EXCEPT !.expected = a, !.read = b, !.mismatches = c] \in AuditRecords
BY DEF AuditRecords

LEMMA ChangedOne ==
    ASSUME NEW acc \in AuditRecords, NEW a \in Nat
    PROVE  [acc EXCEPT !.line = a] \in AuditRecords /\ [acc EXCEPT !.errors = a, !.complete = FALSE] \in AuditRecords
BY DEF AuditRecords

LEMMA Counters ==
    ASSUME NEW acc \in AuditRecords
    PROVE  /\ acc.seen \in Seq(Nat) /\ acc.line \in Nat /\ acc.reset \in Nat /\ acc.expected \in Nat /\ acc.read \in Nat
           /\ acc.errors \in Nat /\ acc.mismatches \in Nat /\ acc.complete \in BOOLEAN
           /\ acc.verdict \in {"open", "passed", "failed"}
BY DEF AuditRecords


\* What a pair of files is.
LEMMA CaptureTyped ==
    ASSUME pair \in Captures
    PROVE  /\ pair.raw \in Seq(AuditLine) /\ pair.text \in Seq([of : Nat, end : {"lf", "crlf", "none"}])
           /\ pair.resets \in Seq(Nat) /\ Capture(pair)
           /\ \A k \in 1..Len(pair.resets) : pair.resets[k] \in Nat \ {0}
           /\ \A k, l \in 1..Len(pair.resets) : k < l => pair.resets[k] < pair.resets[l]
<1>1. Capture(pair)
  BY AuditAssumption
<1>2. pair.raw \in Seq(AuditLine) /\ pair.text \in Seq([of : Nat, end : {"lf", "crlf", "none"}]) /\ pair.resets \in Seq(Nat \ {0})
  BY <1>1 DEF Capture, LinesOf, AuditLine
<1>3. pair.resets \in Seq(Nat) /\ DOMAIN pair.resets = 1..Len(pair.resets) /\ \A k \in 1..Len(pair.resets) : pair.resets[k] \in Nat \ {0}
  BY <1>2
<1>4. \A k, l \in 1..Len(pair.resets) : k < l => pair.resets[k] < pair.resets[l]
  BY <1>1, <1>3 DEF Capture
<1> QED BY <1>1, <1>2, <1>3, <1>4

\* A reset empties the cache.
LEMMA ResetMeans ==
    ASSUME NEW acc \in AuditRecords
    PROVE  LET after == Reset(acc) IN
           /\ after \in AuditRecords
           /\ after.line = acc.line /\ after.expected = acc.expected /\ after.read = acc.read
           /\ after.complete = acc.complete /\ after.errors = acc.errors /\ after.mismatches = acc.mismatches
           /\ after.verdict = acc.verdict
           /\ IF acc.reset <= Len(pair.resets) /\ pair.resets[acc.reset] = acc.line
              THEN after.seen = <<>> /\ after.reset = acc.reset + 1
              ELSE after.seen = acc.seen /\ after.reset = acc.reset
<1> DEFINE taken == acc.reset <= Len(pair.resets) /\ pair.resets[acc.reset] = acc.line
           fresh == [acc EXCEPT !.seen = <<>>, !.reset = @ + 1]
<1>1. Reset(acc) = IF taken THEN fresh ELSE acc
  BY DEF Reset
<1>5. fresh \in AuditRecords
  <2>1. <<>> \in Seq(Nat) /\ acc.reset + 1 \in Nat
    BY Counters
  <2> QED BY <2>1, Changed
<1>2. /\ fresh.line = acc.line /\ fresh.expected = acc.expected /\ fresh.read = acc.read
      /\ fresh.complete = acc.complete /\ fresh.errors = acc.errors /\ fresh.mismatches = acc.mismatches
      /\ fresh.verdict = acc.verdict /\ fresh.seen = <<>> /\ fresh.reset = acc.reset + 1
  BY DEF AuditRecords
<1> HIDE DEF fresh, taken
<1>3. CASE taken
  BY <1>1, <1>2, <1>3, <1>5 DEF taken
<1>4. CASE ~taken
  BY <1>1, <1>4 DEF taken
<1> QED BY <1>3, <1>4

\* What comes of a record that is expected in the text.
LEMMA ReadTextMeans ==
    ASSUME NEW acc \in AuditRecords, NEW item
    PROVE  LET after == ReadText(acc, item) IN
           /\ after \in AuditRecords
           /\ after.line = acc.line /\ after.expected = acc.expected + 1 /\ after.seen = acc.seen
           /\ after.complete = acc.complete /\ after.errors = acc.errors /\ after.reset = acc.reset
           /\ after.verdict = acc.verdict
           /\ acc.complete =>
                IF acc.read = Len(pair.text) THEN after.read = acc.read /\ after.mismatches = acc.mismatches + 1
                ELSE /\ after.read = acc.read + 1
                     /\ after.mismatches = acc.mismatches + (IF pair.text[acc.read + 1].of = item THEN 0 ELSE 1)
<1> DEFINE over == [acc EXCEPT !.expected = @ + 1, !.mismatches = @ + 1]
           off == IF pair.text[acc.read + 1].of = item THEN 0 ELSE 1
           next == [acc EXCEPT !.expected = @ + 1, !.read = @ + 1, !.mismatches = @ + off]
           skipped == [acc EXCEPT !.expected = @ + 1]
<1>1. ReadText(acc, item) = IF ~acc.complete THEN skipped
                              ELSE IF acc.read = Len(pair.text) THEN over ELSE next
  BY DEF ReadText, AuditRecords
<1>2. skipped \in AuditRecords /\ over \in AuditRecords /\ next \in AuditRecords
  <2>1. off \in Nat
    OBVIOUS
  <2> HIDE DEF off
  <2>2. acc.expected + 1 \in Nat /\ acc.read + 1 \in Nat /\ acc.mismatches + 1 \in Nat /\ acc.mismatches + off \in Nat
    BY <2>1, Counters
  <2> QED BY <2>2, Changed, Counters
<1>3. \A a \in {skipped, over, next} :
        /\ a.line = acc.line /\ a.expected = acc.expected + 1 /\ a.seen = acc.seen
        /\ a.complete = acc.complete /\ a.errors = acc.errors /\ a.reset = acc.reset
        /\ a.verdict = acc.verdict
  <2> HIDE DEF off
  <2> QED BY DEF AuditRecords
<1>4. over.read = acc.read /\ over.mismatches = acc.mismatches + 1
  BY DEF AuditRecords
<1>5. next.read = acc.read + 1 /\ next.mismatches = acc.mismatches + off
  BY DEF AuditRecords
<1> HIDE DEF skipped, over, next
<1> QED BY <1>1, <1>2, <1>3, <1>4, <1>5

\* What is read, counted and remembered of a line.
LEMMA RecordMeans ==
    ASSUME NEW acc \in AuditRecords, Len(acc.seen) <= SeenEvents, NEW item \in Nat \cup {Unreadable}
    PROVE  LET after == AuditRecord(acc, item)
               fresh == item = 0 \/ (item > 0 /\ ~Known(acc.seen, item))
           IN
           /\ after \in AuditRecords /\ Len(after.seen) <= SeenEvents
           /\ after.line = acc.line /\ after.reset = acc.reset /\ after.verdict = acc.verdict
           /\ IF item = Unreadable THEN after.errors = acc.errors + 1
              ELSE after.errors = acc.errors /\ after.complete = acc.complete
           /\ after.seen = IF item > 0 THEN Registered(acc.seen, item, SeenEvents) ELSE acc.seen
           /\ item # Unreadable /\ ~fresh =>
                /\ after.expected = acc.expected /\ after.read = acc.read /\ after.mismatches = acc.mismatches
           /\ item # Unreadable /\ fresh => after.expected = acc.expected + 1
           /\ item # Unreadable /\ fresh /\ acc.complete =>
                IF acc.read = Len(pair.text) THEN after.read = acc.read /\ after.mismatches = acc.mismatches + 1
                ELSE /\ after.read = acc.read + 1
                     /\ after.mismatches = acc.mismatches + (IF pair.text[acc.read + 1].of = item THEN 0 ELSE 1)
<1>1. item \in Int /\ Unreadable = -1 /\ (item \in Nat \/ item = -1)
  BY DEF Unreadable
<1>2. CASE item = Unreadable
  <2>1. AuditRecord(acc, item) = [acc EXCEPT !.errors = @ + 1, !.complete = FALSE]
    BY <1>2 DEF AuditRecord
  <2> DEFINE bad == [acc EXCEPT !.errors = @ + 1, !.complete = FALSE]
  <2>4. bad \in AuditRecords
    <3> DEFINE e == acc.errors + 1
    <3>1. e \in Nat
      BY Counters
    <3> HIDE DEF e
    <3>2. [acc EXCEPT !.errors = e, !.complete = FALSE] \in AuditRecords
      BY <3>1, ChangedOne
    <3> QED BY <3>2 DEF e
  <2>2. /\ bad.seen = acc.seen /\ bad.line = acc.line /\ bad.reset = acc.reset
        /\ bad.verdict = acc.verdict /\ bad.errors = acc.errors + 1
    BY DEF AuditRecords
  <2> HIDE DEF bad
  <2>3. ~(item > 0) /\ AuditRecord(acc, item) = bad
    BY <1>1, <1>2, <2>1 DEF bad
  <2> QED BY <1>2, <2>2, <2>3, <2>4
<1>3. CASE item = 0
  <2>1. AuditRecord(acc, item) = ReadText(acc, item)
    BY <1>1, <1>3 DEF AuditRecord
  <2> QED BY <1>1, <1>3, <2>1, ReadTextMeans
<1>4. CASE item > 0 /\ Known(acc.seen, item)
  <2>1. AuditRecord(acc, item) = acc /\ Registered(acc.seen, item, SeenEvents) = acc.seen
    BY <1>1, <1>4 DEF AuditRecord, Registered
  <2> QED BY <1>1, <1>4, <2>1
<1>5. CASE item > 0 /\ ~Known(acc.seen, item)
  <2> DEFINE more == Registered(acc.seen, item, SeenEvents)
             put == [acc EXCEPT !.seen = more]
  <2>1. more \in Seq(Nat) /\ Len(more) <= SeenEvents
    <3> DEFINE s == acc.seen
               grown == Append(s, item)
    <3>1. s \in Seq(Nat) /\ item \in Nat /\ SeenEvents \in Nat \ {0} /\ Len(s) <= SeenEvents
      BY <1>1, <1>5, AuditAssumption DEF AuditRecords
    <3> HIDE DEF s
    <3>2. grown \in Seq(Nat) /\ Len(grown) = Len(s) + 1 /\ Len(s) \in Nat
      BY <3>1
    <3>5. Tail(grown) \in Seq(Nat) /\ Len(Tail(grown)) = Len(grown) - 1
      <4> HIDE DEF grown
      <4>1. grown # <<>>
        BY <3>2
      <4> QED BY <3>2, <4>1, HeadTailProperties
    <3>3. Tail(grown) \in Seq(Nat) /\ Len(Tail(grown)) = Len(s)
      <4> HIDE DEF grown
      <4> QED BY <3>2, <3>5
    <3>4. more = IF Len(s) + 1 > SeenEvents THEN Tail(grown) ELSE grown
      BY <1>5 DEF Registered, s
    <3> HIDE DEF grown, more
    <3> QED BY <3>1, <3>2, <3>3, <3>4
  <2>2. AuditRecord(acc, item) = ReadText(put, item)
    BY <1>1, <1>5 DEF AuditRecord
  <2> HIDE DEF more
  <2>3. put \in AuditRecords /\ put.seen = more /\ put.line = acc.line /\ put.reset = acc.reset
        /\ put.verdict = acc.verdict /\ put.errors = acc.errors /\ put.complete = acc.complete
        /\ put.expected = acc.expected /\ put.read = acc.read /\ put.mismatches = acc.mismatches
    BY <2>1 DEF AuditRecords
  <2> HIDE DEF put
  <2> QED BY <1>1, <1>5, <2>1, <2>2, <2>3, ReadTextMeans DEF more
<1> QED BY <1>1, <1>2, <1>3, <1>4, <1>5

-----------------------------------------------------------------------------
(* The audit as far as it is.                                              *)

ResetsTaken(resets, l, r) ==
    /\ r \in 1..(Len(resets) + 1)
    /\ \A k \in 1..Len(resets) : IF k < r THEN resets[k] < l ELSE resets[k] >= l

\* Each of the first lines that is shown is in its place in the text.
InPlace(raw, text, shown, n) == \A m \in 1..n : shown[m] => text[Count(shown, m)].of = raw[m].of

\* Of the first lines, as many are expected in the text as are shown, and none is
\* missed or different exactly if each shown line is in its place.
TextRead(files, acc, n) ==
    LET shown == Shown(files.raw, files.resets) IN
    /\ acc.expected = Count(shown, n)
    /\ acc.read = IF acc.expected <= Len(files.text) THEN acc.expected ELSE Len(files.text)
    /\ acc.mismatches = 0 <=>
         /\ acc.expected <= Len(files.text)
         /\ InPlace(files.raw, files.text, shown, n)

\* After the first n lines.
Audited(files, acc, n) ==
    /\ acc \in AuditRecords /\ Len(acc.seen) <= SeenEvents
    /\ n \in 0..Len(files.raw) /\ acc.line = n + 1
    /\ ResetsTaken(files.resets, acc.line, acc.reset)
    /\ acc.errors = 0 <=> \A m \in 1..n : files.raw[m].of # Unreadable
    /\ acc.errors = 0 => /\ acc.complete
                         /\ LastSeen(acc.seen, Segment(n, files.resets), files.raw, Shown(files.raw, files.resets))
                         /\ TextRead(files, acc, n)

AuditInv ==
    /\ pair \in Captures
    /\ Audited(pair, audit, audit.line - 1)
    /\ audit.verdict # "open" => audit.line > Len(pair.raw) /\ (audit.verdict = "passed" <=> ~AuditFails)

\* A reset is taken when its line comes, and the cache is empty then.
LEMMA ResetTaken ==
    ASSUME pair \in Captures, NEW n \in Nat, NEW r, ResetsTaken(pair.resets, n, r)
    PROVE  IF r <= Len(pair.resets) /\ pair.resets[r] = n
           THEN ResetsTaken(pair.resets, n + 1, r + 1) /\ Segment(n, pair.resets) \ {n} = {}
           ELSE ResetsTaken(pair.resets, n + 1, r) /\ Segment(n, pair.resets) \ {n} = Segment(n - 1, pair.resets)
<1> DEFINE L == Len(pair.resets)
<1>1. /\ L \in Nat /\ r \in 1..(L + 1) /\ DOMAIN pair.resets = 1..L
      /\ \A k \in 1..L : pair.resets[k] \in Nat \ {0}
      /\ \A k, l \in 1..L : k < l => pair.resets[k] < pair.resets[l]
      /\ \A k \in 1..L : IF k < r THEN pair.resets[k] < n ELSE pair.resets[k] >= n
  BY CaptureTyped DEF ResetsTaken
<1> HIDE DEF L
<1>2. CASE r <= L /\ pair.resets[r] = n
  <2>1. r \in 1..L /\ r + 1 \in 1..(L + 1)
    BY <1>1, <1>2
  <2>2. ASSUME NEW k \in 1..L PROVE IF k < r + 1 THEN pair.resets[k] < n + 1 ELSE pair.resets[k] >= n + 1
    <3>1. CASE k < r
      BY <1>1, <3>1
    <3>2. CASE k = r
      BY <1>1, <1>2, <3>2
    <3>3. CASE r < k
      <4>1. pair.resets[r] < pair.resets[k]
        BY <1>1, <2>1, <3>3
      <4> QED BY <1>1, <1>2, <3>3, <4>1
    <3> QED BY <1>1, <3>1, <3>2, <3>3
  <2>3. ASSUME NEW m \in Segment(n, pair.resets) \ {n} PROVE FALSE
    <3>1. m \in 1..n /\ m # n /\ ~\E k \in 1..L : m < pair.resets[k] /\ pair.resets[k] <= n
      BY <1>1 DEF Segment
    <3>2. m < n
      BY <3>1
    <3> QED BY <1>2, <2>1, <3>1, <3>2
  <2>4. ResetsTaken(pair.resets, n + 1, r + 1)
    BY <2>1, <2>2 DEF ResetsTaken, L
  <2> QED BY <1>2, <2>3, <2>4 DEF L
<1>3. CASE ~(r <= L /\ pair.resets[r] = n)
  <2>1. ASSUME NEW k \in 1..L PROVE IF k < r THEN pair.resets[k] < n + 1 ELSE pair.resets[k] >= n + 1
    <3>1. CASE k < r
      BY <1>1, <3>1
    <3>2. CASE k = r
      BY <1>1, <1>3, <3>2
    <3>3. CASE r < k
      <4>1. r \in 1..L /\ pair.resets[r] >= n /\ pair.resets[r] < pair.resets[k]
        BY <1>1, <3>3
      <4> QED BY <1>1, <3>3, <4>1
    <3> QED BY <1>1, <3>1, <3>2, <3>3
  <2>2. \A k \in 1..L : pair.resets[k] <= n <=> pair.resets[k] <= n - 1
    BY <1>1, <2>1
  <2>3. \A m : m \in 1..n /\ m # n <=> m \in 1..(n - 1)
    OBVIOUS
  <2>4. \A m : m \in Segment(n, pair.resets) \ {n} <=> m \in Segment(n - 1, pair.resets)
    BY <1>1, <2>2, <2>3 DEF Segment
  <2>5. ResetsTaken(pair.resets, n + 1, r)
    BY <1>1, <2>1 DEF ResetsTaken, L
  <2> QED BY <1>3, <2>4, <2>5 DEF L
<1> QED BY <1>2, <1>3 DEF L

\* One more line of the raw file.
LEMMA AuditAdvances ==
    ASSUME pair \in Captures, NEW acc, NEW n \in 1..Len(pair.raw), Audited(pair, acc, n - 1)
    PROVE  LET next == [AuditRecord(Reset(acc), pair.raw[n].of) EXCEPT !.line = @ + 1] IN
           Audited(pair, next, n) /\ next.line = n + 1 /\ next.verdict = acc.verdict
<1> DEFINE raw == pair.raw
           text == pair.text
           resets == pair.resets
           sh == Shown(raw, resets)
           item == raw[n].of
           began == Reset(acc)
           after == AuditRecord(began, item)
           fin == [after EXCEPT !.line = @ + 1]
           rest == Segment(n, resets) \ {n}
           fresh == item = 0 \/ (item > 0 /\ ~Known(began.seen, item))
<1>1. /\ raw \in Seq(AuditLine) /\ resets \in Seq(Nat) /\ text \in Seq([of : Nat, end : {"lf", "crlf", "none"}])
      /\ SeenEvents \in Nat \ {0} /\ SeenEvents \in Nat
  BY CaptureTyped, AuditAssumption
<1>2. n \in Nat /\ n # 0 /\ n - 1 + 1 = n /\ n - 1 \in Nat /\ n \in 0..Len(raw) /\ Len(raw) \in Nat
  OBVIOUS
<1>3. /\ acc \in AuditRecords /\ Len(acc.seen) <= SeenEvents /\ acc.line = n /\ ResetsTaken(resets, n, acc.reset)
      /\ acc.errors = 0 <=> \A m \in 1..(n - 1) : raw[m].of # Unreadable
      /\ acc.errors = 0 => acc.complete /\ LastSeen(acc.seen, Segment(n - 1, resets), raw, sh) /\ TextRead(pair, acc, n - 1)
  BY <1>2 DEF Audited
<1>4. item \in Nat \cup {Unreadable}
  <2>1. raw[n] \in AuditLine
    BY <1>1
  <2> QED BY <2>1 DEF AuditLine
<1>5. /\ sh \in [1..Len(raw) -> BOOLEAN]
      /\ sh[n] <=> ShownRule(sh, n, raw, resets)
  BY <1>1, ShownObeys
<1>6. /\ began \in AuditRecords /\ began.line = n /\ began.expected = acc.expected /\ began.read = acc.read
      /\ began.verdict = acc.verdict /\ began.complete = acc.complete /\ began.errors = acc.errors /\ began.mismatches = acc.mismatches
      /\ IF acc.reset <= Len(resets) /\ resets[acc.reset] = n
         THEN began.seen = <<>> /\ began.reset = acc.reset + 1
         ELSE began.seen = acc.seen /\ began.reset = acc.reset
  BY <1>3, ResetMeans
<1>7. IF acc.reset <= Len(resets) /\ resets[acc.reset] = n
      THEN ResetsTaken(resets, n + 1, acc.reset + 1) /\ rest = {}
      ELSE ResetsTaken(resets, n + 1, acc.reset) /\ rest = Segment(n - 1, resets)
  BY <1>2, <1>3, ResetTaken
<1> HIDE DEF began, sh, rest, raw, text, resets
<1>8. /\ ResetsTaken(resets, n + 1, began.reset) /\ Len(began.seen) <= SeenEvents
      /\ acc.errors = 0 => LastSeen(began.seen, rest, raw, sh)
  <2>1. CASE acc.reset <= Len(resets) /\ resets[acc.reset] = n
    <3>1. began.seen = <<>> /\ began.reset = acc.reset + 1 /\ rest = {} /\ ResetsTaken(resets, n + 1, acc.reset + 1)
      BY <1>6, <1>7, <2>1
    <3>2. Cached(<<>>, <<>>, {}, raw, sh)
      BY DEF Cached
    <3>3. Len(<<>>) <= SeenEvents
      BY <1>1
    <3> QED BY <3>1, <3>2, <3>3 DEF LastSeen
  <2>2. CASE ~(acc.reset <= Len(resets) /\ resets[acc.reset] = n)
    BY <1>3, <1>6, <1>7, <2>2
  <2> QED BY <2>1, <2>2
<1> HIDE DEF item
<1>9. /\ after \in AuditRecords /\ Len(after.seen) <= SeenEvents
      /\ after.line = began.line /\ after.reset = began.reset /\ after.verdict = began.verdict
      /\ IF item = Unreadable THEN after.errors = began.errors + 1
         ELSE after.errors = began.errors /\ after.complete = began.complete
      /\ after.seen = IF item > 0 THEN Registered(began.seen, item, SeenEvents) ELSE began.seen
      /\ item # Unreadable /\ ~fresh =>
           /\ after.expected = began.expected /\ after.read = began.read /\ after.mismatches = began.mismatches
      /\ item # Unreadable /\ fresh => after.expected = began.expected + 1
      /\ item # Unreadable /\ fresh /\ began.complete =>
           IF began.read = Len(text) THEN after.read = began.read /\ after.mismatches = began.mismatches + 1
           ELSE /\ after.read = began.read + 1
                /\ after.mismatches = began.mismatches + (IF text[began.read + 1].of = item THEN 0 ELSE 1)
  BY <1>4, <1>6, <1>8, RecordMeans DEF text
<1> HIDE DEF after
<1>10. /\ fin \in AuditRecords /\ fin.line = n + 1 /\ fin.seen = after.seen /\ fin.reset = after.reset
       /\ fin.verdict = after.verdict /\ fin.errors = after.errors /\ fin.complete = after.complete /\ fin.expected = after.expected
       /\ fin.read = after.read /\ fin.mismatches = after.mismatches
  <2>1. after.line = n
    BY <1>6, <1>9
  <2> DEFINE next == after.line + 1
  <2>2. next \in Nat /\ next = n + 1
    BY <1>2, <2>1
  <2> HIDE DEF next
  <2>3. fin = [after EXCEPT !.line = next]
    BY DEF next
  <2>4. fin \in AuditRecords
    BY <1>9, <2>2, <2>3, ChangedOne
  <2> QED BY <1>9, <2>2, <2>3, <2>4 DEF AuditRecords
<1> HIDE DEF fin
<1>11. fin.errors = 0 <=> \A m \in 1..n : raw[m].of # Unreadable
  <2>1. began.errors \in Nat /\ after.errors \in Nat
    BY <1>6, <1>9, Counters
  <2>2. fin.errors = 0 <=> acc.errors = 0 /\ item # Unreadable
    BY <1>6, <1>9, <1>10, <2>1
  <2>3. \A m : m \in 1..n <=> m \in 1..(n - 1) \/ m = n
    BY <1>2
  <2> QED BY <1>3, <2>2, <2>3 DEF item
<1>12. ASSUME fin.errors = 0
       PROVE  fin.complete /\ LastSeen(fin.seen, Segment(n, resets), raw, sh) /\ TextRead(pair, fin, n)
  <2>1. acc.errors = 0 /\ item # Unreadable /\ item \in Nat
    <3>1. began.errors \in Nat /\ after.errors \in Nat
      BY <1>6, <1>9, Counters
    <3> QED BY <1>4, <1>6, <1>9, <1>10, <1>12, <3>1
  <2>2. acc.complete /\ LastSeen(began.seen, rest, raw, sh) /\ TextRead(pair, acc, n - 1)
    BY <1>3, <1>8, <2>1
  <2>3. fin.complete /\ began.complete
    BY <1>6, <1>9, <1>10, <2>1, <2>2
  <2>4. fresh <=> sh[n]
    <3>1. CASE item = 0
      <4>1. ShownRule(sh, n, raw, resets)
        BY <3>1 DEF ShownRule, item
      <4> QED BY <1>5, <3>1, <4>1
    <3>2. CASE item > 0
      <4>1. began.seen \in Seq(Nat)
        BY <1>6, Counters
      <4>2. ShownRule(sh, n, raw, resets) <=> ~Known(began.seen, item)
        BY <1>1, <1>8, <2>2, <3>2, <4>1, ShownUnlessCached DEF item, rest, raw
      <4> QED BY <1>5, <3>2, <4>2
    <3> QED BY <2>1, <3>1, <3>2
  <2>5. LastSeen(fin.seen, Segment(n, resets), raw, sh)
    <3>1. Segment(n, resets) = rest \cup {n}
      <4>1. ~\E k \in DOMAIN resets : n < resets[k] /\ resets[k] <= n
        <5>1. \A k \in DOMAIN resets : resets[k] \in Nat
          BY <1>1
        <5> QED BY <1>2, <5>1
      <4>2. n \in 1..n
        BY <1>2
      <4>3. n \in Segment(n, resets)
        BY <4>1, <4>2 DEF Segment
      <4> QED BY <4>3 DEF rest
    <3>2. rest \in SUBSET (1..(n - 1))
      <4>1. \A m \in rest : m \in 1..n /\ m # n
        BY DEF rest, Segment
      <4> QED BY <1>2, <4>1
    <3>3. began.seen \in Seq(Nat)
      BY <1>6, Counters
    <3>4. CASE item > 0 /\ ~Known(began.seen, item)
      <4>1. sh[n] /\ fin.seen = Registered(began.seen, item, SeenEvents)
        BY <1>9, <1>10, <2>4, <3>4
      <4>2. LastSeen(Registered(began.seen, item, SeenEvents), rest \cup {n}, raw, sh)
        BY <1>1, <1>8, <2>2, <3>2, <3>3, <3>4, <4>1, RegisteredSeen DEF item, raw
      <4> QED BY <3>1, <4>1, <4>2
    <3>5. CASE ~(item > 0 /\ ~Known(began.seen, item))
      <4>1. fin.seen = began.seen
        BY <1>9, <1>10, <3>5 DEF Registered
      <4>2. ~(item > 0) \/ ~sh[n]
        BY <2>4, <3>5
      <4>3. LastSeen(began.seen, rest \cup {n}, raw, sh)
        BY <2>2, <4>2, CachedWith DEF item
      <4> QED BY <3>1, <4>1, <4>3
    <3> QED BY <3>4, <3>5
  <2>6. TextRead(pair, fin, n)
    <3> DEFINE c == Count(sh, n - 1)
               T == Len(text)
               Placed(m) == sh[m] => text[Count(sh, m)].of = raw[m].of
    <3>1. /\ acc.expected = c /\ acc.read = IF c <= T THEN c ELSE T
          /\ acc.mismatches = 0 <=> c <= T /\ \A m \in 1..(n - 1) : Placed(m)
      BY <2>2 DEF TextRead, InPlace, sh, raw, text, resets
    <3>2. c \in Nat /\ T \in Nat /\ Count(sh, n) = IF sh[n] THEN c + 1 ELSE c
      <4>1. c \in Nat /\ Count(sh, n - 1 + 1) = IF sh[n - 1 + 1] THEN c + 1 ELSE c
        BY <1>2, Counts
      <4> QED BY <1>1, <1>2, <4>1
    <3>3. \A m : m \in 1..n <=> m \in 1..(n - 1) \/ m = n
      BY <1>2
    <3>4. acc.mismatches \in Nat
      BY <1>3, Counters
    <3> SUFFICES /\ fin.expected = Count(sh, n)
                 /\ fin.read = IF fin.expected <= T THEN fin.expected ELSE T
                 /\ fin.mismatches = 0 <=> fin.expected <= T /\ \A m \in 1..n : Placed(m)
      BY DEF TextRead, InPlace, sh, raw, text, resets
    <3>5. CASE ~sh[n]
      <4>1. fin.expected = c /\ fin.read = acc.read /\ fin.mismatches = acc.mismatches /\ Count(sh, n) = c
        BY <1>6, <1>9, <1>10, <2>1, <2>4, <3>1, <3>2, <3>5
      <4>2. Placed(n)
        BY <3>5
      <4> HIDE DEF Placed, c, T
      <4> QED BY <3>1, <3>3, <4>1, <4>2
    <3>6. CASE sh[n]
      <4>1. /\ fin.expected = c + 1 /\ Count(sh, n) = c + 1
            /\ IF acc.read = T THEN fin.read = acc.read /\ fin.mismatches = acc.mismatches + 1
               ELSE /\ fin.read = acc.read + 1
                    /\ fin.mismatches = acc.mismatches + (IF text[acc.read + 1].of = item THEN 0 ELSE 1)
        BY <1>6, <1>9, <1>10, <2>1, <2>3, <2>4, <3>1, <3>2, <3>6
      <4>2. Placed(n) <=> text[c + 1].of = item
        BY <3>6, <4>1 DEF item
      <4> HIDE DEF Placed, c, T
      <4>3. CASE c + 1 <= T
        <5>1. c <= T /\ acc.read = c /\ c # T
          BY <3>1, <3>2, <4>3
        <5>2. fin.read = c + 1 /\ fin.mismatches = acc.mismatches + (IF text[c + 1].of = item THEN 0 ELSE 1)
          BY <4>1, <5>1
        <5>3. fin.mismatches = 0 <=> acc.mismatches = 0 /\ text[c + 1].of = item
          BY <3>4, <5>2
        <5> QED BY <3>1, <3>3, <4>1, <4>2, <4>3, <5>1, <5>2, <5>3
      <4>4. CASE ~(c + 1 <= T)
        <5>1. acc.read = T /\ fin.read = T /\ fin.mismatches = acc.mismatches + 1
          BY <3>1, <3>2, <4>1, <4>4
        <5>2. fin.mismatches # 0
          BY <3>4, <5>1
        <5> QED BY <4>1, <4>4, <5>1, <5>2
      <4> QED BY <4>3, <4>4
    <3> QED BY <3>5, <3>6
  <2> QED BY <2>3, <2>5, <2>6
<1>13. n \in 0..Len(raw) /\ Len(fin.seen) <= SeenEvents /\ ResetsTaken(resets, fin.line, fin.reset)
  BY <1>2, <1>8, <1>9, <1>10
<1>14. Audited(pair, fin, n)
  BY <1>10, <1>11, <1>12, <1>13 DEF Audited, raw, resets, sh
<1>15. fin.verdict = acc.verdict
  BY <1>6, <1>9, <1>10
<1> QED BY <1>10, <1>14, <1>15 DEF fin, after, began, item, raw

\* The invariant holds at the start, ...
LEMMA AuditStarts == AuditInit => AuditInv
<1> SUFFICES ASSUME NEW files \in Captures, AuditOf(files) PROVE AuditInv
  BY DEF AuditInit
<1>1. /\ pair = files /\ pair \in Captures
      /\ audit = [line |-> 1, seen |-> <<>>, reset |-> 1, expected |-> 0, read |-> 0,
                  complete |-> TRUE, errors |-> 0, mismatches |-> 0, verdict |-> "open"]
  BY DEF AuditOf
<1>2. /\ audit.line = 1 /\ audit.seen = <<>> /\ audit.reset = 1 /\ audit.expected = 0 /\ audit.read = 0
      /\ audit.complete /\ audit.errors = 0 /\ audit.mismatches = 0 /\ audit.verdict = "open"
  BY <1>1
<1>3. audit \in AuditRecords
  <2>1. <<>> \in Seq(Nat)
    OBVIOUS
  <2> QED BY <1>1, <2>1 DEF AuditRecords
<1>4. /\ Len(pair.raw) \in Nat /\ Len(pair.resets) \in Nat /\ Len(pair.text) \in Nat
      /\ SeenEvents \in Nat \ {0}
      /\ \A k \in 1..Len(pair.resets) : pair.resets[k] \in Nat \ {0}
  BY <1>1, CaptureTyped, AuditAssumption
<1>5. ResetsTaken(pair.resets, 1, 1)
  BY <1>4 DEF ResetsTaken
<1>6. LastSeen(<<>>, Segment(0, pair.resets), pair.raw, Shown(pair.raw, pair.resets))
  <2>1. Segment(0, pair.resets) = {}
    BY DEF Segment
  <2>2. Cached(<<>>, <<>>, {}, pair.raw, Shown(pair.raw, pair.resets))
    BY DEF Cached
  <2> QED BY <2>1, <2>2 DEF LastSeen
<1>7. TextRead(pair, audit, 0)
  <2>1. Count(Shown(pair.raw, pair.resets), 0) = 0
    BY Counts
  <2> QED BY <1>2, <1>4, <2>1 DEF TextRead, InPlace
<1>8. Len(<<>>) <= SeenEvents /\ 0 \in 0..Len(pair.raw) /\ 1 - 1 = 0 /\ \A m \in 1..0 : pair.raw[m].of # Unreadable
  BY <1>4
<1>9. Audited(pair, audit, audit.line - 1)
  BY <1>2, <1>3, <1>5, <1>6, <1>7, <1>8 DEF Audited
<1> QED BY <1>1, <1>2, <1>9 DEF AuditInv

\* ... after each line, ...
LEMMA ComparisonKeeps == AuditInv /\ Compare => AuditInv'
<1> SUFFICES ASSUME AuditInv, Compare PROVE AuditInv'
  OBVIOUS
<1> DEFINE n == audit.line
           next == [AuditRecord(Reset(audit), pair.raw[n].of) EXCEPT !.line = @ + 1]
<1>1. pair \in Captures /\ pair' = pair /\ audit' = next /\ n <= Len(pair.raw) /\ Audited(pair, audit, n - 1)
  BY DEF AuditInv, Compare
<1>2. n \in 1..Len(pair.raw) /\ audit.verdict = "open"
  <2>1. audit.line = n - 1 + 1 /\ n - 1 \in 0..Len(pair.raw) /\ Len(pair.raw) \in Nat /\ audit \in AuditRecords
    BY <1>1, CaptureTyped DEF Audited
  <2>2. n \in Nat
    BY <2>1, Counters
  <2>3. ~(audit.line > Len(pair.raw))
    BY <1>1, <2>1, <2>2
  <2> QED BY <1>1, <2>1, <2>2, <2>3 DEF AuditInv
<1>3. Audited(pair, next, n) /\ next.line = n + 1 /\ next.verdict = "open"
  BY <1>1, <1>2, AuditAdvances
<1> HIDE DEF next
<1>4. next.line - 1 = n
  BY <1>2, <1>3
<1> HIDE DEF n
<1>5. Audited(pair', audit', audit'.line - 1)
  BY <1>1, <1>3, <1>4
<1> QED BY <1>1, <1>3, <1>5 DEF AuditInv

\* ... and after the verdict.
LEMMA ConclusionKeeps == AuditInv /\ Conclude => AuditInv'
<1> SUFFICES ASSUME AuditInv, Conclude PROVE AuditInv'
  OBVIOUS
<1> DEFINE v == IF AuditFails THEN "failed" ELSE "passed"
           n == audit.line - 1
<1>1. /\ pair \in Captures /\ pair' = pair /\ audit' = [audit EXCEPT !.verdict = v]
      /\ audit.line > Len(pair.raw) /\ Audited(pair, audit, n)
  BY DEF AuditInv, Conclude
<1>2. v \in {"passed", "failed"} /\ (v = "passed" <=> ~AuditFails)
  OBVIOUS
<1>3. audit \in AuditRecords
  BY <1>1 DEF Audited
<1> HIDE DEF v
<1>4. /\ audit'.line = audit.line /\ audit'.seen = audit.seen /\ audit'.reset = audit.reset /\ audit'.expected = audit.expected
      /\ audit'.read = audit.read /\ audit'.complete = audit.complete /\ audit'.errors = audit.errors
      /\ audit'.mismatches = audit.mismatches /\ audit'.verdict = v
  BY <1>1, <1>3 DEF AuditRecords
<1>5. audit' \in AuditRecords
  BY <1>1, <1>2, <1>3 DEF AuditRecords
<1>6. Audited(pair, audit', n)
  BY <1>1, <1>4, <1>5 DEF Audited, TextRead
<1>7. AuditFails' <=> AuditFails
  BY <1>1, <1>4 DEF AuditFails, Mixed, Unterminated, Style
<1>8. Audited(pair', audit', audit'.line - 1)
  BY <1>1, <1>4, <1>6
<1> QED BY <1>1, <1>2, <1>4, <1>7, <1>8 DEF AuditInv

LEMMA AuditKept == AuditInv /\ [AuditNext]_auditVars => AuditInv'
<1>1. ASSUME AuditInv, UNCHANGED auditVars PROVE AuditInv'
  <2>1. pair' = pair /\ audit' = audit
    BY <1>1 DEF auditVars
  <2>2. AuditFails' <=> AuditFails
    BY <2>1 DEF AuditFails, Mixed, Unterminated, Style
  <2>3. Audited(pair', audit', audit'.line - 1) <=> Audited(pair, audit, audit.line - 1)
    BY <2>1
  <2> QED BY <1>1, <2>1, <2>2, <2>3 DEF AuditInv
<1> QED BY <1>1, ComparisonKeeps, ConclusionKeeps DEF AuditNext

-----------------------------------------------------------------------------
(* What the verdict says.                                                  *)

Alike(file, style) == \A k \in DOMAIN file : file[k].end = style

\* A file without a mixed or a missing line end has the style of its first line.
LEMMA StyleIsKept ==
    ASSUME NEW file, NEW records, LinesOf(file, records)
    PROVE  /\ file # <<>> /\ ~Mixed(file) /\ ~Unterminated(file) => Style(file) \in {"lf", "crlf"} /\ Alike(file, Style(file))
           /\ \A style \in {"lf", "crlf"} :
                Alike(file, style) => ~Mixed(file) /\ ~Unterminated(file) /\ (file # <<>> => Style(file) = style)
           /\ file = <<>> => Style(file) = "none"
<1> DEFINE ended == {k \in DOMAIN file : file[k].end # "none"}
           N == Len(file)
           FileRecord == [of : records, end : {"lf", "crlf", "none"}]
<1>0. file \in Seq(FileRecord) /\ \A k \in 1..(N - 1) : file[k].end # "none"
  BY DEF LinesOf
<1>1. /\ N \in Nat /\ DOMAIN file = 1..N /\ \A k \in 1..N : file[k].end \in {"lf", "crlf", "none"}
      /\ file # <<>> => N # 0 /\ N \in DOMAIN file
      /\ file = <<>> => DOMAIN file = {}
  <2>1. \A line \in FileRecord : line.end \in {"lf", "crlf", "none"}
    OBVIOUS
  <2> HIDE DEF FileRecord
  <2>2. N \in Nat /\ DOMAIN file = 1..N /\ \A k \in 1..N : file[k] \in FileRecord
    BY <1>0
  <2>3. file # <<>> => N # 0
    BY <1>0
  <2>4. file = <<>> => DOMAIN file = {}
    OBVIOUS
  <2> HIDE DEF N
  <2>5. N # 0 => N \in 1..N
    BY <2>2
  <2> QED BY <2>1, <2>2, <2>3, <2>4, <2>5
<1> HIDE DEF FileRecord
<1>2. Last(file) = file[N]
  BY DEF Last
<1>3. Style(file) = IF ended = {} THEN "none" ELSE file[Min(ended)].end
  BY DEF Style
<1>4. ended # {} => Min(ended) \in ended
  <2> SUFFICES ASSUME ended # {} PROVE Min(ended) \in ended
    OBVIOUS
  <2>1. ended \in SUBSET Nat
    BY <1>1
  <2> HIDE DEF ended
  <2>2. \E x \in ended : \A y \in ended : x <= y
    BY <2>1, LeastMember
  <2> QED BY <2>2 DEF Min
<1>5. ASSUME file # <<>>, ~Mixed(file), ~Unterminated(file)
      PROVE  Style(file) \in {"lf", "crlf"} /\ Alike(file, Style(file))
  <2>1. \A k \in 1..N : file[k].end # "none"
    <3>1. file[N].end # "none"
      BY <1>2, <1>5 DEF Unterminated
    <3>2. \A k \in 1..N : k = N \/ k \in 1..(N - 1)
      <4>1. N \in Nat
        BY <1>1
      <4> HIDE DEF N
      <4> QED BY <4>1
    <3> QED BY <1>0, <3>1, <3>2
  <2>2. N \in ended
    BY <1>1, <1>5, <2>1
  <2>3. Min(ended) \in DOMAIN file /\ Style(file) = file[Min(ended)].end
    BY <1>3, <1>4, <2>2
  <2>4. Style(file) \in {"lf", "crlf"}
    BY <1>1, <2>1, <2>3
  <2>5. \A k \in DOMAIN file : file[k].end = Style(file)
    BY <1>1, <1>5, <2>1 DEF Mixed
  <2> QED BY <2>4, <2>5 DEF Alike
<1>6. ASSUME NEW style \in {"lf", "crlf"}, Alike(file, style)
      PROVE  ~Mixed(file) /\ ~Unterminated(file) /\ (file # <<>> => Style(file) = style)
  <2>1. \A k \in DOMAIN file : file[k].end = style /\ style # "none"
    BY <1>6 DEF Alike
  <2>2. ended = DOMAIN file
    BY <2>1
  <2>3. ~Unterminated(file)
    BY <1>1, <1>2, <2>1 DEF Unterminated
  <2>4. file # <<>> => Style(file) = style
    BY <1>1, <1>3, <1>4, <2>1, <2>2
  <2>5. ~Mixed(file)
    BY <1>1, <2>1, <2>4 DEF Mixed
  <2> QED BY <2>3, <2>4, <2>5
<1>7. file = <<>> => Style(file) = "none"
  BY <1>1, <1>3
<1> QED BY <1>5, <1>6, <1>7

NewlinesFail(raw, text) ==
    \/ Mixed(raw) \/ Mixed(text) \/ Unterminated(raw) \/ Unterminated(text)
    \/ "none" \notin {Style(raw), Style(text)} /\ Style(raw) # Style(text)

\* The line ends are accepted exactly if they are all there and all alike.
LEMMA NewlinesMean ==
    ASSUME NEW raw, NEW text, NEW R, NEW T, LinesOf(raw, R), LinesOf(text, T)
    PROVE  ~NewlinesFail(raw, text) <=> Uniform(raw, text)
<1>1. Uniform(raw, text) <=> \E style \in {"lf", "crlf"} : Alike(raw, style) /\ Alike(text, style)
  BY DEF Uniform, Alike
<1>2. raw = <<>> => \A style : Alike(raw, style)
  BY DEF Alike
<1>3. text = <<>> => \A style : Alike(text, style)
  BY DEF Alike
<1>4. ASSUME ~NewlinesFail(raw, text) PROVE \E style \in {"lf", "crlf"} : Alike(raw, style) /\ Alike(text, style)
  <2>1. CASE raw = <<>> /\ text = <<>>
    BY <1>2, <1>3, <2>1
  <2>2. CASE raw # <<>> /\ text = <<>>
    BY <1>3, <1>4, <2>2, StyleIsKept DEF NewlinesFail
  <2>3. CASE raw = <<>> /\ text # <<>>
    BY <1>2, <1>4, <2>3, StyleIsKept DEF NewlinesFail
  <2>4. CASE raw # <<>> /\ text # <<>>
    BY <1>4, <2>4, StyleIsKept DEF NewlinesFail
  <2> QED BY <2>1, <2>2, <2>3, <2>4
<1>5. ASSUME NEW style \in {"lf", "crlf"}, Alike(raw, style), Alike(text, style) PROVE ~NewlinesFail(raw, text)
  BY <1>5, StyleIsKept DEF NewlinesFail
<1> QED BY <1>1, <1>4, <1>5

\* The text shows what is shown, in its place, exactly if it is the rendering.
LEMMA RenderedMeans ==
    ASSUME NEW raw \in Seq(AuditLine), NEW text \in Seq([of : Nat, end : {"lf", "crlf", "none"}]), NEW resets
    PROVE  Count(Shown(raw, resets), Len(raw)) = Len(text) /\ InPlace(raw, text, Shown(raw, resets), Len(raw))
           <=> Rendered(raw, resets) = [k \in DOMAIN text |-> text[k].of]
<1> DEFINE sh == Shown(raw, resets)
           N == Len(raw)
           C == Count(sh, N)
           PlaceOf(k) == CHOOSE n \in 1..N : sh[n] /\ Count(sh, n) = k
           shows == [k \in 1..Len(text) |-> text[k].of]
           rendered == [k \in 1..C |-> raw[PlaceOf(k)].of]
<1>1. N \in Nat /\ DOMAIN raw = 1..N /\ Len(text) \in Nat /\ DOMAIN text = 1..Len(text)
  OBVIOUS
<1>2. Rendered(raw, resets) = rendered
  <2>1. Rendered(raw, resets) =
          [k \in 1..Cardinality({n \in DOMAIN raw : sh[n]}) |->
             raw[CHOOSE n \in DOMAIN raw : sh[n] /\ Cardinality({m \in 1..n : sh[m]}) = k].of]
    BY DEF Rendered
  <2> HIDE DEF sh
  <2> QED BY <1>1, <2>1 DEF Count
<1> HIDE DEF sh, N
<1>3. \A k \in 1..C : PlaceOf(k) \in 1..N /\ sh[PlaceOf(k)] /\ Count(sh, PlaceOf(k)) = k
  <2> SUFFICES ASSUME NEW k \in 1..C PROVE PlaceOf(k) \in 1..N /\ sh[PlaceOf(k)] /\ Count(sh, PlaceOf(k)) = k
    OBVIOUS
  <2>1. \E n \in 1..N : sh[n] /\ Count(sh, n) = k
    BY <1>1, CountReaches
  <2> QED BY <2>1
<1>4. ASSUME NEW m \in 1..N, sh[m] PROVE Count(sh, m) \in 1..C /\ PlaceOf(Count(sh, m)) = m
  <2> DEFINE c == Count(sh, m)
             p == PlaceOf(c)
  <2>1. c \in Nat /\ C \in Nat /\ Count(sh, 0) = 0
    <3>1. m \in Nat
      BY <1>1
    <3>2. Count(sh, m) \in Nat /\ Count(sh, 0) = 0
      BY <3>1, Counts
    <3>3. Count(sh, N) \in Nat
      BY <1>1, Counts
    <3> QED BY <3>2, <3>3
  <2>2. c >= 1
    <3>1. Count(sh, 0) < Count(sh, m)
      BY <1>4, CountGrows
    <3> QED BY <2>1, <3>1
  <2>3. c <= C
    <3>1. CASE m = N
      BY <2>1, <3>1
    <3>2. CASE m # N
      <4>1. m < N /\ m \in Nat
        BY <1>1, <3>2
      <4> QED BY <1>1, <4>1, CountGrows
    <3> QED BY <3>1, <3>2
  <2>4. c \in 1..C
    BY <2>1, <2>2, <2>3
  <2>5. p \in 1..N /\ sh[p] /\ Count(sh, p) = c
    BY <1>3, <2>4
  <2> HIDE DEF p, c
  <2>6. p = m
    <3>1. p \in Nat /\ m \in Nat
      BY <1>1, <2>5
    <3>2. p < m => c < c
      <4> SUFFICES ASSUME p < m PROVE c < c
        OBVIOUS
      <4>1. Count(sh, p) < Count(sh, m)
        BY <1>4, <3>1, CountGrows
      <4> QED BY <2>5, <4>1 DEF c
    <3>3. m < p => c < c
      <4> SUFFICES ASSUME m < p PROVE c < c
        OBVIOUS
      <4>1. Count(sh, m) < Count(sh, p)
        BY <2>5, <3>1, CountGrows
      <4> QED BY <2>5, <4>1 DEF c
    <3> QED BY <2>1, <3>1, <3>2, <3>3
  <2> QED BY <2>4, <2>6 DEF c, p
<1> HIDE DEF PlaceOf
<1>5. C \in Nat
  BY <1>1, Counts
<1> HIDE DEF C
<1>6. ASSUME C = Len(text), \A m \in 1..N : sh[m] => text[Count(sh, m)].of = raw[m].of PROVE rendered = shows
  <2>1. \A k \in 1..C : raw[PlaceOf(k)].of = text[k].of
    BY <1>3, <1>6
  <2> QED BY <1>6, <2>1
<1>7. ASSUME rendered = shows PROVE C = Len(text) /\ \A m \in 1..N : sh[m] => text[Count(sh, m)].of = raw[m].of
  <2>1. 1..C = 1..Len(text) /\ \A k \in 1..C : raw[PlaceOf(k)].of = text[k].of
    <3>1. DOMAIN rendered = 1..C /\ DOMAIN shows = 1..Len(text) /\ (\A k \in 1..C : rendered[k] = raw[PlaceOf(k)].of)
          /\ \A k \in 1..Len(text) : shows[k] = text[k].of
      OBVIOUS
    <3> HIDE DEF rendered, shows
    <3> QED BY <1>7, <3>1
  <2>2. C = Len(text)
    <3> DEFINE T == Len(text)
    <3>1. \A a, b \in Nat : a < b => b \in 1..b /\ b \notin 1..a
      OBVIOUS
    <3>2. C \in Nat /\ T \in Nat /\ 1..C = 1..T
      BY <1>1, <1>5, <2>1
    <3> HIDE DEF T
    <3>3. ~(C < T) /\ ~(T < C)
      BY <3>1, <3>2
    <3>4. C = T
      BY <3>2, <3>3
    <3> QED BY <3>4 DEF T
  <2>3. \A m \in 1..N : sh[m] => text[Count(sh, m)].of = raw[m].of
    BY <1>4, <2>1
  <2> QED BY <2>2, <2>3
<1>8. shows = [k \in DOMAIN text |-> text[k].of]
  BY <1>1
<1> HIDE DEF rendered, shows
<1> QED BY <1>2, <1>6, <1>7, <1>8 DEF C, sh, N, InPlace

\* Of the last line, the invariant is the property.
LEMMA VerdictIsExact == AuditInv => AuditIsExact
<1> SUFFICES ASSUME AuditInv, audit.verdict # "open"
             PROVE  audit.verdict = "passed" <=>
                      /\ \A n \in DOMAIN pair.raw : pair.raw[n].of # Unreadable
                      /\ \A k \in DOMAIN pair.resets : pair.resets[k] \in DOMAIN pair.raw
                      /\ Uniform(pair.raw, pair.text)
                      /\ Rendered(pair.raw, pair.resets) = [k \in DOMAIN pair.text |-> pair.text[k].of]
  BY DEF AuditIsExact
<1> DEFINE N == Len(pair.raw)
           L == Len(pair.resets)
           T == Len(pair.text)
<1>1. /\ pair \in Captures /\ Audited(pair, audit, audit.line - 1) /\ audit.line > N
      /\ audit.verdict = "passed" <=> ~AuditFails
  BY DEF AuditInv
<1>2. /\ pair.raw \in Seq(AuditLine) /\ pair.text \in Seq([of : Nat, end : {"lf", "crlf", "none"}])
      /\ pair.resets \in Seq(Nat) /\ Capture(pair) /\ \A k \in 1..L : pair.resets[k] \in Nat \ {0}
  BY <1>1, CaptureTyped
<1>3. N \in Nat /\ L \in Nat /\ T \in Nat /\ DOMAIN pair.raw = 1..N /\ DOMAIN pair.resets = 1..L /\ DOMAIN pair.text = 1..T
  BY <1>2
<1> HIDE DEF N, L, T
<1>4. audit \in AuditRecords
  BY <1>1 DEF Audited
<1>5. audit.line - 1 = N /\ audit.line = N + 1
  <2>1. audit.line \in Nat /\ audit.line - 1 \in 0..N
    BY <1>1, <1>4, Counters DEF Audited, N
  <2> QED BY <1>1, <1>3, <2>1
<1>6. /\ ResetsTaken(pair.resets, N + 1, audit.reset)
      /\ audit.errors = 0 <=> \A m \in 1..N : pair.raw[m].of # Unreadable
      /\ audit.errors = 0 => audit.complete /\ TextRead(pair, audit, N)
  BY <1>1, <1>5 DEF Audited
<1>7. audit.reset <= L <=> ~\A k \in 1..L : pair.resets[k] \in 1..N
  <2>1. /\ audit.reset \in 1..(L + 1)
        /\ \A k \in 1..L : IF k < audit.reset THEN pair.resets[k] < N + 1 ELSE pair.resets[k] >= N + 1
    BY <1>6 DEF ResetsTaken, L
  <2>2. CASE audit.reset <= L
    <3>1. audit.reset \in 1..L /\ pair.resets[audit.reset] >= N + 1
      BY <1>3, <2>1, <2>2
    <3>2. pair.resets[audit.reset] \notin 1..N
      BY <1>2, <1>3, <3>1
    <3> QED BY <2>2, <3>1, <3>2
  <2>3. CASE ~(audit.reset <= L)
    <3>1. \A k \in 1..L : k < audit.reset
      BY <1>3, <2>1, <2>3
    <3> QED BY <1>2, <1>3, <2>1, <2>3, <3>1
  <2> QED BY <2>2, <2>3
<1>8. ~NewlinesFail(pair.raw, pair.text) <=> Uniform(pair.raw, pair.text)
  BY <1>2, NewlinesMean DEF Capture
<1>9. audit.errors \in Nat /\ audit.mismatches \in Nat
  BY <1>4, Counters
<1>10. AuditFails <=> \/ audit.errors # 0 \/ audit.mismatches # 0 \/ audit.reset <= L \/ ~audit.complete
                      \/ audit.expected # T \/ NewlinesFail(pair.raw, pair.text)
  <2>1. (audit.errors > 0 <=> audit.errors # 0) /\ (audit.mismatches > 0 <=> audit.mismatches # 0)
    BY <1>9
  <2> QED BY <2>1 DEF AuditFails, NewlinesFail, L, T
<1>11. CASE audit.errors # 0
  BY <1>1, <1>3, <1>6, <1>10, <1>11
<1>12. CASE audit.errors = 0
  <2> DEFINE shown == Shown(pair.raw, pair.resets)
             placed == InPlace(pair.raw, pair.text, shown, N)
  <2>1. /\ audit.expected = Count(shown, N)
        /\ audit.mismatches = 0 <=> audit.expected <= T /\ placed
    BY <1>6, <1>12 DEF TextRead, T
  <2>2. (Count(shown, N) = T /\ placed)
          <=> Rendered(pair.raw, pair.resets) = [k \in DOMAIN pair.text |-> pair.text[k].of]
    BY <1>2, RenderedMeans DEF N, T
  <2> HIDE DEF shown, placed
  <2>3. audit.mismatches = 0 /\ audit.expected = T <=> Count(shown, N) = T /\ placed
    BY <1>3, <2>1
  <2> QED BY <1>1, <1>3, <1>6, <1>7, <1>8, <1>10, <1>12, <2>2, <2>3
<1> QED BY <1>11, <1>12

\* Whatever pair of files is audited, and however few events the cache holds: the audit,
\* which reads the two once, side by side, with a bounded cache, accepts them exactly when
\* each line is whole and ends alike, every reset is before a line there is, and the text
\* is what the raw records render to (capture_parity.py:277-434).
THEOREM AuditsAreExact == AuditSpec => []AuditIsExact
<1>1. AuditSpec => []AuditInv
  BY AuditStarts, AuditKept, PTL DEF AuditSpec
<1> QED BY <1>1, VerdictIsExact, PTL

-----------------------------------------------------------------------------
(* What a run says of its capture: the parts of the invariant.             *)

Tallies == [DOMAIN Zero -> Nat]

Undecided == {"control", "unsupported", "malformed", "error"}
Frames == {NoWork} \cup [kind : Undecided] \cup [kind : {"record", "parsed"}, of : Feed]
              \cup [kind : {"chunk", "items"}, of : Seq(Lines)]
KindsAt == [kick |-> Undecided \cup {"none", "record", "parsed"}, twitch |-> {"none", "chunk", "items"},
            youtube |-> {"none"}]

RunTyped(r) ==
    /\ DOMAIN r = {"at", "success", "reason", "finished", "deadline", "verifyAnyway", "bound", "prefetched",
                   "complete", "noted", "found", "inspection", "parity", "manifest"}
    /\ r.at \in {"capture", "close", "observe", "verify", "complete", "done"}
    /\ r.reason \in {"error", "completed", "timeout", "interrupted"}
    /\ r.success \in BOOLEAN /\ r.finished \in BOOLEAN /\ r.deadline \in BOOLEAN /\ r.bound \in BOOLEAN
    /\ r.complete \in BOOLEAN /\ r.prefetched \in Nat /\ r.noted \in Tallies
    /\ r.inspection \in {"none", "ok", "review"}

VerdictTyped ==
    /\ setup \in Setups /\ tally \in Tallies
    /\ frame \in Frames /\ frame.kind \in KindsAt[Site]
    /\ ahead \in Seq(Feed) /\ counted \in Seq(Feed)
    /\ provider \in {"open", "last", "ended", "raised", "gone"}
    /\ RunTyped(run)

\* A frame that is counted and not yet decided on.
Pending == frame.kind \in Undecided \cup {"record"}

\* Lines that are counted, no control lines, and not yet looked at.
Meant == {"message", "reconnect", "odd"}
Waiting == IF frame.kind = "chunk" THEN Of(frame.of, Meant) ELSE 0

\* The counters balance, and show exactly whether anything went wrong.
Accounted ==
    /\ Site = "kick" =>
         /\ Unaccounted(tally) = IF Pending THEN 1 ELSE 0
         /\ tally.malformed = tally.malformedTypes
         /\ trouble = {} <=> ~Anomalies(tally)
    /\ Site = "twitch" =>
         /\ UnaccountedLines(tally) >= Waiting
         /\ trouble = {} <=> UnaccountedLines(tally) = Waiting
    /\ Site = "youtube" => (trouble = {} <=> tally.malformed = 0)

\* Where the provider's iterator can stand.
Placed ==
    /\ provider = "open" => run.at \in {"capture", "close"}
    /\ provider \in {"ended", "raised"} => frame.kind = "none"
    /\ provider = "last" => setup.timed
    /\ provider \in {"last", "gone"} => run.at \notin {"capture", "close"}
    /\ provider = "gone" /\ setup.timed => frame.kind \in {"none", "parsed", "items"}

\* Until the run has failed nothing it was given is lost, and the file is what it took.
Kept ==
    run.at = "capture" \/ run.finished =>
        /\ EmittedOf(tally) = Len(counted) + Len(ahead)
        /\ jsonl = setup.prior \o (IF counted = <<>> THEN setup.stale ELSE counted)

Early == run.at \in {"capture", "close", "observe", "verify"}

\* What the result can be at each place of the run.
Phased ==
    /\ run.at = "capture" => ~run.finished /\ ~run.deadline /\ run.bound = setup.verify
    /\ run.success => run.finished
    /\ run.at # "done" => run.manifest = <<>>
    /\ Early => /\ run.inspection = "none"
                /\ run.success => run.bound = setup.verify
                /\ run.bound => setup.verify /\ (run.success <=> run.finished)
    /\ run.reason = "completed" => run.finished /\ ~run.deadline /\ provider = "ended"
    /\ run.deadline => setup.timed
    /\ run.finished => run.deadline \/ (provider = "ended" /\ ahead = <<>>)

\* The counts that were noted are those of what was written.
NotedRight ==
    run.at \in {"verify", "complete", "done"} =>
        /\ run.finished => Len(counted) = EmittedOf(run.noted) - run.prefetched
        /\ run.deadline \/ run.prefetched = 0
        /\ run.complete => provider # "last" /\ (setup.timed => run.finished)
        /\ run.complete \/ provider = "ended" => run.noted = tally

\* A judgement, once made, stands.
Judged ==
    run.at \in {"complete", "done"} =>
        /\ run.inspection # "none" => setup.verify
        /\ run.success /\ setup.verify => run.inspection = "ok" /\ run.parity = "passed"
        /\ run.complete => run.found = trouble \cup Unread

Concluded ==
    run.at = "done" =>
        /\ run.success /\ setup.require => ReplayComplete(run)
        /\ run.manifest = <<>> \/ run.manifest = <<Manifest(run)>>

VerdictInv ==
    /\ VerdictTyped /\ Accounted /\ Placed /\ Kept /\ Phased /\ NotedRight /\ Judged /\ Concluded
    /\ InspectionExact

-----------------------------------------------------------------------------
(* Counting.                                                               *)

\* A counter that goes up; the others stay.
LEMMA PlusMeans ==
    ASSUME NEW t \in Tallies, NEW key \in DOMAIN Zero
    PROVE  /\ Plus(t, key) \in Tallies /\ Plus(t, key)[key] = t[key] + 1
           /\ \A other \in DOMAIN Zero : other # key => Plus(t, key)[other] = t[other]
BY DEF Tallies, Plus

\* What is computed from counters are numbers.
LEMMA TallyTyped ==
    ASSUME NEW t \in Tallies
    PROVE  /\ t.frames \in Nat /\ t.control \in Nat /\ t.parsed \in Nat /\ t.unsupported \in Nat
           /\ t.malformed \in Nat /\ t.malformedTypes \in Nat /\ t.errors \in Nat /\ t.oddTypes \in Nat
           /\ t.invalid \in Nat /\ t.pollFailures \in Nat /\ t.recoveryFailures \in Nat
           /\ t.truncated \in Nat /\ t.preloaded \in Nat /\ t.live \in Nat /\ t.backfill \in Nat
           /\ EmittedOf(t) \in Nat /\ Unaccounted(t) \in Int /\ UnaccountedLines(t) \in Int
           /\ Anomalies(t) \in BOOLEAN
<1>1. /\ t.frames \in Nat /\ t.control \in Nat /\ t.parsed \in Nat /\ t.unsupported \in Nat
      /\ t.malformed \in Nat /\ t.malformedTypes \in Nat /\ t.errors \in Nat /\ t.oddTypes \in Nat
      /\ t.invalid \in Nat /\ t.pollFailures \in Nat /\ t.recoveryFailures \in Nat
      /\ t.truncated \in Nat /\ t.preloaded \in Nat /\ t.live \in Nat /\ t.backfill \in Nat
  BY DEF Tallies, Zero
<1> QED BY <1>1 DEF EmittedOf, Unaccounted, UnaccountedLines, Anomalies

\* The counters a run starts with.
LEMMA ZeroTyped == Zero \in Tallies
BY DEF Zero, Tallies

\* How many lines of a sequence are of some kinds.
LEMMA OfMeans ==
    ASSUME NEW L, NEW s \in Seq(L), NEW A, NEW B, A \cap B = {}
    PROVE  /\ Of(s, A) \in Nat /\ Of(s, A \cup B) = Of(s, A) + Of(s, B)
           /\ ((\A k \in DOMAIN s : s[k].kind \in A) => Of(s, A) = Len(s))
<1> DEFINE P(C) == {k \in DOMAIN s : s[k].kind \in C}
<1>1. \A C : Of(s, C) = Cardinality(P(C)) /\ P(C) \subseteq 1..Len(s)
  BY DEF Of
<1>2. P(A \cup B) = P(A) \cup P(B) /\ P(A) \cap P(B) = {}
  OBVIOUS
<1>3. (\A k \in DOMAIN s : s[k].kind \in A) => P(A) = 1..Len(s)
  OBVIOUS
<1> HIDE DEF P
<1>4. Len(s) \in Nat /\ 1 \in Int /\ Len(s) \in Int
  OBVIOUS
<1>5. IsFiniteSet(1..Len(s)) /\ Cardinality(1..Len(s)) = Len(s)
  BY <1>4, FS_Interval
<1>6. IsFiniteSet(P(A)) /\ IsFiniteSet(P(B))
  BY <1>1, <1>5, FS_Subset
<1>7. Cardinality(P(A)) \in Nat /\ Cardinality(P(B)) \in Nat /\ Cardinality({}) = 0
  BY <1>6, FS_CardinalityType, FS_EmptySet
<1>8. Cardinality(P(A) \cup P(B)) = Cardinality(P(A)) + Cardinality(P(B)) - Cardinality(P(A) \cap P(B))
  BY <1>6, FS_Union
<1>9. /\ Of(s, A) = Cardinality(P(A)) /\ Of(s, B) = Cardinality(P(B))
      /\ Of(s, A \cup B) = Cardinality(P(A \cup B))
  BY <1>1
<1>10. Of(s, A \cup B) = Of(s, A) + Of(s, B)
  <2>1. Cardinality(P(A) \cap P(B)) = 0 /\ Cardinality(P(A \cup B)) = Cardinality(P(A) \cup P(B))
    BY <1>2, <1>7, Zenon
  <2> QED BY <1>7, <1>8, <1>9, <2>1
<1>11. ASSUME \A k \in DOMAIN s : s[k].kind \in A PROVE Of(s, A) = Len(s)
  <2>1. P(A) = 1..Len(s)
    BY <1>3, <1>11
  <2> QED BY <1>5, <1>9, <2>1
<1> QED BY <1>7, <1>9, <1>10, <1>11

\* A chunk's lines are control lines and lines that mean something.
LEMMA ChunkCounts ==
    ASSUME NEW s \in Seq(Lines)
    PROVE  /\ Of(s, {"control"}) \in Nat /\ Of(s, Meant) \in Nat
           /\ Of(s, {"message", "reconnect"}) \in Nat /\ Of(s, {"odd"}) \in Nat
           /\ Len(s) = Of(s, {"control"}) + Of(s, Meant)
           /\ Of(s, Meant) = Of(s, {"message", "reconnect"}) + Of(s, {"odd"})
<1>1. \A k \in DOMAIN s : s[k].kind \in {"control"} \cup Meant
  <2> SUFFICES ASSUME NEW l \in Lines PROVE l.kind \in {"control"} \cup Meant
    OBVIOUS
  <2> QED BY DEF Lines, Meant
<1>2. /\ {"control"} \cap Meant = {} /\ Meant = {"message", "reconnect"} \cup {"odd"}
      /\ {"message", "reconnect"} \cap {"odd"} = {} /\ ({"control"} \cup Meant) \cap {} = {}
  BY DEF Meant
<1>3. Of(s, {"control"} \cup Meant) = Of(s, {"control"}) + Of(s, Meant) /\ Of(s, {"control"}) \in Nat
  BY <1>2, OfMeans
<1>4. Of(s, {"control"} \cup Meant) = Len(s)
  BY <1>1, <1>2, OfMeans
<1>5. /\ Of(s, {"message", "reconnect"} \cup {"odd"}) = Of(s, {"message", "reconnect"}) + Of(s, {"odd"})
      /\ Of(s, {"message", "reconnect"}) \in Nat
  BY <1>2, OfMeans
<1>6. Of(s, {"odd"}) \in Nat /\ Of(s, Meant) \in Nat
  <2>1. {"odd"} \cap {} = {} /\ Meant \cap {} = {}
    OBVIOUS
  <2>2. Of(s, {"odd"}) \in Nat
    BY <2>1, OfMeans
  <2>3. Of(s, Meant) \in Nat
    BY <2>1, OfMeans
  <2> QED BY <2>2, <2>3
<1> QED BY <1>2, <1>3, <1>4, <1>5, <1>6

\* What an emission does, and what else can have been the case.
Emitted(origin) ==
    /\ ahead' \in Seq(Feed)
    /\ provider' = provider \/ (provider = "last" /\ provider' = "gone")
    /\ \/ tally' = tally /\ Len(ahead') = Len(ahead)
       \/ tally' = Plus(tally, origin) /\ Len(ahead') = Len(ahead) + 1

\* The two outcomes of a yield.
LEMMA EmitMeans ==
    ASSUME VerdictTyped, NEW m \in Feed, NEW origin, Emit(m, origin, tally)
    PROVE  Emitted(origin)
<1>1. ahead \in Seq(Feed)
  BY DEF VerdictTyped
<1>2. CASE tally' = Plus(tally, origin) /\ ahead' = Append(ahead, m) /\ provider' = IF provider = "last" THEN "gone" ELSE provider
  <2>1. Append(ahead, m) \in Seq(Feed) /\ Len(Append(ahead, m)) = Len(ahead) + 1
    BY <1>1
  <2> QED BY <1>2, <2>1 DEF Emitted
<1>3. CASE tally' = tally /\ UNCHANGED <<ahead, provider>>
  BY <1>1, <1>3 DEF Emitted
<1> QED BY <1>2, <1>3 DEF Emit

\* The sources: an item emitted is counted once, and nothing else is.
LEMMA EmittedKeeps ==
    ASSUME VerdictTyped, NEW origin \in {"preloaded", "live", "backfill"}, Emitted(origin)
    PROVE  /\ tally' \in Tallies
           /\ EmittedOf(tally') - Len(ahead') = EmittedOf(tally) - Len(ahead)
           /\ Unaccounted(tally') = Unaccounted(tally) /\ UnaccountedLines(tally') = UnaccountedLines(tally)
           /\ Anomalies(tally') = Anomalies(tally)
           /\ tally'.malformed = tally.malformed /\ tally'.malformedTypes = tally.malformedTypes
<1>1. tally \in Tallies /\ Len(ahead) \in Nat
  BY DEF VerdictTyped
<1>2. CASE tally' = tally /\ Len(ahead') = Len(ahead)
  BY <1>1, <1>2 DEF EmittedOf, Unaccounted, UnaccountedLines, Anomalies
<1>3. CASE tally' = Plus(tally, origin) /\ Len(ahead') = Len(ahead) + 1
  <2>1. origin \in DOMAIN Zero
    BY DEF Zero
  <2>2. /\ tally' \in Tallies /\ tally'[origin] = tally[origin] + 1
        /\ \A other \in DOMAIN Zero : other # origin => tally'[other] = tally[other]
    BY <1>1, <1>3, <2>1, PlusMeans
  <2>3. \A other \in DOMAIN Zero \ {"preloaded", "live", "backfill"} : tally'[other] = tally[other]
    BY <2>2
  <2>4. /\ tally'.frames = tally.frames /\ tally'.control = tally.control /\ tally'.parsed = tally.parsed
        /\ tally'.unsupported = tally.unsupported /\ tally'.malformed = tally.malformed
        /\ tally'.malformedTypes = tally.malformedTypes /\ tally'.errors = tally.errors
        /\ tally'.oddTypes = tally.oddTypes /\ tally'.invalid = tally.invalid
        /\ tally'.pollFailures = tally.pollFailures /\ tally'.recoveryFailures = tally.recoveryFailures
        /\ tally'.truncated = tally.truncated
    BY <2>3 DEF Zero
  <2>5. EmittedOf(tally') = EmittedOf(tally) + 1
    <3> tally.preloaded \in Nat /\ tally.live \in Nat /\ tally.backfill \in Nat
      BY <1>1, TallyTyped
    <3>1. CASE origin = "preloaded"
      <4>1. tally'.preloaded = tally.preloaded + 1 /\ tally'.live = tally.live /\ tally'.backfill = tally.backfill
        BY <2>2, <3>1 DEF Zero
      <4> QED BY <4>1 DEF EmittedOf
    <3>2. CASE origin = "live"
      <4>1. tally'.live = tally.live + 1 /\ tally'.preloaded = tally.preloaded /\ tally'.backfill = tally.backfill
        BY <2>2, <3>2 DEF Zero
      <4> QED BY <4>1 DEF EmittedOf
    <3>3. CASE origin = "backfill"
      <4>1. tally'.backfill = tally.backfill + 1 /\ tally'.preloaded = tally.preloaded /\ tally'.live = tally.live
        BY <2>2, <3>3 DEF Zero
      <4> QED BY <4>1 DEF EmittedOf
    <3> QED BY <3>1, <3>2, <3>3
  <2>6. EmittedOf(tally) \in Nat
    BY <1>1, TallyTyped
  <2>7. /\ Unaccounted(tally') = Unaccounted(tally) /\ UnaccountedLines(tally') = UnaccountedLines(tally)
        /\ Anomalies(tally') = Anomalies(tally)
    BY <2>4 DEF Unaccounted, UnaccountedLines, Anomalies
  <2> QED BY <1>1, <1>3, <2>2, <2>4, <2>5, <2>6, <2>7
<1> QED BY <1>2, <1>3 DEF Emitted

-----------------------------------------------------------------------------
(* The steps of the provider's iterator.                                   *)

\* What a clean capture depends on.
LEMMA CleanKept ==
    ASSUME UNCHANGED <<setup, jsonl, counted>>,
           run'.found = run.found, run'.finished = run.finished, run'.complete = run.complete
    PROVE  Clean' = Clean
<1>1. ClosedFile' = ClosedFile /\ Site' = Site
  BY DEF ClosedFile, Site
<1>2. Whole' = Whole
  BY <1>1 DEF Whole
<1> QED BY <1>1, <1>2 DEF Clean

\* A step of the iterator's changes nothing that was said of the run.
LEMMA ProviderKeeps ==
    ASSUME VerdictInv, Running, UnchangedRun, tally' \in Tallies, ahead' \in Seq(Feed),
           provider = "last" => provider' \in {"last", "gone"},
           provider = "open" => provider' \in {"open", "ended", "raised"},
           EmittedOf(tally') - Len(ahead') = EmittedOf(tally) - Len(ahead)
    PROVE  Kept' /\ Phased' /\ NotedRight' /\ Judged' /\ Concluded' /\ InspectionExact'
<1> USE DEF UnchangedRun
<1>1. provider = "last" \/ (provider = "open" /\ run.at \in {"capture", "close"})
  BY DEF Running
<1>2. run.reason # "completed" /\ run'.reason # "completed"
  BY <1>1 DEF VerdictInv, Phased
<1>3. Kept'
  <2>1. /\ EmittedOf(tally) \in Nat /\ EmittedOf(tally') \in Nat /\ Len(ahead) \in Nat /\ Len(ahead') \in Nat
        /\ Len(counted) \in Nat
    BY TallyTyped DEF VerdictInv, VerdictTyped
  <2>2. CASE run.at = "capture" \/ run.finished
    <3>1. EmittedOf(tally) = Len(counted) + Len(ahead)
      BY <2>2 DEF VerdictInv, Kept
    <3>2. EmittedOf(tally') = Len(counted') + Len(ahead')
      BY <2>1, <3>1
    <3> QED BY <2>2, <3>2 DEF VerdictInv, Kept
  <2>3. CASE ~(run.at = "capture" \/ run.finished)
    BY <2>3 DEF Kept
  <2> QED BY <2>2, <2>3
<1>4. Phased'
  <2>1. run.finished => run.deadline
    BY <1>1 DEF VerdictInv, Phased
  <2> QED BY <1>2, <2>1 DEF VerdictInv, Phased, Early
<1>5. NotedRight'
  <2>1. run.at \in {"verify", "complete", "done"} => provider = "last" /\ ~run.complete
    BY <1>1 DEF VerdictInv, NotedRight
  <2> QED BY <2>1 DEF VerdictInv, NotedRight
<1>6. Judged'
  <2>1. run.at \in {"complete", "done"} => provider = "last" /\ ~run.complete
    BY <1>1 DEF VerdictInv, NotedRight
  <2> QED BY <2>1 DEF VerdictInv, Judged
<1>7. Concluded'
  <2>1. ReplayComplete(run) = FALSE /\ ReplayComplete(run)' = FALSE
    BY <1>2 DEF ReplayComplete
  <2>2. Manifest(run)' = Manifest(run)
    BY <2>1 DEF Manifest
  <2> QED BY <2>1, <2>2 DEF VerdictInv, Concluded
<1>8. InspectionExact'
  <2>1. Clean' = Clean
    BY CleanKept
  <2> QED BY <2>1 DEF VerdictInv, InspectionExact
<1> QED BY <1>3, <1>4, <1>5, <1>6, <1>7, <1>8

\* What one more on a counter does to the sums.
LEMMA PlusCounts ==
    ASSUME NEW t \in Tallies, NEW key \in DOMAIN Zero
    PROVE  /\ Plus(t, key) \in Tallies
           /\ Unaccounted(Plus(t, key)) =
                IF key = "frames" THEN Unaccounted(t) + 1
                ELSE IF key \in {"control", "parsed", "unsupported", "malformed", "errors"} THEN Unaccounted(t) - 1
                ELSE Unaccounted(t)
           /\ UnaccountedLines(Plus(t, key)) =
                IF key = "frames" THEN UnaccountedLines(t) + 1
                ELSE IF key \in {"control", "parsed"} THEN UnaccountedLines(t) - 1 ELSE UnaccountedLines(t)
           /\ EmittedOf(Plus(t, key)) =
                IF key \in {"preloaded", "live", "backfill"} THEN EmittedOf(t) + 1 ELSE EmittedOf(t)
           /\ Anomalies(Plus(t, key)) <=>
                Anomalies(t) \/ key \in {"unsupported", "oddTypes", "malformed", "invalid", "errors", "pollFailures",
                                         "recoveryFailures", "truncated"}
           /\ Plus(t, key).malformed = IF key = "malformed" THEN t.malformed + 1 ELSE t.malformed
           /\ Plus(t, key).malformedTypes = IF key = "malformedTypes" THEN t.malformedTypes + 1 ELSE t.malformedTypes
<1> DEFINE One(other) == IF key = other THEN 1 ELSE 0
           p == Plus(t, key)
<1>1. p \in Tallies /\ \A other \in DOMAIN Zero : p[other] = t[other] + One(other)
  BY PlusMeans DEF Tallies
<1>2. /\ p.frames = t.frames + One("frames") /\ p.control = t.control + One("control")
      /\ p.parsed = t.parsed + One("parsed") /\ p.unsupported = t.unsupported + One("unsupported")
      /\ p.malformed = t.malformed + One("malformed") /\ p.malformedTypes = t.malformedTypes + One("malformedTypes")
      /\ p.errors = t.errors + One("errors") /\ p.oddTypes = t.oddTypes + One("oddTypes")
      /\ p.invalid = t.invalid + One("invalid") /\ p.pollFailures = t.pollFailures + One("pollFailures")
      /\ p.recoveryFailures = t.recoveryFailures + One("recoveryFailures")
      /\ p.truncated = t.truncated + One("truncated") /\ p.preloaded = t.preloaded + One("preloaded")
      /\ p.live = t.live + One("live") /\ p.backfill = t.backfill + One("backfill")
  <2> HIDE DEF One, p
  <2> QED BY <1>1 DEF Zero
<1> HIDE DEF p
<1>3. /\ t.frames \in Nat /\ t.control \in Nat /\ t.parsed \in Nat /\ t.unsupported \in Nat
      /\ t.malformed \in Nat /\ t.malformedTypes \in Nat /\ t.errors \in Nat /\ t.oddTypes \in Nat
      /\ t.invalid \in Nat /\ t.pollFailures \in Nat /\ t.recoveryFailures \in Nat
      /\ t.truncated \in Nat /\ t.preloaded \in Nat /\ t.live \in Nat /\ t.backfill \in Nat
  BY TallyTyped
<1>4. Unaccounted(p) =
        IF key = "frames" THEN Unaccounted(t) + 1
        ELSE IF key \in {"control", "parsed", "unsupported", "malformed", "errors"} THEN Unaccounted(t) - 1
        ELSE Unaccounted(t)
  BY <1>2, <1>3 DEF Unaccounted
<1>5. UnaccountedLines(p) =
        IF key = "frames" THEN UnaccountedLines(t) + 1
        ELSE IF key \in {"control", "parsed"} THEN UnaccountedLines(t) - 1 ELSE UnaccountedLines(t)
  BY <1>2, <1>3 DEF UnaccountedLines
<1>6. EmittedOf(p) = IF key \in {"preloaded", "live", "backfill"} THEN EmittedOf(t) + 1 ELSE EmittedOf(t)
  BY <1>2, <1>3 DEF EmittedOf
<1>7. Anomalies(p) <=>
        Anomalies(t) \/ key \in {"unsupported", "oddTypes", "malformed", "invalid", "errors", "pollFailures",
                                 "recoveryFailures", "truncated"}
  BY <1>2, <1>3 DEF Anomalies
<1>8. /\ p.malformed = IF key = "malformed" THEN t.malformed + 1 ELSE t.malformed
      /\ p.malformedTypes = IF key = "malformedTypes" THEN t.malformedTypes + 1 ELSE t.malformedTypes
  BY <1>2, <1>3
<1> QED BY <1>1, <1>4, <1>5, <1>6, <1>7, <1>8 DEF p

\* What is left to show of a step of the iterator's.
LEMMA StepKeeps ==
    ASSUME VerdictInv, Running, UnchangedRun, tally' \in Tallies, ahead' \in Seq(Feed),
           EmittedOf(tally') - Len(ahead') = EmittedOf(tally) - Len(ahead),
           frame' \in Frames, frame'.kind \in KindsAt[Site], Accounted',
           \/ provider' = provider
           \/ provider = "open" /\ provider' \in {"ended", "raised"} /\ frame'.kind = "none"
           \/ provider = "last" /\ provider' = "gone" /\ frame'.kind \in {"none", "parsed", "items"}
    PROVE  VerdictInv'
<1> USE DEF UnchangedRun
<1>1. Site' = Site
  BY DEF Site
<1>2. VerdictTyped'
  BY <1>1 DEF VerdictInv, VerdictTyped
<1>3. Placed'
  BY DEF VerdictInv, Placed, Running
<1>4. provider \in {"open", "last"}
  BY DEF Running
<1>5. Kept' /\ Phased' /\ NotedRight' /\ Judged' /\ Concluded' /\ InspectionExact'
  BY <1>4, ProviderKeeps
<1> QED BY <1>2, <1>3, <1>5 DEF VerdictInv

\* Of a step that emits.
LEMMA EmitKeeps ==
    ASSUME VerdictInv, Running, UnchangedRun, UNCHANGED trouble,
           NEW origin \in {"preloaded", "live", "backfill"}, NEW m \in Feed, Emit(m, origin, tally),
           frame' \in Frames, frame'.kind \in KindsAt[Site] \cap {"none", "parsed", "items"},
           Pending = FALSE, Waiting = 0
    PROVE  VerdictInv'
<1>1. Emitted(origin)
  BY EmitMeans DEF VerdictInv
<1>2. /\ tally' \in Tallies
      /\ EmittedOf(tally') - Len(ahead') = EmittedOf(tally) - Len(ahead)
      /\ Unaccounted(tally') = Unaccounted(tally) /\ UnaccountedLines(tally') = UnaccountedLines(tally)
      /\ Anomalies(tally') = Anomalies(tally)
      /\ tally'.malformed = tally.malformed /\ tally'.malformedTypes = tally.malformedTypes
  BY <1>1, EmittedKeeps DEF VerdictInv
<1>3. Pending' = FALSE /\ Waiting' = 0
  BY DEF Pending, Waiting, Undecided
<1>4. Accounted'
  BY <1>2, <1>3 DEF VerdictInv, Accounted, UnchangedRun, Site
<1> QED BY <1>1, <1>2, <1>4, StepKeeps DEF Emitted

\* A step that emits nothing and stays where it is.
LEMMA CountKeeps ==
    ASSUME VerdictInv, Running, UnchangedRun, UNCHANGED <<ahead, provider>>, tally' \in Tallies,
           EmittedOf(tally') = EmittedOf(tally), frame' \in Frames, frame'.kind \in KindsAt[Site], Accounted'
    PROVE  VerdictInv'
<1>1. ahead' \in Seq(Feed) /\ Len(ahead) \in Nat /\ EmittedOf(tally) \in Nat
  BY TallyTyped DEF VerdictInv, VerdictTyped
<1>2. EmittedOf(tally') - Len(ahead') = EmittedOf(tally) - Len(ahead)
  BY <1>1
<1> QED BY <1>1, <1>2, StepKeeps

\* Where an iterator is that has nothing to work on.
LEMMA Idle ==
    ASSUME frame = NoWork
    PROVE  frame \in Frames /\ frame.kind = "none" /\ Pending = FALSE /\ Waiting = 0
BY DEF Frames, NoWork, Pending, Waiting, Undecided

\* Having no frame is a place at every site.
LEMMA NoneAnywhere == NoWork \in Frames /\ NoWork.kind = "none" /\ \A s \in Setups : "none" \in KindsAt[s.site]
BY VerdictAssumption DEF Frames, NoWork, KindsAt, Undecided

LEMMA PreloadKeeps == VerdictInv /\ KickPreload => VerdictInv'
<1> SUFFICES ASSUME VerdictInv, KickPreload PROVE VerdictInv'
  OBVIOUS
<1>1. PICK m \in Feed : Emit(m, "preloaded", tally)
  BY DEF KickPreload
<1>2. frame' = NoWork /\ frame = NoWork /\ Running /\ UnchangedRun /\ UNCHANGED trouble
  BY DEF KickPreload, MayBegin
<1>3. frame' \in Frames /\ frame'.kind \in KindsAt[Site] \cap {"none", "parsed", "items"}
  BY <1>2, NoneAnywhere DEF VerdictInv, VerdictTyped, Site
<1> QED BY <1>1, <1>2, <1>3, Idle, EmitKeeps

LEMMA ActionKeeps == VerdictInv /\ YouTubeAction => VerdictInv'
<1> SUFFICES ASSUME VerdictInv, YouTubeAction PROVE VerdictInv'
  OBVIOUS
<1>1. frame' = NoWork /\ frame = NoWork /\ Running /\ UnchangedRun /\ Site = "youtube" /\ Site' = Site
  BY DEF YouTubeAction, MayBegin, UnchangedRun, Site
<1>2. frame' \in Frames /\ frame'.kind \in KindsAt[Site] \cap {"none", "parsed", "items"}
  BY <1>1, NoneAnywhere DEF VerdictInv, VerdictTyped, Site
<1>3. CASE \E m \in Feed : Emit(m, "live", tally) /\ UNCHANGED trouble
  BY <1>1, <1>2, <1>3, Idle, EmitKeeps
<1>4. CASE /\ tally' = Plus(tally, "malformed") /\ trouble' = trouble \cup {"malformed"}
           /\ UNCHANGED <<known, ahead, provider>>
  <2>1. tally \in Tallies /\ "malformed" \in DOMAIN Zero
    BY DEF VerdictInv, VerdictTyped, Zero
  <2>2. /\ tally' \in Tallies /\ EmittedOf(tally') = EmittedOf(tally) /\ tally'.malformed = tally.malformed + 1
    BY <1>4, <2>1, PlusCounts
  <2>3. tally.malformed \in Nat
    BY <2>1, TallyTyped
  <2>4. Accounted'
    BY <1>1, <1>4, <2>2, <2>3 DEF Accounted
  <2> QED BY <1>1, <1>2, <1>4, <2>2, <2>4, CountKeeps
<1> QED BY <1>3, <1>4 DEF YouTubeAction

LEMMA MishapKeeps == VerdictInv /\ KickMishap => VerdictInv'
<1> SUFFICES ASSUME VerdictInv, KickMishap PROVE VerdictInv'
  OBVIOUS
<1>1. frame' = NoWork /\ frame = NoWork /\ Running /\ UnchangedRun /\ Site = "kick" /\ Site' = Site
  BY DEF KickMishap, MayBegin, UnchangedRun, Site
<1>2. frame' \in Frames /\ frame'.kind \in KindsAt[Site]
  BY <1>1, NoneAnywhere DEF VerdictInv, VerdictTyped, Site
<1>3. PICK failure \in {"invalid", "pollFailures"} : tally' = Plus(tally, failure) /\ trouble' = trouble \cup {failure}
  BY DEF KickMishap
<1>4. tally \in Tallies /\ failure \in DOMAIN Zero
  BY DEF VerdictInv, VerdictTyped, Zero
<1>5. /\ tally' \in Tallies /\ EmittedOf(tally') = EmittedOf(tally) /\ Unaccounted(tally') = Unaccounted(tally)
      /\ tally'.malformed = tally.malformed /\ tally'.malformedTypes = tally.malformedTypes /\ Anomalies(tally')
  BY <1>3, <1>4, PlusCounts
<1>6. Pending' = Pending
  BY <1>1 DEF Pending
<1>7. Accounted'
  BY <1>1, <1>3, <1>5, <1>6 DEF VerdictInv, Accounted
<1> QED BY <1>1, <1>2, <1>5, <1>7, CountKeeps DEF KickMishap

LEMMA EndsKeeps == VerdictInv /\ ProviderEnds => VerdictInv'
<1> SUFFICES ASSUME VerdictInv, ProviderEnds PROVE VerdictInv'
  OBVIOUS
<1>1. /\ frame' = NoWork /\ frame = NoWork /\ Running /\ UnchangedRun /\ Site' = Site /\ UNCHANGED <<tally, ahead, trouble>>
      /\ provider' \in IF provider = "last" THEN {"gone"} ELSE {"ended", "raised"}
  BY DEF ProviderEnds, UnchangedRun, Site, feedVars
<1>2. frame' \in Frames /\ frame'.kind \in KindsAt[Site] /\ frame'.kind = "none"
  BY <1>1, NoneAnywhere DEF VerdictInv, VerdictTyped, Site
<1>3. tally' \in Tallies /\ ahead' \in Seq(Feed) /\ EmittedOf(tally') - Len(ahead') = EmittedOf(tally) - Len(ahead)
  BY <1>1 DEF VerdictInv, VerdictTyped
<1>4. Accounted'
  <2>1. Pending' = Pending /\ Waiting' = Waiting
    BY <1>1 DEF Pending, Waiting
  <2> QED BY <1>1, <2>1 DEF VerdictInv, Accounted
<1>5. provider \in {"open", "last"}
  BY <1>1 DEF Running
<1> QED BY <1>1, <1>2, <1>3, <1>4, <1>5, StepKeeps

LEMMA FrameKeeps == VerdictInv /\ KickFrame => VerdictInv'
<1> SUFFICES ASSUME VerdictInv, KickFrame PROVE VerdictInv'
  OBVIOUS
<1>1. /\ frame = NoWork /\ Running /\ UnchangedRun /\ Site = "kick" /\ Site' = Site /\ UNCHANGED <<ahead, provider, trouble>>
      /\ tally' = Plus(tally, "frames")
  BY DEF KickFrame, MayBegin, UnchangedRun, Site
<1>2. frame' \in Frames /\ frame'.kind \in KindsAt[Site] /\ frame'.kind \in Undecided \cup {"record"}
  <2>1. CASE frame' \in {[kind |-> type] : type \in {"control", "unsupported", "malformed", "error"}}
    BY <1>1, <2>1 DEF Frames, Undecided, KindsAt
  <2>2. CASE frame' \in {[kind |-> "record", of |-> m] : m \in Feed}
    BY <1>1, <2>2 DEF Frames, Undecided, KindsAt
  <2> QED BY <2>1, <2>2 DEF KickFrame
<1>3. tally \in Tallies /\ "frames" \in DOMAIN Zero
  BY DEF VerdictInv, VerdictTyped, Zero
<1>4. /\ tally' \in Tallies /\ EmittedOf(tally') = EmittedOf(tally) /\ Unaccounted(tally') = Unaccounted(tally) + 1
      /\ tally'.malformed = tally.malformed /\ tally'.malformedTypes = tally.malformedTypes
      /\ Anomalies(tally') <=> Anomalies(tally)
  BY <1>1, <1>3, PlusCounts
<1>5. Pending = FALSE /\ Pending' = TRUE
  BY <1>1, <1>2, Idle DEF Pending
<1>6. Accounted'
  <2>1. Unaccounted(tally) = 0
    BY <1>1, <1>5 DEF VerdictInv, Accounted
  <2> QED BY <1>1, <1>4, <1>5, <2>1 DEF VerdictInv, Accounted
<1> QED BY <1>1, <1>2, <1>4, <1>6, CountKeeps

\* A parsed frame keeps its record.
LEMMA RecordKept ==
    ASSUME VerdictTyped, frame.kind \in {"record", "parsed"}
    PROVE  frame.of \in Feed /\ [frame EXCEPT !.kind = "parsed"] \in Frames
BY DEF VerdictTyped, Frames, NoWork, Undecided

\* What a frame that is decided on does to the counters.
LEMMA DispatchCounts ==
    ASSUME NEW t \in Tallies, NEW f, f.kind \in Undecided \cup {"record"}
    PROVE  LET d == Dispatched(t, f) IN
           /\ d \in Tallies /\ EmittedOf(d) = EmittedOf(t) /\ Unaccounted(d) = Unaccounted(t) - 1
           /\ (t.malformed = t.malformedTypes => d.malformed = d.malformedTypes)
           /\ Anomalies(d) <=> Anomalies(t) \/ f.kind \notin {"control", "record"}
<1>1. CASE f.kind = "malformed"
  <2> DEFINE p == Plus(t, "malformed")
  <2>1. "malformed" \in DOMAIN Zero /\ "malformedTypes" \in DOMAIN Zero
    BY DEF Zero
  <2>2. /\ p \in Tallies /\ EmittedOf(p) = EmittedOf(t) /\ Unaccounted(p) = Unaccounted(t) - 1
        /\ p.malformed = t.malformed + 1 /\ p.malformedTypes = t.malformedTypes /\ Anomalies(p)
    BY <2>1, PlusCounts
  <2> HIDE DEF p
  <2>3. LET d == Plus(p, "malformedTypes") IN
        /\ d \in Tallies /\ EmittedOf(d) = EmittedOf(p) /\ Unaccounted(d) = Unaccounted(p)
        /\ d.malformed = p.malformed /\ d.malformedTypes = p.malformedTypes + 1 /\ (Anomalies(d) <=> Anomalies(p))
    BY <2>1, <2>2, PlusCounts
  <2>4. Dispatched(t, f) = Plus(p, "malformedTypes")
    BY <1>1 DEF Dispatched, p
  <2> QED BY <1>1, <2>2, <2>3, <2>4
<1>2. ASSUME NEW key \in {"parsed", "errors", "control", "unsupported"}, Dispatched(t, f) = Plus(t, key),
             key \in {"errors", "unsupported"} <=> f.kind \notin {"control", "record"}
      PROVE  LET d == Dispatched(t, f) IN
             /\ d \in Tallies /\ EmittedOf(d) = EmittedOf(t) /\ Unaccounted(d) = Unaccounted(t) - 1
             /\ (t.malformed = t.malformedTypes => d.malformed = d.malformedTypes)
             /\ Anomalies(d) <=> Anomalies(t) \/ f.kind \notin {"control", "record"}
  <2>1. key \in DOMAIN Zero
    BY DEF Zero
  <2>2. LET d == Plus(t, key) IN
        /\ d \in Tallies /\ EmittedOf(d) = EmittedOf(t) /\ Unaccounted(d) = Unaccounted(t) - 1
        /\ d.malformed = t.malformed /\ d.malformedTypes = t.malformedTypes
        /\ Anomalies(d) <=> Anomalies(t) \/ key \in {"errors", "unsupported"}
    BY <2>1, PlusCounts
  <2> QED BY <1>2, <2>2
<1>3. CASE f.kind = "record"
  BY <1>2, <1>3 DEF Dispatched
<1>4. CASE f.kind = "error"
  BY <1>2, <1>4 DEF Dispatched
<1>5. CASE f.kind = "control"
  BY <1>2, <1>5 DEF Dispatched
<1>6. CASE f.kind = "unsupported"
  BY <1>2, <1>6 DEF Dispatched
<1> QED BY <1>1, <1>3, <1>4, <1>5, <1>6 DEF Undecided

LEMMA DispatchKeeps == VerdictInv /\ KickDispatch => VerdictInv'
<1> SUFFICES ASSUME VerdictInv, KickDispatch PROVE VerdictInv'
  OBVIOUS
<1>1. /\ Running /\ UnchangedRun /\ Site = "kick" /\ Site' = Site /\ ahead' = ahead
      /\ frame.kind \in Undecided \cup {"record"}
      /\ frame' = IF frame.kind = "record" THEN [frame EXCEPT !.kind = "parsed"] ELSE NoWork
      /\ provider' \in IF frame.kind = "error" /\ provider = "open" THEN {"open", "raised"} ELSE {provider}
  BY DEF KickDispatch, UnchangedRun, Site, Undecided
<1>2. PICK odd \in BOOLEAN :
        /\ tally' = IF odd THEN Plus(Dispatched(tally, frame), "oddTypes") ELSE Dispatched(tally, frame)
        /\ trouble' = trouble \cup (IF odd THEN {"odd type"} ELSE {}) \cup ({frame.kind} \ {"control", "record"})
  BY DEF KickDispatch
<1>3. frame' \in Frames /\ frame'.kind \in {"none", "parsed"} /\ (frame.kind # "record" => frame'.kind = "none")
  <2>1. CASE frame.kind = "record"
    <3>1. [frame EXCEPT !.kind = "parsed"] \in Frames /\ [frame EXCEPT !.kind = "parsed"].kind = "parsed"
      <4>1. frame \in [kind : {"record", "parsed"}, of : Feed]
        BY <2>1 DEF VerdictInv, VerdictTyped, Frames, NoWork, Undecided
      <4> QED BY <4>1 DEF Frames
    <3> QED BY <1>1, <2>1, <3>1
  <2>2. CASE frame.kind # "record"
    BY <1>1, <2>2, NoneAnywhere
  <2> QED BY <2>1, <2>2
<1>4. frame'.kind \in KindsAt[Site]
  BY <1>1, <1>3 DEF KindsAt
<1>5. tally \in Tallies /\ ahead \in Seq(Feed) /\ Unaccounted(tally) = 1 /\ tally.malformed = tally.malformedTypes
      /\ (trouble = {} <=> ~Anomalies(tally))
  BY <1>1 DEF VerdictInv, VerdictTyped, Accounted, Pending
<1> DEFINE d == Dispatched(tally, frame)
<1>6. /\ d \in Tallies /\ EmittedOf(d) = EmittedOf(tally) /\ Unaccounted(d) = 0
      /\ d.malformed = d.malformedTypes
      /\ Anomalies(d) <=> Anomalies(tally) \/ frame.kind \notin {"control", "record"}
  BY <1>1, <1>5, DispatchCounts
<1> HIDE DEF d
<1>7. /\ tally' \in Tallies /\ EmittedOf(tally') = EmittedOf(tally) /\ Unaccounted(tally') = 0
      /\ tally'.malformed = tally'.malformedTypes
      /\ Anomalies(tally') <=> Anomalies(d) \/ odd
  <2>1. CASE odd
    <3>1. "oddTypes" \in DOMAIN Zero /\ tally' = Plus(d, "oddTypes")
      BY <1>2, <2>1 DEF Zero, d
    <3> QED BY <1>6, <2>1, <3>1, PlusCounts
  <2>2. CASE ~odd
    BY <1>2, <1>6, <2>2 DEF d
  <2> QED BY <2>1, <2>2
<1>8. Accounted'
  <2>1. Pending' = FALSE
    BY <1>3 DEF Pending, Undecided
  <2>2. trouble' = {} <=> ~Anomalies(tally')
    BY <1>2, <1>5, <1>6, <1>7
  <2> QED BY <1>1, <1>7, <2>1, <2>2 DEF Accounted
<1>9. EmittedOf(tally') - Len(ahead') = EmittedOf(tally) - Len(ahead)
  BY <1>1, <1>7
<1>10. provider' = provider \/ (provider = "open" /\ provider' \in {"ended", "raised"} /\ frame'.kind = "none")
  BY <1>1, <1>3
<1> QED BY <1>1, <1>3, <1>4, <1>5, <1>7, <1>8, <1>9, <1>10, StepKeeps

LEMMA BackfillKeeps == VerdictInv /\ KickBackfill => VerdictInv'
<1> SUFFICES ASSUME VerdictInv, KickBackfill PROVE VerdictInv'
  OBVIOUS
<1>1. /\ Running /\ UnchangedRun /\ Site = "kick" /\ Site' = Site /\ frame' = frame /\ frame.kind = "parsed"
  BY DEF KickBackfill, UnchangedRun, Site
<1>2. frame' \in Frames /\ frame'.kind \in KindsAt[Site] \cap {"none", "parsed", "items"}
  BY <1>1 DEF VerdictInv, VerdictTyped
<1>3. Pending = FALSE /\ Waiting = 0 /\ Pending' = FALSE
  BY <1>1 DEF Pending, Waiting, Undecided
<1>4. CASE (\E m \in Feed : Emit(m, "backfill", tally)) /\ UNCHANGED trouble
  BY <1>1, <1>2, <1>3, <1>4, EmitKeeps
<1>5. CASE /\ \E failure \in {"recoveryFailures", "truncated"} :
                 tally' = Plus(tally, failure) /\ trouble' = trouble \cup {failure}
           /\ UNCHANGED <<known, ahead, provider>>
  <2>1. PICK failure \in {"recoveryFailures", "truncated"} :
           tally' = Plus(tally, failure) /\ trouble' = trouble \cup {failure}
    BY <1>5
  <2>2. tally \in Tallies /\ failure \in DOMAIN Zero
    BY DEF VerdictInv, VerdictTyped, Zero
  <2>3. /\ tally' \in Tallies /\ EmittedOf(tally') = EmittedOf(tally) /\ Unaccounted(tally') = Unaccounted(tally)
        /\ tally'.malformed = tally.malformed /\ tally'.malformedTypes = tally.malformedTypes /\ Anomalies(tally')
    BY <2>1, <2>2, PlusCounts
  <2>4. Accounted'
    BY <1>1, <1>3, <2>1, <2>3 DEF VerdictInv, Accounted
  <2> QED BY <1>1, <1>2, <1>5, <2>3, <2>4, CountKeeps
<1> QED BY <1>4, <1>5 DEF KickBackfill

LEMMA RecordEmitKeeps == VerdictInv /\ KickEmit => VerdictInv'
<1> SUFFICES ASSUME VerdictInv, KickEmit PROVE VerdictInv'
  OBVIOUS
<1>1. /\ Running /\ UnchangedRun /\ frame' = NoWork /\ frame.kind = "parsed"
      /\ UNCHANGED trouble /\ Emit(frame.of, "live", tally)
  BY DEF KickEmit
<1>2. frame' \in Frames /\ frame'.kind \in KindsAt[Site] \cap {"none", "parsed", "items"}
  BY <1>1, NoneAnywhere DEF VerdictInv, VerdictTyped, Site
<1>3. Pending = FALSE /\ Waiting = 0
  BY <1>1 DEF Pending, Waiting, Undecided
<1>4. frame.of \in Feed
  BY <1>1 DEF VerdictInv, VerdictTyped, Frames, NoWork, Undecided
<1> QED BY <1>1, <1>2, <1>3, <1>4, EmitKeeps

-----------------------------------------------------------------------------
(* Twitch's.                                                               *)

\* Chunks, and their unread rests, are frames.
LEMMA ChunkFrames ==
    ASSUME NEW s \in Seq(Lines), NEW type \in {"chunk", "items"}
    PROVE  [kind |-> type, of |-> s] \in Frames
BY DEF Frames

\* What a chunk holds are lines.
LEMMA ChunkOf ==
    ASSUME VerdictTyped, frame.kind \in {"chunk", "items"}
    PROVE  /\ frame.of \in Seq(Lines) /\ frame = [kind |-> frame.kind, of |-> frame.of]
BY DEF VerdictTyped, Frames, NoWork, Undecided

\* What is received is a chunk.
LEMMA ChunkTyped == \A s \in Chunks : s \in Seq(Lines)
<1>1. \A n \in Nat : \A s \in [1..n -> Lines] : s \in Seq(Lines)
  BY SeqDef
<1>2. 1 \in Nat /\ 2 \in Nat
  OBVIOUS
<1> QED BY <1>1, <1>2 DEF Chunks

LEMMA ReceiveKeeps == VerdictInv /\ TwitchReceive => VerdictInv'
<1> SUFFICES ASSUME VerdictInv, TwitchReceive PROVE VerdictInv'
  OBVIOUS
<1>1. /\ Running /\ UnchangedRun /\ frame = NoWork /\ Site = "twitch" /\ Site' = Site
      /\ UNCHANGED <<ahead, provider, trouble>>
  BY DEF TwitchReceive, MayBegin, UnchangedRun, Site
<1>2. PICK chunk \in Chunks :
        /\ frame' = [kind |-> "chunk", of |-> chunk]
        /\ tally' = [tally EXCEPT !.frames = @ + Len(chunk), !.control = @ + Of(chunk, {"control"})]
  BY DEF TwitchReceive
<1>3. chunk \in Seq(Lines)
  BY ChunkTyped
<1>4. /\ Of(chunk, {"control"}) \in Nat /\ Of(chunk, Meant) \in Nat
      /\ Len(chunk) = Of(chunk, {"control"}) + Of(chunk, Meant)
  BY <1>3, ChunkCounts
<1>5. tally \in Tallies
  BY DEF VerdictInv, VerdictTyped
<1> DEFINE c == Of(chunk, {"control"})
           w == Of(chunk, Meant)
<1>6. /\ tally' \in Tallies /\ tally'.frames = tally.frames + c + w /\ tally'.control = tally.control + c
      /\ tally'.parsed = tally.parsed /\ EmittedOf(tally') = EmittedOf(tally)
  <2>1. Len(chunk) \in Nat /\ c \in Nat /\ w \in Nat /\ Len(chunk) = c + w
    BY <1>3, <1>4
  <2> HIDE DEF c, w
  <2>2. tally' = [tally EXCEPT !.frames = @ + Len(chunk), !.control = @ + c]
    BY <1>2 DEF c
  <2>3. tally.frames \in Nat /\ tally.control \in Nat
    BY <1>5, TallyTyped
  <2>4. /\ tally' \in Tallies /\ tally'.frames = tally.frames + Len(chunk) /\ tally'.control = tally.control + c
        /\ tally'.parsed = tally.parsed /\ tally'.preloaded = tally.preloaded /\ tally'.live = tally.live
        /\ tally'.backfill = tally.backfill
    <3>1. tally.frames + Len(chunk) \in Nat /\ tally.control + c \in Nat
      BY <2>1, <2>3
    <3> DEFINE a == tally.frames + Len(chunk)
               b == tally.control + c
    <3>2. tally' = [tally EXCEPT !.frames = a, !.control = b] /\ a \in Nat /\ b \in Nat
      BY <2>2, <3>1
    <3> HIDE DEF a, b
    <3>3. /\ tally' \in Tallies /\ tally'.frames = a /\ tally'.control = b
          /\ tally'.parsed = tally.parsed /\ tally'.preloaded = tally.preloaded /\ tally'.live = tally.live
          /\ tally'.backfill = tally.backfill
      <4>1. tally' \in Tallies
        BY <1>5, <3>2 DEF Tallies
      <4> QED BY <1>5, <3>2, <4>1 DEF Tallies, Zero
    <3> QED BY <3>3 DEF a, b
  <2> QED BY <2>1, <2>3, <2>4 DEF EmittedOf
<1>7. frame' \in Frames /\ frame'.kind = "chunk" /\ frame'.of = chunk /\ frame'.kind \in KindsAt[Site]
  <2>1. frame' \in Frames
    BY <1>2, <1>3, ChunkFrames
  <2>2. frame'.kind = "chunk" /\ frame'.of = chunk
    BY <1>2
  <2> QED BY <1>1, <2>1, <2>2 DEF KindsAt
<1>8. Accounted'
  <2>1. Waiting = 0 /\ Waiting' = w
    BY <1>1, <1>7, Idle DEF Waiting
  <2>2. UnaccountedLines(tally') = UnaccountedLines(tally) + w /\ UnaccountedLines(tally) \in Int /\ w \in Nat
    <3>1. tally.frames \in Nat /\ tally.control \in Nat /\ tally.parsed \in Nat
      BY <1>5, TallyTyped
    <3>2. c \in Nat /\ w \in Nat
      BY <1>4
    <3> HIDE DEF c, w
    <3> QED BY <1>6, <3>1, <3>2 DEF UnaccountedLines
  <2> HIDE DEF w
  <2>3. UnaccountedLines(tally) >= Waiting /\ (trouble = {} <=> UnaccountedLines(tally) = Waiting)
    BY <1>1 DEF VerdictInv, Accounted
  <2>4. UnaccountedLines(tally') >= Waiting' /\ (trouble' = {} <=> UnaccountedLines(tally') = Waiting')
    BY <1>1, <2>1, <2>2, <2>3
  <2> QED BY <1>1, <2>4 DEF Accounted
<1> QED BY <1>1, <1>6, <1>7, <1>8, CountKeeps

LEMMA ParseKeeps == VerdictInv /\ TwitchParse => VerdictInv'
<1> SUFFICES ASSUME VerdictInv, TwitchParse PROVE VerdictInv'
  OBVIOUS
<1>1. /\ Running /\ UnchangedRun /\ frame.kind = "chunk" /\ Site = "twitch" /\ Site' = Site
      /\ UNCHANGED <<ahead, provider>>
  BY DEF TwitchParse, UnchangedRun, Site
<1> DEFINE s == frame.of
           messages == Of(s, {"message", "reconnect"})
           odd == Of(s, {"odd"})
<1>2. s \in Seq(Lines) /\ frame = [kind |-> "chunk", of |-> s]
  BY <1>1, ChunkOf DEF VerdictInv
<1>3. messages \in Nat /\ odd \in Nat /\ Of(s, Meant) = messages + odd
  BY <1>2, ChunkCounts
<1>4. \/ /\ frame' = [frame EXCEPT !.kind = "items"]
         /\ tally' = [tally EXCEPT !.parsed = @ + messages]
         /\ trouble' = trouble \cup (IF odd > 0 THEN {"unread line"} ELSE {})
      \/ /\ frame' = NoWork
         /\ trouble' = trouble \cup (IF messages + odd > 0 THEN {"unread line"} ELSE {})
         /\ UNCHANGED tally
  BY DEF TwitchParse
<1>5. Waiting = messages + odd
  BY <1>1, <1>3 DEF Waiting
<1> HIDE DEF messages, odd
<1>6. tally \in Tallies /\ tally.frames \in Nat /\ tally.control \in Nat /\ tally.parsed \in Nat
  BY TallyTyped DEF VerdictInv, VerdictTyped
<1>7. /\ UnaccountedLines(tally) >= messages + odd
      /\ trouble = {} <=> UnaccountedLines(tally) = messages + odd
  BY <1>1, <1>5 DEF VerdictInv, Accounted
<1>8. UnaccountedLines(tally) \in Int
  BY <1>6, TallyTyped
<1>9. CASE /\ frame' = [frame EXCEPT !.kind = "items"]
           /\ tally' = [tally EXCEPT !.parsed = @ + messages]
           /\ trouble' = trouble \cup (IF odd > 0 THEN {"unread line"} ELSE {})
  <2>1. frame' = [kind |-> "items", of |-> s]
    BY <1>2, <1>9
  <2>2. frame' \in Frames /\ frame'.kind = "items" /\ frame'.kind \in KindsAt[Site]
    BY <1>1, <1>2, <2>1, ChunkFrames DEF KindsAt
  <2> DEFINE a == tally.parsed + messages
  <2>3. tally' = [tally EXCEPT !.parsed = a] /\ a \in Nat
    <3>1. a \in Nat
      BY <1>3, <1>6
    <3>2. tally' = [tally EXCEPT !.parsed = a]
      BY <1>9
    <3> QED BY <3>1, <3>2
  <2> HIDE DEF a
  <2>4. tally' \in Tallies
    BY <1>6, <2>3 DEF Tallies
  <2>5. /\ tally'.frames = tally.frames /\ tally'.control = tally.control /\ tally'.parsed = a
        /\ tally'.preloaded = tally.preloaded /\ tally'.live = tally.live /\ tally'.backfill = tally.backfill
    BY <1>6, <2>3 DEF Tallies, Zero
  <2>6. EmittedOf(tally') = EmittedOf(tally) /\ UnaccountedLines(tally') = UnaccountedLines(tally) - messages
    BY <1>3, <1>6, <2>5 DEF EmittedOf, UnaccountedLines, a
  <2>7. Waiting' = 0
    BY <2>2 DEF Waiting
  <2>8. UnaccountedLines(tally') >= 0 /\ (trouble' = {} <=> UnaccountedLines(tally') = 0)
    <3>1. trouble' = {} <=> trouble = {} /\ ~(odd > 0)
      BY <1>9
    <3>2. UnaccountedLines(tally') = 0 <=> UnaccountedLines(tally) = messages + odd /\ ~(odd > 0)
      BY <1>3, <1>7, <1>8, <2>6
    <3>3. UnaccountedLines(tally') >= 0
      BY <1>3, <1>7, <1>8, <2>6
    <3> QED BY <1>7, <3>1, <3>2, <3>3
  <2>9. Accounted'
    BY <1>1, <2>7, <2>8 DEF Accounted
  <2> QED BY <1>1, <2>2, <2>4, <2>6, <2>9, CountKeeps
<1>10. CASE /\ frame' = NoWork
            /\ trouble' = trouble \cup (IF messages + odd > 0 THEN {"unread line"} ELSE {})
            /\ UNCHANGED tally
  <2>1. frame' \in Frames /\ frame'.kind \in KindsAt[Site] /\ frame'.kind = "none"
    BY <1>1, <1>10, NoneAnywhere DEF VerdictInv, VerdictTyped, Site
  <2>2. Waiting' = 0
    BY <2>1 DEF Waiting
  <2>3. UnaccountedLines(tally') >= 0 /\ (trouble' = {} <=> UnaccountedLines(tally') = 0)
    <3>1. trouble' = {} <=> trouble = {} /\ ~(messages + odd > 0)
      BY <1>10
    <3>2. UnaccountedLines(tally') = UnaccountedLines(tally)
      BY <1>10
    <3>3. UnaccountedLines(tally') = 0 <=> UnaccountedLines(tally) = messages + odd /\ ~(messages + odd > 0)
      BY <1>3, <1>7, <1>8, <3>2
    <3>4. UnaccountedLines(tally') >= 0
      BY <1>3, <1>7, <1>8, <3>2
    <3> QED BY <1>7, <3>1, <3>3, <3>4
  <2>4. Accounted'
    BY <1>1, <2>2, <2>3 DEF Accounted
  <2> QED BY <1>1, <1>6, <1>10, <2>1, <2>4, CountKeeps
<1> QED BY <1>4, <1>9, <1>10

LEMMA ItemKeeps == VerdictInv /\ TwitchItem => VerdictInv'
<1> SUFFICES ASSUME VerdictInv, TwitchItem PROVE VerdictInv'
  OBVIOUS
<1>1. /\ Running /\ UnchangedRun /\ frame.kind = "items" /\ Site = "twitch" /\ Site' = Site /\ UNCHANGED trouble
  BY DEF TwitchItem, UnchangedRun, Site
<1>2. frame.of \in Seq(Lines) /\ frame = [kind |-> "items", of |-> frame.of]
  BY <1>1, ChunkOf DEF VerdictInv
<1>3. Pending = FALSE /\ Waiting = 0
  BY <1>1 DEF Pending, Waiting, Undecided
<1>4. ASSUME frame' \in Frames, frame'.kind \in {"none", "items"}, UNCHANGED <<tally, ahead, provider>>
      PROVE  VerdictInv'
  <2>1. frame'.kind \in KindsAt[Site]
    BY <1>1, <1>4 DEF KindsAt
  <2>2. Waiting' = 0 /\ tally \in Tallies
    BY <1>4 DEF Waiting, VerdictInv, VerdictTyped
  <2>3. Accounted'
    BY <1>1, <1>3, <1>4, <2>2 DEF VerdictInv, Accounted
  <2> QED BY <1>1, <1>4, <2>1, <2>2, <2>3, CountKeeps
<1>5. CASE frame.of = <<>> \/ Head(frame.of).kind = "reconnect"
  BY <1>4, <1>5, NoneAnywhere DEF TwitchItem
<1>6. CASE ~(frame.of = <<>> \/ Head(frame.of).kind = "reconnect")
  <2>1. Tail(frame.of) \in Seq(Lines) /\ Head(frame.of) \in Lines
    BY <1>2, <1>6
  <2>2. frame' = [kind |-> "items", of |-> Tail(frame.of)]
    BY <1>2, <1>6 DEF TwitchItem
  <2>3. frame' \in Frames /\ frame'.kind = "items"
    BY <2>1, <2>2, ChunkFrames
  <2>4. CASE Head(frame.of).kind = "message"
    <3>1. Head(frame.of).of \in Feed
      BY <2>1, <2>4 DEF Lines
    <3>2. frame'.kind \in KindsAt[Site] \cap {"none", "parsed", "items"}
      BY <1>1, <2>3 DEF KindsAt
    <3>3. Emit(Head(frame.of).of, "live", tally)
      BY <1>6, <2>4 DEF TwitchItem
    <3> QED BY <1>1, <1>3, <2>3, <3>1, <3>2, <3>3, EmitKeeps
  <2>5. CASE Head(frame.of).kind # "message"
    BY <1>4, <1>6, <2>3, <2>5 DEF TwitchItem
  <2> QED BY <2>4, <2>5
<1> QED BY <1>5, <1>6

LEMMA IteratorKeeps == VerdictInv /\ ProviderStep => VerdictInv'
BY PreloadKeeps, FrameKeeps, DispatchKeeps, BackfillKeeps, RecordEmitKeeps, MishapKeeps, ReceiveKeeps, ParseKeeps,
   ItemKeeps, ActionKeeps, EndsKeeps DEF ProviderStep

-----------------------------------------------------------------------------
(* The steps of the run.                                                   *)

\* What is known of a run, by the assumption.
LEMMA SetupTyped ==
    ASSUME setup \in Setups
    PROVE  /\ Site \in {"kick", "twitch", "youtube"}
           /\ setup.timed \in BOOLEAN /\ setup.verify \in BOOLEAN /\ setup.require \in BOOLEAN /\ setup.loss \in BOOLEAN
           /\ setup.prior \in Seq(ToSet(setup.prior)) /\ setup.stale \in Seq(ToSet(setup.stale))
           /\ setup.stale # <<>> => setup.prior = <<>>
           /\ \A line \in ToSet(setup.stale) : line.kind = "stale"
           /\ Site # "youtube" => setup.prior = <<>> /\ ~setup.loss
BY VerdictAssumption DEF Site

\* Appending to what follows an earlier part.
LEMMA AppendAfter ==
    ASSUME NEW L, NEW p \in Seq(L), NEW c \in Seq(L), NEW h \in L
    PROVE  Append(p \o c, h) = p \o Append(c, h) /\ Append(p, h) = p \o Append(<<>>, h)
<1>1. <<h>> \in Seq(L) /\ p \o c \in Seq(L) /\ Append(<<>>, h) = <<h>>
  OBVIOUS
<1>2. Append(p \o c, h) = (p \o c) \o <<h>>
  BY <1>1, AppendIsConcat
<1>3. Append(c, h) = c \o <<h>>
  BY AppendIsConcat
<1>4. Append(p, h) = p \o <<h>>
  BY AppendIsConcat
<1>5. (p \o c) \o <<h>> = p \o (c \o <<h>>)
  BY <1>1, ConcatAssociative
<1> QED BY <1>1, <1>2, <1>3, <1>4, <1>5

\* What a run's step leaves of the provider's side.
LEMMA FeedKept ==
    ASSUME Accounted, UNCHANGED <<setup, tally, frame, trouble>>
    PROVE  Accounted'
BY DEF Accounted, Site, Pending, Waiting

LEMMA VerdictStarts == VerdictInit => VerdictInv
<1> SUFFICES ASSUME VerdictInit PROVE VerdictInv
  OBVIOUS
<1>1. /\ setup \in Setups /\ tally = Zero /\ frame = NoWork /\ ahead = <<>> /\ provider = "open" /\ counted = <<>> /\ trouble = {}
      /\ jsonl = setup.prior \o setup.stale
  BY DEF VerdictInit
<1>2. /\ EmittedOf(tally) = 0 /\ Unaccounted(tally) = 0 /\ UnaccountedLines(tally) = 0 /\ ~Anomalies(tally)
      /\ tally.malformed = 0 /\ tally.malformedTypes = 0
  BY <1>1 DEF Zero, EmittedOf, Unaccounted, UnaccountedLines, Anomalies
<1>3. frame \in Frames /\ frame.kind = "none" /\ ~Pending /\ Waiting = 0 /\ frame.kind \in KindsAt[Site]
  BY <1>1, Idle, NoneAnywhere DEF Site
<1>4. RunTyped(run)
  BY ZeroTyped, <1>1, SetupTyped DEF VerdictInit, RunTyped
<1>5. /\ run.at = "capture" /\ run.success = FALSE /\ run.reason = "error" /\ run.finished = FALSE /\ run.deadline = FALSE
      /\ run.bound = setup.verify /\ run.inspection = "none" /\ run.manifest = <<>>
  BY DEF VerdictInit
<1> HIDE DEF VerdictInit
<1>6. VerdictTyped
  BY <1>1, <1>3, <1>4, ZeroTyped DEF VerdictTyped
<1>7. Accounted
  BY <1>1, <1>2, <1>3 DEF Accounted
<1>8. Kept
  BY <1>1, <1>2 DEF Kept
<1>9. Placed /\ Phased /\ NotedRight /\ Judged /\ Concluded /\ InspectionExact
  BY <1>1, <1>5 DEF Placed, Phased, Early, NotedRight, Judged, Concluded, InspectionExact
<1> QED BY <1>6, <1>7, <1>8, <1>9 DEF VerdictInv

LEMMA TakeKeeps == VerdictInv /\ Take => VerdictInv'
<1> SUFFICES ASSUME VerdictInv, Take PROVE VerdictInv'
  OBVIOUS
<1>1. /\ run.at = "capture" /\ ahead # <<>> /\ jsonl' = Extended(Head(ahead)) /\ counted' = Append(counted, Head(ahead))
      /\ ahead' = Tail(ahead) /\ UNCHANGED <<provider, run, setup, tally, known, frame, events, trouble>>
  BY DEF Take, Capturing, UnchangedFeed
<1>2. /\ ahead \in Seq(Feed) /\ counted \in Seq(Feed) /\ setup \in Setups /\ tally \in Tallies
  BY DEF VerdictInv, VerdictTyped
<1>3. /\ Head(ahead) \in Feed /\ ahead' \in Seq(Feed) /\ Len(ahead) = Len(ahead') + 1
      /\ counted' \in Seq(Feed) /\ Len(counted') = Len(counted) + 1 /\ counted' # <<>> /\ Len(ahead') \in Nat /\ Len(counted) \in Nat
  BY <1>1, <1>2
<1>4. VerdictTyped'
  BY <1>1, <1>3 DEF VerdictInv, VerdictTyped, Site
<1>5. Accounted'
  BY <1>1, FeedKept DEF VerdictInv
<1>6. Placed'
  BY <1>1 DEF VerdictInv, Placed
<1>7. Kept'
  <2>1. EmittedOf(tally) = Len(counted) + Len(ahead) /\ jsonl = setup.prior \o (IF counted = <<>> THEN setup.stale ELSE counted)
    BY <1>1 DEF VerdictInv, Kept
  <2>2. EmittedOf(tally') = Len(counted') + Len(ahead')
    BY <1>1, <1>3, <2>1
  <2>3. jsonl' = setup.prior \o counted'
    <3> DEFINE L == ToSet(setup.prior) \cup Feed
    <3>1. setup.prior \in Seq(ToSet(setup.prior))
      BY <1>2, SetupTyped
    <3>2. setup.prior \in Seq(L) /\ counted \in Seq(L) /\ Head(ahead) \in L
      BY <1>2, <1>3, <3>1
    <3> HIDE DEF L
    <3>3. /\ Append(setup.prior \o counted, Head(ahead)) = setup.prior \o Append(counted, Head(ahead))
          /\ Append(setup.prior, Head(ahead)) = setup.prior \o Append(<<>>, Head(ahead))
      BY <3>2, AppendAfter
    <3> QED BY <1>1, <2>1, <3>3 DEF Extended
  <2> QED BY <1>1, <1>3, <2>2, <2>3 DEF Kept
<1>8. Phased' /\ NotedRight' /\ Judged' /\ Concluded' /\ InspectionExact'
  BY <1>1 DEF VerdictInv, Phased, Early, NotedRight, Judged, Concluded, InspectionExact
<1> QED BY <1>4, <1>5, <1>6, <1>7, <1>8 DEF VerdictInv

\* A step of the run's that leaves the capture, or comes after it.
LEMMA CaptureKept ==
    ASSUME VerdictInv, UnchangedFeed, RunTyped(run'), provider' \in {"open", "last", "ended", "raised", "gone"},
           ahead' \in Seq(Feed), counted' \in Seq(Feed)
    PROVE  VerdictTyped' /\ Accounted'
<1>1. UNCHANGED <<setup, tally, frame, trouble>> /\ Site' = Site
  BY DEF UnchangedFeed, Site
<1>2. Accounted'
  BY <1>1, FeedKept DEF VerdictInv
<1>3. VerdictTyped'
  BY <1>1 DEF VerdictInv, VerdictTyped
<1> QED BY <1>2, <1>3

LEMMA TakeFailsKeeps == VerdictInv /\ TakeFails => VerdictInv'
<1> SUFFICES ASSUME VerdictInv, TakeFails PROVE VerdictInv'
  OBVIOUS
<1>1. /\ run.at = "capture" /\ ahead # <<>> /\ ahead' = Tail(ahead) /\ UNCHANGED provider /\ UnchangedFeed
      /\ counted' \in {counted, Append(counted, Head(ahead))}
      /\ run' \in {[run EXCEPT !.at = "close"], [[run EXCEPT !.verifyAnyway = TRUE] EXCEPT !.at = "close"]}
  BY DEF TakeFails, Capturing, LeaveAs
<1>2. ahead \in Seq(Feed) /\ counted \in Seq(Feed) /\ RunTyped(run)
  BY DEF VerdictInv, VerdictTyped
<1>3. Head(ahead) \in Feed /\ ahead' \in Seq(Feed) /\ counted' \in Seq(Feed)
  BY <1>1, <1>2
<1>4. /\ RunTyped(run') /\ run'.at = "close" /\ run'.success = run.success /\ run'.finished = run.finished
      /\ run'.reason = run.reason /\ run'.deadline = run.deadline /\ run'.bound = run.bound
      /\ run'.inspection = run.inspection /\ run'.manifest = run.manifest
  BY <1>1, <1>2 DEF RunTyped
<1>5. VerdictTyped' /\ Accounted'
  BY <1>1, <1>3, <1>4, CaptureKept DEF VerdictInv, VerdictTyped
<1>6. ~run.finished /\ run.reason # "completed" /\ UNCHANGED <<setup, frame>>
  BY <1>1 DEF VerdictInv, Phased, UnchangedFeed
<1>7. Placed' /\ Kept'
  BY <1>1, <1>4, <1>6 DEF VerdictInv, Placed, Kept
<1>8. Phased'
  BY <1>1, <1>4, <1>6 DEF VerdictInv, Phased, Early
<1>9. NotedRight' /\ Judged' /\ Concluded' /\ InspectionExact'
  <2>1. run'.inspection = "none"
    BY <1>1, <1>4 DEF VerdictInv, Phased, Early
  <2> QED BY <1>4, <2>1 DEF NotedRight, Judged, Concluded, InspectionExact
<1> QED BY <1>5, <1>7, <1>8, <1>9 DEF VerdictInv

LEMMA EndKeeps == VerdictInv /\ CaptureEnds => VerdictInv'
<1> SUFFICES ASSUME VerdictInv, CaptureEnds PROVE VerdictInv'
  OBVIOUS
<1>1. /\ run.at = "capture" /\ UNCHANGED <<jsonl, counted, ahead, provider>> /\ UnchangedFeed
  BY DEF CaptureEnds, Capturing
<1>2. RunTyped(run) /\ ahead' \in Seq(Feed) /\ counted' \in Seq(Feed) /\ provider' \in {"open", "last", "ended", "raised", "gone"}
  BY <1>1 DEF VerdictInv, VerdictTyped
<1>3. /\ RunTyped(run') /\ run'.at = "close" /\ run'.bound = run.bound
      /\ run'.inspection = run.inspection /\ run'.manifest = run.manifest
      /\ \/ /\ run'.success = TRUE /\ run'.finished = TRUE
            /\ \/ run'.reason = "completed" /\ run'.deadline = FALSE /\ provider = "ended" /\ ahead = <<>>
               \/ run'.reason = "timeout" /\ run'.deadline = TRUE /\ setup.timed
         \/ /\ run'.success = run.success /\ run'.finished = run.finished /\ run'.deadline = run.deadline
            /\ run'.reason \in {run.reason, "interrupted"}
  <2>1. CASE provider = "ended" /\ ahead = <<>> /\ Succeeds("completed")
    BY <1>2, <2>1 DEF Succeeds, LeaveAs, RunTyped
  <2>2. CASE setup.timed /\ Succeeds("timeout")
    BY <1>2, <2>2 DEF Succeeds, LeaveAs, RunTyped
  <2>3. CASE LeaveAs(run)
    BY <1>2, <2>3 DEF LeaveAs, RunTyped
  <2>4. CASE LeaveAs([run EXCEPT !.reason = "interrupted"])
    BY <1>2, <2>4 DEF LeaveAs, RunTyped
  <2> QED BY <2>1, <2>2, <2>3, <2>4 DEF CaptureEnds
<1>4. VerdictTyped' /\ Accounted'
  BY <1>1, <1>2, <1>3, CaptureKept
<1>5. UNCHANGED <<setup, frame, tally>> /\ ~run.finished /\ ~run.success /\ run.reason # "completed"
      /\ run.bound = setup.verify /\ run.inspection = "none" /\ ~run.deadline /\ run.manifest = <<>>
  <2>1. ~run.finished /\ run.inspection = "none" /\ run.manifest = <<>>
    BY <1>1 DEF VerdictInv, Phased, Early
  <2> QED BY <1>1, <2>1 DEF VerdictInv, Phased, UnchangedFeed, Early
<1>6. Placed'
  BY <1>1, <1>3, <1>5 DEF VerdictInv, Placed
<1>7. Kept'
  BY <1>1, <1>3, <1>5 DEF VerdictInv, Kept
<1>8. Phased'
  BY <1>1, <1>3, <1>5 DEF Phased, Early
<1>9. NotedRight' /\ Judged' /\ Concluded' /\ InspectionExact'
  BY <1>3, <1>5 DEF NotedRight, Judged, Concluded, InspectionExact
<1> QED BY <1>4, <1>6, <1>7, <1>8, <1>9 DEF VerdictInv

LEMMA CloseKeeps == VerdictInv /\ CloseRun => VerdictInv'
<1> SUFFICES ASSUME VerdictInv, CloseRun PROVE VerdictInv'
  OBVIOUS
<1>1. /\ run.at = "close" /\ UNCHANGED <<jsonl, counted, ahead>> /\ UnchangedFeed
      /\ UNCHANGED <<setup, frame, tally>>
  BY DEF CloseRun, UnchangedFeed
<1>2. /\ RunTyped(run) /\ ahead' \in Seq(Feed) /\ counted' \in Seq(Feed) /\ setup.timed \in BOOLEAN
      /\ provider \in {"open", "last", "ended", "raised", "gone"}
  BY <1>1, SetupTyped DEF VerdictInv, VerdictTyped
<1>3. /\ provider # "open" => provider' = provider
      /\ provider = "open" => /\ provider' \in {"last", "gone"} /\ (provider' = "last" => setup.timed)
                              /\ provider' = "gone" /\ setup.timed => frame.kind \in {"none", "parsed", "items"}
  BY <1>2 DEF CloseRun
<1>4. /\ RunTyped(run') /\ run'.at = "observe" /\ run'.finished = run.finished /\ run'.deadline = run.deadline
      /\ run'.inspection = run.inspection /\ run'.manifest = run.manifest
      /\ \/ run'.bound = run.bound /\ run'.success = run.success /\ run'.reason = run.reason
         \/ run'.bound = FALSE /\ run'.success = FALSE /\ run'.reason \in {"error", run.reason}
  <2>1. CASE run' = [run EXCEPT !.at = "observe"]
    BY <1>2, <2>1 DEF RunTyped
  <2>2. CASE run' = [run EXCEPT !.at = "observe", !.bound = FALSE, !.success = FALSE,
                                !.reason = IF run.success THEN "error" ELSE run.reason]
    BY <1>2, <2>2 DEF RunTyped
  <2> QED BY <2>1, <2>2 DEF CloseRun
<1>5. VerdictTyped' /\ Accounted'
  BY <1>1, <1>2, <1>3, <1>4, CaptureKept
<1>6. Placed'
  BY <1>1, <1>3, <1>4 DEF VerdictInv, Placed
<1>7. Kept'
  BY <1>1, <1>4 DEF VerdictInv, Kept
<1>8. Phased'
  BY <1>1, <1>2, <1>3, <1>4 DEF VerdictInv, Phased, Early
<1>9. NotedRight' /\ Judged' /\ Concluded' /\ InspectionExact'
  <2>1. run'.inspection = "none"
    BY <1>1, <1>4 DEF VerdictInv, Phased, Early
  <2> QED BY <1>4, <2>1 DEF NotedRight, Judged, Concluded, InspectionExact
<1> QED BY <1>5, <1>6, <1>7, <1>8, <1>9 DEF VerdictInv

LEMMA ObserveKeeps == VerdictInv /\ ObserveEnd => VerdictInv'
<1> SUFFICES ASSUME VerdictInv, ObserveEnd PROVE VerdictInv'
  OBVIOUS
<1>1. /\ run.at = "observe" /\ UNCHANGED <<jsonl, counted, ahead, provider>> /\ UnchangedFeed
      /\ UNCHANGED <<setup, frame, tally>> /\ run' = Observed(run)
  BY DEF ObserveEnd, UnchangedFeed
<1>2. /\ RunTyped(run) /\ ahead \in Seq(Feed) /\ counted \in Seq(Feed) /\ setup.timed \in BOOLEAN
      /\ provider \in {"open", "last", "ended", "raised", "gone"} /\ tally \in Tallies
  BY <1>1, SetupTyped DEF VerdictInv, VerdictTyped
<1>3. /\ run'.at = "verify" /\ run'.finished = run.finished /\ run'.deadline = run.deadline
      /\ run'.inspection = run.inspection /\ run'.manifest = run.manifest
      /\ run'.bound = run.bound /\ run'.success = run.success /\ run'.reason = run.reason
      /\ run'.noted = tally /\ run'.prefetched = (IF run.deadline THEN Len(ahead) ELSE 0)
      /\ run'.complete <=> ~setup.timed \/ (run.finished /\ provider # "last")
  BY <1>1, <1>2 DEF RunTyped, Observed, Alive
<1>4. RunTyped(run')
  <2>1. (IF run.deadline THEN Len(ahead) ELSE 0) \in Nat
    BY <1>2
  <2>2. (~setup.timed \/ (run.finished /\ ~Alive)) \in BOOLEAN
    OBVIOUS
  <2> QED BY <1>1, <1>2, <2>1, <2>2 DEF RunTyped, Observed
<1>5. VerdictTyped' /\ Accounted'
  BY <1>1, <1>2, <1>4, CaptureKept
<1>6. Placed'
  BY <1>1, <1>3 DEF VerdictInv, Placed
<1>7. Kept'
  BY <1>1, <1>3 DEF VerdictInv, Kept
<1>8. Phased'
  BY <1>1, <1>3 DEF VerdictInv, Phased, Early
<1>9. NotedRight'
  <2>1. run.finished => Len(counted) = EmittedOf(tally) - run'.prefetched
    <3>1. ASSUME run.finished PROVE EmittedOf(tally) = Len(counted) + Len(ahead)
      BY <3>1 DEF VerdictInv, Kept
    <3>2. ASSUME run.finished PROVE run'.prefetched = Len(ahead)
      <4>1. CASE run.deadline
        BY <1>3, <4>1
      <4>2. CASE ~run.deadline
        <5>1. ahead = <<>>
          BY <3>2, <4>2 DEF VerdictInv, Phased
        <5> QED BY <1>3, <4>2, <5>1
      <4> QED BY <4>1, <4>2
    <3>3. Len(counted) \in Nat /\ Len(ahead) \in Nat
      BY <1>2
    <3> QED BY <3>1, <3>2, <3>3
  <2>2. ~setup.timed => provider # "last"
    BY DEF VerdictInv, Placed
  <2>3. run'.deadline \/ run'.prefetched = 0
    BY <1>3
  <2> QED BY <1>1, <1>3, <2>1, <2>2, <2>3 DEF NotedRight
<1>10. Judged' /\ Concluded' /\ InspectionExact'
  <2>1. run'.inspection = "none"
    BY <1>1, <1>3 DEF VerdictInv, Phased, Early
  <2> QED BY <1>3, <2>1 DEF Judged, Concluded, InspectionExact
<1> QED BY <1>5, <1>6, <1>7, <1>8, <1>9, <1>10 DEF VerdictInv

-----------------------------------------------------------------------------
(* What an inspection says.                                                *)

\* Of a run that has finished the closed file is what was there and what it took.
LEMMA ClosedFileIs ==
    ASSUME VerdictInv, run.finished
    PROVE  ClosedFile = setup.prior \o counted
<1>1. /\ setup.prior \in Seq(ToSet(setup.prior)) /\ setup.stale \in Seq(ToSet(setup.stale)) /\ counted \in Seq(Feed)
      /\ setup.stale # <<>> => setup.prior = <<>>
      /\ \A line \in ToSet(setup.stale) : line.kind = "stale"
  BY SetupTyped DEF VerdictInv, VerdictTyped
<1>2. jsonl = setup.prior \o (IF counted = <<>> THEN setup.stale ELSE counted)
  BY DEF VerdictInv, Kept
<1>3. CASE setup.stale = <<>>
  BY <1>2, <1>3 DEF ClosedFile
<1>4. CASE setup.stale # <<>>
  <2>1. <<>> \o setup.stale = setup.stale
    BY <1>1, ConcatEmptySeq
  <2>2. <<>> \o counted = counted
    BY <1>1, ConcatEmptySeq
  <2>3. setup.prior = <<>>
    BY <1>1, <1>4
  <2>4. CASE counted = <<>>
    BY <1>2, <1>4, <2>1, <2>2, <2>3, <2>4 DEF ClosedFile
  <2>5. CASE counted # <<>>
    <3>1. jsonl = counted
      BY <1>2, <2>2, <2>3, <2>5
    <3>2. counted[1] \in Feed
      BY <1>1, <2>5
    <3>3. setup.stale[1] \in ToSet(setup.stale)
      BY <1>1, <1>4 DEF ToSet
    <3>4. counted # setup.stale
      BY <1>1, <3>2, <3>3, VerdictAssumption
    <3> QED BY <2>2, <2>3, <3>1, <3>4 DEF ClosedFile
  <2> QED BY <2>4, <2>5
<1> QED BY <1>3, <1>4

\* The file counts the records of its parts, if each is readable.
LEMMA RecordsCounted ==
    ASSUME NEW L, NEW file \in Seq(L), \A k \in DOMAIN file : Readable(file[k])
    PROVE  RecordsIn(file) = Len(file)
<1>1. {k \in DOMAIN file : Readable(file[k])} = 1..Len(file)
  OBVIOUS
<1>2. 1 \in Int /\ Len(file) \in Int /\ Len(file) \in Nat
  OBVIOUS
<1>3. Cardinality(1..Len(file)) = Len(file)
  <2> DEFINE n == Len(file)
  <2>1. n \in Nat /\ n \in Int /\ 1 \in Int
    BY <1>2
  <2> HIDE DEF n
  <2>2. Cardinality(1..n) = IF 1 > n THEN 0 ELSE n - 1 + 1
    BY <2>1, FS_Interval
  <2>3. Cardinality(1..n) = n
    BY <2>1, <2>2
  <2> QED BY <2>3 DEF n
<1> QED BY <1>1, <1>3 DEF RecordsIn

\* No line of a file without issues has any.
LEMMA NoIssues ==
    ASSUME NEW site, NEW file, Issues(site, file) = {}
    PROVE  \A k \in DOMAIN file : Readable(file[k]) /\ file[k].kind \in KnownKinds
<1> SUFFICES ASSUME NEW k \in DOMAIN file PROVE Readable(file[k]) /\ file[k].kind \in KnownKinds
  OBVIOUS
<1>1. LineIssues(site, file, k) = {}
  BY DEF Issues
<1> QED BY <1>1 DEF LineIssues

\* The run's counts of the types are those of a file that holds its records.
LEMMA TypesMatch ==
    ASSUME counted \in Seq(Feed), \A k \in DOMAIN counted : Readable(counted[k]) /\ counted[k].kind \in KnownKinds
    PROVE  ~TypeMismatch(TypeCounts, counted)
<1> SUFFICES ASSUME NEW type \in Kinds PROVE TypeCounts[type] = IF type \in KnownKinds THEN OfKind(counted, type) ELSE 0
  BY DEF TypeMismatch, TypeCounts
<1>1. TypeCounts[type] = Of(counted, {type})
  BY DEF TypeCounts
<1>2. CASE type \in KnownKinds
  <2>1. {k \in DOMAIN counted : counted[k].kind \in {type}} = {k \in DOMAIN counted : Readable(counted[k]) /\ counted[k].kind = type}
    OBVIOUS
  <2> QED BY <1>1, <1>2, <2>1 DEF Of, OfKind
<1>3. CASE type \notin KnownKinds
  <2>1. {k \in DOMAIN counted : counted[k].kind \in {type}} = {}
    BY <1>3
  <2> QED BY <1>1, <1>3, <2>1, FS_EmptySet DEF Of
<1> QED BY <1>2, <1>3

\* A file without issues holds what was counted, if the run finished.
LEMMA FileCounts ==
    ASSUME VerdictInv, run.finished, Issues(Site, ClosedFile) = {}
    PROVE  /\ Whole /\ RecordsIn(ClosedFile) = Len(setup.prior) + Len(counted)
           /\ Len(setup.prior) = 0 => ~TypeMismatch(TypeCounts, ClosedFile)
<1> DEFINE L == ToSet(setup.prior) \cup Feed
<1>1. /\ setup.prior \in Seq(ToSet(setup.prior)) /\ counted \in Seq(Feed)
      /\ ClosedFile = setup.prior \o counted
  BY SetupTyped, ClosedFileIs DEF VerdictInv, VerdictTyped
<1>2. setup.prior \in Seq(L) /\ counted \in Seq(L)
  BY <1>1
<1> HIDE DEF L
<1>3. \A k \in DOMAIN ClosedFile : Readable(ClosedFile[k]) /\ ClosedFile[k].kind \in KnownKinds
  BY NoIssues
<1>4. /\ ClosedFile \in Seq(L) /\ Len(ClosedFile) = Len(setup.prior) + Len(counted)
      /\ \A k \in 1..(Len(setup.prior) + Len(counted)) :
           ClosedFile[k] = IF k <= Len(setup.prior) THEN setup.prior[k] ELSE counted[k - Len(setup.prior)]
  BY <1>1, <1>2, ConcatProperties
<1>5. RecordsIn(ClosedFile) = Len(ClosedFile)
  BY <1>3, <1>4, RecordsCounted
<1>6. \A k \in DOMAIN counted : Readable(counted[k]) /\ counted[k].kind \in KnownKinds
  <2> SUFFICES ASSUME NEW k \in DOMAIN counted PROVE Readable(counted[k]) /\ counted[k].kind \in KnownKinds
    OBVIOUS
  <2>1. Len(setup.prior) \in Nat /\ Len(counted) \in Nat /\ k \in 1..Len(counted)
    BY <1>2
  <2> DEFINE n == k + Len(setup.prior)
  <2>2. n \in 1..(Len(setup.prior) + Len(counted)) /\ ~(n <= Len(setup.prior)) /\ n - Len(setup.prior) = k
    BY <2>1
  <2>3. n \in DOMAIN ClosedFile
    BY <1>4, <2>2
  <2> HIDE DEF n
  <2>4. ClosedFile[n] = counted[k]
    BY <1>4, <2>2
  <2> QED BY <1>3, <2>3, <2>4
<1>7. Len(setup.prior) = 0 => ClosedFile = counted
  <2>1. <<>> \o counted = counted
    BY <1>1, ConcatEmptySeq
  <2>2. Len(setup.prior) = 0 => setup.prior = <<>>
    BY <1>1
  <2> QED BY <1>1, <2>1, <2>2
<1>8. ~TypeMismatch(TypeCounts, counted)
  BY <1>1, <1>6, TypesMatch
<1> QED BY <1>1, <1>4, <1>5, <1>6, <1>7, <1>8 DEF Whole

\* The fields of a summary.
LEMMA SummaryMeans ==
    ASSUME NEW t
    PROVE  LET s == SummaryWith(t) IN
           /\ s.success = run.success /\ s.count = Len(counted) /\ s.types = TypeCounts /\ s.tally = t
           /\ s.prior = Len(setup.prior) /\ s.priorLoss = setup.loss /\ s.prefetched = run.prefetched
           /\ s.complete = run.complete
BY DEF SummaryWith

\* A Kick run that failed, or whose counts may still change, has to be reviewed.
LEMMA KickReviewed ==
    ASSUME NEW t, ~run.success \/ ~run.complete
    PROVE  Inspected("kick", SummaryWith(t), ClosedFile) = "review"
<1>1. "failed" \in ReviewReasons(SummaryWith(t), ClosedFile) \/ "deadline" \in ReviewReasons(SummaryWith(t), ClosedFile)
  BY SummaryMeans DEF ReviewReasons
<1> QED BY <1>1 DEF Inspected

\* One that went well and is over is told by its issues and anomalies.
LEMMA KickJudged ==
    ASSUME VerdictInv, Site = "kick", run.at \in {"verify", "complete", "done"}, run.success, run.complete
    PROVE  Inspected("kick", SummaryWith(tally), ClosedFile) = "ok" <=>
             trouble = {} /\ Issues("kick", ClosedFile) = {}
<1> DEFINE s == SummaryWith(tally)
           f == ClosedFile
<1>1. /\ s.success = run.success /\ s.count = Len(counted) /\ s.types = TypeCounts /\ s.tally = tally
      /\ s.prefetched = run.prefetched /\ s.complete = run.complete
  BY SummaryMeans
<1>2. run.finished /\ run.noted = tally /\ Len(counted) = EmittedOf(tally) - run.prefetched /\ provider # "last"
  BY DEF VerdictInv, Phased, NotedRight
<1>3. setup.prior = <<>> /\ setup.timed \in BOOLEAN /\ tally \in Tallies
  BY SetupTyped DEF VerdictInv, VerdictTyped
<1>4. ~Pending
  <2>1. provider \in {"ended", "raised", "gone"}
    BY <1>2 DEF VerdictInv, VerdictTyped, Placed
  <2>2. provider = "gone" => setup.timed
    <3>1. provider = "ended" \/ run.deadline
      BY <1>2 DEF VerdictInv, Phased
    <3> QED BY <3>1 DEF VerdictInv, Phased
  <2>3. frame.kind \in {"none", "parsed", "items"}
    BY <2>1, <2>2 DEF VerdictInv, Placed
  <2> QED BY <2>3 DEF Pending, Undecided
<1>5. /\ Unaccounted(tally) = 0 /\ tally.malformed = tally.malformedTypes
      /\ trouble = {} <=> ~Anomalies(tally)
  BY <1>4 DEF VerdictInv, Accounted
<1>6. ASSUME Issues("kick", f) = {} PROVE ~Gaps(s, f)
  <2>1. RecordsIn(f) = Len(setup.prior) + Len(counted) /\ (Len(setup.prior) = 0 => ~TypeMismatch(TypeCounts, f))
    BY <1>2, <1>6, FileCounts
  <2>2. Len(setup.prior) = 0 /\ Len(counted) \in Nat
    BY <1>3 DEF VerdictInv, VerdictTyped
  <2>3. RecordsIn(f) = Len(counted) /\ ~TypeMismatch(TypeCounts, f)
    BY <2>1, <2>2
  <2> HIDE DEF s, f
  <2> QED BY <1>1, <1>2, <1>5, <2>3 DEF Gaps
<1> HIDE DEF s, f
<1>7. ReviewReasons(s, f) = {} <=> Issues("kick", f) = {} /\ ~Gaps(s, f) /\ ~Anomalies(tally)
  BY <1>1 DEF ReviewReasons
<1>8. Inspected("kick", s, f) = "ok" <=> ReviewReasons(s, f) = {}
  BY DEF Inspected
<1> QED BY <1>5, <1>6, <1>7, <1>8 DEF s, f

\* What makes a capture clean, seen from the verification.
CleanNow ==
    /\ trouble \cup Unread = {} /\ Issues(Site, ClosedFile) = {}
    /\ Site # "twitch" => Whole /\ run.finished /\ ~setup.loss
    /\ Site = "kick" => run.complete

\* Lines are waiting exactly if some are unread.
LEMMA UnreadMeans ==
    ASSUME VerdictInv
    PROVE  Waiting \in Nat /\ (Unread = {} <=> Waiting = 0) /\ (frame.kind # "chunk" => Unread = {})
<1>1. CASE frame.kind = "chunk"
  <2> DEFINE n == Of(frame.of, Meant)
  <2>1. n \in Nat
    BY <1>1, ChunkOf, ChunkCounts DEF VerdictInv
  <2>2. Of(frame.of, {"message", "reconnect", "odd"}) = n
    BY DEF Meant
  <2>3. Unread = IF n > 0 THEN {"unread line"} ELSE {}
    BY <1>1, <2>2 DEF Unread
  <2>4. Waiting = n
    BY <1>1 DEF Waiting
  <2> HIDE DEF n
  <2>5. Unread = {} <=> n = 0
    <3>1. CASE n > 0
      <4>1. Unread = {"unread line"}
        BY <2>3, <3>1
      <4>2. Unread # {}
        BY <4>1
      <4> QED BY <2>1, <3>1, <4>2
    <3>2. CASE n = 0
      BY <2>3, <3>2
    <3> QED BY <2>1, <3>1, <3>2
  <2> QED BY <1>1, <2>1, <2>4, <2>5
<1>2. CASE frame.kind # "chunk"
  BY <1>2 DEF Unread, Waiting
<1> QED BY <1>1, <1>2

\* The inspection says "ok" exactly if the capture is clean.
LEMMA InspectsRight ==
    ASSUME VerdictInv, run.at = "verify", run.bound
    PROVE  Inspection \in {"ok", "review"} /\ (Inspection = "ok" <=> CleanNow)
<1>1. Inspection = Inspected(Site, SummaryWith(tally), ClosedFile)
  BY DEF Inspection
<1>2. /\ Site \in {"kick", "twitch", "youtube"}
      /\ Site # "youtube" => setup.prior = <<>> /\ ~setup.loss
      /\ setup.loss \in BOOLEAN /\ setup.prior \in Seq(ToSet(setup.prior)) /\ counted \in Seq(Feed) /\ tally \in Tallies
  BY SetupTyped DEF VerdictInv, VerdictTyped
<1>3. run.success <=> run.finished
  BY DEF VerdictInv, Phased, Early
<1>4. Inspection \in {"ok", "review"}
  BY <1>1 DEF Inspected
<1>5. CleanNow <=> /\ trouble = {} /\ Unread = {} /\ Issues(Site, ClosedFile) = {}
                   /\ Site # "twitch" => Whole /\ run.finished /\ ~setup.loss
                   /\ Site = "kick" => run.complete
  <2>1. trouble \cup Unread = {} <=> trouble = {} /\ Unread = {}
    OBVIOUS
  <2> QED BY <2>1, Zenon DEF CleanNow
<1>6. ASSUME Site = "kick" PROVE Inspection = "ok" <=> CleanNow
  <2>1. Unread = {}
    <3>1. frame.kind # "chunk"
      BY <1>6 DEF VerdictInv, VerdictTyped, KindsAt, Undecided
    <3> QED BY <3>1, UnreadMeans
  <2>2. CASE run.success /\ run.complete
    <3>1. Inspection = "ok" <=> trouble = {} /\ Issues(Site, ClosedFile) = {}
      BY <1>1, <1>6, <2>2, KickJudged
    <3>2. Issues(Site, ClosedFile) = {} => Whole
      BY <1>3, <2>2, FileCounts
    <3> QED BY <1>2, <1>3, <1>5, <1>6, <2>1, <2>2, <3>1, <3>2
  <2>3. CASE ~(run.success /\ run.complete)
    <3>1. Inspection = "review"
      BY <1>1, <1>6, <2>3, KickReviewed
    <3> QED BY <1>3, <1>5, <1>6, <2>3, <3>1
  <2> QED BY <2>2, <2>3
<1>7. ASSUME Site = "twitch" PROVE Inspection = "ok" <=> CleanNow
  <2>1. Inspection = "ok" <=> Issues(Site, ClosedFile) = {} /\ UnaccountedLines(tally) = 0
    <3> DEFINE s == SummaryWith(tally)
               f == ClosedFile
    <3>1. s.tally = tally
      BY SummaryMeans
    <3> HIDE DEF s, f
    <3>2. Inspected("twitch", s, f) = IF Issues("twitch", f) # {} \/ UnaccountedLines(s.tally) # 0 THEN "review" ELSE "ok"
      BY DEF Inspected
    <3>3. Inspection = Inspected("twitch", s, f)
      BY <1>1, <1>7 DEF s, f
    <3>4. Inspection = "ok" <=> Issues("twitch", f) = {} /\ UnaccountedLines(s.tally) = 0
      BY <3>2, <3>3
    <3> QED BY <1>7, <3>1, <3>4 DEF f
  <2>2. /\ UnaccountedLines(tally) >= Waiting
        /\ trouble = {} <=> UnaccountedLines(tally) = Waiting
    BY <1>7 DEF VerdictInv, Accounted
  <2>3. Waiting \in Nat /\ (Unread = {} <=> Waiting = 0) /\ UnaccountedLines(tally) \in Int
    BY <1>2, UnreadMeans, TallyTyped
  <2>4. UnaccountedLines(tally) = 0 <=> trouble = {} /\ Unread = {}
    <3>1. ASSUME trouble = {}, Unread = {} PROVE UnaccountedLines(tally) = 0
      BY <2>2, <2>3, <3>1
    <3>2. ASSUME UnaccountedLines(tally) = 0 PROVE Waiting = 0
      BY <2>2, <2>3, <3>2
    <3>3. ASSUME UnaccountedLines(tally) = 0 PROVE trouble = {} /\ Unread = {}
      BY <2>2, <2>3, <3>2, <3>3
    <3> QED BY <3>1, <3>3
  <2> QED BY <1>5, <1>7, <2>1, <2>4
<1>8. ASSUME Site = "youtube" PROVE Inspection = "ok" <=> CleanNow
  <2>1. Inspection = "ok" <=> Issues(Site, ClosedFile) = {} /\ ~YouTubeReview(SummaryWith(tally), ClosedFile)
    <3> DEFINE s == SummaryWith(tally)
               f == ClosedFile
    <3> HIDE DEF s, f
    <3>1. Inspected("youtube", s, f) = IF Issues("youtube", f) # {} \/ YouTubeReview(s, f) THEN "review" ELSE "ok"
      BY DEF Inspected
    <3>2. Inspection = Inspected("youtube", s, f)
      BY <1>1, <1>8 DEF s, f
    <3>3. Inspection = "ok" <=> Issues("youtube", f) = {} /\ ~YouTubeReview(s, f)
      BY <3>1, <3>2
    <3> QED BY <1>8, <3>3 DEF f, s
  <2>2. YouTubeReview(SummaryWith(tally), ClosedFile) <=>
          \/ Len(counted) + Len(setup.prior) # RecordsIn(ClosedFile)
          \/ Len(setup.prior) = 0 /\ TypeMismatch(TypeCounts, ClosedFile)
          \/ ~run.success \/ setup.loss \/ tally.malformed > 0
    BY SummaryMeans DEF YouTubeReview
  <2>3. /\ trouble = {} <=> tally.malformed = 0
        /\ tally.malformed \in Nat /\ Len(counted) \in Nat /\ Len(setup.prior) \in Nat
    BY <1>2, <1>8, TallyTyped DEF VerdictInv, Accounted
  <2>4. Unread = {}
    <3>1. frame.kind # "chunk"
      BY <1>8 DEF VerdictInv, VerdictTyped, KindsAt, Undecided
    <3> QED BY <3>1, UnreadMeans
  <2>5. CASE ~run.success
    BY <1>3, <1>5, <1>8, <2>1, <2>2, <2>5
  <2>6. CASE Issues(Site, ClosedFile) # {}
    BY <1>5, <2>1, <2>6
  <2>7. CASE run.success /\ Issues(Site, ClosedFile) = {}
    <3>1. /\ Whole /\ RecordsIn(ClosedFile) = Len(setup.prior) + Len(counted)
          /\ Len(setup.prior) = 0 => ~TypeMismatch(TypeCounts, ClosedFile)
      BY <1>3, <2>7, FileCounts
    <3>2. Len(counted) + Len(setup.prior) = RecordsIn(ClosedFile)
      BY <2>3, <3>1
    <3>3. YouTubeReview(SummaryWith(tally), ClosedFile) <=> setup.loss \/ tally.malformed > 0
      BY <2>2, <2>7, <3>1, <3>2
    <3>4. tally.malformed > 0 <=> trouble # {}
      BY <2>3
    <3> QED BY <1>3, <1>5, <1>8, <2>1, <2>4, <2>7, <3>1, <3>3, <3>4
  <2> QED BY <2>5, <2>6, <2>7
<1>9. Inspection = "ok" <=> CleanNow
  BY <1>2, <1>6, <1>7, <1>8, Zenon
<1> QED BY <1>4, <1>9, Zenon

-----------------------------------------------------------------------------
(* The verification and the final record.                                  *)

LEMMA VerifyKeeps == VerdictInv /\ Verify => VerdictInv'
<1> SUFFICES ASSUME VerdictInv, Verify PROVE VerdictInv'
  OBVIOUS
<1> DEFINE looked == [run EXCEPT !.at = "complete",
                                 !.inspection = IF run.bound THEN Inspection ELSE "none",
                                 !.found = trouble \cup Unread]
           passed == [looked EXCEPT !.parity = "passed",
                                    !.success = run.success /\ looked.inspection = "ok"]
<1>1. /\ run.at = "verify" /\ UNCHANGED <<jsonl, counted, ahead, provider>> /\ UnchangedFeed
      /\ UNCHANGED <<setup, frame, tally, trouble>>
  BY DEF Verify, UnchangedFeed
<1>2. /\ RunTyped(run) /\ ahead' \in Seq(Feed) /\ counted' \in Seq(Feed)
      /\ setup.timed \in BOOLEAN /\ setup.verify \in BOOLEAN
      /\ provider' \in {"open", "last", "ended", "raised", "gone"}
  BY <1>1, SetupTyped DEF VerdictInv, VerdictTyped
<1>3. run.bound => Inspection \in {"ok", "review"} /\ (Inspection = "ok" <=> CleanNow)
  BY <1>1, InspectsRight
<1>4. /\ RunTyped(looked) /\ looked.at = "complete" /\ looked.finished = run.finished /\ looked.deadline = run.deadline
      /\ looked.manifest = run.manifest /\ looked.bound = run.bound /\ looked.success = run.success
      /\ looked.reason = run.reason /\ looked.noted = run.noted /\ looked.prefetched = run.prefetched
      /\ looked.complete = run.complete /\ looked.found = trouble \cup Unread
      /\ looked.inspection = IF run.bound THEN Inspection ELSE "none"
  BY <1>2, <1>3 DEF RunTyped
<1> HIDE DEF looked
<1>5. /\ RunTyped(passed) /\ passed.at = "complete" /\ passed.finished = run.finished /\ passed.deadline = run.deadline
      /\ passed.manifest = run.manifest /\ passed.bound = run.bound
      /\ passed.success <=> run.success /\ looked.inspection = "ok"
      /\ passed.reason = run.reason /\ passed.noted = run.noted /\ passed.prefetched = run.prefetched
      /\ passed.complete = run.complete /\ passed.found = trouble \cup Unread
      /\ passed.inspection = looked.inspection /\ passed.parity = "passed"
  BY <1>4 DEF RunTyped
<1> HIDE DEF passed
<1>6. ASSUME NEW r, RunTyped(r)
      PROVE  /\ RunTyped(Failed(r)) /\ Failed(r).at = r.at /\ Failed(r).finished = r.finished
             /\ Failed(r).deadline = r.deadline /\ Failed(r).manifest = r.manifest /\ Failed(r).bound = r.bound
             /\ Failed(r).success = FALSE /\ Failed(r).reason \in {r.reason, "error"}
             /\ Failed(r).noted = r.noted /\ Failed(r).prefetched = r.prefetched
             /\ Failed(r).complete = r.complete /\ Failed(r).found = r.found /\ Failed(r).inspection = r.inspection
  BY <1>6 DEF RunTyped, Failed
<1>7. LET other == [looked EXCEPT !.parity = "failed"] IN
      /\ RunTyped(other) /\ other.at = "complete" /\ other.finished = run.finished /\ other.deadline = run.deadline
      /\ other.manifest = run.manifest /\ other.bound = run.bound
      /\ other.reason = run.reason /\ other.noted = run.noted /\ other.prefetched = run.prefetched
      /\ other.complete = run.complete /\ other.found = trouble \cup Unread
      /\ other.inspection = looked.inspection
  BY <1>4 DEF RunTyped
<1>8. \/ run' = looked /\ ~ToVerify
      \/ run' = Failed(looked)
      \/ run' = Failed([looked EXCEPT !.parity = "failed"])
      \/ run' = passed \/ run' = Failed(passed)
  BY DEF Verify, looked, passed
<1>9. /\ RunTyped(run') /\ run'.at = "complete" /\ run'.finished = run.finished /\ run'.deadline = run.deadline
      /\ run'.manifest = run.manifest /\ run'.bound = run.bound
      /\ run'.reason \in {run.reason, "error"} /\ run'.noted = run.noted /\ run'.prefetched = run.prefetched
      /\ run'.complete = run.complete /\ run'.found = trouble \cup Unread
      /\ run'.inspection = (IF run.bound THEN Inspection ELSE "none")
      /\ run'.success => run.success /\ (~ToVerify \/ (run'.parity = "passed" /\ run'.inspection = "ok"))
  <2>1. RunTyped([looked EXCEPT !.parity = "failed"])
    BY <1>7
  <2>2. CASE run' = looked /\ ~ToVerify
    BY <1>4, <2>2
  <2>3. CASE run' = Failed(looked)
    BY <1>4, <1>6, <2>3
  <2>4. CASE run' = Failed([looked EXCEPT !.parity = "failed"])
    BY <1>4, <1>6, <1>7, <2>1, <2>4
  <2>5. CASE run' = passed
    BY <1>4, <1>5, <2>5
  <2>6. CASE run' = Failed(passed)
    BY <1>4, <1>5, <1>6, <2>6
  <2> QED BY <1>8, <2>2, <2>3, <2>4, <2>5, <2>6
<1>10. VerdictTyped' /\ Accounted'
  BY <1>1, <1>2, <1>9, CaptureKept
<1>11. Placed'
  BY <1>1, <1>9 DEF VerdictInv, Placed
<1>12. Kept'
  BY <1>1, <1>9 DEF VerdictInv, Kept
<1>13. Phased'
  BY <1>1, <1>9 DEF VerdictInv, Phased, Early
<1>14. NotedRight'
  BY <1>1, <1>9 DEF VerdictInv, NotedRight
<1>15. Unread' = Unread
  BY <1>1 DEF Unread
<1>16. Judged'
  <2>1. run'.inspection # "none" => setup.verify
    BY <1>1, <1>9 DEF VerdictInv, Phased, Early
  <2>2. run'.success /\ setup.verify => run'.inspection = "ok" /\ run'.parity = "passed"
    BY <1>1, <1>9 DEF VerdictInv, Phased, Early, ToVerify
  <2> QED BY <1>1, <1>9, <1>15, <2>1, <2>2 DEF Judged
<1>17. Concluded'
  BY <1>9 DEF Concluded
<1>18. InspectionExact'
  <2>1. Clean' <=> CleanNow
    <3>1. ClosedFile' = ClosedFile
      BY <1>1 DEF ClosedFile
    <3>2. Whole' <=> Whole
      BY <1>1, <3>1 DEF Whole
    <3>3. Site' = Site
      BY <1>1 DEF Site
    <3> QED BY <1>1, <1>9, <3>1, <3>2, <3>3 DEF Clean, CleanNow
  <2>2. run'.inspection # "none" => (run'.inspection = "ok" <=> CleanNow)
    BY <1>3, <1>9
  <2> QED BY <2>1, <2>2 DEF InspectionExact
<1> QED BY <1>10, <1>11, <1>12, <1>13, <1>14, <1>16, <1>17, <1>18 DEF VerdictInv

\* The capture is not touched any more: it stays as clean as it was found.
LEMMA CompleteKeeps == VerdictInv /\ Complete => VerdictInv'
<1> SUFFICES ASSUME VerdictInv, Complete PROVE VerdictInv'
  OBVIOUS
<1> DEFINE final == [run EXCEPT !.at = "done", !.success = run.success /\ (setup.require => ReplayComplete(run))]
<1>1. /\ run.at = "complete" /\ UNCHANGED <<jsonl, counted, ahead, provider>> /\ UnchangedFeed
      /\ UNCHANGED <<setup, frame, tally, trouble>>
  BY DEF Complete, UnchangedFeed
<1>2. /\ RunTyped(run) /\ ahead' \in Seq(Feed) /\ counted' \in Seq(Feed)
      /\ setup.timed \in BOOLEAN /\ setup.verify \in BOOLEAN /\ setup.require \in BOOLEAN
      /\ provider' \in {"open", "last", "ended", "raised", "gone"}
  BY <1>1, SetupTyped DEF VerdictInv, VerdictTyped
<1>3. /\ RunTyped(final) /\ final.at = "done" /\ final.finished = run.finished /\ final.deadline = run.deadline
      /\ final.bound = run.bound /\ final.reason = run.reason /\ final.noted = run.noted
      /\ final.prefetched = run.prefetched /\ final.complete = run.complete /\ final.found = run.found
      /\ final.inspection = run.inspection /\ final.parity = run.parity /\ final.manifest = run.manifest
      /\ final.success <=> run.success /\ (setup.require => ReplayComplete(run))
  BY <1>2 DEF RunTyped
<1> HIDE DEF final
<1>4. ASSUME NEW m
      PROVE  LET r == [final EXCEPT !.manifest = m] IN
             /\ RunTyped(r) /\ r.at = "done" /\ r.finished = run.finished /\ r.deadline = run.deadline
             /\ r.bound = run.bound /\ r.reason = run.reason /\ r.noted = run.noted
             /\ r.prefetched = run.prefetched /\ r.complete = run.complete /\ r.found = run.found
             /\ r.inspection = run.inspection /\ r.parity = run.parity /\ r.manifest = m /\ r.success = final.success
  BY <1>3 DEF RunTyped
<1>5. LET r == [final EXCEPT !.success = FALSE] IN
      /\ RunTyped(r) /\ r.at = "done" /\ r.finished = run.finished /\ r.deadline = run.deadline
      /\ r.bound = run.bound /\ r.reason = run.reason /\ r.noted = run.noted
      /\ r.prefetched = run.prefetched /\ r.complete = run.complete /\ r.found = run.found
      /\ r.inspection = run.inspection /\ r.parity = run.parity /\ r.manifest = run.manifest /\ r.success = FALSE
  BY <1>3 DEF RunTyped
<1>6. \/ run' = [final EXCEPT !.manifest = <<Manifest(final)>>]
      \/ run' = [final EXCEPT !.success = FALSE]
  BY DEF Complete, final
<1>7. /\ RunTyped(run') /\ run'.at = "done" /\ run'.finished = run.finished /\ run'.deadline = run.deadline
      /\ run'.bound = run.bound /\ run'.reason = run.reason /\ run'.noted = run.noted
      /\ run'.prefetched = run.prefetched /\ run'.complete = run.complete /\ run'.found = run.found
      /\ run'.inspection = run.inspection /\ run'.parity = run.parity
      /\ run'.success => run.success /\ (setup.require => ReplayComplete(run))
      /\ \/ run'.manifest = run.manifest
         \/ run'.manifest = <<Manifest(final)>> /\ run'.success = final.success
  <2>1. CASE run' = [final EXCEPT !.manifest = <<Manifest(final)>>]
    BY <1>3, <1>4, <2>1
  <2>2. CASE run' = [final EXCEPT !.success = FALSE]
    BY <1>5, <2>2
  <2> QED BY <1>6, <2>1, <2>2
<1>8. VerdictTyped' /\ Accounted'
  BY <1>1, <1>2, <1>7, CaptureKept
<1>9. Placed'
  BY <1>1, <1>7 DEF VerdictInv, Placed
<1>10. Kept'
  BY <1>1, <1>7 DEF VerdictInv, Kept
<1>11. Phased'
  BY <1>1, <1>7 DEF VerdictInv, Phased, Early
<1>12. NotedRight'
  BY <1>1, <1>7 DEF VerdictInv, NotedRight
<1>13. Judged'
  <2>1. Unread' = Unread
    BY <1>1 DEF Unread
  <2> QED BY <1>1, <1>7, <2>1 DEF VerdictInv, Judged
<1>14. ReplayComplete(run) => trouble = {} /\ ~setup.loss
  BY DEF ReplayComplete, VerdictInv, Accounted
<1>15. Concluded'
  <2>1. run'.success => run.success /\ (setup.require => ReplayComplete(run))
    BY <1>7
  <2>2. ASSUME run'.success PROVE ReplayComplete(run') <=> ReplayComplete(run)
    BY <1>7, <2>1, <2>2 DEF ReplayComplete
  <2>3. ReplayComplete(run)' <=> Site = "youtube" /\ run'.success /\ run'.reason = "completed" /\ tally.malformed = 0 /\ ~setup.loss
    BY <1>1 DEF ReplayComplete, Site
  <2>4. ReplayComplete(run') <=> ReplayComplete(run)'
    BY <2>3 DEF ReplayComplete
  <2>5. run'.success /\ setup'.require => ReplayComplete(run)'
    BY <1>1, <2>1, <2>2, <2>4
  <2>6. CASE run'.manifest = run.manifest
    <3>1. run'.manifest = <<>>
      BY <1>1, <2>6 DEF VerdictInv, Phased
    <3> QED BY <2>5, <3>1 DEF Concluded
  <2>7. CASE run'.manifest = <<Manifest(final)>> /\ run'.success = final.success
    <3>1. Manifest(final) = Manifest(run)'
      BY <1>1, <1>3, <1>7, <2>7 DEF Manifest, ReplayComplete, Site
    <3> QED BY <2>5, <2>7, <3>1 DEF Concluded
  <2> QED BY <1>7, <2>6, <2>7
<1>16. InspectionExact'
  <2>1. Clean' <=> Clean
    <3>1. ClosedFile' = ClosedFile
      BY <1>1 DEF ClosedFile
    <3>2. Whole' <=> Whole
      BY <1>1, <3>1 DEF Whole
    <3>3. Site' = Site
      BY <1>1 DEF Site
    <3> QED BY <1>1, <1>7, <3>1, <3>2, <3>3 DEF Clean
  <2>2. run.inspection # "none" => (run.inspection = "ok" <=> Clean)
    BY DEF VerdictInv, InspectionExact
  <2> QED BY <1>7, <2>1, <2>2 DEF InspectionExact
<1> QED BY <1>8, <1>9, <1>10, <1>11, <1>12, <1>13, <1>15, <1>16 DEF VerdictInv

LEMMA VerdictKept == VerdictInv /\ [VerdictNext]_verdictVars => VerdictInv'
<1>1. ASSUME VerdictInv, UNCHANGED verdictVars PROVE VerdictInv'
  <2>1. UNCHANGED <<setup, tally, known, frame, ahead, provider, events, jsonl, counted, trouble, run>>
    BY <1>1 DEF verdictVars
  <2>2. VerdictTyped' /\ Accounted'
    BY <1>1, <2>1 DEF VerdictInv, VerdictTyped, Accounted, Pending, Waiting, Site
  <2>3. Placed' /\ Kept' /\ Phased' /\ NotedRight'
    BY <1>1, <2>1 DEF VerdictInv, Placed, Kept, Phased, NotedRight, Early
  <2>4. Judged' /\ Concluded'
    BY <1>1, <2>1 DEF VerdictInv, Judged, Unread, Concluded, Manifest, ReplayComplete, Site
  <2>5. InspectionExact'
    BY <1>1, <2>1 DEF VerdictInv, InspectionExact, Clean, ClosedFile, Site, Whole
  <2> QED BY <2>2, <2>3, <2>4, <2>5 DEF VerdictInv
<1> QED BY <1>1, IteratorKeeps, TakeKeeps, TakeFailsKeeps, EndKeeps, CloseKeeps, ObserveKeeps,
          VerifyKeeps, CompleteKeeps DEF VerdictNext

-----------------------------------------------------------------------------
(* What the invariant says of a run that is over.                          *)

\* What _manifest_diagnostics() reports has the same items.
LEMMA ReportedItems ==
    ASSUME NEW t \in Tallies
    PROVE  EmittedOf(Reported(t)) = EmittedOf(t)
<1>1. {"preloaded", "live", "backfill"} \subseteq DOMAIN t \ {"malformedTypes"}
  BY DEF Tallies, Zero
<1> QED BY <1>1 DEF Reported, EmittedOf

\* Once the run is over nothing is left for an iterator without trouble to say.
LEMMA CompleteMeans ==
    ASSUME VerdictInv, ReplayComplete(run)
    PROVE  trouble = {} /\ ~setup.loss /\ run.success /\ run.finished /\ ~run.deadline /\ provider = "ended"
BY DEF ReplayComplete, VerdictInv, Accounted, Phased

\* The invariant gives each part of what a run says.
LEMMA SuccessHolds == VerdictInv => SuccessIsVerified
<1> SUFFICES ASSUME VerdictInv, run.at = "done", run.success PROVE
       /\ setup.verify => run.inspection = "ok" /\ run.parity = "passed" /\ run.found = {}
       /\ ClosedFile = setup.prior \o counted
       /\ setup.require => trouble = {} /\ ~setup.loss
  BY DEF SuccessIsVerified
<1>1. ClosedFile = setup.prior \o counted
  <2>1. run.finished
    BY DEF VerdictInv, Phased
  <2> QED BY <2>1, ClosedFileIs
<1>2. setup.verify => run.inspection = "ok" /\ run.parity = "passed"
  BY DEF VerdictInv, Judged
<1>3. run.inspection = "ok" => run.found = {}
  BY DEF VerdictInv, InspectionExact, Clean
<1>4. setup.require => trouble = {} /\ ~setup.loss
  <2>1. setup.require => ReplayComplete(run)
    BY DEF VerdictInv, Concluded
  <2> QED BY <2>1, CompleteMeans
<1> QED BY <1>1, <1>2, <1>3, <1>4

LEMMA ManifestHolds == VerdictInv => ManifestTrue
<1> SUFFICES ASSUME VerdictInv, NEW m \in ToSet(run.manifest)
             PROVE  /\ m.success = run.success /\ m.reason = run.reason
                    /\ m.inspection = run.inspection /\ m.parity = run.parity
                    /\ m.complete => m.success /\ trouble = {} /\ ~setup.loss /\ m.count = EmittedOf(m.tally)
                    /\ m.success /\ m.sure => m.count = EmittedOf(m.tally) - m.prefetched
  BY DEF ManifestTrue
<1>1. run.at = "done"
  <2>1. run.manifest # <<>>
    BY DEF ToSet
  <2> QED BY <2>1 DEF VerdictInv, Phased
<1>2. m = Manifest(run)
  <2>1. run.manifest = <<>> \/ run.manifest = <<Manifest(run)>>
    BY <1>1 DEF VerdictInv, Concluded
  <2> QED BY <2>1 DEF ToSet
<1>3. /\ m.success = run.success /\ m.reason = run.reason /\ m.inspection = run.inspection /\ m.parity = run.parity
      /\ m.complete <=> ReplayComplete(run)
      /\ m.count = Len(counted) /\ m.prefetched = run.prefetched /\ m.tally = Reported(run.noted)
  BY <1>2 DEF Manifest, ReplayComplete
<1>4. run.noted \in Tallies /\ run.prefetched \in Nat
  BY DEF VerdictInv, VerdictTyped, RunTyped
<1>5. EmittedOf(m.tally) = EmittedOf(run.noted) /\ EmittedOf(run.noted) \in Nat
  <2>1. EmittedOf(run.noted) \in Nat
    BY <1>4, TallyTyped
  <2> QED BY <1>3, <1>4, <2>1, ReportedItems
<1>6. run.finished => Len(counted) = EmittedOf(run.noted) - run.prefetched
  BY <1>1 DEF VerdictInv, NotedRight
<1>7. ASSUME m.complete PROVE m.success /\ trouble = {} /\ ~setup.loss /\ m.count = EmittedOf(m.tally)
  <2>1. trouble = {} /\ ~setup.loss /\ run.success /\ run.finished /\ ~run.deadline
    BY <1>3, <1>7, CompleteMeans
  <2>2. run.prefetched = 0
    BY <1>1, <2>1 DEF VerdictInv, NotedRight
  <2>3. Len(counted) = EmittedOf(run.noted)
    BY <1>5, <1>6, <2>1, <2>2
  <2> QED BY <1>3, <1>5, <2>1, <2>3
<1>8. ASSUME m.success PROVE m.count = EmittedOf(m.tally) - m.prefetched
  <2>1. run.finished
    BY <1>3, <1>8 DEF VerdictInv, Phased
  <2> QED BY <1>3, <1>5, <1>6, <2>1
<1> QED BY <1>3, <1>7, <1>8

LEMMA LogHolds == VerdictInv => LogAgrees
<1> SUFFICES ASSUME VerdictInv, Site = "kick", run.at = "done", run.inspection # "none"
             PROVE  Again = "ok" <=> run.inspection = "ok" /\ run.success
  BY DEF LogAgrees
<1>1. Again = Inspected("kick", SummaryWith(run.noted), ClosedFile)
  BY DEF Again, Logged
<1>2. CASE ~run.success \/ ~run.complete
  <2>1. Again = "review"
    BY <1>1, <1>2, KickReviewed
  <2>2. run.inspection = "ok" => run.complete
    BY DEF VerdictInv, InspectionExact, Clean
  <2> QED BY <1>2, <2>1, <2>2
<1>3. CASE run.success /\ run.complete
  <2>1. run.noted = tally
    BY <1>3 DEF VerdictInv, NotedRight
  <2>2. Again = "ok" <=> trouble = {} /\ Issues("kick", ClosedFile) = {}
    BY <1>1, <1>3, <2>1, KickJudged
  <2>3. run.inspection = "ok" <=> Clean
    BY DEF VerdictInv, InspectionExact
  <2>4. setup.verify
    BY DEF VerdictInv, Judged
  <2>5. run.inspection = "ok"
    BY <1>3, <2>4 DEF VerdictInv, Judged
  <2>6. run.found = trouble \cup Unread
    BY <1>3 DEF VerdictInv, Judged
  <2>7. trouble = {} /\ Issues("kick", ClosedFile) = {}
    BY <2>3, <2>5, <2>6 DEF Clean
  <2> QED BY <1>3, <2>2, <2>5, <2>7
<1> QED BY <1>2, <1>3

\* What a run says of its own capture is true, for any runs, feeds and earlier files: the
\* inspection, the result, the manifest and the log (capture_inspection.py, runner.py,
\* capture_verification.py, capture_manifest.py).
THEOREM VerdictsAreTrue == VerdictSpec => []VerdictSound
<1>1. VerdictInv => VerdictSound
  BY SuccessHolds, ManifestHolds, LogHolds DEF VerdictSound, VerdictInv
<1> QED BY <1>1, VerdictStarts, VerdictKept, PTL DEF VerdictSpec

-----------------------------------------------------------------------------
(* Type correctness.                                                       *)

LEMMA TypeInit == Init => TypeOK
<1> SUFFICES ASSUME Init PROVE TypeOK
  OBVIOUS
<1>1. /\ timeoutTimer \in BOOLEAN
      /\ timeoutTimer => timeoutDeadline # None
  BY TimeoutsAssumption DEF Init
<1>2. /\ timeoutDeadline \in Timeouts /\ inactivity \in Inactivities
      /\ inactivityDeadline \in Nat \cup {None}
      /\ (inactivityDeadline = None) <=> (inactivity = None)
      /\ inactivityTimerAt \in Nat \cup {None}
      /\ inactivityTimerAt # None => inactivity # None
  BY TimeoutsAssumption DEF Init
<1>3. now \in 0 .. Horizon /\ emitted \in 0 .. MaxItems /\ delivered \in 0 .. MaxItems
  BY BoundsAssumption DEF Init
<1>4. /\ wpc = "loop" /\ cpc = "idle" /\ queue = <<>> /\ source = "open"
      /\ hand = None /\ held = None /\ getUntil = None
      /\ finishReason = None /\ summary = None /\ outstanding = 0
  BY DEF Init
<1>5. /\ timeoutExpired \in BOOLEAN /\ inactivityExpired \in BOOLEAN
      /\ advancing \in BOOLEAN /\ stopRequested \in BOOLEAN
      /\ generatorClosed \in BOOLEAN /\ closed \in BOOLEAN
      /\ consumerFinished \in BOOLEAN /\ interrupted \in BOOLEAN
  BY DEF Init
<1> QED
  BY <1>1, <1>2, <1>3, <1>4, <1>5 DEF TypeOK

LEMMA TypeWorker == TypeOK /\ (WorkerStep \/ SourceStep) => TypeOK'
<1> SUFFICES ASSUME TypeOK, WorkerStep \/ SourceStep PROVE TypeOK'
  OBVIOUS
<1> USE BoundsAssumption DEF TypeOK, consumerVars, clockVars, timerVars, sourceVars,
        finishVars
<1>1. CASE WorkerCheck BY <1>1 DEF WorkerCheck
<1>2. CASE WorkerBegin
  <2>1. CASE stopRequested BY <1>2, <2>1 DEF WorkerBegin
  <2>2. CASE ~stopRequested BY <1>2, <2>2 DEF WorkerBegin
  <2> QED BY <2>1, <2>2
<1>3. CASE WorkerReturns
  <2>1. wpc' \in {"count", "exit", "stamp"} BY <1>3 DEF WorkerReturns
  <2>2. advancing' \in BOOLEAN /\ hand' = hand /\ hand \in Results
    BY <1>3 DEF WorkerReturns
  <2> QED BY <1>3, <2>1, <2>2 DEF WorkerReturns
<1>4. CASE WorkerCount BY <1>4 DEF WorkerCount
<1>5. CASE WorkerStamp BY <1>5 DEF WorkerStamp, Results
<1>6. CASE WorkerPublish BY <1>6 DEF WorkerPublish
<1>7. CASE WorkerPut BY <1>7 DEF WorkerPut
<1>8. CASE WorkerExit
  <2>1. generatorClosed' \in BOOLEAN /\ source' \in {"open", "done", "closed"}
    BY <1>8 DEF WorkerExit, CloseGenerator
  <2> QED BY <1>8, <2>1 DEF WorkerExit
<1>9. CASE SourceYields BY <1>9 DEF SourceYields, Result, Results
<1>10. CASE SourceEnds BY <1>10 DEF SourceEnds, Result, Results
<1> QED
  BY <1>1, <1>2, <1>3, <1>4, <1>5, <1>6, <1>7, <1>8, <1>9, <1>10
  DEF WorkerStep, SourceStep

LEMMA DeadlineWaitType == TypeOK => DeadlineWait \in Nat \cup {None}
<1> SUFFICES ASSUME TypeOK, DeadlineWait # None PROVE DeadlineWait \in Nat
  OBVIOUS
<1> DEFINE deadlines == {timeoutDeadline, inactivityDeadline} \ {None}
<1> DEFINE first == CHOOSE d \in deadlines : \A e \in deadlines : d <= e
<1>1. deadlines \subseteq Nat /\ deadlines # {}
  BY TimeoutsAssumption DEF DeadlineWait, TypeOK
<1>2. \E d \in deadlines : \A e \in deadlines : d <= e
  BY <1>1
<1>3. first \in deadlines
  BY <1>2
<1>4. DeadlineWait = IF first > now THEN first ELSE now
  BY <1>1 DEF DeadlineWait
<1>5. now \in Nat
  BY BoundsAssumption DEF TypeOK
<1> HIDE DEF first, deadlines
<1> QED
  BY <1>1, <1>3, <1>4, <1>5

LEMMA ReasonType == \A at : ReasonAt(at) \in Deadlines \cup {None}
  BY DEF ReasonAt, Deadlines

LEMMA TypeConsumer == TypeOK /\ ConsumerStep => TypeOK'
<1> SUFFICES ASSUME TypeOK, ConsumerStep PROVE TypeOK'
  OBVIOUS
<1> USE BoundsAssumption DEF TypeOK, workerVars, clockVars, timerVars, sourceVars,
        finishVars, CloseSteps
<1>1. CASE ConsumerNext
  <2>1. getUntil' \in Nat \cup {None} BY <1>1, DeadlineWaitType DEF ConsumerNext
  <2> QED BY <1>1, <2>1 DEF ConsumerNext
<1>2. CASE ConsumerGet
  <2>1. PICK r \in Results : queue = <<r>> BY <1>2 DEF ConsumerGet
  <2>2. held' = r /\ queue' = <<>> BY <1>2, <2>1 DEF ConsumerGet
  <2> QED BY <1>2, <2>2 DEF ConsumerGet
<1>3. CASE ConsumerEmpty
  <2>1. finishReason' \in Deadlines \cup {None}
    BY <1>3, ReasonType DEF ConsumerEmpty, Finish, ReasonNow, Deadlines
  <2>2. cpc' = "close" /\ consumerFinished' = TRUE /\ getUntil' = None
    BY <1>3 DEF ConsumerEmpty, Finish
  <2> QED BY <1>3, <2>1, <2>2 DEF ConsumerEmpty
<1>4. CASE ConsumerError
  <2>1. /\ cpc' = "close" /\ consumerFinished' \in BOOLEAN
        /\ finishReason' \in Deadlines \cup {None}
    BY <1>4, ReasonType DEF ConsumerError, Finish, ReasonOfResult
  <2> QED BY <1>4, <2>1 DEF ConsumerError
<1>5. CASE ConsumerExhausted BY <1>5 DEF ConsumerExhausted, Finish
<1>6. CASE ConsumerItem
  <2>1. /\ cpc' \in {"close", "reset"} /\ consumerFinished' \in BOOLEAN
        /\ finishReason' \in Deadlines \cup {None}
    BY <1>6, ReasonType DEF ConsumerItem, Finish, ReasonOfResult
  <2>2. held \in Results BY <1>6 DEF ConsumerItem
  <2> QED BY <1>6, <2>1, <2>2 DEF ConsumerItem
<1>7. CASE ConsumerReset
  <2>1. /\ inactivityDeadline' \in Nat \cup {None}
        /\ (inactivityDeadline' = None) <=> (inactivity = None)
        /\ inactivityExpired' \in BOOLEAN
    <3>1. CASE inactivity = None BY <1>7, <3>1 DEF ConsumerReset
    <3>2. CASE inactivity # None
      <4>1. inactivity \in Nat /\ now \in Nat BY <3>2, TimeoutsAssumption
      <4>2. inactivityDeadline' = now + inactivity /\ inactivityExpired' = FALSE
        BY <1>7, <3>2 DEF ConsumerReset, ResetInactivity
      <4>3. None \notin Nat BY TimeoutsAssumption
      <4>4. now + inactivity \in Nat BY <4>1
      <4>5. inactivityExpired' \in BOOLEAN BY <4>2
      <4> HIDE DEF TypeOK
      <4> QED BY <4>2, <4>3, <4>4, <4>5, <3>2
    <3> QED BY <3>1, <3>2
  <2>2. held \in Results BY <1>7 DEF ConsumerReset
  <2> QED BY <1>7, <2>1, <2>2 DEF ConsumerReset
<1>8. CASE ConsumerDeliver
  <2>1. held \in Results /\ held.value \in 0 .. MaxItems
    BY <1>8 DEF ConsumerDeliver, Results
  <2> QED BY <1>8, <2>1 DEF ConsumerDeliver
<1>9. CASE ConsumerAbandons BY <1>9 DEF ConsumerAbandons
<1>10. CASE CloseBegins BY <1>10 DEF CloseBegins
<1>11. CASE CloseStops BY <1>11 DEF CloseStops
<1>12. CASE CloseCancelsTimers
  <2>1. /\ timeoutTimer' \in BOOLEAN /\ inactivityTimerAt' = None /\ cpc' = "look"
        /\ timeoutTimer' => timeoutDeadline # None
    BY <1>12 DEF CloseCancelsTimers
  <2> QED BY <1>12, <2>1 DEF CloseCancelsTimers
<1>13. CASE CloseLooks
  <2>1. cpc' \in {"join", "closeSource"} BY <1>13 DEF CloseLooks
  <2> QED BY <1>13, <2>1 DEF CloseLooks
<1>14. CASE CloseClosesSource
  <2>1. generatorClosed' \in BOOLEAN /\ source' \in {"open", "done", "closed"}
    BY <1>14 DEF CloseClosesSource, CloseGenerator
  <2> QED BY <1>14, <2>1 DEF CloseClosesSource
<1>15. CASE CloseJoins BY <1>15 DEF CloseJoins
<1>16. CASE ConsumerInterrupted
  <2>1. cpc' \in {"ended", "close"} BY <1>16 DEF ConsumerInterrupted
  <2> QED BY <1>16, <2>1 DEF ConsumerInterrupted
<1>17. CASE ObserveShutdown
  <2>1. summary' \in [count : Int, complete : BOOLEAN]
    BY <1>17 DEF ObserveShutdown, Summary
  <2> QED BY <1>17, <2>1 DEF ObserveShutdown
<1> QED
  BY <1>1, <1>2, <1>3, <1>4, <1>5, <1>6, <1>7, <1>8, <1>9, <1>10, <1>11, <1>12, <1>13,
     <1>14, <1>15, <1>16, <1>17
  DEF ConsumerStep, ReadStep, CloseStep

LEMMA TypeClock == TypeOK /\ (Tick \/ TimerStep) => TypeOK'
<1> SUFFICES ASSUME TypeOK, Tick \/ TimerStep PROVE TypeOK'
  OBVIOUS
<1> USE BoundsAssumption DEF TypeOK, workerVars, consumerVars, clockVars, timerVars,
        sourceVars
<1>1. CASE Tick BY <1>1 DEF Tick
<1>2. CASE TimeoutFires
  <2>1. /\ timeoutTimer' \in BOOLEAN /\ timeoutExpired' \in BOOLEAN
        /\ timeoutTimer' => timeoutDeadline # None
    BY <1>2 DEF TimeoutFires
  <2> QED BY <1>2, <2>1 DEF TimeoutFires
<1>3. CASE InactivityFires
  <2>1. /\ inactivityExpired' \in BOOLEAN
        /\ inactivityTimerAt' \in Nat \cup {None}
        /\ inactivityTimerAt' # None => inactivity # None
    BY <1>3 DEF InactivityFires
  <2> QED BY <1>3, <2>1 DEF InactivityFires
<1> QED
  BY <1>1, <1>2, <1>3 DEF TimerStep

LEMMA TypeNext == TypeOK /\ [Next]_vars => TypeOK'
<1>1. TypeOK /\ UNCHANGED vars => TypeOK'
  BY DEF TypeOK, vars
<1> QED
  BY <1>1, TypeWorker, TypeConsumer, TypeClock DEF Next

\* Every variable keeps its type: each thread's place, the bounded queue, the
\* two deadlines and timers, and the counters of the shutdown summary.
THEOREM TypeCorrect == Spec => []TypeOK
  BY TypeInit, TypeNext, PTL DEF Spec
-----------------------------------------------------------------------------
(* Shutdown.  The worker's flag says when it is inside the source; the     *)
(* consumer is past "stop" only after the request is set, and it reaches   *)
(* the source only after it has seen the flag down.                        *)

Closing == {"close", "ended"} \cup CloseSteps

ShutdownInv ==
    /\ advancing <=> wpc \in {"next", "returned"}
    /\ closed <=> cpc \in CloseSteps \cup {"ended"}
    /\ cpc = "stop" => ~stopRequested
    /\ stopRequested => closed
    /\ cpc \in {"cancel", "look", "closeSource", "join"} => stopRequested
    /\ generatorClosed <=> source = "closed"
    /\ generatorClosed => stopRequested
    /\ finishReason # None => cpc \in Closing
    /\ summary # None => cpc = "ended"
    /\ cpc \in {"idle", "get"} => held = None
    /\ cpc \in {"reset", "deliver"} => held.kind = "item"
    /\ wpc = "count" => hand.kind = "item"
    /\ NoConcurrentClose

LEMMA ShutdownInit == Init => ShutdownInv
  BY TimeoutsAssumption DEF Init, ShutdownInv, NoConcurrentClose, CloseSteps, Closing

LEMMA ShutdownNext == TypeOK /\ ShutdownInv /\ [Next]_vars => ShutdownInv'
<1> SUFFICES ASSUME TypeOK, ShutdownInv, [Next]_vars PROVE ShutdownInv'
  OBVIOUS
<1> USE DEF ShutdownInv, NoConcurrentClose, CloseSteps, Closing
<1>1. CASE WorkerStep
  <2> USE DEF consumerVars, clockVars, timerVars, sourceVars
  <2>1. CASE WorkerCheck BY <2>1 DEF WorkerCheck
  <2>2. CASE WorkerBegin BY <2>2 DEF WorkerBegin
  <2>3. CASE WorkerReturns BY <2>3 DEF WorkerReturns
  <2>4. CASE WorkerCount BY <2>4 DEF WorkerCount
  <2>5. CASE WorkerStamp BY <2>5 DEF WorkerStamp
  <2>6. CASE WorkerPublish BY <2>6 DEF WorkerPublish
  <2>7. CASE WorkerPut BY <2>7 DEF WorkerPut
  <2>8. CASE WorkerExit BY <2>8 DEF WorkerExit, CloseGenerator, TypeOK
  <2> QED
    BY <1>1, <2>1, <2>2, <2>3, <2>4, <2>5, <2>6, <2>7, <2>8 DEF WorkerStep
<1>2. CASE SourceStep
  BY <1>2 DEF SourceStep, SourceYields, SourceEnds, consumerVars, clockVars, timerVars,
              sourceVars, TypeOK
<1>3. CASE TimerStep
  BY <1>3 DEF TimerStep, TimeoutFires, InactivityFires, consumerVars, clockVars,
              workerVars, sourceVars
<1>4. CASE Tick
  BY <1>4 DEF Tick, consumerVars, timerVars, workerVars, sourceVars
<1>5. CASE ReadStep
  <2> USE DEF workerVars, clockVars, timerVars, sourceVars, finishVars, Finish
  <2>1. CASE ConsumerGet BY <2>1 DEF ConsumerGet
  <2>2. CASE ConsumerEmpty BY <2>2 DEF ConsumerEmpty
  <2>3. CASE ConsumerError BY <2>3 DEF ConsumerError
  <2>4. CASE ConsumerExhausted BY <2>4 DEF ConsumerExhausted
  <2>5. CASE ConsumerItem BY <2>5 DEF ConsumerItem
  <2>6. CASE ConsumerReset BY <2>6 DEF ConsumerReset
  <2>7. CASE ConsumerDeliver BY <2>7 DEF ConsumerDeliver
  <2> QED
    BY <1>5, <2>1, <2>2, <2>3, <2>4, <2>5, <2>6, <2>7 DEF ReadStep
<1>6. CASE CloseStep
  <2> USE DEF workerVars, clockVars, timerVars, sourceVars, finishVars
  <2>1. CASE CloseBegins BY <2>1 DEF CloseBegins
  <2>2. CASE CloseStops BY <2>2 DEF CloseStops
  <2>3. CASE CloseCancelsTimers BY <2>3 DEF CloseCancelsTimers
  <2>4. CASE CloseLooks BY <2>4 DEF CloseLooks
  <2>5. CASE CloseClosesSource
    BY <2>5 DEF CloseClosesSource, CloseGenerator
  <2>6. CASE CloseJoins BY <2>6 DEF CloseJoins
  <2> QED BY <1>6, <2>1, <2>2, <2>3, <2>4, <2>5, <2>6 DEF CloseStep
<1>7. CASE ConsumerNext \/ ConsumerAbandons \/ ConsumerInterrupted \/ ObserveShutdown
  BY <1>7 DEF ConsumerNext, ConsumerAbandons, ConsumerInterrupted, ObserveShutdown,
     workerVars, clockVars, timerVars, sourceVars, finishVars
<1>8. CASE UNCHANGED vars
  BY <1>8 DEF vars
<1> QED
  BY <1>1, <1>2, <1>3, <1>4, <1>5, <1>6, <1>7, <1>8 DEF Next, ConsumerStep

\* For every choice of timeouts and every interleaving of the consumer, the worker
\* and the timers, close() of the source and next() of the source never overlap.
THEOREM CloseNeverConcurrent == Spec => []NoConcurrentClose
<1>1. ShutdownInv => NoConcurrentClose
  BY DEF ShutdownInv
<1> QED
  BY <1>1, TypeCorrect, ShutdownInit, ShutdownNext, PTL DEF Spec
-----------------------------------------------------------------------------
(* Deadlines.  A wait that gave up has outlived a deadline, because nothing*)
(* but the consumer moves one, and it does so only with a result in hand.  *)

WaitInv ==
    cpc = "get" /\ getUntil # None =>
        Passed(timeoutDeadline, getUntil) \/ Passed(inactivityDeadline, getUntil)

DeadlineInv == WaitInv /\ DeadlineIsReal

LEMMA WaitEndsAtDeadline ==
  TypeOK /\ DeadlineWait # None =>
      \/ Passed(timeoutDeadline, DeadlineWait)
      \/ Passed(inactivityDeadline, DeadlineWait)
<1> SUFFICES ASSUME TypeOK, DeadlineWait # None
             PROVE  \/ Passed(timeoutDeadline, DeadlineWait)
                    \/ Passed(inactivityDeadline, DeadlineWait)
  OBVIOUS
<1> DEFINE deadlines == {timeoutDeadline, inactivityDeadline} \ {None}
<1> DEFINE first == CHOOSE d \in deadlines : \A e \in deadlines : d <= e
<1>1. deadlines \subseteq Nat /\ deadlines # {}
  BY TimeoutsAssumption DEF DeadlineWait, TypeOK
<1>2. \E d \in deadlines : \A e \in deadlines : d <= e
  BY <1>1
<1>3. first \in deadlines
  BY <1>2
<1>4. DeadlineWait = IF first > now THEN first ELSE now
  BY <1>1 DEF DeadlineWait
<1>5. now \in Nat
  BY BoundsAssumption DEF TypeOK
<1>6. first \in Nat /\ first # None /\ first \in {timeoutDeadline, inactivityDeadline}
  BY <1>1, <1>3
<1> HIDE DEF first, deadlines
<1>7. DeadlineWait >= first
  BY <1>4, <1>5, <1>6
<1> QED
  BY <1>6, <1>7 DEF Passed

LEMMA DeadlineTypes ==
  TypeOK => /\ now \in Nat
            /\ timeoutDeadline # None => timeoutDeadline \in Nat
            /\ inactivityDeadline # None => inactivityDeadline \in Nat
            /\ None \notin Deadlines
  BY TimeoutsAssumption, BoundsAssumption DEF TypeOK, Deadlines

LEMMA DeadlineInit == Init => DeadlineInv
  BY TimeoutsAssumption DEF Init, DeadlineInv, WaitInv, DeadlineIsReal, Deadlines

LEMMA DeadlineNext ==
  TypeOK /\ ShutdownInv /\ DeadlineInv /\ [Next]_vars => DeadlineInv'
<1> SUFFICES ASSUME TypeOK, ShutdownInv, DeadlineInv, [Next]_vars PROVE DeadlineInv'
  OBVIOUS
<1> USE DEF DeadlineInv, WaitInv, DeadlineIsReal, DeadlineOf, Passed
<1>1. CASE WorkerStep \/ SourceStep
  <2>1. UNCHANGED <<clockVars, inactivityDeadline, timerVars, consumerVars>>
    BY <1>1 DEF WorkerStep, SourceStep, WorkerCheck, WorkerBegin, WorkerReturns,
       WorkerCount, WorkerStamp, WorkerPublish, WorkerPut, WorkerExit, SourceYields,
       SourceEnds
  <2> QED BY <2>1 DEF clockVars, timerVars, consumerVars
<1>2. CASE TimerStep
  BY <1>2, BoundsAssumption
  DEF TimerStep, TimeoutFires, InactivityFires, clockVars, consumerVars, TypeOK
<1>3. CASE Tick
  <2>1. /\ now' >= now
        /\ UNCHANGED <<timeoutDeadline, inactivityDeadline, timeoutExpired,
                       inactivityExpired, cpc, getUntil, held, finishReason>>
    BY <1>3, DeadlineTypes DEF Tick, timerVars, consumerVars
  <2>2. now' \in Nat BY <1>3, DeadlineTypes DEF Tick
  <2>3. \A d : Passed(d, now) /\ (d # None => d \in Nat) => Passed(d, now')
    BY <2>1, <2>2, DeadlineTypes
  <2> HIDE DEF Passed
  <2> QED BY <2>1, <2>3, DeadlineTypes
<1>4. CASE ReadStep
  <2> USE DEF clockVars, timerVars, finishVars, Finish
  <2>1. CASE ConsumerGet
    <3>1. finishReason = None /\ finishReason' = None
      BY <2>1 DEF ConsumerGet, ShutdownInv, Closing, CloseSteps
    <3> QED BY <2>1, <3>1, DeadlineTypes DEF ConsumerGet
  <2>2. CASE ConsumerEmpty
    <3>1. held = None /\ held' = None
      BY <2>2 DEF ConsumerEmpty, ShutdownInv
    <3>2. now \in Nat /\ getUntil \in Nat
      BY <2>2, BoundsAssumption DEF ConsumerEmpty, TypeOK
    <3>3. Passed(timeoutDeadline, now) \/ Passed(inactivityDeadline, now)
      BY <2>2, <3>2, DeadlineTypes DEF ConsumerEmpty
    <3>4. finishReason' = ReasonNow /\ ReasonNow # None
      BY <2>2, <3>3, TimeoutsAssumption DEF ConsumerEmpty, ReasonNow, ReasonAt
    <3>5. Passed(DeadlineOf(ReasonNow), now)
      BY <3>4, <3>3 DEF ReasonNow, ReasonAt
    <3> QED
      BY <2>2, <3>1, <3>4, <3>5 DEF ConsumerEmpty
  <2>3. CASE ConsumerError
    <3>1. finishReason = None /\ held # None
      BY <2>3, NoneAssumption
      DEF ConsumerError, ShutdownInv, Closing, CloseSteps, TypeOK
    <3>2. \/ finishReason' = None
          \/ /\ finishReason' = ReasonAt(held.at)
             /\ Passed(DeadlineOf(ReasonAt(held.at)), held.at)
      BY <2>3, <3>1 DEF ConsumerError, ReasonOfResult, ReasonAt
    <3> QED BY <2>3, <3>1, <3>2, DeadlineTypes DEF ConsumerError
  <2>4. CASE ConsumerExhausted
    BY <2>4, TimeoutsAssumption DEF ConsumerExhausted, Deadlines
  <2>5. CASE ConsumerItem
    <3>1. finishReason = None /\ held # None
      BY <2>5, NoneAssumption
      DEF ConsumerItem, ShutdownInv, Closing, CloseSteps, TypeOK
    <3>2. \/ finishReason' = None
          \/ /\ finishReason' = ReasonAt(held.at)
             /\ Passed(DeadlineOf(ReasonAt(held.at)), held.at)
      BY <2>5, <3>1 DEF ConsumerItem, ReasonOfResult, ReasonAt
    <3> QED BY <2>5, <3>1, <3>2, DeadlineTypes DEF ConsumerItem
  <2>6. CASE ConsumerReset
    BY <2>6, TimeoutsAssumption
    DEF ConsumerReset, ResetInactivity, ShutdownInv, Closing, CloseSteps, Deadlines
  <2>7. CASE ConsumerDeliver
    BY <2>7, TimeoutsAssumption
    DEF ConsumerDeliver, ShutdownInv, Closing, CloseSteps, Deadlines
  <2> QED
    BY <1>4, <2>1, <2>2, <2>3, <2>4, <2>5, <2>6, <2>7 DEF ReadStep
<1>5. CASE ConsumerNext
  BY <1>5, WaitEndsAtDeadline DEF ConsumerNext, clockVars, timerVars, finishVars
<1>6. CASE CloseStep \/ ConsumerAbandons \/ ConsumerInterrupted \/ ObserveShutdown
  <2>1. /\ UNCHANGED <<now, timeoutDeadline, inactivityDeadline, timeoutExpired,
                       inactivityExpired, finishReason, held>>
        /\ cpc' # "get"
    BY <1>6 DEF CloseStep, CloseBegins, CloseStops, CloseCancelsTimers, CloseLooks,
       CloseClosesSource, CloseJoins, ConsumerAbandons, ConsumerInterrupted,
       ObserveShutdown, CloseSteps, clockVars, timerVars, finishVars
  <2> QED BY <2>1
<1>7. CASE UNCHANGED vars
  BY <1>7 DEF vars
<1> QED
  BY <1>1, <1>2, <1>3, <1>4, <1>5, <1>6, <1>7 DEF Next, ConsumerStep

\* Whatever the interleaving of the timers with the queue, no capture is ended by a
\* deadline that has not passed, and no result by the moment it was looked at.
THEOREM DeadlinesAreReal == Spec => []DeadlineIsReal
<1>1. DeadlineInv => DeadlineIsReal
  BY DEF DeadlineInv
<1> QED
  BY <1>1, TypeInit, TypeNext, ShutdownInit, ShutdownNext, DeadlineInit, DeadlineNext,
     PTL DEF Spec
-----------------------------------------------------------------------------
(* Accounting.  Until a stop is requested, every item the source returned  *)
(* and the caller did not get is in the consumer's hand, in the queue or in*)
(* the worker's hand, in the source's order; the counter lags behind by    *)
(* the item the worker has not counted yet.                                *)

IsItem(result) == result # None /\ result.kind = "item"
One(p) == IF p THEN 1 ELSE 0

Queued == queue # <<>> /\ IsItem(Head(queue))
Carried == wpc \in {"returned", "count", "stamp", "publish", "put"} /\ IsItem(hand)
Uncounted == wpc \in {"returned", "count"} /\ IsItem(hand)

PipelineInv ==
    ~stopRequested =>
        /\ emitted = delivered + One(IsItem(held)) + One(Queued) + One(Carried)
        /\ IsItem(held) => held.value = delivered + 1
        /\ Queued => Head(queue).value = delivered + One(IsItem(held)) + 1
        /\ Carried => hand.value = emitted

AccountInv ==
    /\ PipelineInv
    /\ outstanding = emitted - delivered - One(Uncounted)
    /\ delivered <= emitted
    /\ summary # None /\ summary.complete => wpc = "done"
    /\ SummarySound

LEMMA AccountInit == Init => AccountInv
  BY NoneAssumption DEF Init, AccountInv, PipelineInv, SummarySound, IsItem, One, Queued,
     Carried, Uncounted

LEMMA AccountNext ==
  TypeOK /\ ShutdownInv /\ AccountInv /\ [Next]_vars => AccountInv'
<1> SUFFICES ASSUME TypeOK, ShutdownInv, AccountInv, [Next]_vars PROVE AccountInv'
  OBVIOUS
<1>0. emitted \in Int /\ delivered \in Int /\ outstanding \in Int
  BY BoundsAssumption DEF TypeOK
<1> USE <1>0, NoneAssumption
    DEF AccountInv, PipelineInv, SummarySound, IsItem, One, Queued, Carried, Uncounted
<1>1. CASE WorkerStep
  <2> USE DEF consumerVars, clockVars, timerVars, sourceVars
  <2>1. CASE WorkerCheck BY <2>1 DEF WorkerCheck
  <2>2. CASE WorkerBegin BY <2>2 DEF WorkerBegin
  <2>3. CASE WorkerReturns BY <2>3 DEF WorkerReturns
  <2>4. CASE WorkerCount BY <2>4 DEF WorkerCount, TypeOK, ShutdownInv
  <2>5. CASE WorkerStamp BY <2>5 DEF WorkerStamp, TypeOK, Results
  <2>6. CASE WorkerPublish BY <2>6 DEF WorkerPublish
  <2>7. CASE WorkerPut BY <2>7 DEF WorkerPut, TypeOK
  <2>8. CASE WorkerExit BY <2>8 DEF WorkerExit, CloseGenerator, TypeOK
  <2> QED
    BY <1>1, <2>1, <2>2, <2>3, <2>4, <2>5, <2>6, <2>7, <2>8 DEF WorkerStep
<1>2. CASE SourceStep
  <2>1. CASE SourceYields
    <3>1. hand' \in Results /\ hand'.kind = "item" /\ hand'.value = emitted'
      BY <2>1, BoundsAssumption DEF SourceYields, Result, Results, TypeOK
    <3>2. /\ wpc = "next" /\ wpc' = "returned" /\ emitted' = emitted + 1
          /\ UNCHANGED <<queue, stopRequested, held, delivered, outstanding, summary,
                         finishReason>>
      BY <2>1 DEF SourceYields, consumerVars
    <3>3. ~Carried /\ ~Uncounted /\ Carried' /\ Uncounted'
      BY <3>1, <3>2
    <3>4. One(IsItem(held)) \in Int /\ One(Queued) \in Int
      OBVIOUS
    <3>5. PipelineInv'
      BY <3>1, <3>2, <3>3, <3>4
    <3>6. outstanding' = emitted' - delivered' - One(Uncounted)'
      BY <3>2, <3>3
    <3>7. summary' # None => ~summary'.complete
      BY <3>2
    <3>8. SummarySound' /\ delivered' <= emitted'
      BY <3>2, <3>7, TypeOK DEF TypeOK
    <3> QED BY <3>5, <3>6, <3>7, <3>8
  <2>2. CASE SourceEnds
    BY <2>2 DEF SourceEnds, Result, consumerVars, clockVars, timerVars, sourceVars
  <2> QED BY <1>2, <2>1, <2>2 DEF SourceStep
<1>3. CASE Tick \/ TimerStep
  <2>1. UNCHANGED <<queue, workerVars, stopRequested, consumerVars>>
    BY <1>3 DEF Tick, TimerStep, TimeoutFires, InactivityFires
  <2> QED BY <2>1 DEF workerVars, consumerVars
<1>4. CASE ReadStep
  <2> USE DEF workerVars, clockVars, timerVars, sourceVars, finishVars, Finish
  <2>1. CASE ConsumerGet BY <2>1 DEF ConsumerGet, TypeOK, ShutdownInv
  <2>2. CASE ConsumerEmpty BY <2>2 DEF ConsumerEmpty, ShutdownInv
  <2>3. CASE ConsumerError BY <2>3 DEF ConsumerError, ShutdownInv
  <2>4. CASE ConsumerExhausted BY <2>4 DEF ConsumerExhausted, ShutdownInv
  <2>5. CASE ConsumerItem BY <2>5 DEF ConsumerItem, ShutdownInv
  <2>6. CASE ConsumerReset BY <2>6 DEF ConsumerReset, ShutdownInv
  <2>7. CASE ConsumerDeliver
    BY <2>7 DEF ConsumerDeliver, ShutdownInv, TypeOK, CloseSteps
  <2> QED
    BY <1>4, <2>1, <2>2, <2>3, <2>4, <2>5, <2>6, <2>7 DEF ReadStep
<1>5. CASE CloseStep \/ ConsumerNext \/ ConsumerAbandons \/ ConsumerInterrupted
  <2>1. /\ UNCHANGED <<queue, workerVars, held, finishReason, summary, delivered>>
        /\ stopRequested' = stopRequested \/ stopRequested' = TRUE
    BY <1>5 DEF CloseStep, CloseBegins, CloseStops, CloseCancelsTimers, CloseLooks,
       CloseClosesSource, CloseJoins, ConsumerNext, ConsumerAbandons,
       ConsumerInterrupted, finishVars
  <2> QED BY <2>1 DEF workerVars
<1>6. CASE ObserveShutdown
  <2>1. /\ finishReason \in Deadlines => summary'.count = outstanding
        /\ summary'.complete => wpc = "done"
    BY <1>6 DEF ObserveShutdown, Summary
  <2>2. /\ finishReason \in Deadlines => summary'.count <= emitted - delivered
        /\ finishReason \in Deadlines /\ wpc = "done" =>
             summary'.count = emitted - delivered
    BY <2>1
  <2> QED BY <1>6, <2>1, <2>2 DEF ObserveShutdown, workerVars, finishVars
<1>7. CASE UNCHANGED vars
  BY <1>7 DEF vars
<1> QED
  BY <1>1, <1>2, <1>3, <1>4, <1>5, <1>6, <1>7 DEF Next, ConsumerStep

\* However late the worker comes back, the count reported for a deadline is a true
\* lower bound of the items left behind, and exact once it is declared final.
THEOREM SummaryIsSound == Spec => []SummarySound
<1>1. AccountInv => SummarySound
  BY DEF AccountInv
<1> QED
  BY <1>1, TypeInit, TypeNext, ShutdownInit, ShutdownNext, AccountInit, AccountNext,
     PTL DEF Spec
-----------------------------------------------------------------------------
(* TimedGenerator implements BoundedStream.                                *)

LEMMA StreamInit == Init => Stream!Init
  BY DEF Init, Stream!Init

LEMMA StreamNext ==
  TypeOK /\ ShutdownInv /\ AccountInv /\ [Next]_vars => [Stream!Next]_Stream!vars
<1> SUFFICES ASSUME TypeOK, ShutdownInv, AccountInv, [Next]_vars
             PROVE  Stream!Next \/ UNCHANGED Stream!vars
  OBVIOUS
<1> USE DEF Stream!vars
<1>1. CASE WorkerBegin
  <2>1. CASE stopRequested
    BY <1>1, <2>1 DEF WorkerBegin, consumerVars, sourceVars
  <2>2. CASE ~stopRequested
    <3>1. emitted - delivered < 3
      BY <1>1, <2>2, BoundsAssumption
      DEF WorkerBegin, AccountInv, PipelineInv, One, Carried, TypeOK
    <3>2. Stream!BeginFetch
      BY <1>1, <2>2, <3>1
      DEF WorkerBegin, Stream!BeginFetch, ShutdownInv, consumerVars, sourceVars
    <3> QED BY <3>2 DEF Stream!Next
  <2> QED BY <2>1, <2>2
<1>2. CASE SourceYields
  <2>1. Stream!Emit
    BY <1>2 DEF SourceYields, Stream!Emit, consumerVars, sourceVars
  <2> QED BY <2>1 DEF Stream!Next
<1>3. CASE SourceEnds
  <2>1. Stream!FetchWithoutItem
    BY <1>3 DEF SourceEnds, Stream!FetchWithoutItem, consumerVars
  <2> QED BY <2>1 DEF Stream!Next
<1>4. CASE WorkerExit
  <2>1. CASE UNCHANGED sourceVars
    BY <1>4, <2>1 DEF WorkerExit, consumerVars, sourceVars
  <2>2. CASE ~UNCHANGED sourceVars
    <3>1. Stream!Release
      BY <1>4, <2>2
      DEF WorkerExit, CloseGenerator, Stream!Release, ShutdownInv, consumerVars,
          sourceVars
    <3> QED BY <3>1 DEF Stream!Next
  <2> QED BY <2>1, <2>2
<1>5. CASE WorkerCheck \/ WorkerReturns \/ WorkerCount \/ WorkerStamp \/ WorkerPublish
           \/ WorkerPut
  BY <1>5 DEF WorkerCheck, WorkerReturns, WorkerCount, WorkerStamp, WorkerPublish,
     WorkerPut, consumerVars, sourceVars
<1>6. CASE ConsumerDeliver
  <2>1. ~stopRequested /\ IsItem(held)
    BY <1>6, NoneAssumption
    DEF ConsumerDeliver, ShutdownInv, CloseSteps, IsItem, TypeOK
  <2>2. delivered' = delivered + 1 /\ delivered < emitted
    BY <1>6, <2>1, BoundsAssumption
    DEF ConsumerDeliver, AccountInv, PipelineInv, One, TypeOK
  <2>3. Stream!Deliver
    BY <1>6, <2>1, <2>2 DEF ConsumerDeliver, Stream!Deliver, sourceVars
  <2> QED BY <2>3 DEF Stream!Next
<1>7. CASE CloseStops
  <2>1. Stream!Stop
    BY <1>7 DEF CloseStops, Stream!Stop, ShutdownInv, workerVars, sourceVars
  <2> QED BY <2>1 DEF Stream!Next
<1>8. CASE CloseClosesSource
  <2>1. CASE UNCHANGED sourceVars
    BY <1>8, <2>1 DEF CloseClosesSource, workerVars, sourceVars
  <2>2. CASE ~UNCHANGED sourceVars
    <3>1. Stream!Release
      BY <1>8, <2>2
      DEF CloseClosesSource, CloseGenerator, Stream!Release, ShutdownInv, workerVars,
          sourceVars
    <3> QED BY <3>1 DEF Stream!Next
  <2> QED BY <2>1, <2>2
<1>9. CASE ConsumerNext \/ ConsumerAbandons \/ ConsumerGet \/ ConsumerEmpty
           \/ ConsumerError \/ ConsumerExhausted \/ ConsumerItem \/ ConsumerReset
  BY <1>9 DEF ConsumerNext, ConsumerAbandons, ConsumerGet, ConsumerEmpty, ConsumerError,
     ConsumerExhausted, ConsumerItem, ConsumerReset, workerVars, sourceVars
<1>10. CASE CloseBegins \/ CloseCancelsTimers \/ CloseLooks \/ CloseJoins
            \/ ConsumerInterrupted \/ ObserveShutdown
  BY <1>10 DEF CloseBegins, CloseCancelsTimers, CloseLooks, CloseJoins,
     ConsumerInterrupted, ObserveShutdown, workerVars, sourceVars
<1>11. CASE Tick \/ TimerStep
  BY <1>11 DEF Tick, TimerStep, TimeoutFires, InactivityFires, workerVars, consumerVars,
     sourceVars
<1>12. CASE UNCHANGED vars
  BY <1>12 DEF vars
<1> QED
  BY <1>1, <1>2, <1>3, <1>4, <1>5, <1>6, <1>7, <1>8, <1>9, <1>10, <1>11, <1>12
  DEF Next, WorkerStep, SourceStep, ConsumerStep, ReadStep, CloseStep

\* The threads, the queue and the timers together behave as the bounded stream: in
\* order, never more than three items ahead, released once and not while fetching.
THEOREM ImplementsStream == Spec => StreamSpec
  BY TypeInit, TypeNext, ShutdownInit, ShutdownNext, AccountInit, AccountNext, StreamInit,
     StreamNext, PTL DEF Spec, StreamSpec, Stream!Spec

=============================================================================
