------------------------------ MODULE SitePool --------------------------------
(***************************************************************************)
(* runtime/session_lifecycle.py, sites/session.py, the session side of     *)
(* sites/base.py and runtime/site_dispatch.py: a downloader's site         *)
(* sessions, the cookies they share, and the chats that read through them. *)
(* Calls come one at a time (the downloader is not thread-safe), in any    *)
(* order, also after close().                                              *)
(***************************************************************************)
EXTENDS Integers, Sequences, FiniteSets

CONSTANTS
    Sites,          \* the site classes
    CookieNames,    \* a cookie's domain, name and path
    MaxSessions,    \* bound: sessions that are made
    MaxCookies,     \* bound: cookies that are set, by the owner or by an answer
    MaxChats        \* bound: chats that are asked for

ASSUME PoolAssumption == MaxSessions \in Nat /\ MaxCookies \in Nat /\ MaxChats \in Nat

VARIABLES
    cookieFile,    \* config.cookies names a file
    jar,           \* the pool's own cookies: the value set last, 0 for none
    cached,        \* sessions: the number of the site's session, 0 for none
    made,          \* the sessions made: whether open, and their cookies
    chats,         \* the chats: the session they read through, and since when
    stamp,         \* the newest cookie value; values grow
    clearedAt,     \* history: the newest value when the cookies were cleared, -1 if never
    dismissed      \* history: the sessions that were open when the owner gave them up

poolVars == <<cookieFile, jar, cached, made, chats, stamp, clearedAt, dismissed>>

Nothing == [c \in CookieNames |-> 0]

PoolInit ==
    /\ cookieFile \in BOOLEAN
    /\ jar = Nothing
    /\ cached = [s \in Sites |-> 0]
    /\ made = <<>> /\ chats = <<>>
    \* The file holds every cookie, with the value 1.
    /\ stamp = 1 /\ clearedAt = -1 /\ dismissed = {}

Pooled == {cached[s] : s \in Sites} \ {0}

-----------------------------------------------------------------------------
(* Cookies.                                                                *)

Emptied(which) ==
    [k \in DOMAIN made |-> IF k \in which THEN [made[k] EXCEPT !.cookies = Nothing] ELSE made[k]]

\* The file is read again for the next session.
ClearCookies_FileKept ==
    /\ jar' = Nothing
    /\ made' = Emptied(Pooled)
    /\ clearedAt' = stamp
    /\ UNCHANGED <<cookieFile, cached, chats, stamp, dismissed>>

\* clear_cookies(): the pool's, those of its sessions, and the file is forgotten.
ClearCookies ==
    /\ jar' = Nothing
    /\ made' = Emptied(Pooled)
    /\ cookieFile' = FALSE
    /\ clearedAt' = stamp
    /\ UNCHANGED <<cached, chats, stamp, dismissed>>

\* set_cookie_value() of the sessions.
WithCookie(which, c, value) ==
    [k \in DOMAIN made |-> IF k \in which THEN [made[k] EXCEPT !.cookies[c] = value] ELSE made[k]]

\* set_cookie(): in the pool, and in the sessions it has.
SetCookie(c) ==
    /\ stamp < MaxCookies
    /\ stamp' = stamp + 1
    /\ jar' = [jar EXCEPT ![c] = stamp + 1]
    /\ made' = WithCookie(Pooled, c, stamp + 1)
    /\ UNCHANGED <<cookieFile, cached, chats, clearedAt, dismissed>>

\* get_cookie(): the pool's own value, else that of a session.
CookieValues(c) ==
    IF jar[c] # 0 THEN {jar[c]}
    ELSE {made[k].cookies[c] : k \in {j \in Pooled : made[j].cookies[c] # 0}}

\* post() and get() of an open session: the answer may set a cookie.
Request(k, c) ==
    /\ made[k].open /\ stamp < MaxCookies
    /\ stamp' = stamp + 1
    /\ made' = [made EXCEPT ![k].cookies[c] = stamp + 1]
    /\ UNCHANGED <<cookieFile, jar, cached, chats, clearedAt, dismissed>>

-----------------------------------------------------------------------------
(* Sessions.                                                               *)

Closed(which) ==
    [k \in DOMAIN made |-> IF k \in which THEN [made[k] EXCEPT !.open = FALSE] ELSE made[k]]

GivenUp(which) == dismissed \cup {k \in which : made[k].open}

Reusable(site, overwrite) ==
    /\ cached[site] # 0
    /\ made[cached[site]].open
    /\ ~overwrite

\* The cookies of the file, then those of the pool.
FirstCookies ==
    [c \in CookieNames |-> IF jar[c] # 0 THEN jar[c] ELSE IF cookieFile THEN 1 ELSE 0]

\* create(): the one there is, or a new one in its place; close() closes even if it
\* raises.  The constructor raises when the cookie file has gone.
Create(site, overwrite, raises) ==
    LET old == {cached[site]} \ {0} IN
    IF Reusable(site, overwrite) THEN ~raises /\ UNCHANGED <<made, cached, dismissed>>
    ELSE /\ dismissed' = GivenUp(old)
         /\ \/ /\ raises /\ cookieFile
               /\ made' = Closed(old) /\ UNCHANGED cached
            \/ /\ ~raises /\ Len(made) < MaxSessions
               /\ made' = Append(Closed(old), [open |-> TRUE, cookies |-> FirstCookies])
               /\ cached' = [cached EXCEPT ![site] = Len(made) + 1]

\* create_session() of the owner.
CreateSession(site, overwrite, raises) ==
    /\ Create(site, overwrite, raises)
    /\ UNCHANGED <<cookieFile, jar, chats, stamp, clearedAt>>

\* dispatch_chat(): a chat reads through the site's session.  When its set-up fails
\* the chat is closed and the session stays.
GetChat(site, raises, fails) ==
    /\ Len(chats) < MaxChats
    /\ Create(site, FALSE, raises)
    /\ chats' = IF raises \/ fails THEN chats
                ELSE Append(chats, [session |-> cached'[site], since |-> dismissed'])
    /\ UNCHANGED <<cookieFile, jar, stamp, clearedAt>>

\* BaseChatDownloader.close(), called on a session directly.
CloseSession(k) ==
    /\ made[k].open
    /\ dismissed' = GivenUp({k})
    /\ made' = Closed({k})
    /\ UNCHANGED <<cookieFile, jar, cached, chats, stamp, clearedAt>>

\* close(): an error of one session does not keep the others open.
ClosePool ==
    /\ Pooled # {}
    /\ dismissed' = GivenUp(Pooled)
    /\ made' = Closed(Pooled)
    /\ cached' = [s \in Sites |-> 0]
    /\ UNCHANGED <<cookieFile, jar, chats, stamp, clearedAt>>

PoolNext ==
    \/ ClearCookies
    \/ \E c \in CookieNames : SetCookie(c)
    \/ \E k \in DOMAIN made, c \in CookieNames : Request(k, c)
    \/ \E s \in Sites, overwrite, raises \in BOOLEAN : CreateSession(s, overwrite, raises)
    \/ \E s \in Sites, raises, fails \in BOOLEAN : GetChat(s, raises, fails)
    \/ \E k \in DOMAIN made : CloseSession(k)
    \/ ClosePool

PoolSpec == PoolInit /\ [][PoolNext]_poolVars

-----------------------------------------------------------------------------
(* Properties.                                                             *)

\* Cookies that were cleared are gone for good: neither the pool, nor a session that
\* is pooled then or made later, nor what get_cookie() answers, has one of them.
ClearedStayCleared ==
    /\ \A c \in CookieNames : jar[c] = 0 \/ jar[c] > clearedAt
    /\ \A k \in Pooled, c \in CookieNames :
         made[k].cookies[c] = 0 \/ made[k].cookies[c] > clearedAt
    /\ \A c \in CookieNames : \A v \in CookieValues(c) : v > clearedAt

\* What the owner set reaches every session, unless a later answer replaced it.
SetReachesAll ==
    \A k \in Pooled, c \in CookieNames : made[k].cookies[c] >= jar[c]

\* Every session that is open is the pool's to close.
NothingLeaks == \A k \in DOMAIN made : made[k].open => k \in Pooled

\* A chat is given an open session, which closes only if the owner demands it later.
ClosedOnDemand ==
    \A n \in DOMAIN chats :
        \/ made[chats[n].session].open
        \/ chats[n].session \in dismissed \ chats[n].since

\* Through any calls, in any order: the sessions of two sites, replaced, closed behind
\* the pool's back or failing to be made, cookies set and cleared between them
\* (session_lifecycle.py:27-148).
PoolSound ==
    ClearedStayCleared /\ SetReachesAll /\ NothingLeaks /\ ClosedOnDemand
=============================================================================
