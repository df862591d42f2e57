------------------------------ MODULE MCReplays ------------------------------
(* ReplayRun on small recordings.                                          *)
EXTENDS ReplayRun

R(at, kind) == [at |-> at, kind |-> kind]

\* A chat that steps back in time inside the window; one with each kind of record;
\* one in a single second; one that parses.
Stepping == <<R(0, "chat"), R(2, "chat"), R(4, "chat"), R(3, "chat"), R(6, "chat")>>
EachKind == <<R(1, "chat"), R(2, "other"), R(2, "undated"), R(3, "broken"), R(4, "chat")>>
Crowded == <<R(2, "chat"), R(2, "chat"), R(2, "chat"), R(2, "chat")>>
Few == <<R(0, "chat"), R(2, "chat"), R(2, "chat")>>
Plain == <<R(0, "chat"), R(1, "chat"), R(3, "chat"), R(4, "chat")>>
Unparsed == <<R(0, "chat"), R(1, "broken"), R(2, "other"), R(3, "chat"), R(5, "chat")>>
Short == <<R(2, "chat"), R(4, "chat")>>

World == [site |-> "kick", source |-> "vod", history |-> Plain, start |-> None, end |-> None,
          limit |-> None, timed |-> FALSE, digits |-> TRUE, fallback |-> FALSE, verify |-> FALSE,
          require |-> FALSE, faults |-> FALSE, began |-> 1, length |-> 4, offset |-> None,
          duration |-> None]

KickWorlds ==
    {[World EXCEPT !.history = Stepping],
     [World EXCEPT !.history = EachKind, !.verify = TRUE],
     [World EXCEPT !.history = Few, !.digits = FALSE],
     [World EXCEPT !.history = Crowded],
     [World EXCEPT !.history = Few, !.digits = FALSE, !.start = 1],
     [World EXCEPT !.timed = TRUE, !.require = TRUE],
     [World EXCEPT !.limit = 2, !.timed = TRUE],
     [World EXCEPT !.limit = 3, !.require = TRUE],
     [World EXCEPT !.faults = TRUE, !.verify = TRUE],
     [World EXCEPT !.start = 3, !.end = 2]}

ClipWorlds ==
    {[World EXCEPT !.source = "clip", !.history = Short, !.offset = 1, !.duration = 2, !.start = s] :
        s \in {None, 1}}

TwitchWorlds ==
    {[World EXCEPT !.site = "twitch", !.history = h, !.start = s, !.end = e, !.fallback = f,
                   !.duration = 5] :
        h \in {Unparsed, Plain}, s \in {None, 1}, e \in {None, 3}, f \in BOOLEAN}
    \cup
    {[World EXCEPT !.site = "twitch", !.history = Plain, !.timed = TRUE, !.limit = l] :
        l \in {None, 2}}
    \cup
    {[World EXCEPT !.site = "twitch", !.source = "clip", !.history = Plain, !.offset = o,
                   !.duration = 2] : o \in {None, 1}}

Recoveries ==
    {[World EXCEPT !.site = "backfill", !.history = h, !.start = 2, !.end = 4, !.digits = d,
                   !.timed = (h = Short)] :
        h \in {Stepping, EachKind, Crowded, Short}, d \in BOOLEAN}

MCWorlds == KickWorlds \cup ClipWorlds \cup TwitchWorlds \cup Recoveries

\* A Twitch comment that has no offset, in a download that starts later than 0.
UndatedWorlds ==
    {[World EXCEPT !.site = "twitch", !.start = 1,
                   !.history = <<R(1, "chat"), R(2, "undated"), R(3, "chat")>>]}
=============================================================================
