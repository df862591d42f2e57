----------------------- MODULE MCCaptureCheckpoint -----------------------
(* A checkpointed capture, and the parts that every run stands on: its      *)
(* sessions, its files, their comparison, the cache of deleted messages, a  *)
(* realtime connection, and what the run says of its own capture.           *)
(* The parts share no state: a behaviour is one of a single part.           *)
EXTENDS CaptureCheckpoint, SitePool, OutputFiles, CaptureAudit, DeletedMessageCache, KickConnection, RunVerdict

\* Four records over two seconds.  e1 and e2 are two occurrences of one paid
\* event; e3 is its ticker, a second later; e4 is plain chat.
MCEvents == {"e1", "e2", "e3", "e4"}
MCOffset == [e1 |-> 0, e2 |-> 0, e3 |-> 1, e4 |-> 1]
MCIdentity == [e1 |-> "a", e2 |-> "a", e3 |-> "a", e4 |-> "b"]
MCPaidKey == [e1 |-> "paid", e2 |-> "paid", e3 |-> "paid", e4 |-> None]

\* The provider orders the records of one second as it likes.
MCOrders == {<<"e1", "e2", "e3", "e4">>, <<"e2", "e1", "e4", "e3">>}
\* With a limit of 1 the two identities of the second second are too many.
MCBoundaryLimits == {1, 2}
MCLimits == {None, 1}

\* Two fixed names, and two templates: under one of the titles each is a file that
\* another name stands for, of the same format or not.
Name(format, a, b) == [format |-> format, path |-> [a |-> a, b |-> b]]
RawName == Name("jsonl", "raw", "raw")
TextName == Name("txt", "text", "text")
AlsoRaw == Name("jsonl", "raw", "other")
OddText == Name("txt", "raw", "text")
MCTitles == {"a", "b"}
MCOutputLists == {<<RawName, TextName>>, <<AlsoRaw, RawName, TextName>>, <<RawName, OddText>>}
MCNames == UNION {ToSet(names) : names \in MCOutputLists}
Left(of, ended) == [of |-> of, ended |-> ended]
MCLeftovers == {<<>>, <<Left(0, FALSE)>>, <<Left(0, TRUE), Left(Broken, FALSE)>>}

\* All pairs of files whose lines end alike, and small ones in all styles, of which only
\* the last line can lack its end; up to one reset, which may lie outside.
TextLine(of, end) == [of |-> of, end |-> end]
LineFiles(of, ends, most) ==
    {file \in BoundedSeq({TextLine(r, e) : r \in of, e \in ends}, most) :
        \A k \in 1..(Len(file) - 1) : file[k].end # "none"}
Pair(raw, text, resets) == [raw |-> raw, text |-> text, resets |-> resets]
MCCaptures ==
    {Pair(raw, text, resets) : raw \in LineFiles({0, 1, 2, Unreadable}, {"lf"}, 3),
                               text \in LineFiles({0, 1, 2}, {"lf"}, 3),
                               resets \in {<<>>, <<2>>, <<3>>, <<5>>}}
    \cup {Pair(raw, text, <<>>) : raw \in LineFiles({0, 1}, {"lf", "crlf", "none"}, 2),
                                  text \in LineFiles({0, 1}, {"lf", "crlf", "none"}, 2)}

\* The least that leaves time to renew it.
LongToken == 25

\* Tokens that are over, too short to be renewed in time, long enough, and for ever.
MCNoLease == -1
MCTerms == {[ttl |-> 0, pong |-> FALSE], [ttl |-> 3, pong |-> TRUE],
            [ttl |-> LongToken, pong |-> TRUE], [ttl |-> MCNoLease, pong |-> FALSE]}
MCOffers == {<<"unusable">>, <<"unusable", "pusher">>, <<"centrifugo", "pusher">>}

MCMessages == [id : 1..3, size : {1, 2, 4}]

\* A text, an event without an identity, and a text whose line will not read back.
Rec(id, type, wrong) == [id |-> id, kind |-> type, wrong |-> wrong]
MCFeed == {Rec("1", "text", {}), Rec(NoId, "event", {}), Rec("2", "text", {"unreadable"})}

\* Runs of each site, with and without a deadline; one that is not verified; one that
\* finds the file of another run; replays that must be complete, alone or as the second
\* part of a capture.
Setup(site, withDeadline, verify) ==
    [site |-> site, timed |-> withDeadline, verify |-> verify, require |-> FALSE, saves |-> FALSE,
     prior |-> <<>>, loss |-> FALSE, stale |-> <<>>]
Earlier == <<Rec("8", "text", {})>>
Unverified == Setup("youtube", FALSE, FALSE)
MCSetups ==
    {Setup("kick", TRUE, TRUE), Setup("twitch", TRUE, TRUE), Setup("twitch", FALSE, TRUE), Unverified,
     [Setup("kick", FALSE, TRUE) EXCEPT !.stale = <<Rec("9", "stale", {})>>]}
    \cup {[Setup("youtube", p # <<>>, TRUE) EXCEPT !.require = TRUE, !.saves = TRUE, !.prior = p, !.loss = l] :
             p \in {<<>>, Earlier}, l \in BOOLEAN}

-----------------------------------------------------------------------------
VARIABLE part    \* the part the behaviour is of; the others stay as they are

MCInit ==
    /\ part \in {"checkpoint", "sessions", "files", "audit", "deletions", "connection", "verdict"}
    /\ Init /\ (part = "checkpoint" \/ boundaryLimit = 1)
    /\ PoolInit /\ (part = "sessions" \/ ~cookieFile)
    /\ FilesInit /\ (part = "files" \/ present = {})
    /\ \E c \in IF part = "audit" THEN Captures ELSE {Pair(<<>>, <<>>, <<>>)} : AuditOf(c)
    /\ CacheInit
    /\ LinkInit
    /\ VerdictInit /\ (part = "verdict" \/ setup = Unverified)

\* Bound: the provider's faults meet the other tokens.
FaultlessIfLong == server.ttl = LongToken => server'.faults = 0

MCNext ==
    \/ /\ part = "checkpoint" /\ Next
       /\ UNCHANGED <<part, poolVars, diskVars, auditVars, cacheVars, linkVars, verdictVars>>
    \/ /\ part = "sessions" /\ PoolNext
       /\ UNCHANGED <<part, vars, diskVars, auditVars, cacheVars, linkVars, verdictVars>>
    \/ /\ part = "files" /\ FilesNext
       /\ UNCHANGED <<part, vars, poolVars, auditVars, cacheVars, linkVars, verdictVars>>
    \/ /\ part = "audit" /\ AuditNext
       /\ UNCHANGED <<part, vars, poolVars, diskVars, cacheVars, linkVars, verdictVars>>
    \/ /\ part = "deletions" /\ CacheNext
       /\ UNCHANGED <<part, vars, poolVars, diskVars, auditVars, linkVars, verdictVars>>
    \/ /\ part = "connection" /\ LinkNext /\ FaultlessIfLong
       /\ UNCHANGED <<part, vars, poolVars, diskVars, auditVars, cacheVars, verdictVars>>
    \/ /\ part = "verdict" /\ VerdictNext
       /\ UNCHANGED <<part, vars, poolVars, diskVars, auditVars, cacheVars, linkVars>>

MCSpec ==
    MCInit /\ [][MCNext]_<<part, vars, poolVars, diskVars, auditVars, cacheVars, linkVars, verdictVars>>
=============================================================================
