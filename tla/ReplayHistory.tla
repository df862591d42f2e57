---------------------------- MODULE ReplayHistory ----------------------------
(***************************************************************************)
(* What the downloads of Kick and Twitch recordings share: the recording   *)
(* and its chat as the provider keeps it, the part that was asked for, the *)
(* diagnostics the parts of a run tell each other, and the items that the  *)
(* retrieval has put where the run takes them.                             *)
(*                                                                         *)
(* Time is in whole seconds of one clock.  A record is its number in the   *)
(* provider's order; its kind says what the parsers make of it: "chat",    *)
(* "other" (not asked for), "broken" (does not parse), "undated" (has no   *)
(* time that can be read).                                                 *)
(***************************************************************************)
EXTENDS Integers, SequencesExt, FiniteSetsExt, SeenCache

CONSTANTS
    None,
    Worlds,        \* the recordings and requests that are looked at
    PageSize,      \* the most records the provider puts on a page
    SeenLimit,     \* the identities a Kick replay remembers (10,000)
    MaxAttempts    \* params.max_attempts

VARIABLES
    world,      \* the recording and the request; never changes
    window,     \* what the set-up made of it: [from, to, origin, start, end]
    source,     \* the generator that retrieves: where it is, and its locals
    state,      \* chat.diagnostics
    cancelled,  \* ReplaySource.cancelled
    ready       \* items pulled out of the generator, not yet taken by the run

Records == DOMAIN world.history
At(i) == world.history[i].at
Kind(i) == world.history[i].kind
Record(i) == [id |-> i, at |-> At(i)]

Clamp(x, most) == Min({Max({x, 0}), most})
Bound(x, default) == IF x = None THEN default ELSE x

\* A Kick replay's window of no length.
EmptyWindow == world.site = "kick" /\ window.to <= window.from

\* The part asked for; what cannot be parsed belongs to it too.
Wanted ==
    IF window = None \/ EmptyWindow THEN {}
    ELSE {i \in Records : /\ Kind(i) # "other"
                          /\ At(i) >= window.from
                          /\ window.to = None \/ At(i) <= window.to}

\* No counter yet; a Kick replay reports itself "interrupted" from its start on.
NoState == [reason |-> None, complete |-> None, loss |-> 0, raw |-> 0, skipped |-> 0,
            filtered |-> 0, duplicate |-> 0, selected |-> 0, emitted |-> 0]

\* The record goes to the run; _MessageLimitIterator counts down as it passes.
Yielded(i, s) ==
    /\ ready' = Append(ready, i)
    /\ state' = [s EXCEPT !.emitted = @ + 1,
                          !.reason = IF s.emitted + 1 = world.limit THEN "message_limit" ELSE @]

LimitReached == world.limit # None /\ state.emitted >= world.limit

\* retry(): the same request again, unless this was the last attempt.
Retried(s) ==
    IF s.attempt < MaxAttempts THEN [s EXCEPT !.attempt = @ + 1] ELSE [s EXCEPT !.pc = "failed"]
=============================================================================
