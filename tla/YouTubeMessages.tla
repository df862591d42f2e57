--------------------------- MODULE YouTubeMessages ---------------------------
(***************************************************************************)
(* What one action of a YouTube chat page becomes: message_pipeline.py     *)
(* with the filters of filters.py and the cache of paid events of          *)
(* paid_events.py.  No state of its own; YouTubeContinuation keeps it.     *)
(*                                                                         *)
(* An action is a record [id, kind, time, event, author]: its number in    *)
(* the chat, what parsing and validation make of it, its time in the       *)
(* recording (or since the retrieval began, for a live chat), and the ID   *)
(* and author of a paid event or of the ticker that announces one.         *)
(***************************************************************************)
EXTENDS Integers, Sequences, SequencesExt

CONSTANTS
    PaidLimit,   \* PaidEventCache's limit
    None

PaidKinds == {"paid_message", "paid_sticker"}

\* _TICKER_TYPES: the paid type a ticker announces.
Announces == [ticker_message |-> "paid_message", ticker_sticker |-> "paid_sticker"]

\* Control actions, ignored renderers, actions that cannot be parsed and messages
\* that fail validation produce nothing, and are not remembered either.
Parsed(action) == action.kind # "control"

-----------------------------------------------------------------------------
(* PaidEventCache.  The oldest remembered event first.                     *)

Knows(cache, event) == \E i \in DOMAIN cache : cache[i].event = event
PlaceOf(cache, event) == CHOOSE i \in DOMAIN cache : cache[i].event = event

Forget(cache, event) ==
    IF Knows(cache, event) THEN RemoveAt(cache, PlaceOf(cache, event)) ELSE cache

\* A paid event that is seen again keeps its place in the queue.
Remember_InPlace(cache, action) ==
    IF Knows(cache, action.event)
    THEN [i \in DOMAIN cache |-> IF cache[i].event = action.event THEN action ELSE cache[i]]
    ELSE IF Len(cache) = PaidLimit THEN Append(Tail(cache), action) ELSE Append(cache, action)

Remember(cache, action) ==
    LET grown == Append(Forget(cache, action.event), action) IN
    IF Len(grown) > PaidLimit THEN Tail(grown) ELSE grown

SameAuthor(a, b) == a = None \/ b = None \/ a = b

\* The remembered event a ticker's missing details come from, or None.
Details(cache, action) ==
    LET prior == cache[PlaceOf(cache, action.event)] IN
    IF /\ action.kind \in DOMAIN Announces /\ Knows(cache, action.event)
       /\ Announces[action.kind] = prior.kind
       /\ SameAuthor(action.author, prior.author)
    THEN prior.id ELSE None

-----------------------------------------------------------------------------
(* TimeRangeFilter.  A clip's messages are presented relative to its start *)
(* and compared in the recording's time; None stands for no bound.         *)

Presented(action, clip) == action.time - clip

\* Before the start, only the first page may be skipped.
CheckTime_FirstPage(action, clip, range, firstPage) ==
    LET time == Presented(action, clip) + clip IN
    IF range.last # None /\ time > range.last THEN "stop"
    ELSE IF range.first # None /\ time < range.first
         THEN (IF firstPage THEN "skip" ELSE "stop")
    ELSE "yield"

CheckTime(action, clip, range, firstPage) ==
    LET time == Presented(action, clip) + clip IN
    IF range.last # None /\ time > range.last THEN "stop"
    ELSE IF range.first # None /\ time < range.first THEN "skip"
    ELSE "yield"

-----------------------------------------------------------------------------
(* process_pipeline_action and _process_actions.                           *)

\* "stop" ends the retrieval for excluded types too.
Disposition(action, request, firstPage) ==
    LET timing == IF request.replay
                  THEN CheckTime(action, request.clip, request.range, firstPage)
                  ELSE "yield" IN
    IF ~Parsed(action) THEN "skip"
    ELSE IF timing = "stop" THEN "stop"
    ELSE IF action.kind \notin request.kinds THEN "skip"
    ELSE timing

\* The poll position of a live chat follows the newest message that is emitted.
PollOffset(offset, action, request, disposition) ==
    IF request.replay \/ disposition # "yield" THEN offset
    ELSE Max({IF offset = None THEN 0 ELSE offset, action.time, 0})

\* One action of a page.  A page is [stopped, cache, offset, out], where out is
\* what has been processed: the action, its disposition, a ticker's details.
ProcessAction(page, action, request, firstPage) ==
    IF page.stopped THEN page
    ELSE LET disposition == Disposition(action, request, firstPage)
             paid == Parsed(action) /\ action.kind \in PaidKinds
             detail == IF Parsed(action) THEN Details(page.cache, action) ELSE None IN
         [stopped |-> disposition = "stop",
          cache |-> IF paid THEN Remember(page.cache, action) ELSE page.cache,
          offset |-> PollOffset(page.offset, action, request, disposition),
          out |-> Append(page.out, [id |-> action.id, as |-> disposition, detail |-> detail])]

ProcessActions(actions, page, request, firstPage) ==
    FoldLeft(LAMBDA p, action : ProcessAction(p, action, request, firstPage), page, actions)

\* _latest_replay_action_offset_milliseconds(): a replay's wrapper tells times
\* before its start as zero.
LatestOffset(actions) ==
    IF actions = <<>> THEN None
    ELSE Max({0} \cup {actions[i].time : i \in DOMAIN actions})
=============================================================================
