---------------------------- MODULE TwitchReplay -----------------------------
(***************************************************************************)
(* sites/twitch/replay_service.py with _replay_vod_loop.py,                *)
(* replay_transport.py and graphql_client.py: the comments of a recording  *)
(* are read in order from an offset on, page by page behind the cursor of  *)
(* the last edge.                                                          *)
(*                                                                         *)
(* The provider serves the comments that follow, or now and then an empty  *)
(* page; it may leave the cursors out.  While it keeps the persisted query *)
(* (~world.fallback), hasNextPage says whether more follow; behind the     *)
(* full document, which does not ask for it, the last cursor stands for    *)
(* it, and only the last page may lack cursors.                            *)
(***************************************************************************)
EXTENDS ReplayHistory

CONSTANT MaxEmptyPages    \* max_empty_pages

TwitchStart ==
    [pc |-> "ask", cursor |-> 0, previous |-> 0, empties |-> 0, attempt |-> 1,
     edges |-> <<>>, cursors |-> FALSE, more |-> FALSE]

Count == Len(world.history)

-----------------------------------------------------------------------------
(* The set-up: get_chat_by_vod_id and get_chat_by_clip_id.                 *)

\* _fetch_gql_one() and _fetch_vod_page() try again what _handle_gql_errors() makes
\* a ParsingError, what is not JSON and what the session raises; the rest is final
\* (not found, deleted, subscribers only, a login, a challenge).
GqlOutcomes == {"ok", "retry", "refused"}

\* _init_vod_loop(): where the first page starts.  A clip that has an offset in its
\* recording ends with the clip; otherwise only the request bounds the end.
TwitchWindow ==
    LET start == Bound(world.start, 0)
        clip == world.source = "clip" /\ world.offset # None
        origin == IF clip THEN world.offset ELSE 0
        end == IF clip THEN Bound(world.end, world.duration) ELSE world.end
    IN  [origin |-> origin, start |-> start, end |-> end,
         from |-> origin + start, to |-> IF end = None THEN None ELSE origin + end]

ContentOffset ==
    IF world.source = "clip" /\ world.offset # None THEN window.from
    ELSE Min({window.start, Bound(world.duration, window.start)})

-----------------------------------------------------------------------------
(* The provider.                                                           *)

\* The first comment it serves: the first one at the offset, or one before it.
FirstServed ==
    LET behind == {i \in Records : At(i) >= ContentOffset}
        first == IF behind = {} THEN Count + 1 ELSE Min(behind)
    IN  {first, Max({1, first - 1})}

NextServed == IF source.cursor = 0 THEN FirstServed ELSE {source.cursor + 1}

CanServe(first, k, cursors) ==
    /\ first + k <= Count + 1
    /\ world.fallback /\ first <= Count => k > 0
    /\ world.fallback /\ first + k <= Count => cursors

\* get_chat_messages_by_vod_id(): k comments from the first on.
Served(first, k, cursors) ==
    [edges |-> [j \in 1..k |-> first + j - 1], cursors |-> cursors,
     more |-> IF world.fallback THEN cursors /\ k > 0 ELSE first + k <= Count]

-----------------------------------------------------------------------------
(* _process_vod_edge.                                                      *)

\* TimeRangeFilter.check(), which skips all that is before the start; a comment
\* without an offset is taken to be at 0.
TwitchTime(i) == IF Kind(i) = "undated" THEN 0 ELSE At(i) - window.origin

EdgeDisposition(i) ==
    CASE Kind(i) = "broken" -> "lost"
      [] Kind(i) # "broken" /\ window.end # None /\ TwitchTime(i) > window.end -> "stop"
      [] Kind(i) # "broken" /\ TwitchTime(i) < window.start -> "skip"
      [] Kind(i) = "other" /\ TwitchTime(i) >= window.start
           /\ (window.end = None \/ TwitchTime(i) <= window.end) -> "skip"
      [] OTHER -> "yield"

-----------------------------------------------------------------------------
(* iter_vod_chat_messages.                                                 *)

TwitchAsk ==
    /\ source.pc = "ask"
    /\ source' = [source EXCEPT !.pc = "fetch", !.attempt = 1]
    /\ UNCHANGED <<state, ready>>

TwitchRequestFails(outcome) ==
    /\ source.pc = "fetch" /\ outcome # "ok"
    /\ source' = IF outcome = "retry" THEN Retried(source) ELSE [source EXCEPT !.pc = "failed"]
    /\ UNCHANGED <<state, ready>>

Stalled == state' = [state EXCEPT !.reason = "pagination_stalled"]

\* Empty pages are not counted.
Emptier_Never(n) == n

Emptier(n) == n + 1

\* _classify_empty_page() lets an empty page pass while more is promised, but not
\* for ever.
TwitchPage(answer) ==
    /\ source.pc = "fetch"
    /\ \/ /\ answer.edges = <<>>
          /\ LET empties == Emptier(source.empties)
             IN  \/ /\ empties < MaxEmptyPages /\ answer.more
                    /\ source' = [source EXCEPT !.pc = "ask", !.empties = empties]
                    /\ UNCHANGED state
                 \/ /\ empties >= MaxEmptyPages \/ ~answer.more
                    /\ source' = [source EXCEPT !.pc = "done"]
                    /\ IF answer.more THEN Stalled ELSE UNCHANGED state
       \/ /\ answer.edges # <<>>
          /\ source' = [source EXCEPT !.pc = "emit", !.empties = 0, !.previous = source.cursor,
                                      !.edges = answer.edges, !.cursors = answer.cursors,
                                      !.more = answer.more]
          /\ UNCHANGED state
    /\ UNCHANGED ready

\* A page that is complete is not asked for again.
CursorMoved == source.cursor # source.previous

\* One edge of the page, or what follows the last one.
TwitchEmit ==
    /\ source.pc = "emit"
    /\ \/ /\ source.edges # <<>>
          /\ LET i == Head(source.edges)
                 moved == [source EXCEPT !.edges = Tail(@),
                                         !.cursor = IF source.cursors THEN i ELSE @]
             IN  \/ /\ EdgeDisposition(i) = "lost"
                    /\ source' = moved
                    /\ state' = [state EXCEPT !.loss = @ + 1]
                    /\ UNCHANGED ready
                 \/ /\ EdgeDisposition(i) = "skip"
                    /\ source' = moved
                    /\ UNCHANGED <<state, ready>>
                 \/ /\ EdgeDisposition(i) = "stop"
                    /\ source' = [moved EXCEPT !.pc = "done"]
                    /\ UNCHANGED <<state, ready>>
                 \/ /\ EdgeDisposition(i) = "yield"
                    /\ source' = moved
                    /\ Yielded(i, state)
       \/ /\ source.edges = <<>> /\ ~source.more
          /\ source' = [source EXCEPT !.pc = "done"]
          /\ UNCHANGED <<state, ready>>
       \/ /\ source.edges = <<>> /\ source.more /\ ~CursorMoved
          /\ source' = [source EXCEPT !.pc = "done"]
          /\ Stalled /\ UNCHANGED ready
       \/ /\ source.edges = <<>> /\ source.more /\ CursorMoved
          /\ source' = [source EXCEPT !.pc = "ask"]
          /\ UNCHANGED <<state, ready>>
=============================================================================
