----------------------------- MODULE KickReplay ------------------------------
(***************************************************************************)
(* sites/kick/replay_service.py, replay_window.py and history.py: Kick's   *)
(* chat history is read newest page first; a replay keeps what it selects  *)
(* until it has seen the whole window and then emits it oldest first       *)
(* (_iter_reverse_vod_messages); the recovery of live chat uses the same   *)
(* history within budgets (iter_reverse_history).                          *)
(*                                                                         *)
(* The provider.  A cursor 2p or 2p+1 stands before the p oldest records;  *)
(* a page holds some of the newest of them; the next cursor leaves out no  *)
(* record that is still to come, but may overlap the page, or not move at  *)
(* all.  When it is at fault it serves an earlier page in place of others. *)
(* Cursors are numbers, which the code compares, or opaque.                *)
(***************************************************************************)
EXTENDS ReplayHistory, KickClient

CONSTANTS MaxPages, MaxRecords    \* max_pages and max_records of a recovery

KickStart ==
    [pc |-> "start", cursor |-> None, requested |-> {}, pages |-> {}, spool |-> <<>>,
     seen |-> <<>>, out |-> <<>>, last |-> None, attempt |-> 1]

-----------------------------------------------------------------------------
(* The provider.                                                           *)

Position(cursor) == cursor \div 2

\* fetch_validated_page(): some page and some next cursor.
Page(p, k) == [j \in 1..k |-> p + 1 - j]

HonestAnswers(cursor) ==
    LET p == Position(cursor)
    IN  UNION {LET q == p - k
               IN  {[page |-> Page(p, k), next |-> next] :
                      next \in IF q = 0 THEN {None, 1}
                              ELSE {2 * q, 2 * q + 1, Min({2 * q + 2, 2 * Len(world.history) + 1})}} :
               k \in 0..Min({PageSize, p})}

Faults(cursor) ==
    {[page |-> page, next |-> next] : page \in source.pages,
                                      next \in {None} \cup {n \in {cursor - 3} : n > 1}}

Answers(cursor) == HonestAnswers(cursor) \cup Faults(cursor)

\* _cursor_after(): a second after the last one that is wanted.
CursorAfter(time) == 2 * Max({0} \cup {i \in Records : At(i) <= time}) + 1

MovedBackwards(cursor, next) == world.digits /\ next # None => next < cursor

-----------------------------------------------------------------------------
(* One page of a replay.                                                   *)

\* A record that has no time sorts with the oldest.
Stamp(i) == IF Kind(i) = "undated" THEN -1 ELSE At(i)

\* sorted(..., reverse=True) leaves equals as they came.
Inserted(order, i) ==
    LET k == Max({0} \cup {j \in DOMAIN order : Stamp(order[j]) >= Stamp(i)})
    IN  InsertAt(order, k + 1, i)

NewestFirst(page) == FoldLeft(Inserted, <<>>, page)

\* _classify_message() and MessageFilter.should_add()
Class(i) ==
    CASE Kind(i) = "undated" -> "malformed"
      [] Kind(i) # "undated" /\ At(i) < window.from -> "before"
      [] Kind(i) # "undated" /\ At(i) > window.to -> "after"
      [] Kind(i) = "broken" /\ At(i) >= window.from /\ At(i) <= window.to -> "parseError"
      [] Kind(i) = "other" /\ At(i) >= window.from /\ At(i) <= window.to -> "filtered"
      [] OTHER -> "selected"

Tally(s, class) ==
    [s EXCEPT !.skipped = @ + (IF class \in {"malformed", "before", "after", "parseError"} THEN 1 ELSE 0),
              !.loss = @ + (IF class \in {"malformed", "parseError"} THEN 1 ELSE 0),
              !.filtered = @ + (IF class = "filtered" THEN 1 ELSE 0)]

\* The page's records one by one: the selected ones that were not seen are kept.
SelectRecord(acc, i) ==
    LET s == Tally(acc.state, Class(i))
    IN  IF Class(i) # "selected" THEN [acc EXCEPT !.state = s]
        ELSE IF Known(acc.seen, i) THEN [acc EXCEPT !.state = [s EXCEPT !.duplicate = @ + 1]]
        ELSE [seen |-> Registered(acc.seen, i, SeenLimit), kept |-> Append(acc.kept, i),
              state |-> [s EXCEPT !.selected = @ + 1]]

Selection(page, s) ==
    FoldLeft(SelectRecord, [seen |-> source.seen, kept |-> <<>>, state |-> s], NewestFirst(page))

\* From the page collected last to the first one, each from its oldest record on.
Chronological(spool) == Reverse(spool)

-----------------------------------------------------------------------------
(* _iter_vod_messages over _iter_reverse_vod_messages.                     *)

\* The locals go with the generator; what it yielded stays.
KickFails == source' = [KickStart EXCEPT !.pc = "failed"]
KickEnds == source' = [KickStart EXCEPT !.pc = "done", !.out = source.out]
Failed(s) == [s EXCEPT !.reason = "error"]

\* The first advance: an empty window needs no request.
KickBegin ==
    /\ source.pc = "start"
    /\ \/ /\ window.to <= window.from
          /\ state' = [state EXCEPT !.reason = "empty_window"]
          /\ KickEnds
       \/ /\ window.to > window.from
          /\ state' = [state EXCEPT !.reason = "interrupted"]
          /\ source' = [source EXCEPT !.pc = "ask", !.cursor = CursorAfter(window.to)]
    /\ UNCHANGED ready

KickAsk ==
    /\ source.pc = "ask"
    /\ \/ cancelled /\ KickEnds /\ UNCHANGED state
       \/ /\ ~cancelled /\ source.cursor \in source.requested
          /\ KickFails /\ state' = Failed(state)
       \/ /\ ~cancelled /\ source.cursor \notin source.requested
          /\ source' = [source EXCEPT !.pc = "fetch", !.attempt = 1,
                                      !.requested = @ \cup {source.cursor}]
          /\ UNCHANGED state
    /\ UNCHANGED ready

\* fetch_with_retry(): what may be tried again is; after a cancellation nothing
\* is, and the retrieval ends without a reason of its own.
KickRequestFails(outcome) ==
    /\ source.pc = "fetch" /\ outcome # "ok"
    /\ \/ /\ outcome = "retry" /\ cancelled
          /\ KickEnds /\ UNCHANGED state
       \/ /\ outcome = "retry" /\ ~cancelled
          /\ source' = Retried(source)
          /\ state' = IF source'.pc = "failed" THEN Failed(state) ELSE state
       \/ /\ outcome # "retry"
          /\ KickFails /\ state' = Failed(state)
    /\ UNCHANGED ready

NewPage(page) == page \notin source.pages

\* A page below the start of the window, or without a next cursor, is the last;
\* what was collected is then read back.
KickPage(page, next) ==
    LET counted == [state EXCEPT !.raw = @ + Len(page)]
        chosen == Selection(page, counted)
        spool == source.spool \o chosen.kept
        done == \E k \in DOMAIN page : Class(page[k]) = "before"
    IN  /\ source.pc = "fetch"
        /\ \/ cancelled /\ KickEnds /\ UNCHANGED state
           \/ /\ ~cancelled
              /\ ~MovedBackwards(source.cursor, next) \/ (page # <<>> /\ ~NewPage(page))
              /\ KickFails /\ state' = Failed(counted)
           \/ /\ ~cancelled /\ MovedBackwards(source.cursor, next)
              /\ page = <<>> /\ next # None
              /\ source' = [source EXCEPT !.pc = "ask", !.cursor = next]
              /\ UNCHANGED state
           \/ /\ ~cancelled /\ MovedBackwards(source.cursor, next)
              /\ page = <<>> /\ next = None
              /\ source' = [source EXCEPT !.pc = "emit", !.out = Chronological(source.spool)]
              /\ state' = [state EXCEPT !.complete = TRUE]
           \/ /\ ~cancelled /\ MovedBackwards(source.cursor, next)
              /\ page # <<>> /\ NewPage(page)
              /\ LET kept == [source EXCEPT !.pages = @ \cup {page}, !.seen = chosen.seen,
                                            !.spool = spool]
                 IN  \/ /\ next # None /\ ~done
                        /\ source' = [kept EXCEPT !.pc = "ask", !.cursor = next]
                        /\ state' = chosen.state
                     \/ /\ next = None \/ done
                        /\ source' = [kept EXCEPT !.pc = "emit", !.out = Chronological(spool)]
                        /\ state' = [chosen.state EXCEPT !.complete = TRUE]
        /\ UNCHANGED ready

\* The end is noticed without a look at the cancellation.
KickEmit ==
    /\ source.pc = "emit"
    /\ \/ /\ source.out = <<>>
          /\ state' = [state EXCEPT !.reason = "completed"]
          /\ KickEnds /\ UNCHANGED ready
       \/ /\ source.out # <<>> /\ cancelled
          /\ KickEnds /\ UNCHANGED <<state, ready>>
       \/ /\ source.out # <<>> /\ ~cancelled
          /\ source.last # None /\ At(Head(source.out)) < source.last
          /\ KickFails /\ state' = Failed(state) /\ UNCHANGED ready
       \/ /\ source.out # <<>> /\ ~cancelled
          /\ source.last # None => At(Head(source.out)) >= source.last
          /\ source' = [source EXCEPT !.out = Tail(@), !.last = At(Head(source.out))]
          /\ Yielded(Head(source.out), state)

-----------------------------------------------------------------------------
(* iter_reverse_history: what it yields goes to its owner, who sorts it.   *)

BackfillAsk ==
    /\ source.pc \in {"start", "ask"}
    /\ LET cursor == IF source.pc = "start" THEN CursorAfter(window.to) ELSE source.cursor
       IN  \/ /\ cancelled \/ window.to < window.from
              /\ KickEnds
           \/ /\ ~cancelled /\ window.to >= window.from
              /\ Cardinality(source.requested) >= MaxPages \/ state.raw >= MaxRecords
                 \/ cursor \in source.requested
              /\ KickFails
           \/ /\ ~cancelled /\ window.to >= window.from
              /\ Cardinality(source.requested) < MaxPages /\ state.raw < MaxRecords
              /\ cursor \notin source.requested
              /\ source' = [source EXCEPT !.pc = "fetch", !.cursor = cursor, !.attempt = 1,
                                          !.requested = @ \cup {cursor}]
    /\ UNCHANGED <<state, ready>>

BackfillFails(outcome) ==
    /\ source.pc = "fetch" /\ outcome # "ok"
    /\ \/ outcome = "retry" /\ source' = Retried(source)
       \/ outcome # "retry" /\ KickFails
    /\ UNCHANGED <<state, ready>>

\* The records of a page that are yielded; the cache holds as many identities as
\* a recovery may read records.
Recover(found, i) ==
    IF Kind(i) = "undated" \/ At(i) < window.from \/ At(i) > window.to
         \/ Known(source.seen \o found, i)
    THEN found ELSE Append(found, i)

Recovered(page) == FoldLeft(Recover, <<>>, page)

\* A page over the budget is cut, and what is cut is forgotten.
CutOff_Quietly(page, room) == FALSE

CutOff(page, room) == Len(page) > room

BackfillPage(page, next) ==
    LET room == MaxRecords - state.raw
        read == SubSeq(page, 1, Min({room, Len(page)}))
        found == Recovered(read)
        below == \E k \in DOMAIN read : Kind(read[k]) # "undated" /\ At(read[k]) < window.from
        taken == [source EXCEPT !.pages = @ \cup (IF page = <<>> THEN {} ELSE {page}),
                                !.seen = @ \o found, !.out = @ \o found]
    IN  /\ source.pc = "fetch"
        /\ \/ cancelled /\ KickEnds /\ UNCHANGED state
           \/ /\ ~cancelled
              /\ ~MovedBackwards(source.cursor, next) \/ (page # <<>> /\ ~NewPage(page))
              /\ KickFails /\ UNCHANGED state
           \/ /\ ~cancelled /\ MovedBackwards(source.cursor, next)
              /\ page # <<>> => NewPage(page)
              /\ state' = [state EXCEPT !.raw = @ + Len(read)]
              /\ source' = CASE CutOff(page, room) -> [taken EXCEPT !.pc = "failed"]
                             [] ~CutOff(page, room) /\ (below \/ next = None) ->
                                  [taken EXCEPT !.pc = "done"]
                             [] OTHER -> [taken EXCEPT !.pc = "ask", !.cursor = next]
        /\ UNCHANGED ready
=============================================================================
