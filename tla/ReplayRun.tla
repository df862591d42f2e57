----------------------------- MODULE ReplayRun -------------------------------
(***************************************************************************)
(* runtime/runner.py, chat_pipeline.py and capture_manifest.py: one run    *)
(* that downloads a recording, from its set-up over the retrieval (which a *)
(* worker advances ahead of the run when there is a time limit) to the     *)
(* report that may call the recording whole; or one recovery of Kick's     *)
(* history, which has no run of its own.                                   *)
(***************************************************************************)
EXTENDS TwitchReplay, KickReplaySetup, KickLedger

\* Where the window of a recovery or of a VOD begins.
Begins(w) ==
    IF w.site = "backfill" THEN w.start ELSE w.began + Clamp(Bound(w.start, 0), w.length)

\* The provider's order is that of time, but for what lies inside the window of a
\* recovery or of a Kick VOD.
Ordered(w) ==
    \A i, j \in DOMAIN w.history :
        i < j /\ w.history[j].at < w.history[i].at =>
            w.site # "twitch" /\ w.source = "vod" /\ w.history[j].at >= Begins(w)

\* What a replay has put away it still knows when a page shows it again: a numeric
\* cursor shows no more of the page before it than its last record.
Remembered(w) ==
    w.site = "kick" => IF w.digits THEN 2 * PageSize - 1 <= SeenLimit
                       ELSE Len(w.history) <= SeenLimit

\* A request that models/_request.py lets through, and a recording.
Replayable(w) ==
    /\ w.site \in {"kick", "backfill", "twitch"} /\ w.source \in {"vod", "clip"}
    /\ w.history \in Seq([at : Int, kind : {"chat", "other", "broken", "undated"}])
    /\ {w.start, w.end} \subseteq Int \cup {None} /\ w.limit \in (Nat \ {0}) \cup {None}
    /\ {w.timed, w.digits, w.fallback, w.verify, w.require, w.faults} \subseteq BOOLEAN
    /\ w.site = "backfill" => w.start # None /\ w.end # None
    /\ w.site = "kick" => w.began \in Int /\ w.length \in Nat
    /\ w.site = "kick" /\ w.source = "clip" => w.offset \in Nat /\ w.duration \in Nat
    /\ w.site = "twitch" => {w.offset, w.duration} \subseteq Nat \cup {None}
    /\ Ordered(w) /\ Remembered(w)

\* Why a retrieval or a run ended.
Reasons == {"interrupted", "error", "timeout", "message_limit", "pagination_stalled", "completed",
            "empty_window"}

Windows == [from : Int, to : Int \cup {None}, origin : Int, start : Int, end : Int \cup {None}]

ASSUME ReplayAssumption ==
    /\ \A w \in Worlds : Replayable(w)
    /\ {PageSize, SeenLimit, MaxAttempts} \subseteq Nat \ {0}
    /\ {MaxPages, MaxRecords, MaxEmptyPages} \subseteq Nat
    /\ None \notin Int /\ None \notin Reasons /\ None \notin Windows

VARIABLES
    run,       \* where the run is, and its RunResult
    written    \* the raw file: the records that were put there, in order

replayVars == <<world, window, source, state, cancelled, ready, setup, told, run, written>>
sourceVars == <<source, state, ready>>
setupVars == <<window, setup, told>>

Kick == world.site \in {"kick", "backfill"}

RunStart == [pc |-> "setup", success |-> FALSE, reason |-> "error", interrupted |-> FALSE,
             parity |-> IF world.verify THEN "not_run" ELSE "not_requested",
             count |-> 0, certified |-> FALSE]

ReplayInit ==
    /\ world \in Worlds
    /\ window = None
    /\ source = IF Kick THEN KickStart ELSE TwitchStart
    /\ state = NoState
    /\ cancelled = FALSE
    /\ ready = <<>>
    /\ setup = SetupStart /\ told = NothingTold
    /\ run = RunStart
    /\ written = <<>>

-----------------------------------------------------------------------------
(* get_chat().                                                             *)

TwitchSetup(outcome) ==
    \/ /\ outcome = "ok"
       /\ setup' = [setup EXCEPT !.stage = "found"]
       /\ window' = TwitchWindow
    \/ /\ outcome = "retry" /\ setup.attempt < MaxAttempts
       /\ setup' = [setup EXCEPT !.attempt = @ + 1] /\ UNCHANGED window
    \/ /\ outcome = "refused" \/ (outcome = "retry" /\ setup.attempt >= MaxAttempts)
       /\ setup' = [setup EXCEPT !.stage = "failed"] /\ UNCHANGED window

\* A recovery is given its window.
BackfillSetup ==
    /\ window' = [from |-> world.start, to |-> world.end, origin |-> 0,
                  start |-> world.start, end |-> world.end]
    /\ setup' = [setup EXCEPT !.stage = "found"]

GetChat ==
    /\ run.pc = "setup" /\ setup.stage \notin {"found", "failed"}
    /\ \/ world.site = "kick" /\ KickSetup
       \/ world.site = "backfill" /\ BackfillSetup /\ UNCHANGED told
       \/ /\ world.site = "twitch" /\ UNCHANGED told
          /\ \E outcome \in GqlOutcomes : TwitchSetup(outcome)
    /\ UNCHANGED <<world, cancelled, sourceVars, run, written>>

\* A chat starts, or the error ends the run.
SetUpEnds ==
    /\ run.pc = "setup" /\ setup.stage \in {"found", "failed"}
    /\ run' = [run EXCEPT !.pc = IF setup.stage = "failed" THEN "ended"
                                 ELSE IF world.site = "backfill" THEN "recovery" ELSE "loop"]
    /\ UNCHANGED <<world, setupVars, cancelled, sourceVars, written>>

-----------------------------------------------------------------------------
(* The retrieval.                                                          *)

\* next() runs while the run waits for it; with a time limit a worker calls it as
\* long as at most one item is waiting.  Once the run has stopped waiting for the
\* worker, only a request that was under way goes on.
Advances ==
    \/ run.pc = "recovery"
    \/ run.pc = "loop" /\ Len(ready) <= (IF world.timed THEN 1 ELSE 0)
    \/ run.pc = "closing" /\ Len(ready) <= 1
    \/ world.timed /\ run.pc \notin {"setup", "loop", "closing"} /\ source.pc = "fetch"

\* The wrapper closes the generator that has yielded its last message.
LimitStops ==
    /\ LimitReached /\ source.pc = "emit"
    /\ source' = [source EXCEPT !.pc = "done"]
    /\ UNCHANGED <<state, ready>>

KickStep ==
    \/ KickBegin \/ KickAsk \/ KickEmit
    \/ \E outcome \in Outcomes("messages") : KickRequestFails(outcome)
    \/ source.pc = "fetch" /\ \E a \in Answers(source.cursor) : KickPage(a.page, a.next)

BackfillStep ==
    \/ BackfillAsk
    \/ \E outcome \in Outcomes("messages") : BackfillFails(outcome)
    \/ source.pc = "fetch" /\ \E a \in Answers(source.cursor) : BackfillPage(a.page, a.next)

TwitchStep ==
    \/ TwitchAsk \/ TwitchEmit
    \/ \E outcome \in GqlOutcomes : TwitchRequestFails(outcome)
    \/ /\ source.pc = "fetch"
       /\ \E first \in NextServed, k \in 0..PageSize, cursors \in BOOLEAN :
            CanServe(first, k, cursors) /\ TwitchPage(Served(first, k, cursors))

Retrieve ==
    /\ Advances
    /\ IF LimitReached /\ source.pc = "emit" THEN LimitStops
       ELSE CASE world.site = "kick" -> KickStep
              [] world.site = "backfill" -> BackfillStep
              [] world.site = "twitch" -> TwitchStep
    /\ UNCHANGED <<world, setupVars, cancelled, run, written>>

-----------------------------------------------------------------------------
(* The loop of execute_run().                                              *)

Take ==
    /\ run.pc = "loop" /\ ready # <<>>
    /\ ready' = Tail(ready)
    /\ written' = Append(written, Head(ready))
    /\ run' = [run EXCEPT !.count = @ + 1]
    /\ UNCHANGED <<world, setupVars, source, state, cancelled>>

\* A writer fails: Chat.__next__() closes the retrieval and the run ends.
WriteFails ==
    /\ run.pc = "loop" /\ ready # <<>> /\ world.faults
    /\ run' = [run EXCEPT !.pc = "ended"]
    /\ cancelled' = TRUE
    /\ UNCHANGED <<world, setupVars, sourceVars, written>>

Interrupt ==
    /\ run.pc = "loop" /\ world.faults
    /\ run' = [run EXCEPT !.pc = "ended", !.interrupted = TRUE, !.reason = "interrupted"]
    /\ cancelled' = TRUE
    /\ UNCHANGED <<world, setupVars, sourceVars, written>>

SourceFails ==
    /\ run.pc = "loop" /\ ready = <<>> /\ source.pc = "failed"
    /\ run' = [run EXCEPT !.pc = "ended"]
    /\ UNCHANGED <<world, setupVars, cancelled, sourceVars, written>>

\* The result's reason is the diagnostics' one, "completed" when there is none.
Finishes == run' = [run EXCEPT !.pc = "ended", !.success = TRUE,
                               !.reason = Bound(state.reason, "completed")]

SourceEnds ==
    /\ run.pc = "loop" /\ ready = <<>> /\ source.pc = "done"
    /\ Finishes
    /\ UNCHANGED <<world, setupVars, cancelled, sourceVars, written>>

\* TimedGenerator._finish(): what is waiting is dropped; the retrieval is asked to
\* stop (a Kick replay is) and waited for, but not while it waits for an answer;
\* then the callback says why.
Callback_First(step, s) == IF step = "closing" THEN [s EXCEPT !.reason = "timeout"] ELSE s

Callback(step, s) == IF step = "joined" THEN [s EXCEPT !.reason = "timeout"] ELSE s

Deadline ==
    /\ run.pc = "loop" /\ world.timed
    /\ cancelled' = TRUE
    /\ ready' = <<>>
    /\ state' = Callback("closing", state)
    /\ run' = [run EXCEPT !.pc = "closing"]
    /\ UNCHANGED <<world, setupVars, source, written>>

TimedOut ==
    /\ run.pc = "closing"
    /\ state' = Callback("joined", state)
    /\ run' = [run EXCEPT !.pc = "timedout"]
    /\ UNCHANGED <<world, setupVars, source, ready, cancelled, written>>

DeadlineEnds ==
    /\ run.pc = "timedout"
    /\ Finishes
    /\ UNCHANGED <<world, setupVars, cancelled, sourceVars, written>>

-----------------------------------------------------------------------------
(* The end of execute_run(), and of a recovery.                            *)

\* _finalize_run(): an error of a writer's close spoils what was a success.
Finalize ==
    /\ run.pc = "ended"
    /\ \/ run' = [run EXCEPT !.pc = "closed"]
       \/ /\ world.faults
          /\ run' = [run EXCEPT !.pc = "unverified", !.success = FALSE,
                                !.reason = IF run.success THEN "error" ELSE @]
    /\ UNCHANGED <<world, setupVars, cancelled, sourceVars, written>>

\* _verify_capture_outputs(): only what succeeded or was interrupted is compared.
Verify ==
    /\ run.pc \in {"closed", "unverified"}
    /\ \/ /\ run.pc = "closed" /\ world.verify /\ setup.stage = "found"
          /\ run.success \/ run.interrupted
          /\ \/ run' = [run EXCEPT !.pc = "verified", !.parity = "passed"]
             \/ /\ world.faults
                /\ run' = [run EXCEPT !.pc = "verified", !.parity = "failed", !.success = FALSE,
                                      !.reason = IF run.success THEN "error" ELSE @]
       \/ /\ run.pc = "unverified" \/ ~world.verify \/ setup.stage # "found"
             \/ ~(run.success \/ run.interrupted)
          /\ run' = [run EXCEPT !.pc = "verified"]
    /\ UNCHANGED <<world, setupVars, cancelled, sourceVars, written>>

\* replay_complete(), for a chat that is a completed replay.
ReplayComplete ==
    /\ run.success
    /\ run.reason \in {"completed", "empty_window"}
    /\ Bound(state.complete, TRUE)
    /\ state.loss = 0

\* _complete_run_record(): a run that had to be complete and is not, fails.
CompleteRecord ==
    /\ run.pc = "verified"
    /\ run' = [run EXCEPT !.pc = "recorded", !.certified = ReplayComplete,
                          !.success = @ /\ (world.require => ReplayComplete)]
    /\ UNCHANGED <<world, setupVars, cancelled, sourceVars, written>>

RecoveryEnds ==
    /\ run.pc = "recovery" /\ source.pc \in {"done", "failed"}
    /\ run' = [run EXCEPT !.pc = "recorded"]
    /\ UNCHANGED <<world, setupVars, cancelled, sourceVars, written>>

\* The owner of a recovery stops it.
RecoveryStops ==
    /\ run.pc = "recovery" /\ ~cancelled /\ world.timed
    /\ cancelled' = TRUE
    /\ UNCHANGED <<world, setupVars, sourceVars, run, written>>

-----------------------------------------------------------------------------
Proceed ==
    \/ GetChat \/ SetUpEnds \/ Retrieve \/ Take \/ SourceFails \/ SourceEnds
    \/ TimedOut \/ DeadlineEnds \/ Finalize \/ Verify \/ CompleteRecord \/ RecoveryEnds

ReplayNext == Proceed \/ WriteFails \/ Interrupt \/ Deadline \/ RecoveryStops

\* Every request is answered in the end, and every thread that can run does.
ReplaySpec == ReplayInit /\ [][ReplayNext]_replayVars /\ WF_replayVars(Proceed)

-----------------------------------------------------------------------------
(* Properties.                                                             *)

\* The files of a download hold what was asked for, each record once and in order
\* of time, and the report calls the recording whole only when the raw file has
\* every record of the window: through overlapping, repeated, empty and out-of-order
\* pages, records that do not parse, limits, deadlines that find the worker in its
\* last step, failures and interrupts (runner.py:370-539, replay_service.py:201-359).
Promise ==
    INSTANCE ReplayPromise WITH
        Recorded <- UNION {{[id |-> i, at |-> w.history[i].at] : i \in DOMAIN w.history} :
                           w \in Worlds},
        wanted <- {Record(i) : i \in Wanted},
        given <- [k \in DOMAIN written |-> Record(written[k])],
        verdict <- IF run.pc # "recorded" THEN "open"
                   ELSE IF run.certified THEN "whole" ELSE "partial"

KeepsPromise == Promise!Spec

\* A recovery that ends without an error, and was not stopped, has yielded every
\* dated record of its window, whatever the pages repeat, overlap or leave out and
\* wherever the budgets bite (history.py:104-190).
BackfillIsWhole ==
    world.site = "backfill" /\ source.pc = "done" /\ ~cancelled =>
        \A i \in Wanted : Kind(i) = "undated" \/ \E k \in DOMAIN source.out : source.out[k] = i

\* All that was accepted about a clip agrees: the chat is read from the channel and
\* over the length that every answer that was used named (clip_service.py:287-478).
OneSource ==
    setup.stage = "found" =>
        /\ Cardinality(told.channels) <= 1
        /\ Cardinality(told.durations) <= 1

\* A record's time in the recording or the clip lies in the window that the report
\* calls effective (replay_service.py:168-194, clip_service.py:420-478).
OffsetsInWindow ==
    \A k \in DOMAIN written :
        LET time == At(written[k]) - window.origin
        IN  /\ time >= window.start
            /\ window.end = None \/ time <= window.end

\* A clip's records are those of one source, at their times in it.
RightSource == OneSource /\ OffsetsInWindow

\* A Kick replay that the offline inspection finds nothing wrong with is whole, and
\* lost nothing to the parsers (capture_inspection.py:240-396).
LedgerSound ==
    LET file == [k \in DOMAIN written |-> Record(written[k])]
    IN  world.site = "kick" /\ run.pc = "recorded" /\ window # None
        /\ ~NeedsReview(state, run, file, window.from, window.to) =>
            Wanted = {written[k] : k \in DOMAIN written}

\* A recording that the report calls whole has every record of the window in the raw
\* file; known skipped records are not whole (docs/cli-usage.md:502).
CertifiedIsWhole == run.certified => Wanted = {written[k] : k \in DOMAIN written}

\* Every download comes to a report, however the provider pages and fails.
EveryReplayEnds == <>(run.pc = "recorded")
=============================================================================
