------------------------------ MODULE RunVerdict -------------------------------
(***************************************************************************)
(* What a run says of its own capture.  A provider's iterator counts what  *)
(* it receives and emits, perhaps in a worker thread ahead of the run; the *)
(* run writes and counts what it takes; when it is over it closes, takes   *)
(* the counts, has the closed files inspected and compared, and writes its *)
(* manifest: sites/kick/parsing/events.py, live_service.py,                *)
(* sites/twitch/irc_diagnostics.py, runtime/runner.py,                     *)
(* capture_verification.py and capture_manifest.py.                        *)
(***************************************************************************)
EXTENDS CaptureInspection

CONSTANTS
    Setups,    \* the runs: [site, timed, verify, require, saves, prior, loss, stale]
    Feed,      \* the records a provider may send
    MaxEvents  \* bound: what the provider sends

ASSUME VerdictAssumption ==
    /\ MaxEvents \in Nat
    /\ \A m \in Feed : m.kind # "stale"
    /\ \A s \in Setups :
         /\ s.site \in {"kick", "twitch", "youtube"}
         /\ {s.timed, s.verify, s.require, s.saves, s.loss} \subseteq BOOLEAN
         /\ s.prior \in Seq(ToSet(s.prior)) /\ s.stale \in Seq(ToSet(s.stale))
         /\ s.stale # <<>> => s.prior = <<>>
         /\ \A line \in ToSet(s.stale) : line.kind = "stale"
         /\ s.site # "youtube" => s.prior = <<>> /\ ~s.loss

VARIABLES
    setup,     \* the run, and what earlier runs left in its files
    tally,     \* chat.diagnostics
    known,     \* the identities the provider's cache holds
    frame,     \* what the iterator is working on
    ahead,     \* items it has returned and the run has not taken
    provider,  \* "open", "last" (asked to stop), "ended", "raised" or "gone"
    events,    \* what was sent so far
    jsonl,     \* the file's lines
    counted,   \* the records the run has written and counted
    trouble,   \* history: what went wrong inside the provider's iterator
    run        \* the run's result and where it is

verdictVars == <<setup, tally, known, frame, ahead, provider, events, jsonl, counted, trouble, run>>
feedVars == <<tally, known, frame, ahead, events, trouble>>

Kinds == {m.kind : m \in Feed}
NoWork == [kind |-> "none"]

\* Frames of the sockets and those made from a poll are counted alike, and so are the
\* records of a recovery at the start and of a later one.
Zero == [frames |-> 0, control |-> 0, parsed |-> 0, unsupported |-> 0,
         malformed |-> 0, malformedTypes |-> 0, errors |-> 0, oddTypes |-> 0, invalid |-> 0,
         pollFailures |-> 0, recoveryFailures |-> 0, truncated |-> 0,
         preloaded |-> 0, live |-> 0, backfill |-> 0]

Plus(t, key) == [t EXCEPT ![key] = @ + 1]
Site == setup.site

VerdictInit ==
    /\ setup \in Setups
    /\ tally = Zero /\ known = {} /\ frame = NoWork /\ ahead = <<>> /\ provider = "open" /\ events = 0
    /\ jsonl = setup.prior \o setup.stale
    /\ counted = <<>> /\ trouble = {}
    /\ run = [at |-> "capture", success |-> FALSE, reason |-> "error", finished |-> FALSE, deadline |-> FALSE,
              verifyAnyway |-> FALSE, bound |-> setup.verify, prefetched |-> 0, complete |-> TRUE,
              noted |-> Zero, found |-> {}, inspection |-> "none", parity |-> "not run", manifest |-> <<>>]

-----------------------------------------------------------------------------
(* The provider's iterator: in the worker, or inside the run's own next(). *)

\* A queue of one and an item in hand; without a worker the run asks for each item.
Room == Len(ahead) < IF setup.timed THEN 2 ELSE 1

\* After a stop the iterator only ends what it is at.
Running ==
    /\ Room
    /\ \/ provider = "open" /\ run.at \in {"capture"} \cup (IF setup.timed THEN {"close"} ELSE {})
       \/ provider = "last"

MayBegin == Running /\ frame = NoWork /\ events < MaxEvents

\* A new record is counted and yielded; one seen before, or unwanted, is not.
Emit(m, source, t) ==
    LET new == m.id = NoId \/ m.id \notin known IN
    /\ known' = IF m.id = NoId THEN known ELSE known \cup {m.id}
    /\ \/ /\ new
          /\ tally' = Plus(t, source) /\ ahead' = Append(ahead, m)
          /\ provider' = IF provider = "last" THEN "gone" ELSE provider
       \/ tally' = t /\ UNCHANGED <<ahead, provider>>

UnchangedRun == UNCHANGED <<setup, jsonl, counted, run>>

\* _iter_preloaded_chat(): history and the current pin, before the feed.
KickPreload ==
    /\ Site = "kick" /\ MayBegin /\ tally.frames = 0
    /\ \E m \in Feed : Emit(m, "preloaded", tally)
    /\ events' = events + 1
    /\ UNCHANGED <<frame, trouble>> /\ UnchangedRun

\* A decoded frame is counted before anything is made of it; a text message may be of
\* an unknown type and still be parsed, or not.
KickFrame ==
    /\ Site = "kick" /\ MayBegin
    /\ frame' \in {[kind |-> type] : type \in {"control", "unsupported", "malformed", "error"}}
                  \cup {[kind |-> "record", of |-> m] : m \in Feed}
    /\ tally' = Plus(tally, "frames")
    /\ events' = events + 1
    /\ UNCHANGED <<known, ahead, provider, trouble>> /\ UnchangedRun

\* A failed parse is counted once, by its type only.
Dispatched_TypeOnly(t, f) ==
    CASE f.kind = "record" -> Plus(t, "parsed")
      [] f.kind = "error" -> Plus(t, "errors")
      [] f.kind = "malformed" -> Plus(t, "malformedTypes")
      [] OTHER -> Plus(t, f.kind)

Dispatched(t, f) ==
    CASE f.kind = "record" -> Plus(t, "parsed")
      [] f.kind = "error" -> Plus(t, "errors")
      [] f.kind = "malformed" -> Plus(Plus(t, "malformed"), "malformedTypes")
      [] OTHER -> Plus(t, f.kind)

\* dispatch_event(): after a protocol error the feed is opened again, or the error ends it.
KickDispatch ==
    /\ Site = "kick" /\ Running /\ frame.kind \in {"control", "unsupported", "malformed", "error", "record"}
    /\ \E odd \in IF frame.kind \in {"record", "malformed"} THEN BOOLEAN ELSE {FALSE} :
         /\ tally' = IF odd THEN Plus(Dispatched(tally, frame), "oddTypes") ELSE Dispatched(tally, frame)
         /\ trouble' = trouble \cup (IF odd THEN {"odd type"} ELSE {})
                         \cup ({frame.kind} \ {"control", "record"})
    /\ frame' = IF frame.kind = "record" THEN [frame EXCEPT !.kind = "parsed"] ELSE NoWork
    /\ provider' \in IF frame.kind = "error" /\ provider = "open" THEN {"open", "raised"} ELSE {provider}
    /\ UNCHANGED <<known, ahead, events>> /\ UnchangedRun

\* History is read once a frame has confirmed the subscription, before its record: it
\* may fail, or not reach back far enough.
KickBackfill ==
    /\ Site = "kick" /\ Running /\ frame.kind = "parsed" /\ events < MaxEvents
    /\ events' = events + 1
    /\ \/ /\ \E m \in Feed : Emit(m, "backfill", tally)
          /\ UNCHANGED trouble
       \/ /\ \E failure \in {"recoveryFailures", "truncated"} :
               tally' = Plus(tally, failure) /\ trouble' = trouble \cup {failure}
          /\ UNCHANGED <<known, ahead, provider>>
    /\ UNCHANGED frame /\ UnchangedRun

KickEmit ==
    /\ Site = "kick" /\ Running /\ frame.kind = "parsed"
    /\ Emit(frame.of, "live", tally)
    /\ frame' = NoWork
    /\ UNCHANGED <<events, trouble>> /\ UnchangedRun

\* A message that is no frame; a poll of the public state that fails.
KickMishap ==
    /\ Site = "kick" /\ MayBegin
    /\ \E failure \in {"invalid", "pollFailures"} :
         tally' = Plus(tally, failure) /\ trouble' = trouble \cup {failure}
    /\ events' = events + 1
    /\ UNCHANGED <<known, frame, ahead, provider>> /\ UnchangedRun

-----------------------------------------------------------------------------
Lines == {[kind |-> type] : type \in {"control", "odd", "reconnect"}}
             \cup {[kind |-> "message", of |-> m] : m \in Feed}

\* One receive completes a line or two.
Chunks == [1..1 -> Lines] \cup [1..2 -> Lines]

Of(chunk, kinds) == Cardinality({k \in DOMAIN chunk : chunk[k].kind \in kinds})

\* record_received_data() counts the lines a chunk completes, and the control lines.
TwitchReceive ==
    /\ Site = "twitch" /\ MayBegin
    /\ \E chunk \in Chunks :
         /\ frame' = [kind |-> "chunk", of |-> chunk]
         /\ tally' = [tally EXCEPT !.frames = @ + Len(chunk), !.control = @ + Of(chunk, {"control"})]
         /\ events' = events + Len(chunk)
    /\ UNCHANGED <<known, ahead, provider, trouble>> /\ UnchangedRun

\* _parse_irc_matches(), unless a PING cannot be answered or the buffer was cut down;
\* either leaves lines unread.
TwitchParse ==
    /\ Site = "twitch" /\ Running /\ frame.kind = "chunk"
    /\ LET messages == Of(frame.of, {"message", "reconnect"}) IN
       \/ /\ frame' = [frame EXCEPT !.kind = "items"]
          /\ tally' = [tally EXCEPT !.parsed = @ + messages]
          /\ trouble' = trouble \cup (IF Of(frame.of, {"odd"}) > 0 THEN {"unread line"} ELSE {})
       \/ /\ frame' = NoWork
          /\ trouble' = trouble \cup (IF messages + Of(frame.of, {"odd"}) > 0 THEN {"unread line"} ELSE {})
          /\ UNCHANGED tally
    /\ UNCHANGED <<known, ahead, provider, events>> /\ UnchangedRun

\* A line that is no message is no item; what follows a request to reconnect in its chunk
\* has been counted as parsed.
TwitchItem ==
    /\ Site = "twitch" /\ Running /\ frame.kind = "items"
    /\ IF frame.of = <<>> \/ Head(frame.of).kind = "reconnect"
       THEN frame' = NoWork /\ UNCHANGED <<tally, known, ahead, provider>>
       ELSE /\ IF Head(frame.of).kind = "message" THEN Emit(Head(frame.of).of, "live", tally)
               ELSE UNCHANGED <<tally, known, ahead, provider>>
            /\ frame' = [frame EXCEPT !.of = Tail(@)]
    /\ UNCHANGED <<events, trouble>> /\ UnchangedRun

\* An action of YouTube's is a record, or fails to parse.
YouTubeAction ==
    /\ Site = "youtube" /\ MayBegin
    /\ events' = events + 1
    /\ \/ \E m \in Feed : Emit(m, "live", tally) /\ UNCHANGED trouble
       \/ /\ tally' = Plus(tally, "malformed") /\ trouble' = trouble \cup {"malformed"}
          /\ UNCHANGED <<known, ahead, provider>>
    /\ UNCHANGED frame /\ UnchangedRun

\* A limit is reached, a replay is at its end, the feed is lost for good; or the
\* iterator notices that it was asked to stop.
ProviderEnds ==
    /\ Running /\ frame = NoWork
    /\ provider' \in IF provider = "last" THEN {"gone"} ELSE {"ended", "raised"}
    /\ UNCHANGED feedVars /\ UnchangedRun

ProviderStep ==
    \/ KickPreload \/ KickFrame \/ KickDispatch \/ KickBackfill \/ KickEmit \/ KickMishap
    \/ TwitchReceive \/ TwitchParse \/ TwitchItem \/ YouTubeAction \/ ProviderEnds

-----------------------------------------------------------------------------
(* execute_run(): the capture.                                             *)

Capturing == run.at = "capture"
UnchangedFeed == UNCHANGED <<setup, tally, known, frame, events, trouble>>

\* The first record of a run that does not continue an earlier one replaces the file.
Extended(m) == Append(IF counted = <<>> THEN setup.prior ELSE jsonl, m)

Take ==
    /\ Capturing /\ ahead # <<>>
    /\ jsonl' = Extended(Head(ahead)) /\ counted' = Append(counted, Head(ahead))
    /\ ahead' = Tail(ahead)
    /\ UNCHANGED <<provider, run>> /\ UnchangedFeed

LeaveAs(result) == run' = [result EXCEPT !.at = "close"]

\* A writer fails before or after the record is in the file; a callback after it was counted.
TakeFails ==
    /\ Capturing /\ ahead # <<>>
    /\ \/ /\ jsonl' \in {jsonl, Extended(Head(ahead))} /\ LeaveAs(run)
          /\ UNCHANGED counted
       \/ /\ jsonl' = Extended(Head(ahead)) /\ counted' = Append(counted, Head(ahead))
          /\ LeaveAs([run EXCEPT !.verifyAnyway = TRUE])
    /\ ahead' = Tail(ahead)
    /\ UNCHANGED provider /\ UnchangedFeed

Succeeds(reason) == 
    LeaveAs([run EXCEPT !.success = TRUE, !.finished = TRUE, !.reason = reason, !.deadline = reason = "timeout"])

CaptureEnds ==
    /\ Capturing
    /\ \/ provider = "ended" /\ ahead = <<>> /\ Succeeds("completed")
       \/ setup.timed /\ Succeeds("timeout")
       \/ provider = "raised" /\ ahead = <<>> /\ LeaveAs(run)
       \/ LeaveAs([run EXCEPT !.reason = "interrupted"])
    /\ UNCHANGED <<jsonl, counted, ahead, provider>> /\ UnchangedFeed

-----------------------------------------------------------------------------
(* execute_run(): the end.                                                 *)

\* The worker is joined between two items, or not in time and goes on by itself; without a
\* worker the iterator is closed where it stands.  A writer's error leaves nothing to verify.
CloseRun ==
    /\ run.at = "close"
    /\ provider' \in IF provider # "open" THEN {provider}
                     ELSE IF ~setup.timed THEN {"gone"}
                     ELSE (IF Room THEN {"last"} ELSE {})
                          \cup (IF frame.kind \in {"none", "parsed", "items"} THEN {"gone"} ELSE {})
    /\ \/ run' = [run EXCEPT !.at = "observe"]
       \/ run' = [run EXCEPT !.at = "observe", !.bound = FALSE, !.success = FALSE,
                             !.reason = IF run.success THEN "error" ELSE run.reason]
    /\ UNCHANGED <<jsonl, counted, ahead>> /\ UnchangedFeed

Alive == provider = "last"

\* The count as it is now is taken for the last one.
Observed_Final(result) ==
    [result EXCEPT !.at = "verify", !.noted = tally,
                   !.prefetched = IF result.deadline THEN Len(ahead) ELSE 0]

\* observe_provider(), observe_shutdown(): complete once the consumer has finished and
\* the worker is gone.
Observed(result) ==
    [result EXCEPT !.at = "verify", !.noted = tally,
                   !.prefetched = IF result.deadline THEN Len(ahead) ELSE 0,
                   !.complete = ~setup.timed \/ (result.finished /\ ~Alive)]

ObserveEnd ==
    /\ run.at = "observe"
    /\ run' = Observed(run)
    /\ UNCHANGED <<jsonl, counted, ahead, provider>> /\ UnchangedFeed

TypeCounts == [type \in Kinds |-> Of(counted, {type})]

SummaryWith(t) ==
    [success |-> run.success, count |-> Len(counted), types |-> TypeCounts, tally |-> t,
     prior |-> Len(setup.prior), priorLoss |-> setup.loss,
     prefetched |-> run.prefetched, complete |-> run.complete]

\* The file is looked at only if this run, or the one it continues, has made it.
ClosedFile == IF setup.stale # <<>> /\ jsonl = setup.stale THEN <<>> ELSE jsonl

\* inspect_provider_capture() reads the counters as they are now.
Inspection == Inspected(Site, SummaryWith(tally), ClosedFile)

\* verify_capture(): a file of others that was not replaced cannot pass.
Failed(result) ==
    [result EXCEPT !.success = FALSE, !.reason = IF result.success THEN "error" ELSE result.reason]

ToVerify == run.bound /\ (run.success \/ run.reason = "interrupted" \/ run.verifyAnyway)

\* Lines counted and not yet read.
Unread == IF frame.kind = "chunk" /\ Of(frame.of, {"message", "reconnect", "odd"}) > 0 THEN {"unread line"} ELSE {}

\* _verify_capture_outputs(): a run that went well and must be reviewed has failed, but
\* keeps its reason; so has one whose comparison fails, or its checkpoint.
Verify ==
    /\ run.at = "verify"
    /\ LET looked == [run EXCEPT !.at = "complete",
                                 !.inspection = IF run.bound THEN Inspection ELSE "none",
                                 !.found = trouble \cup Unread]
           passed == [looked EXCEPT !.parity = "passed",
                                    !.success = run.success /\ looked.inspection = "ok"]
       IN  IF ToVerify
           THEN run' \in {Failed([looked EXCEPT !.parity = "failed"])}
                            \cup (IF ClosedFile # jsonl THEN {} ELSE IF setup.saves THEN {passed, Failed(passed)} ELSE {passed})
           ELSE run' \in IF setup.saves THEN {looked, Failed(looked)} ELSE {looked}
    /\ UNCHANGED <<jsonl, counted, ahead, provider>> /\ UnchangedFeed

\* replay_complete(): only YouTube's replays are complete ones here.
ReplayComplete(result) ==
    /\ Site = "youtube" /\ result.success /\ result.reason = "completed"
    /\ tally.malformed = 0 /\ ~setup.loss

\* _manifest_diagnostics(): the counters it knows and no others.
Reported(t) == [key \in DOMAIN t \ {"malformedTypes"} |-> t[key]]

\* RunManifest.write()
Manifest(result) ==
    [success |-> result.success, complete |-> ReplayComplete(result), reason |-> result.reason,
     inspection |-> result.inspection, parity |-> result.parity, count |-> Len(counted),
     prior |-> Len(setup.prior), prefetched |-> result.prefetched, sure |-> result.complete,
     tally |-> Reported(result.noted)]

\* _complete_run_record(): the manifest is written last, and may not be; the log has
\* the result as it is then.
Complete ==
    /\ run.at = "complete"
    /\ LET final == [run EXCEPT !.at = "done", !.success = run.success /\ (setup.require => ReplayComplete(run))]
       IN  run' \in {[final EXCEPT !.manifest = <<Manifest(final)>>], [final EXCEPT !.success = FALSE]}
    /\ UNCHANGED <<jsonl, counted, ahead, provider>> /\ UnchangedFeed

\* _log_run_summary(): from the counts that were noted.
Logged == SummaryWith(run.noted)

VerdictNext == ProviderStep \/ Take \/ TakeFails \/ CaptureEnds \/ CloseRun \/ ObserveEnd \/ Verify \/ Complete

VerdictSpec == VerdictInit /\ [][VerdictNext]_verdictVars

-----------------------------------------------------------------------------
(* Properties.                                                             *)

Whole == ClosedFile = setup.prior \o counted /\ \A k \in DOMAIN counted : Readable(counted[k]) /\ counted[k].kind \in KnownKinds

Clean ==
    /\ run.found = {} /\ Issues(Site, ClosedFile) = {}
    /\ Site # "twitch" => Whole /\ run.finished /\ ~setup.loss
    /\ Site = "kick" => run.complete

\* The inspection says "ok" exactly if nothing went wrong: no frame, line or action was
\* left without a meaning, the run ended well, the file holds, each once and sound, the
\* records the run took, and no worker was left that could still add to the counts.
\* (Twitch's inspection looks at lines and records alone.)
InspectionExact == run.inspection # "none" => (run.inspection = "ok" <=> Clean)

\* A verified run that succeeds was inspected, compared and found whole; one that had
\* to be complete has lost nothing.
SuccessIsVerified ==
    run.at = "done" /\ run.success =>
        /\ setup.verify => run.inspection = "ok" /\ run.parity = "passed" /\ run.found = {}
        /\ ClosedFile = setup.prior \o counted
        /\ setup.require => trouble = {} /\ ~setup.loss

\* A manifest says what the run's result says, calls no replay complete that lost a
\* record, and accounts for every item that was emitted.
ManifestTrue ==
    \A m \in ToSet(run.manifest) :
        /\ m.success = run.success /\ m.reason = run.reason
        /\ m.inspection = run.inspection /\ m.parity = run.parity
        /\ m.complete => m.success /\ trouble = {} /\ ~setup.loss /\ m.count = EmittedOf(m.tally)
        /\ m.success /\ m.sure => m.count = EmittedOf(m.tally) - m.prefetched

\* Inspected again from what the run has logged, a Kick capture looks the same, unless
\* the run has failed since.
Again == Inspected(Site, Logged, ClosedFile)

LogAgrees ==
    Site = "kick" /\ run.at = "done" /\ run.inspection # "none" =>
        (Again = "ok" <=> run.inspection = "ok" /\ run.success)

\* What a run says of its capture is true: of the inspection, the result, the manifest
\* and the log (capture_inspection.py, runner.py, capture_manifest.py).
VerdictSound == InspectionExact /\ SuccessIsVerified /\ ManifestTrue /\ LogAgrees
=============================================================================
