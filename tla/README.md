# Verification of chat-downloader-fork

TLA+ models of the parts of `src/src/chat_downloader/` in which several threads,
several runs of the program or an unreliable provider interact, the TLC
configurations that check them, and TLAPS proofs about the core. Paths below are
relative to `src/src/chat_downloader/` unless they say otherwise.

    tlc -config TimedGenerator.cfg MCTimedGenerator
    tlapm RunPartsProofs.tla

`PROJECT.json` maps every definition to the lines it models, and lists the runs,
a mutant of the code for every checked property, the findings and the hazards.

## 1. Inventory

The program reads one chat, live or replayed, from Kick, Twitch or YouTube and
writes it to files and the console. One main thread pulls records through a chain
of iterators; threads exist only where a read may block.

| Component | State it keeps | Operations | What is hard | What makes it correct |
|---|---|---|---|---|
| timed generator (`utils/timed_generator.py`) | deadlines, two timers, a queue of one, worker flags, prefetch counter | `__next__`, `close`, worker loop, timer callbacks, summary | a worker thread, two timer threads, a hanging source, an interrupt at any point | order, no loss, bounded read-ahead, real deadlines, the source is closed once and never while it runs |
| chat and output dispatcher (`sites/models.py`, `sites/output_dispatch.py`) | writers, counts per writer, dedup cache | `__next__`, `emit`, `record_transaction`, `close` | one writer of several fails; the rollback fails | all outputs or none take a record |
| capture checkpoint (`runtime/capture_checkpoint.py`) | boundary offset and the identities at it, totals, lock file, JSON file | `bind`, `advance`, `save`, lock | records that share a second, kills, rejected replays | resuming neither loses nor repeats a record |
| writers (`output/`) | open files, array tails | open, write, flush, repair, close | torn records | a file is readable after every completed record |
| runner and interrupts (`runtime/runner.py`, `utils/interrupts.py`, `cli.py`) | result, deferred-interrupt flag | the record loop, finalisation | a signal between two steps | every record is whole, shutdown reports the truth |
| Kick live service and iterator (`sites/kick/live_service.py`, `live_iterator.py`) | transport, recovery checkpoint, clock offset, budgets, seen IDs | preload, dial, receive loop, backfill, stop | lost connections, two clocks, feeds confirmed in either order, a stop from another thread | an outage is recovered or counted; a stop ends it |
| Kick public transport (`sites/kick/public_transport.py`) | queue, reader threads, error queue, flags, HTTP sessions | `connect`, `subscribe`, `recv`, `request_stop`, `close` | two readers and a stopping thread, full queue | frames merged without loss, failures surface, everything is released |
| Kick sockets (`websocket_transport.py`, `centrifugo_transport.py`) | socket, subscription | `recv`, `request_stop`, `close` | check and use of `_ws` by two threads | every failure is a transport error |
| Kick history and replay (`history.py`, `replay_service.py`, `replay_window.py`, `clip_service.py`, `vod_metadata.py`) | cursors, digests, seen IDs, retry counts | paging | repeated cursors, capped pages | ends; never certifies part of a window |
| Twitch live (`sites/twitch/live_service.py`, `irc_transport.py`, `irc_diagnostics.py`) | IRC socket, read buffer, failure streak, seen IDs, ping times | connect, receive, ping, reconnect, stop | split frames, idle socket, stop during connect | no duplicate, bounded failures, a stop ends it |
| Twitch replay (`replay_service.py`, `_replay_vod_loop.py`, `graphql_client.py`) | cursor, empty-page streak | paging | pages without progress | ends; no gap |
| YouTube continuation (`continuation.py`, `continuation_helpers.py`, `continuations.py`, `client_requests_continuation.py`) | token, replay offset, no-progress and fallback counters, request profile | poll, retry, fallback, recovery of the first request | stale tokens, retried requests, profile change | progress or a bounded end; no restart after an accepted page |
| YouTube message pipeline (`message_pipeline.py`, `paid_events.py`) | bounded paid-event cache | merge, filter, emit | eviction, two forms of one event | one paid event, once |
| bounded caches (`_seen_cache.py`, `_message_dedup.py`, `deleted_message_cache.py`) | ordered identities, byte count | register, remember | limits | the last *n* identities are known |
| sessions (`runtime/session_lifecycle.py`, `sites/session.py`, `base.py`) | sessions by class, cookies | create, overwrite, close, cookies | reuse of a closed session | one open session per class, cookies mirrored |
| manifest, verification, parity (`runtime/capture_manifest.py`, `capture_verification.py`, `output/capture_parity.py`) | files, hashes | compare, publish | files changed in between | formatted and raw agree |
| inspection and verdict (`sites/*/capture_inspection.py`, `runtime/runner.py`) | counters of the iterator, result of the run | count, observe, inspect, compare, report | a worker that outlives the run; counters read twice | what the run says of its capture is true |
| parsing, formatting, options, redaction | none | pure functions of text | shape of provider data | out of scope |

Interactions: `Chat.__next__` pulls from the timed generator (or the source),
emits to the dispatcher, and on any exception closes both. The timed generator's
worker pulls from a site iterator; its `close` calls the site iterator's
`request_stop` from the main thread while the worker is inside the iterator. The
Kick iterator passes that on to a transport, which passes it on to its sockets.
The checkpoint wraps the source of a `Chat`, and the runner drives both.

## 2. Plan

Modules in the order of their importance, with what composes what. All of them are
written; the last list is what is left.

1. **TimedGenerator** (core), with the abstract specification **BoundedStream**;
   proofs in **RunPartsProofs**.
2. **CaptureCheckpoint**: checkpoint, dispatcher, writers, interrupts and the runner's
   loop in one state machine, since a record passes through all; proofs in
   **CaptureCheckpointProofs**.
3. **KickPublicTransport** with the abstract **MergedFeed**; proofs in
   **RetrievalProofs**.
4. **KickLive** above a transport that behaves as MergedFeed says; proofs in
   **KickLiveProofs**.
5. **TwitchLive** over **SeenCache**, with **IrcBuffer** beside it; proofs in
   **TwitchLiveProofs**.
6. **YouTubeMessages**, **YouTubeSetup** and, composing them, **YouTubeContinuation**;
   proofs in **YouTubeContinuationProofs**.
7. Downloads of recordings: **ReplayHistory** (shared), **KickReplay** with
   **KickReplaySetup** over **KickClient**, **TwitchReplay**, and **ReplayRun**, which
   composes them with the runner, the ledger (**KickLedger**) and the abstract
   specification **ReplayPromise**; proofs in **RetrievalProofs**, beside those of the
   transport.
8. What a run stands on: **SitePool**, **OutputFiles**, **DeletedMessageCache** and
   **CaptureAudit**, **CaptureInspection** with **RunVerdict**; proofs in
   **RunPartsProofs**, beside those of the timed generator. **KickConnection**; proofs in
   **KickConnectionProofs**.
9. **Induction**: what the proofs need to know of numbers, and how they follow a loop.

Left: the badge cache of Twitch; the discovery of the Pusher key; the opening order of a replay
(`runtime/capture_replay_order.py`) as an operator against a sorted reference; lists of
the videos of a channel.

## 3. The modules

**TimedGenerator.** One action per stretch of code in which no other thread can
interfere: a lock's critical section, an event test, a queue call, a call into the
source. `wpc` and `cpc` are the program counters of worker and consumer; `queue`,
`advancing`, `stopRequested`, `closed`, `outstanding`... are the attributes of the
same name. The source may yield, end, fail, raise an interrupt, hang, or unwind
with `_PollingCancelled` after a stop. One `KeyboardInterrupt` may land in every
step of `__next__` and `close`. The clock is discrete and bounded by `Horizon`,
the items by `MaxItems`.

**BoundedStream.** What a caller may rely on: items in order, at most `Lookahead`
ahead, nothing after a stop, the source released once and not while it is fetching.
TimedGenerator implements it with a lookahead of three (one item each in the
consumer's, the queue's and the worker's hands).

**CaptureCheckpoint.** The files are sequences of records, possibly with a torn
tail; a run starts, skips what was committed, reads a record, writes it output by
output, counts it and commits it, or unwinds and truncates. Failure actions stand
beside each step: open, write (with or without bytes left behind), truncate,
close, save, and a kill anywhere. The two interrupts of the CLI are deferred and
raised as `utils/interrupts.py` does. Identities stand for `_event_identity`
hashes, `PaidKey` for the message ID formatted outputs deduplicate on.

**KickPublicTransport / MergedFeed.** The owner's `connect` to `close`, a reader
per feed (`_read`, `_put`, `_request_reconnect` in its three steps), a second
thread in `request_stop`. An abort does not end a reader at once: it may still hand over
one frame of a batch it had decoded, and a token renewal under way may still bring a
refusal. MergedFeed says: each feed's frames in order, none left
out before the failure is raised; only a stop may cut it short.

**KickLive.** `_iter_chat_messages` and `_open_subscribed_transport` as one thread,
the provider (time, messages, acknowledgements, channel events, connection
failures) as the environment, and `request_stop` in its two steps. `Skew` is the
provider's clock minus the local one. A recovery (history query, reconciliation,
emission) is one step: no other thread changes what it reads, except that a stop
may cut it short, which only ends the capture.

**TwitchLive.** One thread runs `get_chat_by_stream_id`, `iter_stream_chat_messages`
with `create_connection`, and the generator `get_chat_messages_by_stream_id` that
reads the connection; another runs `request_stop` in its two steps. `current` is
`twitch_chat_irc`, `fresh` the connection `create_connection` works on, `owned`
whether `control.irc` already is that connection. Twitch and the network deliver
lines (messages with and without ID, PING, RECONNECT), answer PINGs within
`Answer`, send part of a character, or fail, loudly (`reset`) or without a word
(`dead`). Times are kept as ages (`sinceReceive`, `sincePing`), capped where they
stop to matter, and pass only while a receive waits or the caller holds an item.
**SeenCache** is `register()` with its eviction.

**IrcBuffer.** The read buffer, its trimming and the PING counter of one connection.
Twitch sends lines piece by piece, cut where the code can tell the difference, and the
loop receives as many pieces at a time as the network likes; `drained` remembers whether
the buffer was ever cut down. That the chunks do not matter is why TwitchLive may deliver
whole lines. It shares no state with TwitchLive; MCTwitchLive checks both as parts of one
run.

**YouTubeContinuation**, over **YouTubeSetup** and **YouTubeMessages**. A retrieval goes
from `bootstrap` over `parsed`, `enriched` and `build` to `request`, and one step is one
request with all that follows from its answer. `session` is what the HTTP session sends
(profile, User-Agent, client, visitor), `cfg` is `ytcfg`, `context` the InnerTube
context, `token` the page asked for and the profile the token was obtained with,
`stalled` and `fallbacks` the counters of `_ContinuationProgress`. A page is a sequence
of actions, which `ProcessActions` folds as `_process_actions` does: paid events are
remembered, tickers completed, the window and the kinds looked at, the offset moved.

**ReplayRun**, over **TwitchReplay**, **KickReplay**, **KickReplaySetup**, **KickLedger**,
**ReplayHistory**. `world` is the provider's side: a recording, its chat, and which
faults it has. The retrieval runs in a worker if there is a time limit, else in the
run's own `next()`. KickReplay reads pages newest first, with retries and cancellation;
TwitchReplay reads forward behind cursors. KickReplaySetup asks up to five endpoints
(answers as in **KickClient**) for the channel and the part of the recording. The run
writes, may be interrupted or reach its limits, verifies, and reports.
**ReplayPromise** is what a reader of the files may rely on: records that were asked for,
each once, in order, and "whole" only if all are there; ReplayRun implements it
(`KeepsPromise`).

**SitePool.** The pool of sessions of `session_lifecycle.py` with the cookies of pool and
sessions, under any sequence of calls: create, overwrite, request, set, clear, close, and
chats that hold a session.

**OutputFiles.** Files over several runs: what is left in them (also by others),
creation, appending, the repair of a torn tail, of raw lines and of text, two names
for one file, and kills inside a line.

**CaptureAudit.** `audit_capture()` line by line over a pair of files, compared with what
a correct pair is. A line that the file's end cuts off has the line end "none"; only the
last can (`LinesOf`). That resets are line numbers in order is what loading a checkpoint
checks.

**DeletedMessageCache.** `remember` with its two budgets.

**KickConnection.** One realtime connection from the negotiation on: commands with their
deadlines, token lease, heartbeat, pings, batches of lines, idle watchdog, against a
provider that is slow, holds back, misbehaves or dies. Time is in ticks. A full queue may
hold the reader back for `MaxHolds` ticks in all before it waits for the provider again:
the consumer is slower than the provider for a while, not for good.

**CaptureInspection / RunVerdict.** The inspections of the three sites as operators over a
file and counters; a run in which the provider's iterator counts what it receives and
emits (`tally`), perhaps in a worker that goes on after the run has given up waiting for
it, and the run takes the counts, inspects, compares, and writes the manifest.

SitePool, OutputFiles, CaptureAudit, DeletedMessageCache, KickConnection and RunVerdict
share no state with each other or with CaptureCheckpoint. MCCaptureCheckpoint checks them
in one run as independent parts: `part` is chosen at the start, and only that part moves.

## 4. The runs

| Run | Checks | Bounds, and why they are enough |
|---|---|---|
| `TimedGenerator.cfg` | NoConcurrentClose, DeadlineIsReal, SummarySound, StreamSpec, ReadReturns, SourceReleased | 3 items (consumer, queue and worker each hold one), clock 0..2, overall deadline 2, inactivity deadline 1 or none: every order of expiry, arrival and reset |
| `TimedGeneratorClose.cfg` | finding: CloseStopsWorker | 1 item |
| `CaptureCheckpoint.cfg`, part `checkpoint` | ResumePointSound, FormattedFollowsRaw, RolledBackRunResumes, CompletedIsWhole, CheckpointGrows | 4 records over 2 seconds, two of them with the same identity in one second, a paid event and its ticker across seconds; 2 provider orders, 3 runs, message limit 1 or none; `BoundaryLimit` 2, or 1, which the second second exceeds |
| part `sessions` | PoolSound | 2 sites, 3 sessions, cookie values up to 3, 2 chats: a session is replaced and its replacement closed |
| part `files` | OutputsSound | 2 runs, 3 lines, three lists of names with two titles, files left empty, torn, or torn after whole lines |
| part `audit` | AuditIsExact | every pair of files of up to 3 lines with records that repeat or cannot be read, and of up to 2 lines in every style of line end; a cache of 1 that is exceeded, resets inside and outside |
| part `deletions` | CacheInStep | 4 messages of 3 identities and sizes 1, 2, 4; 2 entries, 3 bytes: each budget is exceeded, also by one message |
| part `connection` | LinkSound | 2 lines under way, one fault, one tick held back before the reader waits again; tokens that are over, too short, long enough (`LongToken` = 25, a fifth of which is the least `NeverThrownOut` asks for; with it there is no fault, `FaultlessIfLong`), endless; the constants keep the order of the code's times (`Margins` of the theorem holds for them) |
| part `verdict` | VerdictSound | 9 set-ups (sites, with and without deadline, verification, `--require-complete`, a continued capture, another's file), 2 provider events of 3 kinds of record, in every order with the run's steps |
| `KickPublicTransport.cfg` | ErrorsReported, SessionOwned, FeedSpec, ReconnectEnds, ClosedReleases | 2 feeds, 2 + 1 frames, queue of 1 (always full or empty), one poll with at most one change |
| `KickLive.cfg` | RecoversFromSeen, StopEnds | clock behind by one, window 1, 2 failures, 2 attempts, clock 0..2: the window is exceeded, the budgets run out, and a recovery follows a recovery |
| `TwitchLive.cfg` | NoEarlyRepeat, OneSocket, ChunksDoNotMatter, IdleMeansDead, StopEnds, DeadLinkLeft | 3 lines (a, b, a again with a cache of one), 2 failures, 2 attempts (streak and set-up budget run out), PING after 1, watchdog after 3, receive timeout 1: a PING becomes due, is answered or not, and the watchdog expires. Part `buffer`: 3 lines of up to 5 pieces, messages and PINGs in every order and cut in every way, a buffer limit of 7 pieces that is exceeded |
| `TwitchLivePartial.cfg` | finding: LivingKept | the same |
| `KickLiveEvents.cfg` | finding: OutagesRecoveredOrCounted | public events, a window that no outage exceeds |
| `YouTubeContinuation.cfg` | EndedIsWhole, OneFingerprint, TickerDetails, NoRestart, EveryRetrievalEnds | 3 pages with 11 actions, room for 2 paid events (one is dropped, one renewed), 2 attempts, all 3 profiles, 5 requests: video, window, clips, signed-in with a User-Agent of its own |
| `YouTubeHeaders.cfg` | finding: RuntimeHeadersKept | one attempt |
| `Replays.cfg` | BackfillIsWhole, RightSource, LedgerSound, KeepsPromise, EveryReplayEnds | recordings of up to 5 records with pages of 2 and seen caches of 3: overlapping, repeated and stuck pages; 4 pages or records at most in a recovery; windows, limits, clips, retries up to 2, deadlines |
| `ReplaysUndated.cfg` | finding: CertifiedIsWhole | 3 Twitch comments, one without a time |

Deadlock is not checked where the program comes to rest by itself: a finished
iterator, a closed transport, no runs left.

**Fairness.** TimedGenerator: timers, runnable worker and consumer steps and the
clock are weakly fair, because the operating system schedules threads and every
wait in the code has a timeout; the *source* is not, since a provider read may
hang, nor are the caller and the user. KickPublicTransport: owner (its caller keeps
calling `recv`) and readers are weakly fair in what they do without the provider;
frames and failures of an open socket are not. KickLive: the capture thread is weakly
fair (network calls time out), and a stop that was begun goes on; the provider owes
nothing. TwitchLive: the capture thread, the clock (while something waits) and a stop
that was begun are weakly fair; Twitch has to send nothing but an answer to a PING,
and the caller need not ask for the next item. YouTubeContinuation: the one thread is weakly
fair, as every request is answered or times out. ReplayRun: run and worker are weakly fair for
the same reason, the provider's choice among its answers is free. The parts of
MCCaptureCheckpoint have safety properties only.

**Mutants.** Each property is broken by a small change to the code it is about: a
dropped second look at the stop flag, a deadline judged by the timers, a count that
is not restored, a truncation to this run's size, a wake-up before the flag.
They stand beside the definition they change (`Name_Variant`) and are used by no
specification.

## 5. Findings

* **A close that is interrupted cannot be repeated** (`timed_generator.py:265`).
  `_closed` is set before `_stop_requested`. If the interrupt lands in between, the
  `close()` that `Chat.__next__` then makes returns at once, and the worker keeps
  advancing the provider.
* **A channel event moves the recovery point** (`live_service.py:788`). Events and
  REST snapshots read before the chat feed is confirmed again count as seen, so the
  recovery starts after messages of the outage.
* **Part of a character ends the connection** (`sites/twitch/irc_transport.py:300`).
  `recv()` keeps the first bytes of a multi-byte character back and returns the empty
  text when the chunk held nothing else; the caller takes that for the end of the
  file. With `--buffer_size 1` every such character costs a reconnect.
* **A profile fallback takes the visitor identifier back**
  (`sites/youtube/continuation.py:502`). The headers that replace the old ones are made
  from the bootstrap's configuration, which does not have the visitor that later answers
  assigned; `docs/youtube-integration-guide.md` says they are kept.
* **A record without a time is not counted as lost** (`sites/filters.py:95`). A Twitch
  comment without an offset is compared as if it were at 0; with a start bound it is
  skipped, and the recording is still reported complete.

Two behaviours are known to the repository and not listed: a replay that steps back is
refused with "checkpoint not advanced", but the checkpoint is saved at the record before
the step (`src/tests/test_capture_checkpoint_unit.py:385` expects it; ResumePointSound
fails at once with such an order); and with nothing said before a loss Kick's recovery
has no checkpoint, so that an outage beyond the window is not counted.

## 6. What is proved

`RunPartsProofs` proves of TimedGenerator, for any timeouts, any number of items and any
length of time, assuming only that bounds are natural numbers and `None` is not
one (`BoundsAssumption`, `TimeoutsAssumption`, `NoneAssumption`):

* `TypeCorrect`: `Spec => []TypeOK`, by a lemma per group of actions.
* `CloseNeverConcurrent`: `Spec => []NoConcurrentClose`. Not inductive: nothing in
  the property prevents a worker that has passed its test from entering `next`
  after the consumer looked. `ShutdownInv` adds that `advancing` holds exactly
  while the worker is in or just out of `next`, and that from the look on the stop
  has been requested, so the recheck under the lock turns the worker away.
* `DeadlinesAreReal`: `Spec => []DeadlineIsReal`. `WaitInv` adds that a get waits
  no longer than the earliest deadline, so the fallback reason of an empty wait
  is also a real one.
* `SummaryIsSound`: `Spec => []SummarySound`. `PipelineInv` says where each item
  between source and caller is; `AccountInv` equates the counter with the items
  held that have been counted.
* `ImplementsStream`: `Spec => StreamSpec`, the refinement of BoundedStream, step
  by step on top of those invariants.

`TwitchLiveProofs` proves, for any cache limit, budgets, intervals, message IDs and
number of failures, assuming `TwitchAssumption` (limits are natural numbers) and, for
the last theorem only, `TimelyAnswer` (`PingEvery + ReceiveTimeout + Answer < Idle`,
which 60 s, the receive timeout and 180 s leave two minutes for):

* `TypeCorrect`: `Spec => []TypeOK`; with it, that a failure streak ends at
  `MaxAttempts`.
* `RepeatsAreFarApart`: `Spec => []NoEarlyRepeat`. `SeenInv` adds that the cache is
  exactly the end of the sequence of registrations, as long as the limit allows.
* `SocketsAreClosed`: `Spec => []OneSocket`. `SocketInv` says at which program points
  the new, and at which the current connection is open.
* `WatchdogSparesTheLiving`: `Spec => IdleMeansDead`. `QuietInv` bounds, for a receive
  on a living connection, the age of the last line by the age of the last PING, by
  what this receive has waited, or by the age of the PING that is not yet answered.

and of IrcBuffer, for any sequence of messages and PINGs, any cut and any limit:

* `ChunksNeverMatter`: `IrcSpec => []ChunksDoNotMatter`. The property speaks of the items
  that were yielded; what keeps it is in the buffer and in the counter (`IrcInv`).
  `StreamInv` is the grammar of what Twitch sends. `CountInv` says that the counter's state
  is a function of the last piece received alone, so that it is the same for every cut.
  `BufferInv` says that the buffer is the end of what was received, from some place on;
  that each message that begins before this place was parsed whole, once and in order
  (unless the buffer was cut down), and that each one behind it is not complete. What a
  chunk adds keeps it: the window before and the chunk are one window (`WindowsJoin`), the
  matches in a window are its messages (`StartsMean`), and `ProcessedMeans` follows the
  three outcomes of `_process_irc_buffer`: all is taken, the last match is taken and the
  rest kept, or the last match is kept. `DrainedMeans` has the same for the cut: what
  stays of an oversized buffer begins with a line.

`RetrievalProofs` proves of KickPublicTransport, for one or two connections, any number of frames
and polls and any size of the queue (`BoundsAssumption` says no more than that), with
the readers, the owner and the stopping thread interleaved in every way:

* `TypeCorrect`: `Spec => []TypeOK`, which includes that the queue keeps its bound.
* `SessionsAreOwned`: `Spec => []SessionOwned`. `OwnedInv` adds, for each step of the
  set-up, which connections have their session and which readers have not been started,
  so that a reader never starts without one and is never started twice.
* `FailuresAreReported`: `Spec => []ErrorsReported`. `ReportInv` follows each reader
  through its report: the error is on the list from the first step on, the reconnect is
  requested from the second. `EndInv` says that an error goes up only when no reader is
  alive, so none can come too late to be counted.
* `ImplementsMergedFeed`: `Spec => FeedSpec`, the refinement of MergedFeed. `QueueInv`
  is why it holds: what the queue holds of a connection are its next frames, in order
  (`ItemsOrdered`) and without a gap (`ItemsGapless`), and all of those that left their
  reader as long as nothing was dropped (`AllQueued`); frames are dropped only after a
  stop, and then the reader takes on no more. So the head of the queue is always the
  next frame of its connection, and with the queue empty, no reader alive and no stop
  (a stop would have left its sentinel, `EndInv`) everything was handed over.

`RetrievalProofs` proves of ReplayRun, for any recordings and requests, however long the
chat and the pages, whatever the budgets and limits, and with every fault, deadline, stop
and interrupt at any point:

* `ReplayInvHolds`: `ReplaySpec => []ReplayInv`, the invariant the others follow from (TLC
  checked it on the instance of `Replays.cfg` before it was proved). `GivenRight` says of
  what was written and what waits (`Given`) that it was asked for, each record once, in
  order of time. What was asked for and not yet given out is accounted for at each point of
  a retrieval: in a Kick replay it is in the spool or on pages still to come
  (`Collecting`), later among what is left to read back (`Emitting`); in a Twitch replay it
  is on the rest of the page or behind the cursor (`PageAt`); in a recovery everything newer
  than the cursor was yielded (`RecoverySound`); or the diagnostics have counted a loss.
  `SpoolSound` is why overlapping pages yield nothing twice although the seen cache forgets:
  it knows, of what was put away, at least what the next page can show again. `RightlyTold`
  says which answers of the set-up have been accepted at each of its stages, `Claims` what
  success, reason and report may say.
* `RecoveriesAreWhole`: `ReplaySpec => []BackfillIsWhole`.
* `InspectedReplaysAreWhole`: `ReplaySpec => []LedgerSound`. A replay without a finding has
  counters that add up, no loss and a reason that claims the end, and then `KickReplaySound`
  leaves nothing out.
* `SourcesAreRight`: with `Dated`, `ReplaySpec => []RightSource`.
* `PromiseIsKept`: with `Dated`, `ReplaySpec => KeepsPromise`, the refinement of
  ReplayPromise: `Take` appends the next record, `CompleteRecord` and `RecoveryEnds` close,
  every other step is a stutter.

`Dated` says that every comment of a Twitch recording has an offset. Without one a comment
counts as at 0, wherever it was made, and the two theorems would be false: that is the
finding about records without a time (section 5). `ReplayAssumption` says of a recording
and a request what types they have, as `models/_request.py` lets them through, and two
things more. `Ordered`: times follow the provider's order, but for steps back inside the
window of a Kick VOD or recovery. `Remembered`: the seen cache (10,000 identities) holds
what a page can show again. For numeric cursors, which the code compares, that is less than two
pages; an opaque cursor may lead anywhere back, and there the whole recording must
fit. A longer recording whose provider uses opaque cursors and goes back by more than the
cache is out of these theorems' scope.

`CaptureCheckpointProofs` proves, for any replays, message limits, boundary limits and
number of runs, with every step free to fail or to be killed, assuming that each order
delivers each record once, that a second is an integer, and that the markers `Torn`,
`Absent` and `None` are none of the values they are told apart from
(`EventsAssumption`, `NoneAssumption`):

* `TypeCorrect`: `Spec => []TypeOK`, proved together with `FileInv`: that a truncation
  shortens a file rests on the snapshot being no longer than the file.
* `CheckpointsOnlyGrow`: `Spec => CheckpointGrows`. The property compares two saved
  checkpoints; between them lie the steps of a run. `FileInv` says of each of them that
  the outputs begin with what the checkpoint names, and that a record undone is cut off
  behind it. `BoundaryInv` says that boundary, last offset and the boundary to be
  restored are never before the checkpoint's second.
* `RolledBackRunsResume`: `Spec => []RolledBackRunResumes`. A checkpoint is saved only if
  the writers' counts match the run's. `AccountInv` says how far each count is ahead at
  every step of the transaction, and that a rollback restores counts that match, so that
  the save of a run without a lasting failure cannot be refused.
* `ResumePointsAreSound`: `Spec => []ResumePointSound`, with the further assumption that the
  provider's orders are sorted by second (`SortedAssumption`; section 5 says what happens
  with one that is not). The property counts the records of each identity in the raw output
  of a checkpoint. `RawInv` counts them in the output as it grows, in two ways that each
  step must keep together: `Matches` against the boundary (all before its second, of its
  own second what it remembers, nothing behind) and `Progress` against what the run has
  read (behind the old checkpoint what was read; of its second what was read and what of
  it is still to be found again, `overlap`). A record is skipped exactly if it was found
  again, so reading moves one occurrence from `overlap` to what was read. `StageInv` says
  which outputs have the record at each step of the transaction.
* `FormattedOutputsFollow`: `Spec => []FormattedFollowsRaw`. `FormattedInv` carries `Agree`
  through the record, and says that the formatted output holds a form of every paid event
  in the dedup cache, except that of the record being written: were the key of a record
  that was rolled back to stay in the cache, its repetition would be left out for good.
* `CompletedCapturesAreWhole`: `Spec => []CompletedIsWhole`. The end of the replay is read
  with nothing left in `overlap` (or the run fails), and then `Progress` of all records is
  the whole replay.

`KickLiveProofs` proves, for any window, budgets, number of messages, events and lost
links, with polled or pushed events, and any difference between the two clocks
(`BoundsAssumption` says of them what types they have):

* `TypeCorrect`: `Spec => []TypeOK`. `TypeInv` adds that nothing is said in the future of
  the provider's clock and that the budgets end the capture.
* `RecoversWhatWasMissed`: with `Skew <= 0`, `Spec => RecoversFromSeen`. `AckInv` says that
  a recovery is due from the loss on until the chat feed's acknowledgement has been read,
  and that no text of a link comes before its acknowledgement, so that the checkpoint cannot
  move past the outage on the way (an event moves it, which is the finding; the property
  speaks of the checkpoint as it stands). The rest is arithmetic about the window of the
  query: it reaches back to the checkpoint, or is truncated and counted. With a positive
  skew a query that is made before the skew is known ends before the newest messages
  (section 7), hence the hypothesis.

`YouTubeContinuationProofs` proves, for any chat, request, set of profiles and limits
(`ChatAssumption` says of them what types they have; a chat has a page, and a poll or
fallback limit is a number):

* `TypeCorrect`: `Spec => []TypeOK`, with the paid-event cache within its limit.
* `RequestsNameOneClient`: `Spec => []OneFingerprint`. `FingerprintInv` says what of the
  session belongs to the profile in every step of the set-up, and orders the profiles
  (`Rank`): a profile that was refused a token comes before the one in use, and so does
  the one the token at hand was given to. A fallback goes up in that order, so no refused
  token can return.
* `AcceptedIsFinal`: `Spec => NoRestart`. `AcceptedInv` says that an accepted response
  leaves the set-up for good; that the poll position does not go back is shown over the
  actions of a page.
* `EndedRetrievalsAreWhole`: with `TimeOrdered`, `Spec => []EndedIsWhole`. `WholeInv` says
  that of all pages before the token's everything wanted was emitted and that nothing else
  was. `PageEmits` follows the loop over a page: it emits what is wanted up to the first
  action beyond the range and then stops, whence the hypothesis that the chat is told in
  order of time: the code relies on it, and leaves out what comes later if it does not
  hold.
* `TickersAreCompleted`: with `NumbersDiffer` (an action's number is its own, as the model
  means it), `Spec => []TickerDetails`. `Placed` gives every remembered event its place in
  what was processed: the places grow, each is the newest with its ID, and what is not
  remembered any longer is older than all of them and there is no more room. A ticker's
  newest event is then remembered exactly if fewer than `PaidLimit` IDs came after it
  (`DetailsAreNewest`); that renewing an event moves it behind all others is what keeps
  this true (`GrownFollows`, `DroppedFollows`).

`RunPartsProofs` also proves five results about what a run stands on, each for any values
of the constants:

* `PoolIsSound`: `PoolSpec => []PoolSound`. `PoolInv` adds what the four parts of the
  property lack: no cookie is newer than the last change and the cookie file is forgotten
  with the first clearing (`JarInv`), so a session made later cannot bring a cleared
  cookie back; and sessions that were given up are closed (`SessionInv`), so a chat's
  session that closes is not one that was given up before the chat began (`ChatInv`).
* `CacheStaysInStep`: `CacheSpec => []CacheInStep`. `PartialSums` says what the sizes of
  either part of a sequence cut in two add up to, so that what an eviction takes off the
  books is what it takes out (`Evicts`); that an entry which fits by itself fits when all
  others are gone is why the loop ends with room.
* `FilesAreSound`: `FilesSpec => []OutputsSound`. `FileSound` says of one file what a line
  appended to it, a repair and a kill inside a line keep (`LineSound`, `RepairSound`);
  `FilesInv` adds which files the record in hand has not reached yet (`Awaits`), that the
  names a run writes to are files of their own once the title is known, and no text where
  a raw file may be (`WritersInv`, from `DistinctOf` and `TextOnRawRefused`: a conflict
  between the names given is one between those that stand), and that with new files each
  holds just the records of this run (`OwnInv`). Assumed of the constants: what others left
  are whole lines in order but for a torn last one (`LeftInOrder`), and a run that asks for
  text where a raw file may be asks for both (`TextBesideRaw`); a run with the text name
  alone would append text to another run's raw file, and the code does not look.
* `AuditsAreExact`: `AuditSpec => []AuditIsExact`. The audit reads both files once, side by
  side, with the writers' bounded cache; the property speaks of whole files and has no
  cache. `Audited(n)` joins them after n lines: the cache holds the last of the shown
  events since the last reset, in order, and if one is missing it is full and all it holds
  came later (`LastSeen`), so that an event is known to the cache exactly if fewer than
  `SeenEvents` were shown since (`ShownUnlessCached`); and the lines expected in the text
  are as many as are shown, none of them missed or different exactly if each is in its
  place (`TextRead`, `RenderedMeans`). A record that cannot be read ends that alignment, so
  this part holds only while there was none. Assumed of the constants: what a file or a
  checkpoint can be (`Capture`), and a cache for at least one event.
* `VerdictsAreTrue`: `VerdictSpec => []VerdictSound`. Every part of the property compares
  two readings of the same facts: the counters with what was written (`Kept`, `NotedRight`),
  the counters with what went wrong (`Accounted`: the frames that are counted and have no
  outcome yet are just the one in hand, the lines just those of the chunk in hand), the
  inspection of the file with what the run took (`FileCounts`), and a judgement with a
  later one (`Judged`, `KickJudged`). What makes the last hold is where a provider's
  iterator can still stand: one that is alive after the join keeps the counts from being
  called complete (`Placed`, `NotedRight`), and one that was joined stands between two
  items, with no frame undecided. Assumed of the constants (`VerdictAssumption`): the types
  of a run's options; that lines of others, which a run may find, are told from records and
  exclude an earlier run of one's own; and that only YouTube's runs continue an earlier one.
`KickConnectionProofs` proves, for any cadences, lifetimes and bounds (`LinkAssumption`):

* `LinkIsSound`: with `Margins`, `LinkSpec => []LinkSound`. Each deadline is set by a step
  that is over when it matters, so `LinkInv` says of each clock what the provider still
  owes before it runs out, while the provider is in order (`OnTime`): of a command, that
  its answer is due or on the wire (`CommandsInTime`); of the heartbeat and the watchdog,
  the next line or event that will restart them (`BeatInTime`, `IdleInTime`); of the
  provider's lease and its unanswered ping, that the reader gets to the renewal and to the
  ping first (`LeaseInTime`, `PongInTime`). `Delay(k)` is what may still pass before the
  k-th line on the wire has been read: the ticks the queue may hold the reader back, and a
  token request if one is due or a line before it makes one due. `Standing` is what
  these rest on (a command is answered once, one token at a time, nothing is framed before the
  connection is accepted), and `Patience` bounds how long the reader listens to a provider
  that is not in order. A batch of lines is followed line by line (`Decodings`).
  `LinkInv` was checked by TLC, part by part, on three instances before it was proved. The
  proof corrected the model: the reader's hold-backs had been bounded over the whole
  connection, the constants lacked their types, and the share of a token's life that
  `NeverThrownOut` asks for counted one hold-back where two may come, one before the line
  that makes the renewal due and one behind it. `Margins` is what the code's
  times are chosen for: an answer comes before the 10 s of a command
  (`_ack_timeout`), the queue and a token request hold the reader back for less than the provider's
  ping interval (25 s), and the heartbeat's and the watchdog's 180 s are longer than a ping
  and both of these. The request's own timeouts (10 s to connect, 30 s to read) allow more
  than that: of a token request that is slower than ten seconds the theorem says nothing.

`Induction` has the least member of a set of numbers, induction as a statement about a set
(the provers cannot instantiate one about an operator), and the largest member. With it a
fold over a sequence or a recursive function is unrolled into a function of the number of
steps done (`IterationExists`; `Unrolled`, `Flattened` in YouTubeContinuationProofs,
`PartialSums`, `RecordsRead`, `NamesTaken`, `ShownObeys` in RunPartsProofs; `Sorted`,
`SelectedOneByOne`, `RecoveredOneByOne` in RetrievalProofs), and a loop is
followed by induction over that number.

Model-checked only: all liveness (`ReadReturns`, `SourceReleased`, `ReconnectEnds`,
`ClosedReleases`, `StopEnds`, `DeadLinkLeft`, `EveryRetrievalEnds`, `EveryReplayEnds`), since
the provers have neither fairness nor ENABLED. Every other property of a
passing run, each safety invariant, action property and refinement, has its theorem. The type invariants of the proved state machines are
proved and not run; those of the others document the state.

## 7. Limits of the models

* A second signal restores the default handler and may kill the program anywhere;
  CaptureCheckpoint has it as an interrupt in the record or a kill, TimedGenerator
  has one interrupt.
* A signal deferred until the source ends (`interrupts.py:41`) decides whether the run
  reports an interrupt; no record or checkpoint depends on it. CaptureCheckpoint does not
  keep that result, and RunVerdict interrupts the capture anywhere, without deferral.
* A crash of the operating system that loses written bytes is not modelled: a kill
  keeps what was written.
* Two processes at one checkpoint are excluded by the lock file; the models run
  one process at a time.
* The dedup caches of CaptureCheckpoint and KickLive never evict (TwitchLive's does). A provider that
  repeats an ID after more than the cache's limit is out of their scope.
* A positive skew that is still unknown when the startup backfill is asked for can
  hide the newest messages from it; `KickLive.cfg` takes the clock behind or in
  step.
* The consumer closing a suspended Kick generator (`GeneratorExit`) takes the same
  `finally` as a stop and is not a separate action.
* A timer re-armed while it is being cancelled leaves a daemon thread that does
  nothing; it is not modelled as a leak.
* A `message_receive_timeout` of two minutes or more does not satisfy `TimelyAnswer`:
  the watchdog may then expire on a quiet connection in the same receive timeout that
  sends its first PING.
* TwitchLive: a RECONNECT without tags is not matched by `MESSAGE_REGEX` and is no
  item; bare line feeds, malformed lines and the 128-character limit of the PING
  counter's prefix are left out, as are badges, whose refresh swallows its errors.
* Replays: the provider's next Kick cursor never skips a record; it may overlap the page
  by a record, repeat it, or not move; the one fault is an earlier page served again.
  Times may step back inside the window, not across its start. Twitch's comments are in
  order of time, a page has all its cursors or none, and behind the full document only the
  last page lacks them. `max_messages` is positive, as the options demand; the seen cache
  of a recovery holds its whole record budget. A worker that misses the bounded join is
  waiting for an answer.
* SitePool: the downloader is used by one thread; calls that are refused before they
  change anything are left out; a constructor that raises leaves no session of the pool.
* OutputFiles: the process is killed, the disk is not; records are written one line at a
  time.
* KickConnection: the discovery of the Pusher key, proxies and the TLS handshake are left
  out. Time is scaled: an answer's delay, the read and the token request together stay
  within the margins the code leaves (a fifth of the token, the heartbeat's grace), and a
  consumer that stays behind for longer than a ping interval is out of its scope. A line
  that ends the connection drops the frames before it in its batch, as `_decode` does;
  the recovery of KickLive then restores them.
* RunVerdict: two provider events in a run, an unbounded seen cache, interrupts during the
  capture only, a comparison (CaptureAudit) whose outcome is free. Frames of the sockets
  and those made from a poll are counted alike, and so are the records of a first and a
  later recovery. `InspectionExact` asks less of Twitch, whose inspection looks at lines
  and records alone; the count of prefetched items is a lower bound when a worker outlives
  the join, as the manifest says.

**Not modelled**, with reasons: the field mapping of the parsers (`sites/*/parsing/`),
formatting, redaction, time and string helpers and the option parser are pure functions
of text or of provider objects, whose correctness is about wording and shape and is
tested with samples; `models/` holds validated options; discovery of YouTube playlists,
Twitch channels and Pusher's key are single requests whose failure the models have as a
failed set-up; sleeping, logging and sample captures have no effect on what is retrieved.
