------------------------ MODULE KickPublicTransport ------------------------
(***************************************************************************)
(* sites/kick/public_transport.py: one owner thread that sets up one or two*)
(* connections and then calls recv(), one reader thread per connection that*)
(* puts frames into a bounded queue, and another thread that may request a *)
(* stop at any moment.  Any of them may ask for a reconnect, which ends the*)
(* transport: the owner's caller closes it and builds a new one.           *)
(***************************************************************************)
EXTENDS Integers, Sequences, FiniteSets

CONSTANTS
    NumFeeds,    \* 2 with public events (chat and channel), else 1 (chat)
    MaxFrames,   \* bound: the frames each connection sends
    QueueSize,   \* _queue's maxsize
    MaxPolls,    \* bound: metadata polls
    MaxChanged   \* bound: snapshots one poll finds changed (2: metadata, viewers)

Feeds == 1..NumFeeds
Owner == 0
Actors == Feeds \cup {Owner}
PublicEvents == NumFeeds = 2

ASSUME BoundsAssumption ==
    /\ NumFeeds \in {1, 2} /\ QueueSize \in Nat \ {0}
    /\ MaxFrames \in [Feeds -> Nat] /\ MaxPolls \in Nat /\ MaxChanged \in 0..2

Conn == "connection"     \* a ConnectionError: reconnect
Access == "access"       \* any other error, such as KickRealtimeRejected
Kinds == {Conn, Access}
Sentinel == [feed |-> Owner, n |-> 0]   \* the ConnectionError request_stop() queues

VARIABLES
    pc,          \* the owner: connect(), subscribe(), set_timeout(), recv(), close()
    idx,         \* the connection it is setting up
    outcome,     \* how the transport ended for its caller, or "none"
    stopped,     \* _stopped
    stopper,     \* the other thread in request_stop()
    reconnect,   \* _reconnect_requested
    errors,      \* _reader_errors
    queue,       \* _queue
    sock,        \* per connection: its socket
    client,      \* per connection: its KickRealtimeClient
    reader,      \* per connection: its thread
    report,      \* per actor: its progress in _request_reconnect()
    cause,       \* per actor: the error it fails with
    accepted, delivered,   \* frames taken on, and the last one handed over
    pending,     \* _pending: snapshots not yet handed over
    polls        \* polls so far

ownerVars == <<pc, idx, outcome, pending, polls>>
stopVars == <<stopped, stopper>>
errorVars == <<reconnect, errors, report, cause>>
readerVars == <<reader, client, accepted>>

vars == <<pc, idx, outcome, stopped, stopper, reconnect, errors, queue, sock, client,
          reader, report, cause, accepted, delivered, pending, polls>>

Init ==
    /\ pc = "negotiate" /\ idx = 1 /\ outcome = "none"
    /\ stopped = FALSE /\ stopper = "idle"
    /\ reconnect = FALSE /\ errors = <<>> /\ queue = <<>>
    /\ sock = [f \in Feeds |-> "unopened"]
    /\ client = [f \in Feeds |-> "none"]
    /\ reader = [f \in Feeds |-> "unstarted"]
    /\ report = [a \in Actors |-> 0] /\ cause = [a \in Actors |-> Conn]
    /\ accepted = [f \in Feeds |-> 0] /\ delivered = [f \in Feeds |-> 0]
    /\ pending = 0 /\ polls = 0

Started == {f \in Feeds : reader[f] # "unstarted"}
Alive(f) == reader[f] \notin {"unstarted", "done"}
Aborted == [f \in Feeds |-> IF sock[f] = "open" THEN "aborted" ELSE sock[f]]

-----------------------------------------------------------------------------
(* Setting up, on the owner thread.  _check_stopped() follows every step   *)
(* that waits for the network; whatever fails, the caller closes.          *)

SetUp(next) ==
    \/ ~stopped /\ pc' = next /\ UNCHANGED outcome
    \/ pc' = "close" /\ outcome' = (IF stopped THEN "stopped" ELSE "setup")

Negotiate ==
    /\ pc = "negotiate"
    /\ client' = [client EXCEPT ![idx] = "open"]
    /\ SetUp("dial")
    /\ UNCHANGED <<idx, stopVars, errorVars, queue, sock, reader, accepted, delivered,
                   pending, polls>>

Dial ==
    /\ pc = "dial"
    /\ \/ /\ sock' = [sock EXCEPT ![idx] = "open"]
          /\ SetUp(IF idx = NumFeeds THEN "subscribe" ELSE "negotiate")
       \/ /\ pc' = "close" /\ outcome' = "setup"
          /\ UNCHANGED sock
    /\ idx' = IF idx = NumFeeds THEN 1 ELSE idx + 1
    /\ UNCHANGED <<stopVars, errorVars, queue, readerVars, delivered, pending, polls>>

Subscribe ==
    /\ pc = "subscribe"
    /\ SetUp("start")
    /\ UNCHANGED <<idx, stopVars, errorVars, queue, sock, readerVars, delivered, pending,
                   polls>>

\* set_timeout(): configures the socket, which may fail, and starts its reader.
StartReader ==
    /\ pc = "start"
    /\ \/ /\ reader' = [reader EXCEPT ![idx] = "read"]
          /\ IF stopped THEN pc' = "close" /\ outcome' = "stopped"
             ELSE pc' = (IF idx = NumFeeds THEN "recv" ELSE "start") /\ UNCHANGED outcome
       \/ /\ pc' = "close" /\ outcome' = (IF stopped THEN "stopped" ELSE "setup")
          /\ UNCHANGED reader
    /\ idx' = IF idx = NumFeeds THEN 1 ELSE idx + 1
    /\ UNCHANGED <<stopVars, errorVars, queue, sock, client, accepted, delivered, pending,
                   polls>>

-----------------------------------------------------------------------------
(* A reader thread: _read().                                               *)

\* A frame arrives; a reader that sees the stop drops it and leaves.  One that was
\* decoded with an earlier line of its batch is handed over after an abort, too.
Receive(f) ==
    /\ reader[f] = "read" /\ sock[f] # "unopened" /\ accepted[f] < MaxFrames[f]
    /\ IF stopped
       THEN reader' = [reader EXCEPT ![f] = "exit"] /\ UNCHANGED accepted
       ELSE /\ reader' = [reader EXCEPT ![f] = "put"]
            /\ accepted' = [accepted EXCEPT ![f] = @ + 1]
    /\ UNCHANGED <<ownerVars, stopVars, errorVars, queue, sock, client, delivered>>

\* A reader waits for room also when the owner has gone.
Put_IgnoresStop(f) ==
    /\ reader[f] = "put" /\ Len(queue) < QueueSize
    /\ queue' = Append(queue, [feed |-> f, n |-> accepted[f]])
    /\ reader' = [reader EXCEPT ![f] = "check"]
    /\ UNCHANGED <<ownerVars, stopVars, errorVars, sock, client, accepted, delivered>>

\* _put(): waits for room in slices of 0.1 s, as long as nobody stopped.
Put(f) ==
    /\ reader[f] = "put"
    /\ \/ /\ Len(queue) < QueueSize
          /\ queue' = Append(queue, [feed |-> f, n |-> accepted[f]])
       \/ stopped /\ UNCHANGED queue
    /\ reader' = [reader EXCEPT ![f] = "check"]
    /\ UNCHANGED <<ownerVars, stopVars, errorVars, sock, client, accepted, delivered>>

CheckReconnect(f) ==
    /\ reader[f] = "check"
    /\ reader' = [reader EXCEPT ![f] = IF reconnect THEN "exit" ELSE "read"]
    /\ UNCHANGED <<ownerVars, stopVars, errorVars, queue, sock, client, accepted, delivered>>

\* Of the errors after a reconnect was requested, ConnectionErrors are expected.
Recorded(kind) == ~(reconnect /\ kind = Conn)

\* read_frames() raises: the socket was aborted or closed, went idle, or the
\* provider refused it, which a token renewal under way may learn after an abort.
ReaderFails(f) ==
    /\ reader[f] = "read" /\ sock[f] # "unopened"
    /\ \E kind \in Kinds :
         /\ cause' = [cause EXCEPT ![f] = kind]
         /\ IF Recorded(kind)
            THEN /\ report' = [report EXCEPT ![f] = 1]
                 /\ reader' = [reader EXCEPT ![f] = "report"]
            ELSE /\ reader' = [reader EXCEPT ![f] = "exit"]
                 /\ UNCHANGED report
    /\ UNCHANGED <<ownerVars, stopVars, reconnect, errors, queue, sock, client, accepted,
                   delivered>>

\* The finally block: the reader owns its socket and its HTTP session.
ReaderExit(f) ==
    /\ reader[f] = "exit" \/ (reader[f] = "report" /\ report[f] = 0)
    /\ reader' = [reader EXCEPT ![f] = "done"]
    /\ sock' = [sock EXCEPT ![f] = "closed"]
    /\ client' = [client EXCEPT ![f] = "closed"]
    /\ UNCHANGED <<ownerVars, stopVars, errorVars, queue, accepted, delivered>>

-----------------------------------------------------------------------------
(* _request_reconnect(), on a reader or on the owner.                      *)

ReportSteps == <<"record", "flag", "abort">>

\* Only the connection that failed is torn down.
Torn_OwnOnly(a) == IF a = Owner THEN Aborted ELSE [sock EXCEPT ![a] = "aborted"]

\* transport.request_stop() for every connection.
Torn(a) == Aborted

Report(a) ==
    /\ report[a] > 0
    /\ LET step == ReportSteps[report[a]] IN
       /\ errors' = IF step = "record" THEN Append(errors, cause[a]) ELSE errors
       /\ reconnect' = (reconnect \/ step = "flag")
       /\ sock' = IF step = "abort" THEN Torn(a) ELSE sock
    /\ report' = [report EXCEPT ![a] = (@ + 1) % 4]
    /\ UNCHANGED <<ownerVars, stopVars, cause, queue, readerVars, delivered>>

-----------------------------------------------------------------------------
(* The owner in recv().                                                    *)

Calling == pc = "recv" /\ report[Owner] = 0

Ends(result) == pc' = "close" /\ outcome' = result

RecvStopped ==
    /\ Calling /\ stopped
    /\ Ends("stopped")
    /\ UNCHANGED <<idx, stopVars, errorVars, queue, sock, readerVars, delivered, pending,
                   polls>>

\* _poll(): snapshots that changed are queued; perhaps the category's feeds did.
Poll ==
    /\ Calling /\ ~stopped /\ PublicEvents /\ ~reconnect /\ polls < MaxPolls
    /\ polls' = polls + 1
    /\ \E changed \in 0..MaxChanged : pending' = pending + changed
    /\ \E categoryChanged \in BOOLEAN :
         IF categoryChanged
         THEN /\ report' = [report EXCEPT ![Owner] = 1]
              /\ cause' = [cause EXCEPT ![Owner] = Conn]
         ELSE UNCHANGED <<report, cause>>
    /\ UNCHANGED <<pc, idx, outcome, stopVars, reconnect, errors, queue, sock, readerVars,
                   delivered>>

RecvPending ==
    /\ Calling /\ ~stopped /\ pending > 0
    /\ pending' = pending - 1
    /\ UNCHANGED <<pc, idx, outcome, polls, stopVars, errorVars, queue, sock, readerVars,
                   delivered>>

HandOver(item) ==
    IF item = Sentinel THEN Ends("stopped") /\ UNCHANGED delivered
    ELSE /\ delivered' = [delivered EXCEPT ![item.feed] = item.n]
         /\ pc' = "recv" /\ UNCHANGED outcome

RecvItem ==
    /\ Calling /\ pending = 0 /\ queue # <<>>
    /\ queue' = Tail(queue)
    /\ HandOver(Head(queue))
    /\ UNCHANGED <<idx, stopVars, errorVars, sock, readerVars, pending, polls>>

\* The timed get() found nothing for a second.
RecvEmpty ==
    /\ Calling /\ ~stopped /\ pending = 0 /\ queue = <<>>
    /\ pc' = "empty"
    /\ UNCHANGED <<idx, outcome, stopVars, errorVars, queue, sock, readerVars, delivered,
                   pending, polls>>

ReadersGone == reconnect /\ \A f \in Feeds : ~Alive(f)

AfterEmpty ==
    /\ pc = "empty"
    /\ pc' = IF ReadersGone THEN "drain" ELSE "recv"
    /\ UNCHANGED <<idx, outcome, stopVars, errorVars, queue, sock, readerVars, delivered,
                   pending, polls>>

\* The error left by the first failure is the outcome.
ReaderError_First == Head(errors)

\* _reader_error(): the first error that is not a ConnectionError, else the last.
ReaderError ==
    IF \E i \in 1..Len(errors) : errors[i] = Access THEN Access ELSE Conn

\* The error goes up without looking into the queue again.
Drain_NoSecondLook ==
    /\ pc = "drain"
    /\ errors # <<>> /\ Ends(ReaderError) /\ errors' = <<ReaderError>>
    /\ UNCHANGED <<idx, stopVars, reconnect, report, cause, sock, readerVars, pending,
                   polls, queue, delivered>>

\* get_nowait(): a reader may have published between the timeout and its exit.
Drain ==
    /\ pc = "drain"
    /\ IF queue # <<>>
       THEN queue' = Tail(queue) /\ HandOver(Head(queue)) /\ UNCHANGED errors
       ELSE /\ errors # <<>>
            /\ Ends(ReaderError)
            /\ errors' = <<ReaderError>>
            /\ UNCHANGED <<queue, delivered>>
    /\ UNCHANGED <<idx, stopVars, reconnect, report, cause, sock, readerVars, pending,
                   polls>>

-----------------------------------------------------------------------------
(* request_stop(), from another thread, and close(), on the owner.         *)

\* The flag, and a wake-up for the owner if there is room for one.
StopFlag ==
    /\ ~stopped
    /\ stopped' = TRUE
    /\ queue' = IF Len(queue) < QueueSize THEN Append(queue, Sentinel) ELSE queue

RequestStop ==
    /\ stopper = "idle" /\ StopFlag
    /\ stopper' = "abort"
    /\ UNCHANGED <<ownerVars, errorVars, sock, readerVars, delivered>>

RequestStopAbort ==
    /\ stopper = "abort"
    /\ sock' = Aborted
    /\ stopper' = "done"
    /\ UNCHANGED <<ownerVars, stopped, errorVars, queue, readerVars, delivered>>

\* A second request_stop() returns early; the first one's aborts may be to come.
Close ==
    /\ pc = "close"
    /\ IF stopped THEN UNCHANGED <<stopped, queue, sock>> ELSE StopFlag /\ sock' = Aborted
    /\ pc' = "join"
    /\ UNCHANGED <<idx, outcome, stopper, errorVars, readerVars, delivered, pending, polls>>

\* Every client is closed here, with its reader gone or not.
Join_ClosesAll ==
    /\ pc = "join"
    /\ sock' = [f \in Feeds |-> IF sock[f] = "unopened" THEN "unopened" ELSE "closed"]
    /\ client' = [f \in Feeds |-> IF client[f] = "none" THEN "none" ELSE "closed"]
    /\ pc' = "closed"
    /\ UNCHANGED <<idx, outcome, stopVars, errorVars, queue, reader, accepted, delivered,
                   pending, polls>>

\* The joins give up after 0.2 s each.  A started reader closes its client itself.
Join ==
    /\ pc = "join"
    /\ sock' = [f \in Feeds |-> IF sock[f] = "unopened" THEN "unopened" ELSE "closed"]
    /\ client' = [f \in Feeds |-> IF client[f] = "none" \/ f \in Started THEN client[f]
                                  ELSE "closed"]
    /\ pc' = "closed"
    /\ UNCHANGED <<idx, outcome, stopVars, errorVars, queue, reader, accepted, delivered,
                   pending, polls>>

-----------------------------------------------------------------------------
OwnerStep ==
    \/ Negotiate \/ Dial \/ Subscribe \/ StartReader
    \/ RecvStopped \/ RecvPending \/ RecvItem \/ RecvEmpty \/ AfterEmpty \/ Drain
    \/ Close \/ Join
    \/ Report(Owner)

\* What a reader thread does without waiting for the provider.
ReaderStep(f) ==
    \/ Put(f) \/ CheckReconnect(f) \/ ReaderExit(f)
    \/ sock[f] # "open" /\ ReaderFails(f)
    \/ Report(f)

Next ==
    \/ OwnerStep \/ Poll
    \/ \E f \in Feeds : ReaderStep(f) \/ Receive(f) \/ ReaderFails(f)
    \/ RequestStop \/ RequestStopAbort

\* The owner's caller keeps calling recv(); threads are scheduled.  A provider
\* may stay silent, and nobody has to stop.
Fairness ==
    /\ WF_vars(OwnerStep) /\ WF_vars(RequestStopAbort)
    /\ \A f \in Feeds : WF_vars(ReaderStep(f))

Spec == Init /\ [][Next]_vars /\ Fairness

-----------------------------------------------------------------------------
(* Properties                                                              *)

\* Type correctness of the transport's state (KickPublicTransport.__init__).
TypeOK ==
    /\ pc \in {"negotiate", "dial", "subscribe", "start", "recv", "empty", "drain",
              "close", "join", "closed"}
    /\ idx \in Feeds /\ outcome \in Kinds \cup {"none", "setup", "stopped"}
    /\ stopped \in BOOLEAN /\ reconnect \in BOOLEAN /\ stopper \in {"idle", "abort", "done"}
    /\ errors \in Seq(Kinds)
    /\ queue \in Seq([feed : Actors, n : Nat]) /\ Len(queue) <= QueueSize
    /\ sock \in [Feeds -> {"unopened", "open", "aborted", "closed"}]
    /\ client \in [Feeds -> {"none", "open", "closed"}]
    /\ reader \in [Feeds -> {"unstarted", "read", "put", "check", "report", "exit", "done"}]
    /\ report \in [Actors -> 0..3]
    /\ cause \in [Actors -> Kinds]
    /\ accepted \in [Feeds -> Nat] /\ delivered \in [Feeds -> Nat]
    /\ pending \in Nat /\ polls \in 0..MaxPolls

\* The readers, the queue and the second look after a timeout merge the
\* connections without loss or reordering (public_transport.py:315).
Feed == INSTANCE MergedFeed WITH
    ended <- IF outcome = "none" THEN "no"
             ELSE IF outcome \in Kinds THEN "failed" ELSE "stopped"

FeedSpec == Feed!Spec

\* A connection never goes quiet by itself: a reader that has ended has told
\* the others, or somebody stopped the transport (public_transport.py:144).
NoSilentReader ==
    \A f \in Feeds : reader[f] = "done" => reconnect \/ stopped

\* An error that is no reconnect wins over those that are, whichever reader
\* failed first (public_transport.py:338).
AccessErrorWins ==
    outcome = Conn => \A f \in Feeds : cause[f] # Access

\* What ends the feed is reported, and as what it was.
ErrorsReported == NoSilentReader /\ AccessErrorWins

\* A reader's HTTP session is not closed under it (public_transport.py:371).
SessionOwned ==
    \A f \in Feeds : Alive(f) => client[f] = "open"

\* After a reconnect was requested recv() raises, however full the queue is: all
\* readers end, and there is an error to raise (public_transport.py:324, 340).
ReconnectEnds == reconnect ~> outcome # "none"

\* After close(), every reader ends and every session is released, also when
\* the joins gave up (public_transport.py:363).
ClosedReleases ==
    pc = "closed" ~> \A f \in Feeds : ~Alive(f) /\ client[f] # "open"
=============================================================================
