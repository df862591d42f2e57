------------------------- MODULE CaptureCheckpoint -------------------------
(***************************************************************************)
(* A checkpointed replay capture, over any number of runs of the program:  *)
(* runtime/capture_checkpoint.py with the parts of sites/models.py,        *)
(* sites/output_dispatch.py, utils/interrupts.py and runtime/runner.py     *)
(* that one record goes through.                                           *)
(*                                                                         *)
(* A run reads the provider's replay, drops what an earlier run committed, *)
(* writes each record to every output inside a transaction, advances its   *)
(* boundary, and on shutdown saves a checkpoint that names the outputs'    *)
(* contents.  Any step of it may fail; the first interrupt is deferred over*)
(* a record, the second is not; the process may be killed anywhere.        *)
(***************************************************************************)
EXTENDS Integers, Sequences, FiniteSets, SequencesExt

CONSTANTS
    Events,         \* the replay's records
    Offset,         \* their replay time, in seconds
    Identity,       \* _event_identity
    PaidKey,        \* the key formatted outputs deduplicate on, or None
    Orders,         \* the orders in which the provider may deliver the replay
    Limits,         \* the max_messages a run may be started with
    BoundaryLimits, \* the values of _BOUNDARY_LIMIT to consider
    MaxRuns,        \* bound: runs of the program
    None,           \* no offset, no limit, no checkpoint
    Absent,         \* a file that does not exist
    Torn            \* the bytes of a record that was not written completely

Raw == "jsonl"
Formatted == "txt"
Writers == <<Raw, Formatted>>     \* in the order they were attached
WriterSet == {Raw, Formatted}
Identities == {Identity[e] : e \in Events}

\* What the files hold: the outputs, and the checkpoint.
Seconds == {Offset[e] : e \in Events}
Contents == Seq(Events \cup {Torn})
Boundaries == [offset : Seconds \cup {None}, events : [Identities -> Nat]]
Checkpoints == [offset : Seconds \cup {None}, events : [Identities -> Nat], total : Nat,
                completed : BOOLEAN, artifacts : [WriterSet -> Contents \cup {Absent}]]

ASSUME EventsAssumption ==
    /\ \A order \in Orders : order \in Seq(Events) /\ IsInjective(order)
    /\ \A order \in Orders : ToSet(order) = Events
    /\ Torn \notin Events /\ Absent \notin Contents
    /\ Seconds \subseteq Int

\* The provider sorts its replay.  One that steps back is refused by remaining(), but
\* only after the checkpoint was bound (see README).
ASSUME SortedAssumption ==
    \A order \in Orders : \A j, k \in DOMAIN order : j <= k => Offset[order[j]] <= Offset[order[k]]

ASSUME NoneAssumption == None \notin Int /\ None \notin Checkpoints

VARIABLES
    files,         \* the outputs: what each file holds
    checkpoint,    \* the checkpoint file, or None
    lock,          \* the <checkpoint>.lock file exists
    runs,          \* runs started so far
    boundaryLimit, \* _BOUNDARY_LIMIT: identities remembered at one offset; never changes
    pc,            \* where the run is; "down" when no process is running
    order, pos,    \* the replay of this run, and how much of it has been read
    prior,         \* _prior_offset and _prior_events
    boundary,      \* offset and events
    overlap,       \* remaining()'s copy of the prior events
    lastOffset,    \* remaining()'s last_offset
    yielded,       \* remaining()'s emitted
    limit, total, completed,
    count,         \* result.message_count
    item, todo,    \* the record being emitted, the outputs it has still to reach
    show,          \* emit_formatted of this record
    seen,          \* the formatted deduplicator's cache
    written,       \* _records_written_by_writer
    suppressed,    \* _formatted_duplicates_suppressed
    snapshot,      \* what record_transaction restores
    counters,      \* what advance() restores
    signals,       \* interrupts delivered to this run
    pending,       \* the deferred interrupt
    recoveryFailed, writeErrors,
    failed         \* history: something of this run went wrong for good

fileVars == <<files, checkpoint, lock, runs, boundaryLimit>>
readVars == <<order, pos, prior, overlap, lastOffset, yielded, limit, total, completed>>
recordVars == <<item, todo, show, seen, written, suppressed, snapshot, counters>>
countVars == <<boundary, count>>
signalVars == <<signals, pending>>
errorVars == <<recoveryFailed, writeErrors, failed>>

vars == <<files, checkpoint, lock, runs, boundaryLimit, pc, order, pos, prior, boundary, overlap,
          lastOffset, yielded, limit, total, completed, count, item, todo, show, seen,
          written, suppressed, snapshot, counters, signals, pending, recoveryFailed,
          writeErrors, failed>>

NoEvents == [i \in Identities |-> 0]
NoBoundary == [offset |-> None, events |-> NoEvents]
Empty == [w \in WriterSet |-> 0]

-----------------------------------------------------------------------------
Init ==
    /\ files = [w \in WriterSet |-> Absent]
    /\ checkpoint = None /\ lock = FALSE /\ runs = 0 /\ boundaryLimit \in BoundaryLimits /\ pc = "down"
    /\ order = <<>> /\ pos = 0 /\ prior = NoBoundary /\ boundary = NoBoundary
    /\ overlap = NoEvents /\ lastOffset = None /\ yielded = 0
    /\ limit = None /\ total = 0 /\ completed = FALSE /\ count = 0
    /\ item = None /\ todo = <<>> /\ show = FALSE /\ seen = {}
    /\ written = Empty /\ suppressed = 0
    /\ snapshot = None /\ counters = None
    /\ signals = 0 /\ pending = FALSE
    /\ recoveryFailed = FALSE /\ writeErrors = 0 /\ failed = FALSE

-----------------------------------------------------------------------------
(* A run starts: checkpoint_lock, CaptureCheckpoint.__init__ and _load,    *)
(* bind.  A run that is refused changes nothing.                           *)

\* _load refuses changed artifacts; a new checkpoint needs absent outputs.
MayResume ==
    IF checkpoint # None THEN files = checkpoint.artifacts
    ELSE \A w \in WriterSet : files[w] = Absent

\* The run restarts at floor(offset) - 1, but what the provider returns from
\* there includes at least the whole boundary second: reading from the start
\* only adds records that are dropped one by one.
Start ==
    /\ pc = "down" /\ ~lock /\ runs < MaxRuns
    /\ MayResume
    /\ LET saved == IF checkpoint = None THEN NoBoundary
                    ELSE [offset |-> checkpoint.offset, events |-> checkpoint.events] IN
       /\ prior' = saved /\ boundary' = saved /\ overlap' = saved.events
       /\ lastOffset' = saved.offset
    /\ total' = IF checkpoint = None THEN 0 ELSE checkpoint.total
    /\ order' \in Orders /\ limit' \in Limits
    /\ lock' = TRUE /\ runs' = runs + 1 /\ pc' = "read"
    /\ pos' = 0 /\ yielded' = 0 /\ completed' = FALSE /\ count' = 0
    /\ item' = None /\ todo' = <<>> /\ show' = FALSE /\ seen' = {}
    /\ written' = Empty /\ suppressed' = 0 /\ snapshot' = None /\ counters' = None
    /\ signals' = 0 /\ pending' = FALSE
    /\ recoveryFailed' = FALSE /\ writeErrors' = 0 /\ failed' = FALSE
    /\ UNCHANGED <<files, checkpoint, boundaryLimit>>

-----------------------------------------------------------------------------
(* Reading: Chat.__next__ down to remaining().  advance() has taken its    *)
(* copies, and record_transaction the sizes, before the read begins.       *)

\* The sizes are what this run has written, not what the file holds.
Sizes_ThisRun == [w \in WriterSet |-> written[w]]

Sizes == [w \in WriterSet |-> IF files[w] = Absent THEN 0 ELSE Len(files[w])]

\* Everything at the boundary second is taken for already committed.
Committed_WholeSecond(e) ==
    prior.offset # None /\ Offset[e] <= prior.offset

\* Already committed: before the boundary, or one of its remembered events.
Committed(e) ==
    /\ prior.offset # None
    /\ \/ Offset[e] < prior.offset
       \/ Offset[e] = prior.offset /\ overlap[Identity[e]] > 0

Remembered == {i \in Identities : boundary.events[i] > 0}

\* "Replay offsets moved backwards; checkpoint not advanced."
MovedBackwards(e) == lastOffset # None /\ Offset[e] < lastOffset

\* "Checkpoint timestamp has too many message IDs."
Crowded(e) == /\ boundary.offset # None /\ Offset[e] = boundary.offset
              /\ Identity[e] \notin Remembered
              /\ Cardinality(Remembered) >= boundaryLimit

Rejected(e) == MovedBackwards(e) \/ Crowded(e)

AtLimit == limit # None /\ yielded > 0 /\ yielded >= limit
Reading == pc = "read" /\ ~AtLimit /\ pos < Len(order)
NextEvent == order[pos + 1]

SkipCommitted ==
    /\ Reading /\ Committed(NextEvent)
    /\ pos' = pos + 1
    /\ overlap' = IF Offset[NextEvent] = prior.offset
                  THEN [overlap EXCEPT ![Identity[NextEvent]] = @ - 1] ELSE overlap
    /\ UNCHANGED <<fileVars, pc, order, prior, lastOffset, yielded, limit, total,
                   completed, recordVars, countVars, signalVars, errorVars>>

\* emit() decides once per record whether the formatted outputs show it.
ReadRecord ==
    /\ Reading /\ ~Committed(NextEvent) /\ ~Rejected(NextEvent)
    /\ LET key == PaidKey[NextEvent] IN
       /\ show' = (key = None \/ key \notin seen)
       /\ seen' = IF key = None THEN seen ELSE seen \cup {key}
    /\ item' = NextEvent /\ todo' = Writers
    /\ pos' = pos + 1 /\ yielded' = yielded + 1 /\ lastOffset' = Offset[NextEvent]
    /\ snapshot' = [sizes |-> Sizes, written |-> written, suppressed |-> suppressed]
    /\ counters' = [boundary |-> boundary, count |-> count]
    /\ pc' = "open"
    /\ UNCHANGED <<fileVars, order, prior, overlap, limit, total, completed, written,
                   suppressed, countVars, signalVars, errorVars>>

\* remaining() raises ValueError for the record; no output was touched.
ReadRejected ==
    /\ Reading /\ ~Committed(NextEvent) /\ Rejected(NextEvent)
    /\ pc' = "close"
    /\ UNCHANGED <<fileVars, readVars, recordVars, countVars, signalVars,
                   recoveryFailed, writeErrors, failed>>

\* The provider or a deadline ends the read with an error; an interrupt is
\* immediate here.  No output was touched.
ReadFails ==
    /\ pc = "read"
    /\ pc' = "close"
    /\ UNCHANGED <<fileVars, readVars, recordVars, countVars, signalVars, errorVars>>

\* Reaching the message limit counts as reaching the end.
ReadEnds_LimitCompletes ==
    /\ pc = "read" /\ (AtLimit \/ pos = Len(order))
    /\ completed' \in {TRUE, FALSE}
    /\ pc' = "close"
    /\ UNCHANGED <<fileVars, order, pos, prior, overlap, lastOffset, yielded, limit,
                   total, recordVars, countVars, signalVars, errorVars>>

\* Exhausted, or stopped by a deadline with a reason of its own.
ReadEnds ==
    /\ pc = "read" /\ (AtLimit \/ pos = Len(order))
    /\ completed' \in IF AtLimit THEN {FALSE} ELSE {TRUE, FALSE}
    /\ pc' = "close"
    /\ UNCHANGED <<fileVars, order, pos, prior, overlap, lastOffset, yielded, limit,
                   total, recordVars, countVars, signalVars, errorVars>>

-----------------------------------------------------------------------------
(* One record through every output: _ChatOutputDispatcher.emit.            *)

Grown(w, value) == Append(files[w], value)

\* The run's first record opens every output, in append mode, creating it empty.
OpenOutputs ==
    /\ pc = "open"
    /\ files' = [w \in WriterSet |-> IF files[w] = Absent THEN <<>> ELSE files[w]]
    /\ pc' = "write"
    /\ UNCHANGED <<checkpoint, lock, runs, boundaryLimit, readVars, recordVars, countVars, signalVars,
                   errorVars>>

\* One of them cannot be opened; those before it have been.
OpenFails ==
    /\ pc = "open" /\ yielded = 1
    /\ \E opened \in {{}, {Raw}} :
         files' = [w \in WriterSet |->
                     IF w \in opened /\ files[w] = Absent THEN <<>> ELSE files[w]]
    /\ pc' = "unwind"
    /\ UNCHANGED <<checkpoint, lock, runs, boundaryLimit, readVars, recordVars, countVars, signalVars,
                   errorVars>>

\* A formatted output that does not show the record only counts it, once.
WriteSkipped ==
    /\ pc = "write" /\ todo # <<>> /\ Head(todo) = Formatted /\ ~show
    /\ suppressed' = suppressed + 1
    /\ todo' = Tail(todo)
    /\ UNCHANGED <<fileVars, pc, readVars, item, show, seen, written, snapshot, counters,
                   countVars, signalVars, errorVars>>

WriteRecord ==
    /\ pc = "write" /\ todo # <<>> /\ (Head(todo) = Formatted => show)
    /\ LET w == Head(todo) IN
       /\ files' = [files EXCEPT ![w] = Grown(w, item)]
       /\ written' = [written EXCEPT ![w] = @ + 1]
    /\ todo' = Tail(todo)
    /\ UNCHANGED <<checkpoint, lock, runs, boundaryLimit, pc, readVars, item, show, seen, suppressed,
                   snapshot, counters, countVars, signalVars, errorVars>>

\* The write or its flush fails part way.
WriteFails ==
    /\ pc = "write" /\ todo # <<>> /\ (Head(todo) = Formatted => show)
    /\ \E torn \in BOOLEAN :
         files' = IF torn THEN [files EXCEPT ![Head(todo)] = Grown(Head(todo), Torn)]
                  ELSE files
    /\ pc' = "unwind"
    /\ UNCHANGED <<checkpoint, lock, runs, boundaryLimit, readVars, recordVars, countVars, signalVars,
                   errorVars>>

\* observe(): the boundary is the newest second and what was written of it.
Observe(e) ==
    LET events == IF Offset[e] = boundary.offset THEN boundary.events ELSE NoEvents IN
    [offset |-> Offset[e], events |-> [events EXCEPT ![Identity[e]] = @ + 1]]

CountRecord ==
    /\ pc = "write" /\ todo = <<>>
    /\ boundary' = Observe(item)
    /\ count' = count + 1
    /\ pc' = "commit"
    /\ UNCHANGED <<fileVars, readVars, recordVars, signalVars, errorVars>>

\* The transaction ends; the runner's own boundary raises a pending interrupt.
Commit ==
    /\ pc = "commit"
    /\ item' = None /\ snapshot' = None /\ counters' = None
    /\ pc' = IF pending THEN "close" ELSE "read"
    /\ pending' = FALSE
    /\ UNCHANGED <<fileVars, readVars, todo, show, seen, written, suppressed, countVars,
                   signals, errorVars>>

-----------------------------------------------------------------------------
(* Interrupts (utils/interrupts.py, cli.py).                               *)

\* The first interrupt, while a record is being written, only sets a flag.
DeferInterrupt ==
    /\ pc \in {"open", "write", "commit"} /\ signals = 0
    /\ signals' = 1 /\ pending' = TRUE
    /\ UNCHANGED <<fileVars, pc, readVars, recordVars, countVars, errorVars>>

\* The second one is raised where it lands.  Inside the record it unwinds the
\* write like a failure; after the boundary moved it is past the handler that
\* restores the boundary, and only the transaction is undone.
InterruptRecord ==
    /\ pc \in {"open", "write", "commit"} /\ signals = 1
    /\ signals' = 2 /\ pending' = FALSE
    /\ pc' = IF pc = "commit" THEN "truncate" ELSE "unwind"
    /\ todo' = IF pc = "commit" THEN Writers ELSE todo
    /\ failed' = (failed \/ pc = "commit")
    /\ UNCHANGED <<fileVars, readVars, item, show, seen, written, suppressed, snapshot,
                   counters, countVars, recoveryFailed, writeErrors>>

-----------------------------------------------------------------------------
(* A record that failed is undone: Chat.__next__ closes the outputs, then  *)
(* advance() restores the boundary and record_transaction the files.       *)

\* The boundary is put back; the failed output's close() may still flush bytes,
\* or fail and be counted.
Unwind ==
    /\ pc = "unwind"
    /\ boundary' = counters.boundary /\ count' = counters.count
    /\ \E flushed \in BOOLEAN, error \in {0, 1} :
         /\ files' = IF flushed /\ todo # <<>> /\ files[Head(todo)] # Absent
                     THEN [files EXCEPT ![Head(todo)] = Append(@, Torn)] ELSE files
         /\ writeErrors' = writeErrors + error
         /\ failed' = (failed \/ error = 1)
    /\ todo' = Writers
    /\ pc' = "truncate"
    /\ UNCHANGED <<checkpoint, lock, runs, boundaryLimit, readVars, item, show, seen, written,
                   suppressed, snapshot, counters, signalVars, recoveryFailed>>

Truncate ==
    /\ pc = "truncate" /\ todo # <<>>
    /\ LET w == Head(todo) IN
       files' = IF files[w] = Absent THEN files
                ELSE [files EXCEPT ![w] = SubSeq(@, 1, snapshot.sizes[w])]
    /\ todo' = Tail(todo)
    /\ UNCHANGED <<checkpoint, lock, runs, boundaryLimit, pc, readVars, item, show, seen, written,
                   suppressed, snapshot, counters, countVars, signalVars, errorVars>>

\* truncate() fails, or the second interrupt lands here.
TruncateFails ==
    /\ pc = "truncate"
    /\ recoveryFailed' = TRUE /\ failed' = TRUE
    /\ pc' = "close"
    /\ UNCHANGED <<fileVars, readVars, recordVars, countVars, signalVars, writeErrors>>

\* The files are restored, the counts of what was written to them are not.
Recovered_KeepsCounts ==
    /\ pc = "truncate" /\ todo = <<>>
    /\ item' = None /\ snapshot' = None /\ counters' = None
    /\ pc' = "close"
    /\ UNCHANGED <<fileVars, readVars, todo, show, seen, written, suppressed, countVars,
                   signalVars, errorVars>>

Recovered ==
    /\ pc = "truncate" /\ todo = <<>>
    /\ written' = snapshot.written /\ suppressed' = snapshot.suppressed
    /\ item' = None /\ snapshot' = None /\ counters' = None
    /\ pc' = "close"
    /\ UNCHANGED <<fileVars, readVars, todo, show, seen, countVars, signalVars,
                   errorVars>>

-----------------------------------------------------------------------------
(* Shutdown: _finalize_run, checkpoint.save, and the lock.                 *)

\* Closing an output or the provider may fail, which unbinds the checkpoint.
CloseOutputs ==
    /\ pc = "close"
    /\ \/ UNCHANGED <<writeErrors, failed>>
       \/ writeErrors' = writeErrors + 1 /\ failed' = TRUE
    /\ pc' = "save"
    /\ UNCHANGED <<fileVars, readVars, recordVars, countVars, signalVars, recoveryFailed>>

\* A transaction that could not be undone does not stop the save.
CountsMatch_IgnoresRecovery ==
    /\ written[Raw] = count
    /\ written[Formatted] = count - suppressed

\* counts_match(): each output took the records the run counted.
CountsMatch ==
    /\ ~recoveryFailed
    /\ written[Raw] = count
    /\ written[Formatted] = count - suppressed

Save ==
    /\ pc = "save" /\ writeErrors = 0 /\ CountsMatch
    /\ total' = total + count
    /\ checkpoint' = [offset |-> boundary.offset, events |-> boundary.events,
                      total |-> total + count, completed |-> completed,
                      artifacts |-> files]
    /\ pc' = "unlock"
    /\ UNCHANGED <<files, lock, runs, boundaryLimit, order, pos, prior, overlap, lastOffset, yielded,
                   limit, completed, recordVars, countVars, signalVars, errorVars>>

\* "Checkpoint not saved: output records disagree."
SaveRefused ==
    /\ pc = "save" /\ ~(writeErrors = 0 /\ CountsMatch)
    /\ pc' = "unlock"
    /\ UNCHANGED <<fileVars, readVars, recordVars, countVars, signalVars, errorVars>>

\* The file cannot be written, or an interrupt ends the shutdown: the old
\* checkpoint stays.
SaveFails ==
    /\ pc = "save"
    /\ failed' = TRUE
    /\ pc' = "unlock"
    /\ UNCHANGED <<fileVars, readVars, recordVars, countVars, signalVars, recoveryFailed,
                   writeErrors>>

Unlock ==
    /\ pc = "unlock"
    /\ lock' = FALSE
    /\ pc' = "down"
    /\ UNCHANGED <<files, checkpoint, runs, boundaryLimit, readVars, recordVars, countVars, signalVars,
                   errorVars>>

-----------------------------------------------------------------------------
(* The process is killed, possibly half way through a write; its lock file *)
(* stays until an operator removes it.                                     *)

Crash ==
    /\ pc # "down"
    /\ \E torn \in BOOLEAN :
         files' = IF torn /\ pc = "write" /\ todo # <<>>
                  THEN [files EXCEPT ![Head(todo)] = Grown(Head(todo), Torn)] ELSE files
    /\ pc' = "down"
    /\ failed' = TRUE
    /\ UNCHANGED <<checkpoint, lock, runs, boundaryLimit, readVars, recordVars, countVars, signalVars,
                   recoveryFailed, writeErrors>>

RemoveStaleLock ==
    /\ pc = "down" /\ lock
    /\ lock' = FALSE
    /\ UNCHANGED <<files, checkpoint, runs, boundaryLimit, pc, readVars, recordVars, countVars,
                   signalVars, errorVars>>

Next ==
    \/ Start \/ SkipCommitted \/ ReadRecord \/ ReadRejected \/ ReadFails \/ ReadEnds
    \/ OpenOutputs \/ OpenFails
    \/ WriteSkipped \/ WriteRecord \/ WriteFails \/ CountRecord \/ Commit
    \/ DeferInterrupt \/ InterruptRecord
    \/ Unwind \/ Truncate \/ TruncateFails \/ Recovered
    \/ CloseOutputs \/ Save \/ SaveRefused \/ SaveFails \/ Unlock
    \/ Crash \/ RemoveStaleLock

Spec == Init /\ [][Next]_vars

-----------------------------------------------------------------------------
(* Properties                                                              *)

InRecord == {"open", "write", "commit", "unwind", "truncate"}

\* Type correctness of what a run reads, remembers and writes
\* (CaptureCheckpoint.__init__, _ChatOutputDispatcher.__init__).
TypeOK ==
    /\ files \in [WriterSet -> Contents \cup {Absent}]
    /\ checkpoint \in Checkpoints \cup {None}
    /\ lock \in BOOLEAN /\ runs \in Nat /\ boundaryLimit \in BoundaryLimits
    /\ pc \in {"down", "read", "close", "save", "unlock"} \cup InRecord
    /\ order \in Seq(Events) /\ pos \in 0..Len(order) /\ yielded \in Nat /\ count \in Nat
    /\ prior \in Boundaries /\ boundary \in Boundaries /\ overlap \in [Identities -> Nat]
    /\ lastOffset \in Seconds \cup {None}
    /\ total \in Nat /\ suppressed \in Nat /\ written \in [WriterSet -> Nat]
    /\ todo \in {Writers, <<Formatted>>, <<>>}
    /\ pc \in {"open", "write", "commit"} => item \in Events
    /\ pc \in InRecord =>
         /\ snapshot \in [sizes : [WriterSet -> Nat], written : [WriterSet -> Nat], suppressed : Nat]
         /\ counters \in [boundary : Boundaries, count : Nat]
    /\ signals \in 0..2 /\ writeErrors \in Nat
    /\ completed \in BOOLEAN /\ show \in BOOLEAN /\ pending \in BOOLEAN
    /\ recoveryFailed \in BOOLEAN /\ failed \in BOOLEAN

\* How often a record of the set is in the sequence, and the records that the
\* checkpoint cannot tell apart.
Times(s, set) == Cardinality({k \in 1..Len(s) : s[k] \in set})
Alike(i, second) == {e \in Events : Identity[e] = i /\ Offset[e] = second}

Held(w) == IF checkpoint.artifacts[w] = Absent THEN <<>> ELSE checkpoint.artifacts[w]

\* A checkpoint is a place to resume from: the raw output it names holds each
\* earlier record of the replay once, of the boundary second exactly what the
\* checkpoint remembers, nothing later, and nothing torn - whatever failed,
\* was rolled back, or was interrupted on the way (capture_checkpoint.py:295,346).
ResumePointSound ==
    checkpoint # None =>
      /\ \A w \in WriterSet : Torn \notin ToSet(Held(w))
      /\ Len(Held(Raw)) = checkpoint.total
      /\ \A i \in Identities, second \in Seconds :
           Times(Held(Raw), Alike(i, second)) =
             IF checkpoint.offset = None \/ second > checkpoint.offset THEN 0
             ELSE IF second < checkpoint.offset THEN Cardinality(Alike(i, second))
             ELSE checkpoint.events[i]

\* The formatted output follows the raw one: every record that is not a paid
\* notice as often, every paid notice at least once and never more often
\* (output_dispatch.py:170, _message_dedup.py:44).
Keyed(key) == {e \in Events : PaidKey[e] = key}

FormattedFollowsRaw ==
    checkpoint # None =>
      /\ \A e \in Keyed(None) : Times(Held(Formatted), {e}) = Times(Held(Raw), {e})
      /\ \A key \in {PaidKey[e] : e \in Events} \ {None} :
           LET raw == Times(Held(Raw), Keyed(key))
               formatted == Times(Held(Formatted), Keyed(key))
           IN  formatted <= raw /\ (raw > 0 => formatted > 0)

\* A new checkpoint never takes back what an older one vouched for: its outputs
\* extend the older outputs and its boundary is not before the older boundary
\* (record_transaction's truncation, output_dispatch.py:195).
CheckpointGrows ==
    [][checkpoint # None /\ checkpoint' # checkpoint =>
         /\ \A w \in WriterSet : IsPrefix(Held(w), Held(w)')
         /\ checkpoint.offset # None =>
              checkpoint'.offset # None /\ checkpoint'.offset >= checkpoint.offset]_vars

\* A run in which every failed record was rolled back and nothing failed during
\* shutdown leaves outputs the next run may append to, also after an interrupt
\* or a failed write (docs/cli-usage.md:436).
RolledBackRunResumes ==
    pc = "down" /\ runs > 0 /\ ~lock /\ ~failed => MayResume

\* A checkpoint marked completed holds the whole replay, over however many runs
\* it was captured (capture_checkpoint.py:331).
CompletedIsWhole ==
    checkpoint # None /\ checkpoint.completed =>
      \A i \in Identities, second \in Seconds :
        Times(Held(Raw), Alike(i, second)) = Cardinality(Alike(i, second))

=============================================================================
