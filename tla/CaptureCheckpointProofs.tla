----------------------- MODULE CaptureCheckpointProofs -----------------------
(***************************************************************************)
(* TLAPS proofs about CaptureCheckpoint, for any replay, orders, limits and *)
(* number of runs: its types, that a run which rolled back what failed can *)
(* be followed by another, and that a checkpoint only ever grows; then what *)
(* it is worth: that where it resumes nothing is lost or repeated, that     *)
(* what is not its own follows it, and that what it completes is whole.     *)
(***************************************************************************)
EXTENDS CaptureCheckpoint, FiniteSetTheorems, SequenceTheorems, TLAPS

Bytes == Events \cup {Torn}

-----------------------------------------------------------------------------
(* Files.                                                                  *)

\* What an output holds, a missing file nothing.
Content(file) == IF file = Absent THEN <<>> ELSE file

InRun == pc \notin {"down", "unlock"}

\* During a run the outputs begin with what the checkpoint names, and a record that is
\* undone is cut off behind it.
FileInv ==
    /\ pc = "write" => \A w \in WriterSet : files[w] # Absent
    /\ pc \in InRecord => \A w \in WriterSet : snapshot.sizes[w] <= Len(Content(files[w]))
    /\ InRun /\ checkpoint # None =>
         \A w \in WriterSet :
           /\ IsPrefix(Held(w), Content(files[w]))
           /\ pc \in InRecord => Len(Held(w)) <= snapshot.sizes[w]

LEMMA PrefixPointwise ==
    ASSUME NEW s \in Seq(Bytes), NEW t \in Seq(Bytes)
    PROVE  IsPrefix(s, t) <=> Len(s) <= Len(t) /\ \A i \in 1..Len(s) : s[i] = t[i]
<1>1. Len(s) \in Nat /\ Len(t) \in Nat
  BY LenProperties
<1>2. ASSUME Len(s) <= Len(t)
      PROVE  /\ Len(SubSeq(s, 1, Len(s))) = Len(s) /\ Len(SubSeq(t, 1, Len(s))) = Len(s)
             /\ \A i \in 1..Len(s) : SubSeq(s, 1, Len(s))[i] = s[i] /\ SubSeq(t, 1, Len(s))[i] = t[i]
             /\ SubSeq(s, 1, Len(s)) \in Seq(Bytes) /\ SubSeq(t, 1, Len(s)) \in Seq(Bytes)
  BY <1>1, <1>2, SubSeqProperties
<1>3. ASSUME Len(s) <= Len(t), \A i \in 1..Len(s) : s[i] = t[i]
      PROVE  SubSeq(s, 1, Len(s)) = SubSeq(t, 1, Len(s))
  BY <1>1, <1>2, <1>3, SeqEqual
<1> QED BY <1>2, <1>3 DEF IsPrefix

LEMMA PrefixAppend ==
    ASSUME NEW s \in Seq(Bytes), NEW t \in Seq(Bytes), NEW e \in Bytes, IsPrefix(s, t)
    PROVE  IsPrefix(s, Append(t, e))
<1>1. Append(t, e) \in Seq(Bytes) /\ Len(Append(t, e)) = Len(t) + 1
      /\ \A i \in 1..Len(t) : Append(t, e)[i] = t[i]
  BY AppendProperties
<1>2. Len(s) \in Nat /\ Len(t) \in Nat
  BY LenProperties
<1>3. Len(s) <= Len(t) /\ \A i \in 1..Len(s) : s[i] = t[i]
  BY PrefixPointwise
<1> DEFINE longer == Append(t, e)
<1>4. Len(s) <= Len(longer) /\ \A i \in 1..Len(s) : s[i] = longer[i]
  BY <1>1, <1>2, <1>3
<1>5. longer \in Seq(Bytes)
  BY <1>1
<1> HIDE DEF longer
<1>6. IsPrefix(s, longer)
  BY <1>4, <1>5, PrefixPointwise
<1> QED BY <1>6 DEF longer

LEMMA PrefixCut ==
    ASSUME NEW s \in Seq(Bytes), NEW t \in Seq(Bytes), NEW n \in Nat, IsPrefix(s, t),
           Len(s) <= n, n <= Len(t)
    PROVE  IsPrefix(s, SubSeq(t, 1, n))
<1>1. Len(s) \in Nat /\ Len(t) \in Nat
  BY LenProperties
<1>2. SubSeq(t, 1, n) \in Seq(Bytes) /\ Len(SubSeq(t, 1, n)) = n
      /\ \A i \in 1..n : SubSeq(t, 1, n)[i] = t[i]
  BY <1>1, SubSeqProperties
<1>3. Len(s) <= Len(t) /\ \A i \in 1..Len(s) : s[i] = t[i]
  BY PrefixPointwise
<1> DEFINE cut == SubSeq(t, 1, n)
<1>4. Len(s) <= Len(cut) /\ \A i \in 1..Len(s) : s[i] = cut[i]
  BY <1>1, <1>2, <1>3
<1>5. cut \in Seq(Bytes)
  BY <1>2
<1> HIDE DEF cut
<1>6. IsPrefix(s, cut)
  BY <1>4, <1>5, PrefixPointwise
<1> QED BY <1>6 DEF cut

LEMMA PrefixSelf == ASSUME NEW s \in Seq(Bytes) PROVE IsPrefix(s, s)
  BY PrefixPointwise, LenProperties

LEMMA WriterFacts ==
    /\ Raw \in WriterSet /\ Formatted \in WriterSet /\ Raw # Formatted
    /\ \A w \in WriterSet : w = Raw \/ w = Formatted
    /\ Writers # <<>> /\ Head(Writers) = Raw /\ Tail(Writers) = <<Formatted>>
    /\ <<Formatted>> # <<>> /\ Head(<<Formatted>>) = Formatted /\ Tail(<<Formatted>>) = <<>>
    /\ Writers # <<Formatted>>
  BY DEF Raw, Formatted, WriterSet, Writers

-----------------------------------------------------------------------------
(* Type correctness, part by part.                                         *)

FileType ==
    /\ files \in [WriterSet -> Contents \cup {Absent}] /\ checkpoint \in Checkpoints \cup {None}
    /\ lock \in BOOLEAN /\ runs \in Nat /\ boundaryLimit \in BoundaryLimits /\ total \in Nat
ReadType ==
    /\ order \in Seq(Events) /\ pos \in 0..Len(order) /\ yielded \in Nat
    /\ prior \in Boundaries /\ overlap \in [Identities -> Nat]
    /\ lastOffset \in Seconds \cup {None} /\ completed \in BOOLEAN
CountType == boundary \in Boundaries /\ count \in Nat
WriteType ==
    /\ suppressed \in Nat /\ written \in [WriterSet -> Nat] /\ todo \in {Writers, <<Formatted>>, <<>>}
    /\ show \in BOOLEAN
RecordType ==
    /\ pc \in {"down", "read", "close", "save", "unlock"} \cup InRecord
    /\ pc \in {"open", "write", "commit"} => item \in Events
    /\ pc \in InRecord =>
         /\ snapshot \in [sizes : [WriterSet -> Nat], written : [WriterSet -> Nat], suppressed : Nat]
         /\ counters \in [boundary : Boundaries, count : Nat]
FlagType ==
    /\ signals \in 0..2 /\ writeErrors \in Nat
    /\ pending \in BOOLEAN /\ recoveryFailed \in BOOLEAN /\ failed \in BOOLEAN

LEMMA TypeParts ==
    TypeOK <=> FileType /\ ReadType /\ CountType /\ WriteType /\ RecordType /\ FlagType
  BY DEF TypeOK, FileType, ReadType, CountType, WriteType, RecordType, FlagType

LEMMA ConstantFacts ==
    /\ None \notin Seconds /\ Absent \notin Contents /\ <<>> \in Contents
    /\ NoEvents \in [Identities -> Nat] /\ NoBoundary \in Boundaries
    /\ Events \subseteq Bytes /\ Torn \in Bytes /\ Contents = Seq(Bytes)
    /\ \A e \in Events : Offset[e] \in Seconds /\ Identity[e] \in Identities
    /\ Empty \in [WriterSet -> Nat] /\ Seconds \subseteq Int
<1>1. NoEvents \in [Identities -> Nat] /\ Empty \in [WriterSet -> Nat]
  BY DEF NoEvents, Empty
<1>2. NoBoundary \in Boundaries
  BY <1>1 DEF NoBoundary, Boundaries
<1>3. <<>> \in Contents
  BY EmptySeq DEF Contents
<1> QED BY <1>1, <1>2, <1>3, EventsAssumption, NoneAssumption
        DEF Seconds, Identities, Bytes, Contents

\* What a checkpoint and a boundary consist of.
LEMMA SavedFacts ==
    /\ \A b \in Boundaries : b.offset \in Seconds \cup {None} /\ b.events \in [Identities -> Nat]
    /\ \A o \in Seconds \cup {None}, m \in [Identities -> Nat] : [offset |-> o, events |-> m] \in Boundaries
    /\ \A c \in Checkpoints :
         /\ c # None /\ c.offset \in Seconds \cup {None} /\ c.events \in [Identities -> Nat]
         /\ c.total \in Nat /\ c.artifacts \in [WriterSet -> Contents \cup {Absent}]
  BY NoneAssumption DEF Boundaries, Checkpoints

LEMMA ContentFacts ==
    ASSUME FileType
    PROVE  \A w \in WriterSet : /\ files[w] \in Contents \cup {Absent} /\ Content(files[w]) \in Seq(Bytes)
                                /\ Len(Content(files[w])) \in Nat
  BY ConstantFacts, LenProperties DEF FileType, Content

LEMMA TypeInit == Init => TypeOK
<1> SUFFICES ASSUME Init PROVE TypeOK
  OBVIOUS
<1>1. ReadType
  <2>1. order \in Seq(Events) /\ pos \in 0..Len(order)
    BY EmptySeq DEF Init
  <2>2. lastOffset = None /\ completed = FALSE /\ yielded = 0 /\ prior = NoBoundary /\ overlap = NoEvents
    BY DEF Init
  <2> QED BY <2>1, <2>2, ConstantFacts DEF ReadType
<1>2. FileType
  BY ConstantFacts DEF Init, FileType
<1>3. CountType /\ WriteType
  BY ConstantFacts DEF Init, CountType, WriteType
<1>4. RecordType
  BY DEF Init, RecordType, InRecord
<1>5. FlagType
  <2>1. signals \in 0..2 /\ writeErrors \in Nat
    BY DEF Init
  <2>2. pending \in BOOLEAN /\ recoveryFailed \in BOOLEAN /\ failed \in BOOLEAN
    BY DEF Init
  <2> QED BY <2>1, <2>2 DEF FlagType
<1> QED BY <1>1, <1>2, <1>3, <1>4, <1>5, TypeParts

\* The next record of the replay.
LEMMA NextEventType ==
    ASSUME ReadType, Reading
    PROVE  /\ NextEvent \in Events /\ pos + 1 \in 0..Len(order)
           /\ Offset[NextEvent] \in Seconds /\ Identity[NextEvent] \in Identities
<1>1. order \in Seq(Events) /\ Len(order) \in Nat /\ pos \in 0..Len(order)
  BY LenProperties DEF ReadType
<1>2. pos + 1 \in 1..Len(order)
  BY <1>1 DEF Reading
<1>3. NextEvent \in Events
  BY <1>1, <1>2, ElementOfSeq DEF NextEvent
<1> QED BY <1>2, <1>3, ConstantFacts

LEMMA GrownType ==
    ASSUME FileType, NEW w \in WriterSet, files[w] # Absent, NEW e \in Bytes
    PROVE  Append(files[w], e) \in Contents
<1>1. files[w] \in Seq(Bytes)
  BY ConstantFacts DEF FileType
<1> QED BY <1>1, AppendProperties, ConstantFacts

LEMMA ReadTypeNext == FileType /\ ReadType /\ [Next]_vars => ReadType'
<1> SUFFICES ASSUME FileType, ReadType, [Next]_vars PROVE ReadType'
  OBVIOUS
<1> USE DEF fileVars, readVars, recordVars, countVars, signalVars, errorVars
<1>1. CASE UNCHANGED vars
  <2>1. UNCHANGED <<order, pos, yielded, prior, overlap, lastOffset, completed>>
    BY <1>1 DEF vars
  <2> QED BY <2>1 DEF ReadType
<1>2. CASE
    \/ ReadRejected \/ ReadFails \/ OpenOutputs \/ OpenFails \/ WriteSkipped
    \/ WriteRecord \/ WriteFails \/ CountRecord \/ Commit \/ DeferInterrupt
    \/ InterruptRecord \/ Unwind \/ Truncate \/ TruncateFails \/ Recovered
    \/ CloseOutputs \/ Save \/ SaveRefused \/ SaveFails \/ Unlock \/ Crash
    \/ RemoveStaleLock
  <2>1. UNCHANGED <<order, pos, yielded, prior, overlap, lastOffset, completed>>
    BY <1>2 DEF
        ReadRejected, ReadFails, OpenOutputs, OpenFails, WriteSkipped, WriteRecord,
        WriteFails, CountRecord, Commit, DeferInterrupt, InterruptRecord, Unwind,
        Truncate, TruncateFails, Recovered, CloseOutputs, Save, SaveRefused, SaveFails,
        Unlock, Crash, RemoveStaleLock, fileVars, readVars, recordVars, countVars,
        signalVars, errorVars
  <2> QED BY <2>1 DEF ReadType
<1>3. CASE Start
  <2>1. order' \in Seq(Events) /\ pos' \in 0..Len(order')
    BY <1>3, EventsAssumption, LenProperties DEF Start
  <2>2. prior' \in Boundaries /\ prior'.offset \in Seconds \cup {None} /\ prior'.events \in [Identities -> Nat]
    <3>1. CASE checkpoint = None
      BY <1>3, <3>1, ConstantFacts, SavedFacts DEF Start
    <3>2. CASE checkpoint # None
      BY <1>3, <3>2, SavedFacts DEF Start, FileType
    <3> QED BY <3>1, <3>2
  <2>3. overlap' = prior'.events /\ lastOffset' = prior'.offset /\ yielded' = 0 /\ completed' = FALSE
    BY <1>3 DEF Start
  <2> QED BY <2>1, <2>2, <2>3 DEF ReadType
<1>4. CASE SkipCommitted
  <2>1. pos' \in 0..Len(order) /\ Identity[NextEvent] \in Identities
    BY <1>4, NextEventType DEF SkipCommitted
  <2>2. overlap' \in [Identities -> Nat]
    <3>1. CASE Offset[NextEvent] = prior.offset
      <4>1. overlap[Identity[NextEvent]] \in Nat \ {0}
        <5>1. Offset[NextEvent] \in Int
          BY <1>4, NextEventType, ConstantFacts DEF SkipCommitted
        <5>2. overlap[Identity[NextEvent]] \in Nat
          BY <2>1 DEF ReadType
        <5> QED BY <1>4, <3>1, <5>1, <5>2 DEF SkipCommitted, Committed
      <4>2. overlap' = [overlap EXCEPT ![Identity[NextEvent]] = overlap[Identity[NextEvent]] - 1]
        BY <1>4, <3>1 DEF SkipCommitted
      <4> QED BY <2>1, <4>1, <4>2 DEF ReadType
    <3>2. CASE Offset[NextEvent] # prior.offset
      BY <1>4, <3>2 DEF SkipCommitted, ReadType
    <3> QED BY <3>1, <3>2
  <2> QED BY <1>4, <2>1, <2>2 DEF SkipCommitted, ReadType
<1>5. CASE ReadRecord
  BY <1>5, NextEventType DEF ReadRecord, ReadType
<1>6. CASE ReadEnds
  BY <1>6 DEF ReadEnds, ReadType
<1> QED BY <1>1, <1>2, <1>3, <1>4, <1>5, <1>6
        DEF Next

LEMMA CountTypeNext == FileType /\ CountType /\ RecordType /\ [Next]_vars => CountType'
<1> SUFFICES ASSUME FileType, CountType, RecordType, [Next]_vars PROVE CountType'
  OBVIOUS
<1> USE DEF fileVars, readVars, recordVars, countVars, signalVars, errorVars
<1>1. CASE UNCHANGED vars
  <2>1. UNCHANGED <<boundary, count>>
    BY <1>1 DEF vars
  <2> QED BY <2>1 DEF CountType
<1>2. CASE
    \/ SkipCommitted \/ ReadRecord \/ ReadRejected \/ ReadFails \/ ReadEnds
    \/ OpenOutputs \/ OpenFails \/ WriteSkipped \/ WriteRecord \/ WriteFails
    \/ Commit \/ DeferInterrupt \/ InterruptRecord \/ Truncate \/ TruncateFails
    \/ Recovered \/ CloseOutputs \/ Save \/ SaveRefused \/ SaveFails \/ Unlock
    \/ Crash \/ RemoveStaleLock
  <2>1. UNCHANGED <<boundary, count>>
    BY <1>2 DEF
        SkipCommitted, ReadRecord, ReadRejected, ReadFails, ReadEnds, OpenOutputs,
        OpenFails, WriteSkipped, WriteRecord, WriteFails, Commit, DeferInterrupt,
        InterruptRecord, Truncate, TruncateFails, Recovered, CloseOutputs, Save,
        SaveRefused, SaveFails, Unlock, Crash, RemoveStaleLock, fileVars, readVars,
        recordVars, countVars, signalVars, errorVars
  <2> QED BY <2>1 DEF CountType
<1>3. CASE Start
  <2>1. boundary' \in Boundaries
    <3>1. CASE checkpoint = None
      BY <1>3, <3>1, ConstantFacts DEF Start
    <3>2. CASE checkpoint # None
      BY <1>3, <3>2, SavedFacts DEF Start, FileType
    <3> QED BY <3>1, <3>2
  <2> QED BY <1>3, <2>1 DEF Start, CountType
<1>4. CASE CountRecord
  <2>1. item \in Events /\ Offset[item] \in Seconds /\ Identity[item] \in Identities
    BY <1>4, ConstantFacts DEF CountRecord, RecordType
  <2> DEFINE events == IF Offset[item] = boundary.offset THEN boundary.events ELSE NoEvents
  <2>2. events \in [Identities -> Nat]
    BY ConstantFacts, SavedFacts DEF CountType
  <2> HIDE DEF events
  <2>3. [events EXCEPT ![Identity[item]] = events[Identity[item]] + 1] \in [Identities -> Nat]
    BY <2>1, <2>2
  <2>4. boundary' = [offset |-> Offset[item],
                     events |-> [events EXCEPT ![Identity[item]] = events[Identity[item]] + 1]]
    BY <1>4 DEF CountRecord, Observe, events
  <2>5. boundary' \in Boundaries
    BY <2>1, <2>3, <2>4, SavedFacts
  <2> QED BY <1>4, <2>5 DEF CountRecord, CountType
<1>5. CASE Unwind
  BY <1>5 DEF Unwind, CountType, RecordType, InRecord
<1> QED BY <1>1, <1>2, <1>3, <1>4, <1>5
        DEF Next

LEMMA WriteTypeNext == WriteType /\ RecordType /\ [Next]_vars => WriteType'
<1> SUFFICES ASSUME WriteType, RecordType, [Next]_vars PROVE WriteType'
  OBVIOUS
<1>t. \A s \in {Writers, <<Formatted>>, <<>>} :
        s # <<>> => Tail(s) \in {Writers, <<Formatted>>, <<>>} /\ Head(s) \in WriterSet
  BY WriterFacts
<1> USE DEF fileVars, readVars, recordVars, countVars, signalVars, errorVars
<1>1. CASE UNCHANGED vars
  <2>1. UNCHANGED <<suppressed, written, todo, show>>
    BY <1>1 DEF vars
  <2> QED BY <2>1 DEF WriteType
<1>2. CASE
    \/ SkipCommitted \/ ReadRejected \/ ReadFails \/ ReadEnds \/ OpenOutputs
    \/ OpenFails \/ WriteFails \/ CountRecord \/ Commit \/ DeferInterrupt
    \/ TruncateFails \/ CloseOutputs \/ Save \/ SaveRefused \/ SaveFails \/ Unlock
    \/ Crash \/ RemoveStaleLock
  <2>1. UNCHANGED <<suppressed, written, todo, show>>
    BY <1>2 DEF
        SkipCommitted, ReadRejected, ReadFails, ReadEnds, OpenOutputs, OpenFails,
        WriteFails, CountRecord, Commit, DeferInterrupt, TruncateFails, CloseOutputs,
        Save, SaveRefused, SaveFails, Unlock, Crash, RemoveStaleLock, fileVars,
        readVars, recordVars, countVars, signalVars, errorVars
  <2> QED BY <2>1 DEF WriteType
<1>3. CASE Start
  BY <1>3, ConstantFacts DEF Start, WriteType
<1>4. CASE ReadRecord
  <2>1. show' \in BOOLEAN
    BY <1>4 DEF ReadRecord
  <2> QED BY <1>4, <2>1 DEF ReadRecord, WriteType
<1>5. CASE WriteSkipped
  <2>1. todo' \in {Writers, <<Formatted>>, <<>>}
    BY <1>5, <1>t DEF WriteSkipped, WriteType
  <2>2. suppressed' = suppressed + 1 /\ written' = written /\ show' = show
    BY <1>5 DEF WriteSkipped
  <2> QED BY <2>1, <2>2 DEF WriteType
<1>6. CASE WriteRecord
  <2>1. todo' \in {Writers, <<Formatted>>, <<>>} /\ Head(todo) \in WriterSet
    BY <1>6, <1>t DEF WriteRecord, WriteType
  <2>2. written' = [written EXCEPT ![Head(todo)] = written[Head(todo)] + 1]
    BY <1>6 DEF WriteRecord
  <2>3. written' \in [WriterSet -> Nat]
    BY <2>1, <2>2 DEF WriteType
  <2> QED BY <1>6, <2>1, <2>3 DEF WriteRecord, WriteType
<1>7. CASE InterruptRecord
  BY <1>7 DEF InterruptRecord, WriteType
<1>8. CASE Unwind
  BY <1>8 DEF Unwind, WriteType
<1>9. CASE Truncate
  BY <1>9, <1>t DEF Truncate, WriteType
<1>10. CASE Recovered
  BY <1>10 DEF Recovered, WriteType, RecordType, InRecord
<1> QED BY <1>1, <1>2, <1>3, <1>4, <1>5, <1>6, <1>7, <1>8, <1>9, <1>10
        DEF Next

LEMMA FlagTypeNext == FlagType /\ [Next]_vars => FlagType'
<1> SUFFICES ASSUME FlagType, [Next]_vars PROVE FlagType'
  OBVIOUS
<1> USE DEF fileVars, readVars, recordVars, countVars, signalVars, errorVars
<1>1. CASE UNCHANGED vars
  <2>1. UNCHANGED <<signals, writeErrors, pending, recoveryFailed, failed>>
    BY <1>1 DEF vars
  <2> QED BY <2>1 DEF FlagType
<1>2. CASE
    \/ SkipCommitted \/ ReadRecord \/ ReadRejected \/ ReadFails \/ ReadEnds
    \/ OpenOutputs \/ OpenFails \/ WriteSkipped \/ WriteRecord \/ WriteFails
    \/ CountRecord \/ Truncate \/ Recovered \/ Save \/ SaveRefused \/ Unlock
    \/ RemoveStaleLock
  <2>1. UNCHANGED <<signals, writeErrors, pending, recoveryFailed, failed>>
    BY <1>2 DEF
        SkipCommitted, ReadRecord, ReadRejected, ReadFails, ReadEnds, OpenOutputs,
        OpenFails, WriteSkipped, WriteRecord, WriteFails, CountRecord, Truncate,
        Recovered, Save, SaveRefused, Unlock, RemoveStaleLock, fileVars, readVars,
        recordVars, countVars, signalVars, errorVars
  <2> QED BY <2>1 DEF FlagType
<1>3. CASE Commit
  BY <1>3 DEF Commit, FlagType
<1>4. CASE DeferInterrupt
  BY <1>4 DEF DeferInterrupt, FlagType
<1>5. CASE Unwind
  BY <1>5 DEF Unwind, FlagType
<1>6. CASE TruncateFails
  BY <1>6 DEF TruncateFails, FlagType
<1>7. CASE SaveFails
  BY <1>7 DEF SaveFails, FlagType
<1>8. CASE Crash
  BY <1>8 DEF Crash, FlagType
<1>9. CASE Start
  <2>1. signals' \in 0..2 /\ writeErrors' \in Nat
    BY <1>9 DEF Start
  <2>2. pending' \in BOOLEAN /\ recoveryFailed' \in BOOLEAN /\ failed' \in BOOLEAN
    BY <1>9 DEF Start
  <2> QED BY <2>1, <2>2 DEF FlagType
<1>10. CASE InterruptRecord
  <2>1. signals' \in 0..2 /\ UNCHANGED <<recoveryFailed, writeErrors>>
    BY <1>10 DEF InterruptRecord
  <2>3. pending' \in BOOLEAN
    BY <1>10 DEF InterruptRecord
  <2>2. failed' \in BOOLEAN
    BY <1>10 DEF InterruptRecord, FlagType
  <2> QED BY <2>1, <2>2, <2>3 DEF FlagType
<1>11. CASE CloseOutputs
  <2>1. UNCHANGED <<signals, pending, recoveryFailed>>
    BY <1>11 DEF CloseOutputs, signalVars
  <2>2. (writeErrors' = writeErrors /\ failed' = failed) \/ (writeErrors' = writeErrors + 1 /\ failed' = TRUE)
    BY <1>11 DEF CloseOutputs
  <2>3. CASE writeErrors' = writeErrors /\ failed' = failed
    BY <2>1, <2>3 DEF FlagType
  <2>4. CASE writeErrors' = writeErrors + 1 /\ failed' = TRUE
    BY <2>1, <2>4 DEF FlagType
  <2> QED BY <2>2, <2>3, <2>4
<1> QED BY <1>1, <1>2, <1>3, <1>4, <1>5, <1>6, <1>7, <1>8, <1>9, <1>10, <1>11
        DEF Next

LEMMA RecordTypeNext == TypeOK /\ [Next]_vars => RecordType'
<1> SUFFICES ASSUME TypeOK, [Next]_vars PROVE RecordType'
  OBVIOUS
<1> USE TypeParts
<1> USE DEF fileVars, readVars, recordVars, countVars, signalVars, errorVars
<1>1. CASE UNCHANGED vars
  <2>1. UNCHANGED <<pc, item, snapshot, counters>>
    BY <1>1 DEF vars
  <2> QED BY <2>1 DEF RecordType
<1>2. CASE
    \/ SkipCommitted \/ WriteSkipped \/ WriteRecord \/ DeferInterrupt \/ Truncate
    \/ RemoveStaleLock
  <2>1. UNCHANGED <<pc, item, snapshot, counters>>
    BY <1>2 DEF
        SkipCommitted, WriteSkipped, WriteRecord, DeferInterrupt, Truncate,
        RemoveStaleLock, fileVars, readVars, recordVars, countVars, signalVars,
        errorVars
  <2> QED BY <2>1 DEF RecordType
<1>3. CASE Start
  BY <1>3 DEF Start, RecordType, InRecord
<1>4. CASE ReadRejected
  BY <1>4 DEF ReadRejected, RecordType, InRecord
<1>5. CASE ReadFails
  BY <1>5 DEF ReadFails, RecordType, InRecord
<1>6. CASE ReadEnds
  BY <1>6 DEF ReadEnds, RecordType, InRecord
<1>7. CASE OpenOutputs
  BY <1>7 DEF OpenOutputs, RecordType, InRecord
<1>8. CASE OpenFails
  BY <1>8 DEF OpenFails, RecordType, InRecord
<1>9. CASE WriteFails
  BY <1>9 DEF WriteFails, RecordType, InRecord
<1>10. CASE CountRecord
  BY <1>10 DEF CountRecord, RecordType, InRecord
<1>11. CASE Commit
  BY <1>11 DEF Commit, RecordType, InRecord
<1>12. CASE InterruptRecord
  BY <1>12 DEF InterruptRecord, RecordType, InRecord
<1>13. CASE Unwind
  BY <1>13 DEF Unwind, RecordType, InRecord
<1>14. CASE TruncateFails
  BY <1>14 DEF TruncateFails, RecordType, InRecord
<1>15. CASE Recovered
  BY <1>15 DEF Recovered, RecordType, InRecord
<1>16. CASE CloseOutputs
  BY <1>16 DEF CloseOutputs, RecordType, InRecord
<1>17. CASE Save
  BY <1>17 DEF Save, RecordType, InRecord
<1>18. CASE SaveRefused
  BY <1>18 DEF SaveRefused, RecordType, InRecord
<1>19. CASE SaveFails
  BY <1>19 DEF SaveFails, RecordType, InRecord
<1>20. CASE Unlock
  BY <1>20 DEF Unlock, RecordType, InRecord
<1>21. CASE Crash
  BY <1>21 DEF Crash, RecordType, InRecord
<1>22. CASE ReadRecord
  <2>1. item' \in Events /\ pc' = "open"
    BY <1>22, NextEventType DEF ReadRecord
  <2>2. Sizes \in [WriterSet -> Nat]
    <3>1. \A w \in WriterSet : files[w] # Absent => Len(files[w]) \in Nat
      BY ContentFacts DEF Content
    <3> QED BY <3>1 DEF Sizes
  <2>3. /\ snapshot' = [sizes |-> Sizes, written |-> written, suppressed |-> suppressed]
        /\ counters' = [boundary |-> boundary, count |-> count]
    BY <1>22 DEF ReadRecord
  <2> QED BY <2>1, <2>2, <2>3 DEF RecordType, InRecord, WriteType, CountType
<1> QED BY <1>1, <1>2, <1>3, <1>4, <1>5, <1>6, <1>7, <1>8, <1>9, <1>10, <1>11,
           <1>12, <1>13, <1>14, <1>15, <1>16, <1>17, <1>18, <1>19, <1>20, <1>21, <1>22
        DEF Next

LEMMA FileTypeNext == TypeOK /\ FileInv /\ [Next]_vars => FileType'
<1> SUFFICES ASSUME TypeOK, FileInv, [Next]_vars PROVE FileType'
  OBVIOUS
<1> USE TypeParts
<1>t. \A s \in {Writers, <<Formatted>>, <<>>} : s # <<>> => Head(s) \in WriterSet
  BY WriterFacts
<1>g. ASSUME NEW w \in WriterSet, files[w] # Absent, NEW e \in Bytes
      PROVE  [files EXCEPT ![w] = Append(files[w], e)] \in [WriterSet -> Contents \cup {Absent}]
  BY <1>g, GrownType DEF FileType
<1> USE DEF fileVars, readVars, recordVars, countVars, signalVars, errorVars
<1>1. CASE UNCHANGED vars
  <2>1. UNCHANGED <<files, checkpoint, lock, runs, boundaryLimit, total>>
    BY <1>1 DEF vars
  <2> QED BY <2>1 DEF FileType
<1>2. CASE
    \/ SkipCommitted \/ ReadRecord \/ ReadRejected \/ ReadFails \/ ReadEnds
    \/ WriteSkipped \/ CountRecord \/ Commit \/ DeferInterrupt \/ InterruptRecord
    \/ TruncateFails \/ Recovered \/ CloseOutputs \/ SaveRefused \/ SaveFails
  <2>1. UNCHANGED <<files, checkpoint, lock, runs, boundaryLimit, total>>
    BY <1>2 DEF
        SkipCommitted, ReadRecord, ReadRejected, ReadFails, ReadEnds, WriteSkipped,
        CountRecord, Commit, DeferInterrupt, InterruptRecord, TruncateFails, Recovered,
        CloseOutputs, SaveRefused, SaveFails, fileVars, readVars, recordVars, countVars,
        signalVars, errorVars
  <2> QED BY <2>1 DEF FileType
<1>3. CASE Start
  <2>1. total' \in Nat
    <3>1. CASE checkpoint = None
      BY <1>3, <3>1 DEF Start
    <3>2. CASE checkpoint # None
      BY <1>3, <3>2, SavedFacts DEF Start, FileType
    <3> QED BY <3>1, <3>2
  <2> QED BY <1>3, <2>1 DEF Start, FileType
<1>4. CASE OpenOutputs
  BY <1>4, ConstantFacts DEF OpenOutputs, FileType
<1>5. CASE OpenFails
  BY <1>5, ConstantFacts DEF OpenFails, FileType
<1>6. CASE WriteRecord
  <2>1. Head(todo) \in WriterSet /\ files[Head(todo)] # Absent /\ item \in Bytes
    BY <1>6, <1>t, ConstantFacts DEF WriteRecord, WriteType, FileInv, RecordType
  <2>2. files' = [files EXCEPT ![Head(todo)] = Append(files[Head(todo)], item)]
    BY <1>6 DEF WriteRecord, Grown
  <2>3. files' \in [WriterSet -> Contents \cup {Absent}]
    BY <1>g, <2>1, <2>2
  <2> QED BY <1>6, <2>3 DEF WriteRecord, FileType
<1>7. CASE WriteFails
  <2>1. Head(todo) \in WriterSet /\ files[Head(todo)] # Absent /\ Torn \in Bytes
    BY <1>7, <1>t, ConstantFacts DEF WriteFails, WriteType, FileInv
  <2>2. files' = [files EXCEPT ![Head(todo)] = Append(files[Head(todo)], Torn)] \/ files' = files
    BY <1>7 DEF WriteFails, Grown
  <2>3. files' \in [WriterSet -> Contents \cup {Absent}]
    <3>1. CASE files' = files
      BY <3>1 DEF FileType
    <3>2. CASE files' = [files EXCEPT ![Head(todo)] = Append(files[Head(todo)], Torn)]
      BY <1>g, <2>1, <3>2
    <3> QED BY <2>2, <3>1, <3>2
  <2> QED BY <1>7, <2>3 DEF WriteFails, FileType
<1>8. CASE Unwind
  <2>1. \/ files' = files
        \/ /\ todo # <<>> /\ files[Head(todo)] # Absent
           /\ files' = [files EXCEPT ![Head(todo)] = Append(files[Head(todo)], Torn)]
    BY <1>8 DEF Unwind
  <2>2. files' \in [WriterSet -> Contents \cup {Absent}]
    <3>1. CASE files' = files
      BY <3>1 DEF FileType
    <3>2. CASE files' # files
      <4>1. /\ Head(todo) \in WriterSet /\ files[Head(todo)] # Absent /\ Torn \in Bytes
            /\ files' = [files EXCEPT ![Head(todo)] = Append(files[Head(todo)], Torn)]
        BY <3>2, <1>t, <2>1, ConstantFacts DEF WriteType
      <4> QED BY <1>g, <4>1
    <3> QED BY <3>1, <3>2
  <2> QED BY <1>8, <2>2 DEF Unwind, FileType
<1>9. CASE Truncate
  <2> DEFINE w == Head(todo)
  <2>1. w \in WriterSet /\ snapshot.sizes[w] \in Nat
    BY <1>9, <1>t DEF Truncate, WriteType, RecordType, InRecord
  <2>2. CASE files[w] = Absent
    BY <1>9, <2>2 DEF Truncate, FileType
  <2>3. CASE files[w] # Absent
    <3>1. files[w] \in Seq(Bytes) /\ snapshot.sizes[w] <= Len(files[w]) /\ Len(files[w]) \in Nat
      BY <1>9, <2>1, <2>3, ContentFacts DEF Truncate, FileInv, InRecord, Content
    <3>2. SubSeq(files[w], 1, snapshot.sizes[w]) \in Contents
      <4>1. \A i \in 1..snapshot.sizes[w] : files[w][i] \in Bytes
        BY <2>1, <3>1, ElementOfSeq
      <4> QED BY <2>1, <4>1, SubSeqProperties, ConstantFacts
    <3>3. files' = [files EXCEPT ![w] = SubSeq(files[w], 1, snapshot.sizes[w])]
      BY <1>9, <2>3 DEF Truncate
    <3>4. files' \in [WriterSet -> Contents \cup {Absent}]
      BY <2>1, <3>2, <3>3 DEF FileType
    <3> QED BY <1>9, <3>4 DEF Truncate, FileType
  <2> QED BY <2>2, <2>3
<1>10. CASE Save
  <2>1. checkpoint' \in Checkpoints /\ total' \in Nat
    BY <1>10, SavedFacts DEF Save, Checkpoints, FileType, CountType, ReadType
  <2> QED BY <1>10, <2>1 DEF Save, FileType
<1>11. CASE Unlock
  BY <1>11 DEF Unlock, FileType
<1>12. CASE Crash
  <2>1. \/ files' = files
        \/ /\ pc = "write" /\ todo # <<>>
           /\ files' = [files EXCEPT ![Head(todo)] = Append(files[Head(todo)], Torn)]
    BY <1>12 DEF Crash, Grown
  <2>2. files' \in [WriterSet -> Contents \cup {Absent}]
    <3>1. CASE files' = files
      BY <3>1 DEF FileType
    <3>2. CASE files' # files
      <4>1. /\ Head(todo) \in WriterSet /\ files[Head(todo)] # Absent /\ Torn \in Bytes
            /\ files' = [files EXCEPT ![Head(todo)] = Append(files[Head(todo)], Torn)]
        BY <3>2, <1>t, <2>1, ConstantFacts DEF WriteType, FileInv
      <4> QED BY <1>g, <4>1
    <3> QED BY <3>1, <3>2
  <2> QED BY <1>12, <2>2 DEF Crash, FileType
<1>13. CASE RemoveStaleLock
  BY <1>13 DEF RemoveStaleLock, FileType
<1> QED BY <1>1, <1>2, <1>3, <1>4, <1>5, <1>6, <1>7, <1>8, <1>9, <1>10, <1>11,
           <1>12, <1>13
        DEF Next

LEMMA TypeNext == TypeOK /\ FileInv /\ [Next]_vars => TypeOK'
<1> SUFFICES ASSUME TypeOK, FileInv, [Next]_vars PROVE TypeOK'
  OBVIOUS
<1>1. FileType /\ ReadType /\ CountType /\ WriteType /\ RecordType /\ FlagType
  BY TypeParts
<1>2. FileType' /\ ReadType' /\ CountType' /\ WriteType' /\ RecordType' /\ FlagType'
  BY <1>1, FileTypeNext, ReadTypeNext, CountTypeNext, WriteTypeNext, RecordTypeNext, FlagTypeNext
<1> QED BY <1>2 DEF TypeOK, FileType, ReadType, CountType, WriteType, RecordType, FlagType

-----------------------------------------------------------------------------
(* The outputs begin with what the checkpoint names.                       *)

LEMMA HeldType ==
    ASSUME TypeOK, checkpoint # None
    PROVE  \A w \in WriterSet : Held(w) \in Seq(Bytes) /\ Len(Held(w)) \in Nat
<1>1. \A w \in WriterSet : checkpoint.artifacts[w] \in Contents \cup {Absent}
  BY SavedFacts, TypeParts DEF FileType
<1>2. \A w \in WriterSet : Held(w) \in Seq(Bytes)
  BY <1>1, ConstantFacts DEF Held
<1> QED BY <1>2, LenProperties

\* A step by which no output loses anything.
Longer ==
    \A w \in WriterSet :
        /\ files[w] # Absent => files'[w] # Absent
        /\ Len(Content(files[w])) <= Len(Content(files'[w]))
        /\ \A s \in Seq(Bytes) : IsPrefix(s, Content(files[w])) => IsPrefix(s, Content(files'[w]))

LEMMA GrownIsLonger ==
    ASSUME TypeOK, NEW v \in WriterSet, files[v] # Absent, NEW e \in Bytes,
           files' = [files EXCEPT ![v] = Append(files[v], e)]
    PROVE  Longer
<1>1. \A w \in WriterSet : w # v => files'[w] = files[w]
  BY TypeParts DEF FileType
<1>2. \A w \in WriterSet : Len(Content(files[w])) \in Nat
  BY ContentFacts, TypeParts
<1>3. files'[v] = Append(files[v], e) /\ files[v] \in Seq(Bytes) /\ files'[v] # Absent
  <2>1. files'[v] = Append(files[v], e) /\ files[v] \in Seq(Bytes)
    BY TypeParts, ConstantFacts DEF FileType
  <2> QED BY <2>1, GrownType, TypeParts, ConstantFacts
<1>4. Content(files[v]) = files[v] /\ Content(files'[v]) = Append(files[v], e)
  BY <1>3 DEF Content
<1>5. Len(Append(files[v], e)) = Len(files[v]) + 1
  BY <1>3, AppendProperties
<1>6. \A s \in Seq(Bytes) : IsPrefix(s, files[v]) => IsPrefix(s, Append(files[v], e))
  BY <1>3, PrefixAppend
<1>7. ASSUME NEW w \in WriterSet
      PROVE  /\ files[w] # Absent => files'[w] # Absent
             /\ Len(Content(files[w])) <= Len(Content(files'[w]))
             /\ \A s \in Seq(Bytes) : IsPrefix(s, Content(files[w])) => IsPrefix(s, Content(files'[w]))
  <2>1. CASE w = v
    <3>1. Len(files[v]) \in Nat
      BY <1>2, <1>4
    <3>2. Len(Content(files[v])) <= Len(Content(files'[v]))
      BY <3>1, <1>4, <1>5
    <3>3. \A s \in Seq(Bytes) : IsPrefix(s, Content(files[v])) => IsPrefix(s, Content(files'[v]))
      BY <1>4, <1>6
    <3> QED BY <2>1, <3>2, <3>3, <1>3
  <2>2. CASE w # v
    BY <2>2, <1>1, <1>2
  <2> QED BY <2>1, <2>2
<1> QED BY <1>7 DEF Longer

\* An output is created empty.
LEMMA CreatedIsLonger ==
    ASSUME TypeOK, \A w \in WriterSet : files'[w] = files[w] \/ (files[w] = Absent /\ files'[w] = <<>>)
    PROVE  Longer
<1>1. \A w \in WriterSet : Content(files'[w]) = Content(files[w]) /\ Len(Content(files[w])) \in Nat
  BY ContentFacts, TypeParts DEF Content
<1> QED BY <1>1, ConstantFacts DEF Longer

LEMMA LongerKeeps ==
    ASSUME TypeOK, FileInv, Longer, UNCHANGED <<checkpoint, snapshot>>, InRun,
           pc' \in InRecord => pc \in InRecord,
           pc' = "write" => \A w \in WriterSet : files'[w] # Absent
    PROVE  FileInv'
<1>1. ASSUME pc' \in InRecord, NEW w \in WriterSet
      PROVE  snapshot'.sizes[w] <= Len(Content(files'[w]))
  <2>1. /\ snapshot.sizes[w] \in Nat /\ snapshot.sizes[w] <= Len(Content(files[w]))
        /\ Len(Content(files[w])) \in Nat
    BY <1>1, ContentFacts, TypeParts DEF FileInv, RecordType
  <2>2. Len(Content(files[w])) <= Len(Content(files'[w])) /\ Content(files'[w]) = Content(files'[w])
    BY DEF Longer
  <2>3. Len(Content(files'[w])) \in Nat \/ Len(Content(files'[w])) \notin Nat
    OBVIOUS
  <2> QED BY <2>1, <2>2
<1>2. ASSUME checkpoint # None, NEW w \in WriterSet
      PROVE  /\ IsPrefix(Held(w), Content(files'[w]))
             /\ pc' \in InRecord => Len(Held(w)) <= snapshot.sizes[w]
  BY <1>2, HeldType DEF FileInv, Longer
<1>3. \A w \in WriterSet : Held(w)' = Held(w)
  BY DEF Held
<1> QED BY <1>1, <1>2, <1>3 DEF FileInv

LEMMA FileInvNext == TypeOK /\ FileInv /\ [Next]_vars => FileInv'
<1> SUFFICES ASSUME TypeOK, FileInv, [Next]_vars PROVE FileInv'
  OBVIOUS
<1> USE TypeParts
<1>t. \A s \in {Writers, <<Formatted>>, <<>>} : s # <<>> => Head(s) \in WriterSet
  BY WriterFacts
<1>s. ASSUME files' = files PROVE Longer
  BY <1>s, CreatedIsLonger
<1> USE DEF fileVars, readVars, recordVars, countVars, signalVars, errorVars
<1>1. CASE UNCHANGED vars
  <2>1. UNCHANGED <<pc, files, checkpoint, snapshot>>
    BY <1>1 DEF vars
  <2> QED BY <2>1 DEF FileInv, InRun, InRecord, Held
<1>2. CASE
    \/ SkipCommitted \/ WriteSkipped \/ DeferInterrupt
  <2>1. UNCHANGED <<pc, files, checkpoint, snapshot>>
    BY <1>2 DEF
        SkipCommitted, WriteSkipped, DeferInterrupt, fileVars, readVars, recordVars,
        countVars, signalVars, errorVars
  <2> QED BY <2>1 DEF FileInv, InRun, InRecord, Held
<1>3. CASE Start
  <2>1. pc' = "read" /\ files' = files /\ checkpoint' = checkpoint
    BY <1>3 DEF Start
  <2>2. ASSUME checkpoint # None, NEW w \in WriterSet
        PROVE  IsPrefix(Held(w), Content(files[w]))
    <3>1. Held(w) = Content(files[w])
      BY <1>3, <2>2 DEF Start, MayResume, Held, Content
    <3> QED BY <2>2, <3>1, HeldType, PrefixSelf
  <2> QED BY <2>1, <2>2 DEF FileInv, InRun, InRecord, Held, Content
<1>4. CASE ReadRecord
  <2>1. pc = "read" /\ pc' = "open" /\ files' = files /\ checkpoint' = checkpoint /\ snapshot'.sizes = Sizes
    BY <1>4 DEF ReadRecord, Reading, fileVars
  <2>2. \A w \in WriterSet : Sizes[w] = Len(Content(files[w])) /\ Len(Content(files[w])) \in Nat
    BY ContentFacts, EmptySeq DEF Sizes, Content
  <2>3. ASSUME checkpoint # None, NEW w \in WriterSet
        PROVE  IsPrefix(Held(w), Content(files[w])) /\ Len(Held(w)) <= Len(Content(files[w]))
    <3>1. IsPrefix(Held(w), Content(files[w]))
      BY <2>1, <2>3 DEF FileInv, InRun
    <3> QED BY <2>3, <3>1, HeldType, ContentFacts, PrefixPointwise
  <2>4. \A w \in WriterSet : Held(w)' = Held(w) /\ Content(files[w])' = Content(files[w])
    BY <2>1 DEF Held, Content
  <2> QED BY <2>1, <2>2, <2>3, <2>4 DEF FileInv, InRun, InRecord
<1>5. CASE OpenOutputs
  <2>1. \A w \in WriterSet : /\ files'[w] = files[w] \/ (files[w] = Absent /\ files'[w] = <<>>)
                             /\ files'[w] # Absent
    BY <1>5, ConstantFacts DEF OpenOutputs
  <2>2. pc = "open" /\ pc' = "write" /\ UNCHANGED <<checkpoint, snapshot>>
    BY <1>5 DEF OpenOutputs
  <2> QED BY <2>1, <2>2, CreatedIsLonger, LongerKeeps DEF InRun, InRecord
<1>6. CASE OpenFails
  <2>1. \A w \in WriterSet : files'[w] = files[w] \/ (files[w] = Absent /\ files'[w] = <<>>)
    BY <1>6 DEF OpenFails
  <2>2. pc = "open" /\ pc' = "unwind" /\ UNCHANGED <<checkpoint, snapshot>>
    BY <1>6 DEF OpenFails
  <2> QED BY <2>1, <2>2, CreatedIsLonger, LongerKeeps DEF InRun, InRecord
<1>7. CASE WriteRecord
  <2>1. pc = "write" /\ pc' = pc /\ UNCHANGED <<checkpoint, snapshot>>
    BY <1>7 DEF WriteRecord
  <2>2. Head(todo) \in WriterSet /\ files[Head(todo)] # Absent /\ item \in Bytes
    BY <1>7, <1>t, <2>1, ConstantFacts DEF WriteRecord, WriteType, FileInv, RecordType
  <2>3. files' = [files EXCEPT ![Head(todo)] = Append(files[Head(todo)], item)]
    BY <1>7 DEF WriteRecord, Grown
  <2>4. Longer
    BY <2>2, <2>3, GrownIsLonger
  <2> QED BY <2>1, <2>4, LongerKeeps DEF FileInv, InRun, InRecord, Longer
<1>8. CASE WriteFails
  <2>1. pc = "write" /\ pc' = "unwind" /\ UNCHANGED <<checkpoint, snapshot>>
    BY <1>8 DEF WriteFails
  <2>2. Head(todo) \in WriterSet /\ files[Head(todo)] # Absent /\ Torn \in Bytes
    BY <1>8, <1>t, <2>1, ConstantFacts DEF WriteFails, WriteType, FileInv
  <2>3. files' = files \/ files' = [files EXCEPT ![Head(todo)] = Append(files[Head(todo)], Torn)]
    BY <1>8 DEF WriteFails, Grown
  <2>4. Longer
    BY <2>2, <2>3, <1>s, GrownIsLonger
  <2> QED BY <2>1, <2>4, LongerKeeps DEF InRun, InRecord
<1>9. CASE Unwind
  <2>1. pc = "unwind" /\ pc' = "truncate" /\ UNCHANGED <<checkpoint, snapshot>>
    BY <1>9 DEF Unwind
  <2>2. \/ files' = files
        \/ /\ todo # <<>> /\ files[Head(todo)] # Absent
           /\ files' = [files EXCEPT ![Head(todo)] = Append(files[Head(todo)], Torn)]
    BY <1>9 DEF Unwind
  <2>3. Longer
    <3>1. CASE files' = files
      BY <3>1, <1>s
    <3>2. CASE files' # files
      <4>1. Head(todo) \in WriterSet /\ Torn \in Bytes
        BY <3>2, <2>2, <1>t, ConstantFacts DEF WriteType
      <4> QED BY <3>2, <2>2, <4>1, GrownIsLonger
    <3> QED BY <3>1, <3>2
  <2> QED BY <2>1, <2>3, LongerKeeps DEF InRun, InRecord
<1>10. CASE Truncate
  <2> DEFINE v == Head(todo)
             n == snapshot.sizes[v]
             cut == SubSeq(files[v], 1, n)
  <2>1. pc = "truncate" /\ pc' = pc /\ UNCHANGED <<checkpoint, snapshot>> /\ v \in WriterSet
    BY <1>10, <1>t DEF Truncate, WriteType
  <2>2. CASE files[v] = Absent
    <3>1. files' = files
      BY <1>10, <2>2 DEF Truncate
    <3> QED BY <2>1, <3>1, <1>s, LongerKeeps DEF InRun, InRecord
  <2>3. CASE files[v] # Absent
    <3>1. files' = [files EXCEPT ![v] = cut]
      BY <1>10, <2>3 DEF Truncate
    <3>2. /\ files[v] \in Seq(Bytes) /\ Content(files[v]) = files[v] /\ Len(files[v]) \in Nat
          /\ n \in Nat /\ n <= Len(files[v])
      BY <2>1, <2>3, ContentFacts DEF FileInv, InRecord, RecordType, Content
    <3>3. cut \in Seq(Bytes) /\ Len(cut) = n
      <4>1. \A i \in 1..n : files[v][i] \in Bytes
        BY <3>2, ElementOfSeq
      <4> QED BY <3>2, <4>1, SubSeqProperties
    <3>4. ASSUME checkpoint # None PROVE Len(Held(v)) <= n /\ IsPrefix(Held(v), cut)
      <4>1. Len(Held(v)) <= n /\ IsPrefix(Held(v), files[v])
        BY <2>1, <3>2, <3>4 DEF FileInv, InRun, InRecord
      <4> QED BY <2>1, <3>2, <3>4, <4>1, HeldType, PrefixCut
    <3> HIDE DEF cut, n
    <3>5. files'[v] = cut /\ files'[v] # Absent /\ \A w \in WriterSet : w # v => files'[w] = files[w]
      BY <2>1, <3>1, <3>3, ConstantFacts DEF FileType
    <3>6. \A w \in WriterSet : Held(w)' = Held(w)
      BY <2>1 DEF Held
    <3>7. ASSUME NEW w \in WriterSet
          PROVE  /\ snapshot.sizes[w] <= Len(Content(files'[w]))
                 /\ checkpoint # None => /\ IsPrefix(Held(w), Content(files'[w]))
                                        /\ Len(Held(w)) <= snapshot.sizes[w]
      <4>1. CASE w = v
        <5>1. Content(files'[w]) = cut
          BY <4>1, <3>5 DEF Content
        <5>2. snapshot.sizes[w] = n /\ n <= Len(cut)
          BY <4>1, <3>2, <3>3 DEF n
        <5> QED BY <4>1, <5>1, <5>2, <3>4
      <4>2. CASE w # v
        BY <4>2, <2>1, <3>5 DEF FileInv, InRun, InRecord
      <4> QED BY <4>1, <4>2
    <3> QED BY <2>1, <3>6, <3>7 DEF FileInv, InRun, InRecord
  <2> QED BY <2>2, <2>3
<1>11. CASE ReadRejected
  BY <1>11 DEF ReadRejected, FileInv, InRun, InRecord, Held, Reading
<1>12. CASE ReadFails
  BY <1>12 DEF ReadFails, FileInv, InRun, InRecord, Held, Reading
<1>13. CASE ReadEnds
  BY <1>13 DEF ReadEnds, FileInv, InRun, InRecord, Held, Reading
<1>14. CASE CountRecord
  BY <1>14 DEF CountRecord, FileInv, InRun, InRecord, Held, Reading
<1>15. CASE Commit
  BY <1>15 DEF Commit, FileInv, InRun, InRecord, Held, Reading
<1>16. CASE InterruptRecord
  BY <1>16 DEF InterruptRecord, FileInv, InRun, InRecord, Held, Reading
<1>17. CASE TruncateFails
  BY <1>17 DEF TruncateFails, FileInv, InRun, InRecord, Held, Reading
<1>18. CASE Recovered
  BY <1>18 DEF Recovered, FileInv, InRun, InRecord, Held, Reading
<1>19. CASE CloseOutputs
  BY <1>19 DEF CloseOutputs, FileInv, InRun, InRecord, Held, Reading
<1>20. CASE Save
  BY <1>20 DEF Save, FileInv, InRun, InRecord, Held, Reading
<1>21. CASE SaveRefused
  BY <1>21 DEF SaveRefused, FileInv, InRun, InRecord, Held, Reading
<1>22. CASE SaveFails
  BY <1>22 DEF SaveFails, FileInv, InRun, InRecord, Held, Reading
<1>23. CASE Unlock
  BY <1>23 DEF Unlock, FileInv, InRun, InRecord, Held, Reading
<1>24. CASE Crash
  BY <1>24 DEF Crash, FileInv, InRun, InRecord
<1>25. CASE RemoveStaleLock
  BY <1>25 DEF RemoveStaleLock, FileInv, InRun, InRecord, Held
<1> QED BY <1>1, <1>2, <1>3, <1>4, <1>5, <1>6, <1>7, <1>8, <1>9, <1>10, <1>11,
           <1>12, <1>13, <1>14, <1>15, <1>16, <1>17, <1>18, <1>19, <1>20, <1>21, <1>22,
           <1>23, <1>24, <1>25
        DEF Next

LEMMA FileInit == Init => FileInv
  BY DEF Init, FileInv, InRun, InRecord

\* The state of a capture is well typed, whatever fails in whichever run
\* (CaptureCheckpoint.__init__, _ChatOutputDispatcher.__init__).
THEOREM TypeCorrect == Spec => []TypeOK
<1>1. Init => TypeOK /\ FileInv
  BY TypeInit, FileInit
<1>2. TypeOK /\ FileInv /\ [Next]_vars => (TypeOK /\ FileInv)'
  BY TypeNext, FileInvNext
<1> QED BY <1>1, <1>2, PTL DEF Spec

-----------------------------------------------------------------------------
(* The boundary only moves forward.                                        *)

\* Not before the second of the checkpoint.
AtLeast(second) ==
    checkpoint # None /\ checkpoint.offset # None => second # None /\ second >= checkpoint.offset

BoundaryInv ==
    /\ InRun => AtLeast(boundary.offset) /\ AtLeast(lastOffset)
    /\ pc \in InRecord => AtLeast(counters.boundary.offset)
    /\ pc \in {"open", "write"} => lastOffset = Offset[item]

LEMMA BoundaryInit == Init => BoundaryInv
  BY DEF Init, BoundaryInv, InRun, InRecord

LEMMA BoundaryNext == TypeOK /\ BoundaryInv /\ [Next]_vars => BoundaryInv'
<1> SUFFICES ASSUME TypeOK, BoundaryInv, [Next]_vars PROVE BoundaryInv'
  OBVIOUS
<1> USE TypeParts
<1>o. ASSUME checkpoint # None
      PROVE  checkpoint.offset # None => checkpoint.offset \in Int
  BY <1>o, SavedFacts, ConstantFacts DEF FileType
<1> USE DEF fileVars, readVars, recordVars, countVars, signalVars, errorVars
<1>1. CASE UNCHANGED vars
  <2>1. UNCHANGED <<pc, boundary, lastOffset, checkpoint, counters, item>>
    BY <1>1 DEF vars
  <2> QED BY <2>1 DEF BoundaryInv, InRun, InRecord, AtLeast
<1>2. CASE
    \/ SkipCommitted \/ WriteSkipped \/ WriteRecord \/ DeferInterrupt \/ Truncate
  <2>1. UNCHANGED <<pc, boundary, lastOffset, checkpoint, counters, item>>
    BY <1>2 DEF
        SkipCommitted, WriteSkipped, WriteRecord, DeferInterrupt, Truncate, fileVars,
        readVars, recordVars, countVars, signalVars, errorVars
  <2> QED BY <2>1 DEF BoundaryInv, InRun, InRecord, AtLeast
<1>3. CASE Start
  <2>1. /\ pc' = "read" /\ checkpoint' = checkpoint /\ lastOffset' = boundary'.offset
        /\ checkpoint # None => boundary'.offset = checkpoint.offset
    BY <1>3 DEF Start
  <2> QED BY <2>1, <1>o DEF BoundaryInv, InRun, InRecord, AtLeast
<1>4. CASE ReadRecord
  <2>1. /\ pc = "read" /\ pc' = "open" /\ checkpoint' = checkpoint /\ boundary' = boundary
        /\ counters'.boundary = boundary /\ item' = NextEvent /\ lastOffset' = Offset[NextEvent]
        /\ ~MovedBackwards(NextEvent)
    BY <1>4 DEF ReadRecord, Reading, Rejected
  <2>2. Offset[NextEvent] \in Int /\ Offset[NextEvent] # None
    BY <1>4, NextEventType, ConstantFacts DEF ReadRecord
  <2>3. lastOffset \in Int \cup {None}
    BY ConstantFacts DEF ReadType
  <2>4. AtLeast(boundary.offset) /\ AtLeast(lastOffset)
    BY <2>1 DEF BoundaryInv, InRun
  <2>5. AtLeast(Offset[NextEvent])
    BY <2>1, <2>2, <2>3, <2>4, <1>o DEF AtLeast, MovedBackwards
  <2> QED BY <2>1, <2>4, <2>5 DEF BoundaryInv, InRun, InRecord, AtLeast
<1>5. CASE CountRecord
  <2>1. /\ pc = "write" /\ pc' = "commit" /\ boundary'.offset = Offset[item]
        /\ UNCHANGED <<checkpoint, lastOffset, counters>>
    BY <1>5 DEF CountRecord, Observe
  <2> QED BY <2>1 DEF BoundaryInv, InRun, InRecord, AtLeast
<1>6. CASE Unwind
  <2>1. /\ pc = "unwind" /\ pc' = "truncate" /\ boundary' = counters.boundary
        /\ UNCHANGED <<checkpoint, lastOffset, counters>>
    BY <1>6 DEF Unwind
  <2> QED BY <2>1 DEF BoundaryInv, InRun, InRecord, AtLeast
<1>7. CASE ReadRejected
  BY <1>7 DEF ReadRejected, Reading, BoundaryInv, InRun, InRecord, AtLeast
<1>8. CASE ReadFails
  BY <1>8 DEF ReadFails, BoundaryInv, InRun, InRecord, AtLeast
<1>9. CASE ReadEnds
  BY <1>9 DEF ReadEnds, BoundaryInv, InRun, InRecord, AtLeast
<1>10. CASE OpenOutputs
  BY <1>10 DEF OpenOutputs, BoundaryInv, InRun, InRecord, AtLeast
<1>11. CASE OpenFails
  BY <1>11 DEF OpenFails, BoundaryInv, InRun, InRecord, AtLeast
<1>12. CASE WriteFails
  BY <1>12 DEF WriteFails, BoundaryInv, InRun, InRecord, AtLeast
<1>13. CASE Commit
  BY <1>13 DEF Commit, BoundaryInv, InRun, InRecord, AtLeast
<1>14. CASE InterruptRecord
  BY <1>14 DEF InterruptRecord, BoundaryInv, InRun, InRecord, AtLeast
<1>15. CASE TruncateFails
  BY <1>15 DEF TruncateFails, BoundaryInv, InRun, InRecord, AtLeast
<1>16. CASE Recovered
  BY <1>16 DEF Recovered, BoundaryInv, InRun, InRecord, AtLeast
<1>17. CASE CloseOutputs
  BY <1>17 DEF CloseOutputs, BoundaryInv, InRun, InRecord, AtLeast
<1>18. CASE Save
  BY <1>18 DEF Save, BoundaryInv, InRun, InRecord, AtLeast
<1>19. CASE SaveRefused
  BY <1>19 DEF SaveRefused, BoundaryInv, InRun, InRecord, AtLeast
<1>20. CASE SaveFails
  BY <1>20 DEF SaveFails, BoundaryInv, InRun, InRecord, AtLeast
<1>21. CASE Unlock
  BY <1>21 DEF Unlock, BoundaryInv, InRun, InRecord, AtLeast
<1>22. CASE Crash
  BY <1>22 DEF Crash, BoundaryInv, InRun, InRecord, AtLeast
<1>23. CASE RemoveStaleLock
  BY <1>23 DEF RemoveStaleLock, BoundaryInv, InRun, InRecord, AtLeast
<1> QED BY <1>1, <1>2, <1>3, <1>4, <1>5, <1>6, <1>7, <1>8, <1>9, <1>10, <1>11,
           <1>12, <1>13, <1>14, <1>15, <1>16, <1>17, <1>18, <1>19, <1>20, <1>21, <1>22,
           <1>23
        DEF Next

\* Over any number of runs, whatever fails in them: a new checkpoint's outputs extend
\* those of the older one, and its boundary is not before the older boundary
\* (record_transaction's truncation, output_dispatch.py:195).
THEOREM CheckpointsOnlyGrow == Spec => CheckpointGrows
<1>1. Init => TypeOK /\ FileInv /\ BoundaryInv
  BY TypeInit, FileInit, BoundaryInit
<1>2. TypeOK /\ FileInv /\ BoundaryInv /\ [Next]_vars => (TypeOK /\ FileInv /\ BoundaryInv)'
  BY TypeNext, FileInvNext, BoundaryNext
<1>3. TypeOK /\ FileInv /\ BoundaryInv /\ [Next]_vars =>
        [checkpoint # None /\ checkpoint' # checkpoint =>
           /\ \A w \in WriterSet : IsPrefix(Held(w), Held(w)')
           /\ checkpoint.offset # None =>
                checkpoint'.offset # None /\ checkpoint'.offset >= checkpoint.offset]_vars
  <2> SUFFICES ASSUME TypeOK, FileInv, BoundaryInv, [Next]_vars, checkpoint # None, checkpoint' # checkpoint
               PROVE  /\ \A w \in WriterSet : IsPrefix(Held(w), Held(w)')
                      /\ checkpoint.offset # None =>
                           checkpoint'.offset # None /\ checkpoint'.offset >= checkpoint.offset
    OBVIOUS
  <2>1. Save
    BY DEF Next, vars, signalVars, Start, SkipCommitted, ReadRecord, ReadRejected, ReadFails,
        ReadEnds, OpenOutputs, OpenFails, WriteSkipped, WriteRecord, WriteFails, CountRecord,
        Commit, DeferInterrupt, InterruptRecord, Unwind, Truncate, TruncateFails, Recovered,
        CloseOutputs, SaveRefused, SaveFails, Unlock, Crash, RemoveStaleLock, recordVars,
        readVars, fileVars, countVars, errorVars
  <2>2. /\ pc = "save" /\ checkpoint'.artifacts = files /\ checkpoint'.offset = boundary.offset
    BY <2>1 DEF Save
  <2>3. \A w \in WriterSet : Held(w)' = Content(files[w])
    BY <2>2 DEF Held, Content
  <2>4. \A w \in WriterSet : IsPrefix(Held(w), Content(files[w]))
    BY <2>2 DEF FileInv, InRun
  <2>5. AtLeast(boundary.offset)
    BY <2>2 DEF BoundaryInv, InRun
  <2> QED BY <2>2, <2>3, <2>4, <2>5 DEF AtLeast
<1> QED BY <1>1, <1>2, <1>3, PTL DEF Spec, CheckpointGrows

-----------------------------------------------------------------------------
(* A run that undid what failed ends with a checkpoint of what is there.   *)

\* The outputs took the records that were counted.
Balanced(w, s, c) == w[Raw] = c /\ w[Formatted] = c - s

AccountInv ==
    /\ ~failed => writeErrors = 0 /\ ~recoveryFailed
    /\ pc \in {"read", "open", "commit"} => Balanced(written, suppressed, count)
    /\ pc = "write" /\ todo = Writers => Balanced(written, suppressed, count)
    /\ pc = "write" /\ todo = <<Formatted>> =>
         written[Raw] = count + 1 /\ written[Formatted] = count - suppressed
    /\ pc = "write" /\ todo = <<>> => Balanced(written, suppressed, count + 1)
    /\ pc = "open" => todo = Writers
    /\ pc \in InRecord => Balanced(snapshot.written, snapshot.suppressed, counters.count)
    /\ pc \in {"open", "write"} \/ (pc = "truncate" /\ ~failed) => count = counters.count
    /\ pc \in {"close", "save"} /\ ~failed => Balanced(written, suppressed, count)
    /\ pc \in {"down", "unlock"} /\ runs > 0 /\ ~failed =>
         checkpoint # None /\ files = checkpoint.artifacts

LEMMA AccountInit == Init => AccountInv
  BY DEF Init, AccountInv, InRecord, Balanced, Empty, Raw, Formatted, WriterSet

LEMMA AccountNext == TypeOK /\ AccountInv /\ [Next]_vars => AccountInv'
<1> SUFFICES ASSUME TypeOK, AccountInv, [Next]_vars PROVE AccountInv'
  OBVIOUS
<1> USE TypeParts
<1> USE DEF fileVars, readVars, recordVars, countVars, signalVars, errorVars
<1>1. CASE UNCHANGED vars
  <2>1. UNCHANGED <<failed, writeErrors, recoveryFailed, pc, written, suppressed, count, todo,
                    snapshot, counters, checkpoint, files, runs>>
    BY <1>1 DEF vars
  <2> QED BY <2>1 DEF AccountInv, InRecord
<1>2. CASE
    \/ SkipCommitted \/ DeferInterrupt
  <2>1. UNCHANGED <<failed, writeErrors, recoveryFailed, pc, written, suppressed, count, todo,
                    snapshot, counters, checkpoint, files, runs>>
    BY <1>2 DEF
        SkipCommitted, DeferInterrupt, fileVars, readVars, recordVars, countVars,
        signalVars, errorVars
  <2> QED BY <2>1 DEF AccountInv, InRecord
<1>3. CASE ReadRejected
  BY <1>3, WriterFacts DEF ReadRejected, Reading, AccountInv, InRecord, Balanced, WriteType,
      CountType
<1>4. CASE ReadFails
  BY <1>4, WriterFacts DEF ReadFails, AccountInv, InRecord, Balanced, WriteType, CountType
<1>5. CASE ReadEnds
  BY <1>5, WriterFacts DEF ReadEnds, AccountInv, InRecord, Balanced, WriteType, CountType
<1>6. CASE OpenOutputs
  BY <1>6, WriterFacts DEF OpenOutputs, AccountInv, InRecord, Balanced, WriteType, CountType
<1>7. CASE OpenFails
  BY <1>7, WriterFacts DEF OpenFails, AccountInv, InRecord, Balanced, WriteType, CountType
<1>8. CASE WriteFails
  BY <1>8, WriterFacts DEF WriteFails, AccountInv, InRecord, Balanced, WriteType, CountType
<1>9. CASE CountRecord
  BY <1>9, WriterFacts DEF CountRecord, AccountInv, InRecord, Balanced, WriteType, CountType
<1>10. CASE Commit
  BY <1>10, WriterFacts DEF Commit, AccountInv, InRecord, Balanced, WriteType, CountType
<1>11. CASE InterruptRecord
  BY <1>11, WriterFacts DEF InterruptRecord, AccountInv, InRecord, Balanced, WriteType, CountType
<1>12. CASE TruncateFails
  BY <1>12, WriterFacts DEF TruncateFails, AccountInv, InRecord, Balanced, WriteType, CountType
<1>13. CASE Recovered
  BY <1>13, WriterFacts DEF Recovered, AccountInv, InRecord, Balanced, WriteType, CountType
<1>14. CASE CloseOutputs
  BY <1>14, WriterFacts DEF CloseOutputs, AccountInv, InRecord, Balanced, WriteType, CountType
<1>15. CASE SaveFails
  BY <1>15, WriterFacts DEF SaveFails, AccountInv, InRecord, Balanced, WriteType, CountType
<1>16. CASE Unlock
  BY <1>16, WriterFacts DEF Unlock, AccountInv, InRecord, Balanced, WriteType, CountType
<1>17. CASE Crash
  BY <1>17, WriterFacts DEF Crash, AccountInv, InRecord, Balanced, WriteType, CountType
<1>18. CASE RemoveStaleLock
  BY <1>18, WriterFacts DEF RemoveStaleLock, AccountInv, InRecord, Balanced, WriteType, CountType
<1>19. CASE ReadRecord
  BY <1>19, WriterFacts DEF ReadRecord, Reading, AccountInv, InRecord, Balanced, WriteType,
      CountType
<1>20. CASE Truncate
  BY <1>20, WriterFacts DEF Truncate, AccountInv, InRecord, Balanced, WriteType, CountType
<1>21. CASE Unwind
  <2>1. PICK error \in {0, 1} : writeErrors' = writeErrors + error /\ failed' = (failed \/ error = 1)
    BY <1>21 DEF Unwind
  <2>2. ~failed' => ~failed /\ writeErrors' = 0
    <3>1. ~failed' => ~failed /\ error = 0
      BY <2>1
    <3>2. error = 0 => writeErrors' = writeErrors
      BY <2>1 DEF FlagType
    <3> QED BY <3>1, <3>2 DEF AccountInv
  <2>3. /\ pc = "unwind" /\ pc' = "truncate" /\ count' = counters.count
        /\ UNCHANGED <<recoveryFailed, written, suppressed, snapshot, counters>>
    BY <1>21 DEF Unwind
  <2> QED BY <2>2, <2>3 DEF AccountInv, InRecord, Balanced
<1>22. CASE Save
  <2>1. checkpoint' \in Checkpoints
    BY <1>22, SavedFacts DEF Save, Checkpoints, FileType, CountType, ReadType
  <2>2. checkpoint' # None /\ files' = checkpoint'.artifacts
    BY <1>22, <2>1, SavedFacts DEF Save
  <2>3. pc' = "unlock" /\ UNCHANGED <<failed, writeErrors, recoveryFailed, runs>>
    BY <1>22 DEF Save, errorVars
  <2> QED BY <2>2, <2>3 DEF AccountInv, InRecord, Balanced
<1>23. CASE SaveRefused
  <2>1. failed
    BY <1>23 DEF SaveRefused, CountsMatch, AccountInv, Balanced
  <2> QED BY <1>23, <2>1 DEF SaveRefused, AccountInv, InRecord, Balanced
<1>24. CASE Start
  <2>1. /\ pc' = "read" /\ written' = Empty /\ suppressed' = 0 /\ count' = 0
        /\ writeErrors' = 0 /\ ~recoveryFailed'
    BY <1>24 DEF Start
  <2>2. Empty[Raw] = 0 /\ Empty[Formatted] = 0
    BY WriterFacts DEF Empty
  <2> QED BY <2>1, <2>2 DEF AccountInv, InRecord, Balanced
<1>25. CASE WriteSkipped
  <2>1. todo = <<Formatted>> /\ todo' = <<>> /\ pc = "write" /\ pc' = pc
    BY <1>25, WriterFacts DEF WriteSkipped, WriteType
  <2>2. /\ suppressed' = suppressed + 1
        /\ UNCHANGED <<written, count, snapshot, counters, failed, writeErrors, recoveryFailed>>
    BY <1>25 DEF WriteSkipped
  <2>3. written[Raw] = count + 1 /\ written[Formatted] = (count + 1) - (suppressed + 1)
    BY <2>1 DEF AccountInv, WriteType, CountType
  <2> QED BY <2>1, <2>2, <2>3, WriterFacts DEF AccountInv, InRecord, Balanced
<1>26. CASE WriteRecord
  <2>1. /\ pc = "write" /\ pc' = pc /\ todo' = Tail(todo) /\ todo \in {Writers, <<Formatted>>}
        /\ written' = [written EXCEPT ![Head(todo)] = written[Head(todo)] + 1]
    BY <1>26 DEF WriteRecord, WriteType
  <2>2. UNCHANGED <<suppressed, count, snapshot, counters, failed, writeErrors, recoveryFailed>>
    BY <1>26 DEF WriteRecord
  <2>3. CASE todo = Writers
    <3>1. todo' = <<Formatted>> /\ written'[Raw] = written[Raw] + 1 /\ written'[Formatted] = written[Formatted]
      BY <2>1, <2>3, WriterFacts DEF WriteType
    <3>2. written'[Raw] = count + 1 /\ written'[Formatted] = count - suppressed
      BY <2>1, <2>3, <3>1 DEF AccountInv, Balanced
    <3> QED BY <2>1, <2>2, <3>1, <3>2, WriterFacts DEF AccountInv, InRecord, Balanced
  <2>4. CASE todo = <<Formatted>>
    <3>1. todo' = <<>> /\ written'[Raw] = written[Raw] /\ written'[Formatted] = written[Formatted] + 1
      BY <2>1, <2>4, WriterFacts DEF WriteType
    <3>2. written'[Raw] = count + 1 /\ written'[Formatted] = (count + 1) - suppressed
      BY <2>1, <2>4, <3>1 DEF AccountInv, WriteType, CountType
    <3> QED BY <2>1, <2>2, <3>1, <3>2, WriterFacts DEF AccountInv, InRecord, Balanced
  <2> QED BY <2>1, <2>3, <2>4
<1> QED BY <1>1, <1>2, <1>3, <1>4, <1>5, <1>6, <1>7, <1>8, <1>9, <1>10, <1>11,
           <1>12, <1>13, <1>14, <1>15, <1>16, <1>17, <1>18, <1>19, <1>20, <1>21, <1>22,
           <1>23, <1>24, <1>25, <1>26
        DEF Next

\* A run in which every failed record was rolled back and nothing failed during
\* shutdown leaves outputs the next run may append to (docs/cli-usage.md:436).
THEOREM RolledBackRunsResume == Spec => []RolledBackRunResumes
<1>1. Init => TypeOK /\ FileInv /\ AccountInv
  BY TypeInit, FileInit, AccountInit
<1>2. TypeOK /\ FileInv /\ AccountInv /\ [Next]_vars => (TypeOK /\ FileInv /\ AccountInv)'
  BY TypeNext, FileInvNext, AccountNext
<1>3. AccountInv => RolledBackRunResumes
  BY DEF AccountInv, RolledBackRunResumes, MayResume
<1> QED BY <1>1, <1>2, <1>3, PTL DEF Spec

-----------------------------------------------------------------------------
(* Counting.                                                               *)

\* Those of the first n places of s that hold a record of the set.
Places(s, n, set) == {k \in 1..n : s[k] \in set}
Among(s, n, set) == Cardinality(Places(s, n, set))

LEMMA PlacesFinite ==
    ASSUME NEW s, NEW n \in Nat, NEW set
    PROVE  IsFiniteSet(Places(s, n, set)) /\ Among(s, n, set) \in Nat
<1>1. IsFiniteSet(1..n)
  BY FS_Interval
<1>2. Places(s, n, set) \in SUBSET (1..n)
  BY DEF Places
<1>3. IsFiniteSet(Places(s, n, set))
  BY <1>1, <1>2, FS_Subset
<1> QED BY <1>3, FS_CardinalityType DEF Among

LEMMA AmongNone == ASSUME NEW s, NEW set PROVE Among(s, 0, set) = 0
<1>1. Places(s, 0, set) = {}
  BY DEF Places
<1> QED BY <1>1, FS_EmptySet DEF Among

LEMMA AmongSame ==
    ASSUME NEW s, NEW t, NEW n \in Nat, NEW set, \A k \in 1..n : s[k] = t[k]
    PROVE  Among(s, n, set) = Among(t, n, set)
<1>1. Places(s, n, set) = Places(t, n, set)
  BY DEF Places
<1> QED BY <1>1 DEF Among

\* One place more.
LEMMA AmongNext ==
    ASSUME NEW s, NEW n \in Nat, NEW set
    PROVE  Among(s, n + 1, set) = IF s[n + 1] \in set THEN Among(s, n, set) + 1 ELSE Among(s, n, set)
<1>1. n + 1 \notin Places(s, n, set)
  BY DEF Places
<1>2. CASE s[n + 1] \in set
  <2>1. Places(s, n + 1, set) = Places(s, n, set) \cup {n + 1}
    BY <1>2 DEF Places
  <2>2. Cardinality(Places(s, n, set) \cup {n + 1}) = Cardinality(Places(s, n, set)) + 1
    BY <1>1, PlacesFinite, FS_AddElement
  <2> QED BY <1>2, <2>1, <2>2 DEF Among
<1>3. CASE s[n + 1] \notin set
  <2>1. Places(s, n + 1, set) = Places(s, n, set)
    BY <1>3 DEF Places
  <2> QED BY <1>3, <2>1 DEF Among
<1> QED BY <1>2, <1>3

\* More places hold no fewer; if the others hold none, they hold as many.
LEMMA AmongGrows ==
    ASSUME NEW s, NEW m \in Nat, NEW n \in Nat, m <= n, NEW set
    PROVE  /\ Among(s, m, set) <= Among(s, n, set)
           /\ (\A k \in (m + 1)..n : s[k] \notin set) => Among(s, m, set) = Among(s, n, set)
<1>1. Places(s, m, set) \in SUBSET Places(s, n, set)
  BY DEF Places
<1>2. Among(s, m, set) <= Among(s, n, set)
  BY <1>1, PlacesFinite, FS_Subset DEF Among
<1>3. ASSUME \A k \in (m + 1)..n : s[k] \notin set
      PROVE  Places(s, m, set) = Places(s, n, set)
  BY <1>3 DEF Places
<1> QED BY <1>2, <1>3 DEF Among

LEMMA TimesAppend ==
    ASSUME NEW s \in Seq(Bytes), NEW e \in Bytes, NEW set
    PROVE  /\ Times(s, set) \in Nat
           /\ Times(Append(s, e), set) = IF e \in set THEN Times(s, set) + 1 ELSE Times(s, set)
<1>1. Len(s) \in Nat /\ Len(Append(s, e)) = Len(s) + 1 /\ Append(s, e)[Len(s) + 1] = e
      /\ \A k \in 1..Len(s) : Append(s, e)[k] = s[k]
  BY LenProperties, AppendProperties
<1> DEFINE longer == Append(s, e)
<1>2. Times(s, set) = Among(s, Len(s), set) /\ Times(longer, set) = Among(longer, Len(s) + 1, set)
  BY <1>1 DEF Times, Among, Places
<1>3. longer[Len(s) + 1] = e /\ \A k \in 1..Len(s) : longer[k] = s[k]
  BY <1>1
<1> HIDE DEF longer
<1>4. Among(longer, Len(s), set) = Among(s, Len(s), set)
  BY <1>1, <1>3, AmongSame
<1>5. Among(longer, Len(s) + 1, set) = IF e \in set THEN Among(longer, Len(s), set) + 1 ELSE Among(longer, Len(s), set)
  BY <1>1, <1>3, AmongNext
<1>6. Times(longer, set) = IF e \in set THEN Times(s, set) + 1 ELSE Times(s, set)
  BY <1>2, <1>4, <1>5
<1> QED BY <1>1, <1>2, <1>6, PlacesFinite DEF longer

LEMMA TimesEmpty == ASSUME NEW set PROVE Times(<<>>, set) = 0
<1>1. Len(<<>>) = 0
  BY EmptySeq
<1>2. Times(<<>>, set) = Among(<<>>, 0, set)
  BY <1>1 DEF Times, Among, Places
<1> QED BY <1>2, AmongNone

\* The whole replay has each of its records once.
LEMMA AmongWhole ==
    ASSUME NEW o \in Orders, NEW set \in SUBSET Events
    PROVE  IsFiniteSet(set) /\ Among(o, Len(o), set) = Cardinality(set)
<1>1. o \in Seq(Events) /\ Len(o) \in Nat /\ DOMAIN o = 1..Len(o)
  BY EventsAssumption, LenProperties
<1>2. \A a, b \in 1..Len(o) : o[a] = o[b] => a = b
  BY <1>1, EventsAssumption DEF IsInjective
<1>3. \A e \in Events : \E k \in 1..Len(o) : o[k] = e
  BY <1>1, EventsAssumption DEF ToSet, Range
<1> DEFINE places == Places(o, Len(o), set)
           f == [k \in places |-> o[k]]
<1>4. f \in [places -> set]
  BY DEF Places
<1>5. \A a, b \in places : f[a] = f[b] => a = b
  BY <1>2 DEF Places
<1>6. \A e \in set : \E k \in places : f[k] = e
  BY <1>3 DEF Places
<1> HIDE DEF f
<1>7. f \in Bijection(places, set)
  BY <1>4, <1>5, <1>6 DEF Bijection, Injection, Surjection, IsInjective
<1>8. ExistsBijection(places, set)
  BY <1>7 DEF ExistsBijection
<1>9. IsFiniteSet(places)
  BY <1>1, PlacesFinite
<1> HIDE DEF places
<1>10. IsFiniteSet(set) /\ Cardinality(set) = Cardinality(places)
  BY <1>8, <1>9, FS_Bijection
<1> QED BY <1>10 DEF places, Among

LEMMA CutFacts ==
    ASSUME NEW s \in Seq(Bytes), NEW n \in Nat, n <= Len(s), NEW e \in Bytes
    PROVE  /\ SubSeq(s, 1, n) \in Seq(Bytes) /\ Len(SubSeq(s, 1, n)) = n
           /\ SubSeq(Append(s, e), 1, n) = SubSeq(s, 1, n)
           /\ SubSeq(SubSeq(s, 1, n), 1, n) = SubSeq(s, 1, n)
           /\ SubSeq(s, 1, Len(s)) = s
<1>1. Len(s) \in Nat /\ \A i \in 1..Len(s) : s[i] \in Bytes
  BY LenProperties, ElementOfSeq
<1> DEFINE cut == SubSeq(s, 1, n)
           longer == Append(s, e)
<1>2. cut \in Seq(Bytes) /\ Len(cut) = n /\ \A i \in 1..n : cut[i] = s[i]
  BY <1>1, SubSeqProperties
<1>3. longer \in Seq(Bytes) /\ Len(longer) = Len(s) + 1 /\ \A i \in 1..Len(s) : longer[i] = s[i]
  BY AppendProperties
<1>4. \A i \in 1..Len(longer) : longer[i] \in Bytes
  BY <1>3, ElementOfSeq
<1>5. /\ SubSeq(longer, 1, n) \in Seq(Bytes) /\ Len(SubSeq(longer, 1, n)) = n
      /\ \A i \in 1..n : SubSeq(longer, 1, n)[i] = longer[i]
  <2>1. Len(longer) \in Nat /\ n <= Len(longer)
    BY <1>1, <1>3
  <2> HIDE DEF longer
  <2> QED BY <1>3, <1>4, <2>1, SubSeqProperties
<1>6. SubSeq(longer, 1, n) = cut
  <2> HIDE DEF longer, cut
  <2> QED BY <1>1, <1>2, <1>3, <1>5, SeqEqual
<1>7. SubSeq(cut, 1, n) = cut
  <2> HIDE DEF cut
  <2>1. \A i \in 1..n : cut[i] \in Bytes
    BY <1>2, ElementOfSeq
  <2>2. /\ SubSeq(cut, 1, n) \in Seq(Bytes) /\ Len(SubSeq(cut, 1, n)) = n
        /\ \A i \in 1..n : SubSeq(cut, 1, n)[i] = cut[i]
    BY <1>2, <2>1, SubSeqProperties
  <2> QED BY <1>2, <2>2, SeqEqual
<1>8. SubSeq(s, 1, Len(s)) = s
  <2>1. /\ SubSeq(s, 1, Len(s)) \in Seq(Bytes) /\ Len(SubSeq(s, 1, Len(s))) = Len(s)
        /\ \A i \in 1..Len(s) : SubSeq(s, 1, Len(s))[i] = s[i]
    BY <1>1, SubSeqProperties
  <2> QED BY <2>1, SeqEqual
<1> QED BY <1>2, <1>6, <1>7, <1>8

-----------------------------------------------------------------------------
(* A record on its way through the outputs.                                *)

\* What an output held when the record was read.
Base(w) == SubSeq(Content(files[w]), 1, snapshot.sizes[w])

\* The boundary b after one more record (observe()).
After(b, e) ==
    [offset |-> Offset[e],
     events |-> [IF Offset[e] = b.offset THEN b.events ELSE NoEvents EXCEPT ![Identity[e]] = @ + 1]]

\* The outputs have the record one after the other, and lose it one after the other; the
\* boundary follows when all have it.
StageInv ==
    /\ pc = "open" \/ (pc = "write" /\ todo = Writers) => \A w \in WriterSet : Content(files[w]) = Base(w)
    /\ pc = "write" /\ todo = <<Formatted>> =>
         Content(files[Raw]) = Append(Base(Raw), item) /\ Content(files[Formatted]) = Base(Formatted)
    /\ (pc = "write" /\ todo = <<>>) \/ pc = "commit" =>
         /\ Content(files[Raw]) = Append(Base(Raw), item)
         /\ Content(files[Formatted]) = IF show THEN Append(Base(Formatted), item) ELSE Base(Formatted)
    /\ pc = "truncate" =>
         /\ todo # Writers => Content(files[Raw]) = Base(Raw)
         /\ todo = <<>> => Content(files[Formatted]) = Base(Formatted)
         /\ count = counters.count => boundary = counters.boundary
    /\ pc \in {"open", "write"} => boundary = counters.boundary
    /\ pc = "commit" => boundary = After(counters.boundary, item) /\ count = counters.count + 1

-----------------------------------------------------------------------------
(* The raw output and the replay.                                          *)

Count(s, i, second) == Times(s, Alike(i, second))
Read(n, i, second) == Among(order, n, Alike(i, second))

\* The output holds what the boundary b says.
Matches(s, b) ==
    \A i \in Identities, second \in Seconds :
        /\ Count(s, i, second) =
             IF b.offset = None \/ second > b.offset THEN 0
             ELSE IF second < b.offset THEN Cardinality(Alike(i, second))
             ELSE b.events[i]
        /\ Count(s, i, second) <= Cardinality(Alike(i, second))

\* After n records of the replay: what lies behind the checkpoint was written as it was
\* read, what it names of its own second is still to come or was found again.
Progress(s, n) ==
    \A i \in Identities, second \in Seconds :
        Count(s, i, second) =
          IF prior.offset = None \/ second > prior.offset THEN Read(n, i, second)
          ELSE IF second < prior.offset THEN Cardinality(Alike(i, second))
          ELSE Read(n, i, second) + overlap[i]

Whole(s) ==
    \A i \in Identities, second \in Seconds : Count(s, i, second) = Cardinality(Alike(i, second))

Resumed(s, b, c, n) == Matches(s, b) /\ Progress(s, n) /\ Len(s) = total + c

RawInv ==
    /\ checkpoint # None =>
         /\ Matches(Held(Raw), checkpoint) /\ Len(Held(Raw)) = checkpoint.total
         /\ checkpoint.completed => Whole(Held(Raw))
    /\ InRun => order \in Orders
    /\ pc = "read" => Resumed(Content(files[Raw]), boundary, count, pos) /\ lastOffset = boundary.offset
    /\ pc \in InRecord =>
         pos > 0 /\ Resumed(Base(Raw), counters.boundary, counters.count, pos - 1)
    /\ pc \in {"open", "write", "commit"} =>
         /\ item = order[pos] /\ ~Committed(item) /\ lastOffset = Offset[item]
         /\ counters.boundary.offset # None => counters.boundary.offset <= Offset[item]
    /\ pc \in {"read"} \cup InRecord => ~completed
    /\ pc \in {"close", "save"} /\ ~recoveryFailed /\ written[Raw] = count =>
         /\ Matches(Content(files[Raw]), boundary) /\ Len(Content(files[Raw])) = total + count
         /\ completed => Whole(Content(files[Raw]))

-----------------------------------------------------------------------------
(* The formatted output and the raw one.                                   *)

\* The raw and the formatted output agree, and nothing is torn.
Agree(raw, formatted) ==
    /\ Torn \notin ToSet(raw) /\ Torn \notin ToSet(formatted)
    /\ \A e \in Keyed(None) : Times(formatted, {e}) = Times(raw, {e})
    /\ \A key \in {PaidKey[e] : e \in Events} \ {None} :
         /\ Times(formatted, Keyed(key)) <= Times(raw, Keyed(key))
         /\ Times(raw, Keyed(key)) > 0 => Times(formatted, Keyed(key)) > 0

Shown(formatted, key) == Times(formatted, Keyed(key)) > 0

FormattedInv ==
    /\ checkpoint # None => Agree(Held(Raw), Held(Formatted))
    /\ pc = "read" =>
         /\ Agree(Content(files[Raw]), Content(files[Formatted]))
         /\ \A key \in seen : Shown(Content(files[Formatted]), key)
    /\ pc \in InRecord => Agree(Base(Raw), Base(Formatted))
    /\ pc \in {"open", "write", "commit"} =>
         /\ \A key \in seen : Shown(Base(Formatted), key) \/ (show /\ key = PaidKey[item])
         /\ ~show => PaidKey[item] # None /\ Shown(Base(Formatted), PaidKey[item])
    /\ pc \in {"close", "save"} /\ ~recoveryFailed =>
         Agree(Content(files[Raw]), Content(files[Formatted]))

-----------------------------------------------------------------------------
(* The pure part: one record more, in the output and in the replay.        *)

LEMMA CountFacts ==
    ASSUME NEW s \in Seq(Bytes), NEW e \in Events, NEW i \in Identities, NEW second \in Seconds
    PROVE  /\ Count(s, i, second) \in Nat
           /\ Count(Append(s, e), i, second) =
                IF i = Identity[e] /\ second = Offset[e] THEN Count(s, i, second) + 1 ELSE Count(s, i, second)
<1>1. e \in Alike(i, second) <=> i = Identity[e] /\ second = Offset[e]
  BY DEF Alike
<1> QED BY <1>1, TimesAppend, ConstantFacts DEF Count

LEMMA ReadFacts ==
    ASSUME order \in Orders, NEW n \in Nat, n < Len(order),
           NEW i \in Identities, NEW second \in Seconds
    PROVE  /\ Read(n, i, second) \in Nat /\ Cardinality(Alike(i, second)) \in Nat
           /\ Read(n, i, second) <= Cardinality(Alike(i, second))
           /\ Read(n + 1, i, second) <= Cardinality(Alike(i, second))
           /\ Read(n + 1, i, second) =
                IF i = Identity[order[n + 1]] /\ second = Offset[order[n + 1]]
                THEN Read(n, i, second) + 1 ELSE Read(n, i, second)
           /\ second < Offset[order[n + 1]] => Read(n, i, second) = Cardinality(Alike(i, second))
<1>1. order \in Seq(Events) /\ Len(order) \in Nat /\ DOMAIN order = 1..Len(order)
  BY EventsAssumption, LenProperties
<1>2. \A k \in 1..Len(order) : order[k] \in Events
  BY <1>1, ElementOfSeq
<1>3. Alike(i, second) \in SUBSET Events
  BY DEF Alike
<1>4. IsFiniteSet(Alike(i, second)) /\ Read(Len(order), i, second) = Cardinality(Alike(i, second))
  BY <1>3, AmongWhole DEF Read
<1>5. Read(n, i, second) \in Nat /\ Cardinality(Alike(i, second)) \in Nat
  BY <1>1, <1>4, PlacesFinite DEF Read
<1>6. Read(n, i, second) <= Cardinality(Alike(i, second)) /\ Read(n + 1, i, second) <= Cardinality(Alike(i, second))
  BY <1>1, <1>4, AmongGrows DEF Read
<1>7. order[n + 1] \in Alike(i, second) <=> i = Identity[order[n + 1]] /\ second = Offset[order[n + 1]]
  BY <1>1, <1>2 DEF Alike
<1>8. Read(n + 1, i, second) = IF order[n + 1] \in Alike(i, second) THEN Read(n, i, second) + 1 ELSE Read(n, i, second)
  BY AmongNext DEF Read
<1>9. ASSUME second < Offset[order[n + 1]]
      PROVE  Read(n, i, second) = Cardinality(Alike(i, second))
  <2>1. ASSUME NEW k \in (n + 1)..Len(order)
        PROVE  order[k] \notin Alike(i, second)
    <3>1. k \in DOMAIN order /\ n + 1 \in DOMAIN order /\ n + 1 <= k
      BY <1>1
    <3>2. Offset[order[n + 1]] <= Offset[order[k]]
      BY <3>1, SortedAssumption
    <3>3. Offset[order[n + 1]] \in Int /\ Offset[order[k]] \in Int /\ second \in Int
      BY <1>1, <1>2, <3>1, ConstantFacts
    <3> QED BY <1>9, <3>2, <3>3 DEF Alike
  <2> QED BY <1>1, <1>4, <2>1, AmongGrows DEF Read
<1> QED BY <1>5, <1>6, <1>7, <1>8, <1>9

\* A record that is neither committed nor behind the boundary brings output, boundary and
\* replay forward together.
LEMMA OneMore ==
    ASSUME ReadType, order \in Orders, NEW n \in Nat, n < Len(order),
           NEW s \in Seq(Bytes), NEW b \in Boundaries, Matches(s, b), Progress(s, n),
           ~Committed(order[n + 1]), b.offset # None => b.offset <= Offset[order[n + 1]]
    PROVE  /\ Matches(Append(s, order[n + 1]), After(b, order[n + 1]))
           /\ Progress(Append(s, order[n + 1]), n + 1)
<1> DEFINE e == order[n + 1]
           a == After(b, e)
<1>1. e \in Events /\ Offset[e] \in Seconds /\ Identity[e] \in Identities
  <2>1. order \in Seq(Events) /\ n + 1 \in 1..Len(order)
    BY EventsAssumption, LenProperties
  <2>2. e \in Events
    BY <2>1, ElementOfSeq
  <2> QED BY <2>2, ConstantFacts
<1>2. b.offset \in Seconds \cup {None} /\ b.events \in [Identities -> Nat] /\ Seconds \subseteq Int /\ None \notin Seconds
  BY SavedFacts, ConstantFacts
<1>3. prior.offset \in Seconds \cup {None} /\ overlap \in [Identities -> Nat]
  BY SavedFacts DEF ReadType
<1>4. /\ a.offset = Offset[e]
      /\ \A i \in Identities :
           a.events[i] = (IF Offset[e] = b.offset THEN b.events[i] ELSE 0) + (IF i = Identity[e] THEN 1 ELSE 0)
  BY <1>1, <1>2 DEF After, NoEvents
<1>5. prior.offset # None => Offset[e] >= prior.offset /\ (Offset[e] = prior.offset => overlap[Identity[e]] = 0)
  <2>1. Offset[e] \in Int /\ overlap[Identity[e]] \in Nat /\ (prior.offset # None => prior.offset \in Int)
    BY <1>1, <1>2, <1>3
  <2>2. ~Committed(e)
    OBVIOUS
  <2> HIDE DEF e
  <2> QED BY <2>1, <2>2 DEF Committed
<1> HIDE DEF a, e
<1> SUFFICES ASSUME NEW i \in Identities, NEW second \in Seconds
             PROVE  /\ Count(Append(s, e), i, second) =
                         IF a.offset = None \/ second > a.offset THEN 0
                         ELSE IF second < a.offset THEN Cardinality(Alike(i, second))
                         ELSE a.events[i]
                    /\ Count(Append(s, e), i, second) <= Cardinality(Alike(i, second))
                    /\ Count(Append(s, e), i, second) =
                         IF prior.offset = None \/ second > prior.offset THEN Read(n + 1, i, second)
                         ELSE IF second < prior.offset THEN Cardinality(Alike(i, second))
                         ELSE Read(n + 1, i, second) + overlap[i]
  BY DEF Matches, Progress, a, e
<1> DEFINE c == Count(s, i, second)
           d == Count(Append(s, e), i, second)
           r == Read(n, i, second)
           q == Read(n + 1, i, second)
           all == Cardinality(Alike(i, second))
<1>6. c \in Nat /\ d = IF i = Identity[e] /\ second = Offset[e] THEN c + 1 ELSE c
  BY <1>1, CountFacts
<1>7. /\ r \in Nat /\ all \in Nat /\ r <= all /\ q <= all
      /\ q = IF i = Identity[e] /\ second = Offset[e] THEN r + 1 ELSE r
      /\ second < Offset[e] => r = all
  BY ReadFacts DEF e
<1>8. /\ c = IF b.offset = None \/ second > b.offset THEN 0
             ELSE IF second < b.offset THEN all ELSE b.events[i]
      /\ c <= all
  BY DEF Matches
<1>9. c = IF prior.offset = None \/ second > prior.offset THEN r
          ELSE IF second < prior.offset THEN all ELSE r + overlap[i]
  BY DEF Progress
<1>10. b.offset # None => b.offset <= Offset[e]
  BY DEF e
<1>11. overlap[i] \in Nat /\ a.events[i] = (IF Offset[e] = b.offset THEN b.events[i] ELSE 0) + (IF i = Identity[e] THEN 1 ELSE 0)
  BY <1>3, <1>4
<1>12. b.events[i] \in Nat /\ second \in Int /\ Offset[e] \in Int /\ Offset[e] # None
       /\ (b.offset # None => b.offset \in Int) /\ (prior.offset # None => prior.offset \in Int)
  BY <1>1, <1>2, <1>3
<1> HIDE DEF c, d, r, q, all
<1>13. d = IF prior.offset = None \/ second > prior.offset THEN q
           ELSE IF second < prior.offset THEN all ELSE q + overlap[i]
  <2>1. CASE i = Identity[e] /\ second = Offset[e]
    <3>1. d = c + 1 /\ q = r + 1
      BY <2>1, <1>6, <1>7
    <3>2. prior.offset # None => second >= prior.offset /\ (second = prior.offset => overlap[i] = 0)
      BY <2>1, <1>5
    <3>3. CASE prior.offset = None
      BY <3>1, <3>3, <1>9
    <3>4. CASE prior.offset # None
      BY <3>1, <3>2, <3>4, <1>7, <1>9, <1>11, <1>12
    <3> QED BY <3>3, <3>4
  <2>2. CASE ~(i = Identity[e] /\ second = Offset[e])
    BY <2>2, <1>6, <1>7, <1>9
  <2> QED BY <2>1, <2>2
<1>14. second < Offset[e] => d = all
  BY <1>5, <1>6, <1>7, <1>8, <1>9, <1>11, <1>12
<1>15. second > Offset[e] => d = 0
  BY <1>6, <1>8, <1>10, <1>12
<1>16. second = Offset[e] => d = a.events[i]
  BY <1>6, <1>8, <1>10, <1>11, <1>12
<1>17. d <= all
  <2>1. i = Identity[e] /\ second = Offset[e] => c = r /\ r + 1 <= all
    BY <1>5, <1>7, <1>9, <1>11, <1>12
  <2> QED BY <2>1, <1>6, <1>7, <1>8
<1>18. a.offset = Offset[e]
  BY <1>4
<1> QED BY <1>12, <1>13, <1>14, <1>15, <1>16, <1>17, <1>18 DEF d, q, all

-----------------------------------------------------------------------------
(* Steps inside a record's transaction.                                    *)

Inside ==
    \/ OpenOutputs \/ OpenFails \/ WriteSkipped \/ WriteRecord \/ WriteFails \/ CountRecord
    \/ DeferInterrupt \/ InterruptRecord \/ Unwind \/ Truncate

\* What they do to a file.
LEMMA InsideFiles ==
    ASSUME TypeOK, FileInv, Inside, NEW w \in WriterSet
    PROVE  LET old == Content(files[w])
               new == Content(files[w])'
           IN  \/ new = old
               \/ new = Append(old, Torn) /\ pc' \in {"unwind", "truncate"}
               \/ new = Append(old, item) /\ WriteRecord /\ w = Head(todo)
               \/ new = Base(w) /\ Truncate /\ w = Head(todo)
<1> USE TypeParts DEF fileVars, readVars, recordVars, countVars, signalVars, errorVars
<1>t. \A s \in {Writers, <<Formatted>>, <<>>} : s # <<>> => Head(s) \in WriterSet
  BY WriterFacts
<1>1. CASE WriteSkipped \/ CountRecord \/ DeferInterrupt \/ InterruptRecord
  <2>1. files' = files
    BY <1>1 DEF WriteSkipped, CountRecord, DeferInterrupt, InterruptRecord
  <2> QED BY <2>1
<1>2. CASE OpenOutputs \/ OpenFails
  <2>1. files'[w] = files[w] \/ (files[w] = Absent /\ files'[w] = <<>>)
    BY <1>2 DEF OpenOutputs, OpenFails
  <2> QED BY <2>1 DEF Content
<1>3. CASE WriteRecord
  <2>1. Head(todo) \in WriterSet /\ files[Head(todo)] # Absent /\ item \in Events
    BY <1>3, <1>t DEF WriteRecord, WriteType, FileInv, RecordType
  <2>2. files' = [files EXCEPT ![Head(todo)] = Append(files[Head(todo)], item)]
    BY <1>3 DEF WriteRecord, Grown
  <2>3. CASE w = Head(todo)
    <3>1. files'[w] = Append(files[w], item) /\ Append(files[w], item) \in Contents
      BY <2>1, <2>2, <2>3, GrownType, ConstantFacts DEF FileType
    <3> QED BY <1>3, <2>1, <2>3, <3>1, ConstantFacts DEF Content
  <2>4. CASE w # Head(todo)
    BY <2>1, <2>2, <2>4 DEF FileType
  <2> QED BY <2>3, <2>4
<1>4. CASE WriteFails \/ Unwind
  <2>1. pc' \in {"unwind", "truncate"}
    BY <1>4 DEF WriteFails, Unwind
  <2>2. \/ files' = files
        \/ /\ todo # <<>> /\ files[Head(todo)] # Absent
           /\ files' = [files EXCEPT ![Head(todo)] = Append(files[Head(todo)], Torn)]
    <3>1. CASE WriteFails
      <4>1. Head(todo) \in WriterSet /\ files[Head(todo)] # Absent
        BY <3>1, <1>t DEF WriteFails, WriteType, FileInv
      <4> QED BY <3>1, <4>1 DEF WriteFails, Grown
    <3>2. CASE Unwind
      BY <3>2 DEF Unwind
    <3> QED BY <1>4, <3>1, <3>2
  <2>3. CASE files' = files
    BY <2>3
  <2>4. CASE files' # files
    <3>1. Head(todo) \in WriterSet
      BY <2>2, <2>4, <1>t DEF WriteType
    <3>2. CASE w = Head(todo)
      <4>1. files'[w] = Append(files[w], Torn) /\ Append(files[w], Torn) \in Contents /\ files[w] # Absent
        BY <2>2, <2>4, <3>1, <3>2, GrownType, ConstantFacts DEF FileType
      <4> QED BY <2>1, <4>1, ConstantFacts DEF Content
    <3>3. CASE w # Head(todo)
      BY <2>2, <2>4, <3>1, <3>3 DEF FileType
    <3> QED BY <3>2, <3>3
  <2> QED BY <2>3, <2>4
<1>5. CASE Truncate
  <2>1. Head(todo) \in WriterSet
    BY <1>5, <1>t DEF Truncate, WriteType
  <2>2. CASE files[Head(todo)] = Absent
    BY <1>5, <2>2 DEF Truncate
  <2>3. CASE files[Head(todo)] # Absent /\ w = Head(todo)
    <3>1. files'[w] = SubSeq(files[w], 1, snapshot.sizes[w])
      BY <1>5, <2>1, <2>3 DEF Truncate, FileType
    <3>2. files[w] \in Seq(Bytes) /\ snapshot.sizes[w] \in Nat /\ snapshot.sizes[w] <= Len(files[w])
      BY <1>5, <2>3, ContentFacts DEF Truncate, FileInv, InRecord, RecordType, Content
    <3>3. SubSeq(files[w], 1, snapshot.sizes[w]) \in Contents
      BY <3>2, CutFacts, ConstantFacts
    <3> QED BY <1>5, <2>3, <3>1, <3>3, ConstantFacts DEF Content, Base
  <2>4. CASE files[Head(todo)] # Absent /\ w # Head(todo)
    BY <1>5, <2>1, <2>4 DEF Truncate, FileType
  <2> QED BY <2>2, <2>3, <2>4
<1> QED BY <1>1, <1>2, <1>3, <1>4, <1>5 DEF Inside

LEMMA BaseType ==
    ASSUME TypeOK, FileInv, pc \in InRecord, NEW w \in WriterSet
    PROVE  /\ Content(files[w]) \in Seq(Bytes) /\ Base(w) \in Seq(Bytes)
           /\ snapshot.sizes[w] \in Nat /\ snapshot.sizes[w] <= Len(Content(files[w]))
           /\ Len(Base(w)) = snapshot.sizes[w]
<1>1. Content(files[w]) \in Seq(Bytes) /\ snapshot.sizes[w] \in Nat /\ snapshot.sizes[w] <= Len(Content(files[w]))
  BY TypeParts, ContentFacts DEF FileInv, RecordType
<1>2. Torn \in Bytes
  BY ConstantFacts
<1> QED BY <1>1, <1>2, CutFacts DEF Base

\* They leave what the outputs held before the record, and what the run has of the replay.
LEMMA InsideKeeps ==
    ASSUME TypeOK, FileInv, Inside
    PROVE  /\ pc \in InRecord /\ pc' \in InRecord
           /\ pc' \in {"open", "write", "commit"} => pc \in {"open", "write", "commit"}
           /\ \A w \in WriterSet : Base(w)' = Base(w)
           /\ UNCHANGED <<checkpoint, order, pos, prior, overlap, lastOffset, total, completed,
                          item, show, seen, snapshot, counters, recoveryFailed>>
<1>1. /\ pc \in InRecord /\ pc' \in InRecord
      /\ pc' \in {"open", "write", "commit"} => pc \in {"open", "write", "commit"}
  BY DEF Inside, InRecord, OpenOutputs, OpenFails, WriteSkipped, WriteRecord, WriteFails, CountRecord,
      DeferInterrupt, InterruptRecord, Unwind, Truncate
<1>2. UNCHANGED <<checkpoint, order, pos, prior, overlap, lastOffset, total, completed,
                  item, show, seen, snapshot, counters, recoveryFailed>>
  BY DEF Inside, OpenOutputs, OpenFails, WriteSkipped, WriteRecord, WriteFails, CountRecord,
      DeferInterrupt, InterruptRecord, Unwind, Truncate,
      fileVars, readVars, recordVars, countVars, signalVars, errorVars
<1>3. ASSUME NEW w \in WriterSet PROVE Base(w)' = Base(w)
  <2> DEFINE old == Content(files[w])
             new == Content(files[w])'
             n == snapshot.sizes[w]
  <2>1. old \in Seq(Bytes) /\ n \in Nat /\ n <= Len(old) /\ Torn \in Bytes
    BY <1>1, BaseType, ConstantFacts
  <2>2. Base(w)' = SubSeq(new, 1, n) /\ Base(w) = SubSeq(old, 1, n)
    BY <1>2 DEF Base
  <2>3. new = old \/ (\E e \in Bytes : new = Append(old, e)) \/ new = SubSeq(old, 1, n)
    <3>1. WriteRecord => item \in Bytes
      BY TypeParts, ConstantFacts DEF WriteRecord, RecordType
    <3> QED BY <2>1, <2>2, <3>1, InsideFiles
  <2> HIDE DEF old, new, n
  <2> QED BY <2>1, <2>2, <2>3, CutFacts
<1> QED BY <1>1, <1>2, <1>3

LEMMA StageInit == Init => StageInv
  BY DEF Init, StageInv

LEMMA StageNext == TypeOK /\ FileInv /\ AccountInv /\ StageInv /\ [Next]_vars => StageInv'
<1> SUFFICES ASSUME TypeOK, FileInv, AccountInv, StageInv, [Next]_vars PROVE StageInv'
  OBVIOUS
<1> USE TypeParts DEF fileVars, readVars, recordVars, countVars, signalVars, errorVars
<1>1. CASE UNCHANGED vars
  <2>1. UNCHANGED <<files, pc, boundary, count, item, todo, show, snapshot, counters>>
    BY <1>1 DEF vars
  <2> QED BY <2>1 DEF StageInv, Base
<1>2. CASE
    \/ Start \/ SkipCommitted \/ ReadRejected \/ ReadFails \/ ReadEnds \/ OpenFails
    \/ WriteFails \/ Commit \/ TruncateFails \/ Recovered \/ CloseOutputs \/ Save
    \/ SaveRefused \/ SaveFails \/ Unlock \/ Crash \/ RemoveStaleLock
  <2>1. pc' \notin {"open", "write", "commit", "truncate"}
    BY <1>2 DEF
        Start, SkipCommitted, Reading, ReadRejected, ReadFails, ReadEnds, OpenFails, WriteFails,
        Commit, TruncateFails, Recovered, CloseOutputs, Save, SaveRefused, SaveFails,
        Unlock, Crash, RemoveStaleLock
  <2> QED BY <2>1 DEF StageInv
<1>3. CASE ReadRecord
  <2>1. pc' = "open" /\ files' = files /\ snapshot'.sizes = Sizes /\ counters'.boundary = boundary' /\ todo' = Writers
    BY <1>3 DEF ReadRecord
  <2>2. ASSUME NEW w \in WriterSet PROVE Content(files[w])' = Base(w)'
    <3>1. Sizes[w] = Len(Content(files[w]))
      BY EmptySeq DEF Sizes, Content
    <3>2. SubSeq(Content(files[w]), 1, Len(Content(files[w]))) = Content(files[w])
      BY ContentFacts, ConstantFacts, CutFacts
    <3> QED BY <2>1, <3>1, <3>2 DEF Base
  <2> QED BY <2>1, <2>2 DEF StageInv
<1>4. ASSUME Inside
      PROVE  /\ \A w \in WriterSet : Base(w)' = Base(w)
             /\ UNCHANGED <<item, show, snapshot, counters>>
  BY <1>4, InsideKeeps
<1>5. CASE OpenOutputs
  <2>1. /\ pc = "open" /\ pc' = "write" /\ todo = Writers /\ UNCHANGED <<todo, boundary, count>>
        /\ \A w \in WriterSet : Content(files[w])' = Content(files[w])
    BY <1>5 DEF OpenOutputs, AccountInv, Content
  <2> QED BY <1>4, <1>5, <2>1, WriterFacts DEF StageInv, Inside
<1>6. CASE WriteSkipped
  <2>1. todo = <<Formatted>> /\ todo' = <<>> /\ ~show /\ pc = "write" /\ UNCHANGED <<pc, files, boundary, count>>
    BY <1>6, WriterFacts DEF WriteSkipped, WriteType
  <2> QED BY <1>4, <1>6, <2>1, WriterFacts DEF StageInv, Inside
<1>7. CASE WriteRecord
  <2>1. /\ pc = "write" /\ todo # <<>> /\ (todo = <<Formatted>> => show) /\ todo' = Tail(todo)
        /\ UNCHANGED <<pc, boundary, count>>
    BY <1>7, WriterFacts DEF WriteRecord
  <2>2. Content(files'[Head(todo)]) = Append(Content(files[Head(todo)]), item)
    <3>1. Head(todo) \in WriterSet /\ files[Head(todo)] # Absent /\ item \in Events
      BY <2>1, WriterFacts DEF WriteType, FileInv, RecordType
    <3>2. files' = [files EXCEPT ![Head(todo)] = Append(files[Head(todo)], item)]
      BY <1>7 DEF WriteRecord, Grown
    <3>3. files'[Head(todo)] = Append(files[Head(todo)], item) /\ files'[Head(todo)] \in Contents
      BY <3>1, <3>2, GrownType, ConstantFacts DEF FileType
    <3> QED BY <3>1, <3>3, ConstantFacts DEF Content
  <2>3. \A w \in WriterSet : w # Head(todo) => Content(files[w])' = Content(files[w])
    BY <1>7 DEF WriteRecord, FileType
  <2>4. CASE todo = Writers
    <3>1. todo' = <<Formatted>> /\ Head(todo) = Raw
      BY <2>1, <2>4, WriterFacts
    <3>2. Content(files[Raw])' = Append(Base(Raw), item) /\ Content(files[Formatted])' = Base(Formatted)
      BY <2>1, <2>2, <2>3, <2>4, <3>1, WriterFacts DEF StageInv
    <3> QED BY <1>4, <1>7, <2>1, <3>1, <3>2, WriterFacts DEF StageInv, Inside
  <2>5. CASE todo = <<Formatted>>
    <3>1. todo' = <<>> /\ Head(todo) = Formatted
      BY <2>1, <2>5, WriterFacts
    <3>2. /\ Content(files[Raw])' = Append(Base(Raw), item)
          /\ Content(files[Formatted])' = Append(Base(Formatted), item)
      BY <2>1, <2>2, <2>3, <2>5, <3>1, WriterFacts DEF StageInv
    <3> QED BY <1>4, <1>7, <2>1, <2>5, <3>1, <3>2, WriterFacts DEF StageInv, Inside
  <2> QED BY <2>1, <2>4, <2>5 DEF WriteType
<1>8. CASE CountRecord
  <2>1. pc = "write" /\ todo = <<>> /\ pc' = "commit" /\ files' = files /\ count' = count + 1 /\ boundary' = Observe(item)
    BY <1>8 DEF CountRecord
  <2>2. Observe(item) = After(boundary, item) /\ boundary = counters.boundary /\ count = counters.count
    BY <2>1 DEF Observe, After, StageInv, AccountInv
  <2> QED BY <1>4, <1>8, <2>1, <2>2, WriterFacts DEF StageInv, Inside
<1>9. CASE DeferInterrupt
  <2>1. UNCHANGED <<pc, files, todo, boundary, count>>
    BY <1>9 DEF DeferInterrupt
  <2> QED BY <1>4, <1>9, <2>1, WriterFacts DEF StageInv, Inside
<1>10. CASE InterruptRecord
  <2>1. CASE pc # "commit"
    BY <1>10, <2>1 DEF InterruptRecord, StageInv
  <2>2. CASE pc = "commit"
    <3>1. pc' = "truncate" /\ todo' = Writers /\ count' = counters'.count + 1 /\ counters' = counters
      BY <1>10, <2>2 DEF InterruptRecord, StageInv
    <3>2. counters.count \in Nat
      BY <2>2 DEF RecordType, InRecord
    <3>3. count' # counters'.count
      BY <3>1, <3>2
    <3> QED BY <3>1, <3>3, WriterFacts DEF StageInv
  <2> QED BY <2>1, <2>2
<1>11. CASE Unwind
  <2>1. pc' = "truncate" /\ todo' = Writers /\ boundary' = counters'.boundary
    BY <1>11 DEF Unwind
  <2> QED BY <2>1, WriterFacts DEF StageInv
<1>12. CASE Truncate
  <2>1. pc = "truncate" /\ todo # <<>> /\ todo' = Tail(todo) /\ UNCHANGED <<pc, boundary, count>>
    BY <1>12 DEF Truncate
  <2>2. Content(files'[Head(todo)]) = Base(Head(todo))
    <3>1. Head(todo) \in WriterSet
      BY <2>1, WriterFacts DEF WriteType
    <3>2. CASE files[Head(todo)] = Absent
      <4>1. Content(files'[Head(todo)]) = Content(files[Head(todo)]) /\ Content(files[Head(todo)]) = <<>>
        BY <1>12, <3>2 DEF Truncate, Content
      <4>2. snapshot.sizes[Head(todo)] = 0 /\ Len(<<>>) = 0 /\ <<>> \in Seq(Bytes)
        BY <2>1, <3>1, <4>1, BaseType, EmptySeq DEF InRecord
      <4>3. SubSeq(<<>>, 1, 0) = <<>>
        BY <4>2, CutFacts, ConstantFacts
      <4> QED BY <4>1, <4>2, <4>3 DEF Base
    <3>3. CASE files[Head(todo)] # Absent
      <4>1. files'[Head(todo)] = SubSeq(files[Head(todo)], 1, snapshot.sizes[Head(todo)])
        BY <1>12, <3>1, <3>3 DEF Truncate, FileType
      <4>2. files'[Head(todo)] = Base(Head(todo))
        BY <3>3, <4>1 DEF Base, Content
      <4>3. Base(Head(todo)) \in Contents
        BY <2>1, <3>1, BaseType, ConstantFacts DEF InRecord
      <4> QED BY <4>2, <4>3, ConstantFacts DEF Content
    <3> QED BY <3>2, <3>3
  <2>3. \A w \in WriterSet : w # Head(todo) => Content(files[w])' = Content(files[w])
    BY <1>12 DEF Truncate, FileType
  <2>4. CASE todo = Writers
    <3>1. todo' = <<Formatted>> /\ Head(todo) = Raw
      BY <2>1, <2>4, WriterFacts
    <3> QED BY <1>4, <1>12, <2>1, <2>2, <2>3, <3>1, WriterFacts DEF StageInv, Inside
  <2>5. CASE todo = <<Formatted>>
    <3>1. todo' = <<>> /\ Head(todo) = Formatted
      BY <2>1, <2>5, WriterFacts
    <3>2. Content(files[Raw])' = Base(Raw)
      BY <2>1, <2>3, <2>5, <3>1, WriterFacts DEF StageInv
    <3> QED BY <1>4, <1>12, <2>1, <2>2, <3>1, <3>2, WriterFacts DEF StageInv, Inside
  <2> QED BY <2>1, <2>4, <2>5 DEF WriteType
<1> QED BY <1>1, <1>2, <1>3, <1>5, <1>6, <1>7, <1>8, <1>9, <1>10, <1>11, <1>12
        DEF Next

-----------------------------------------------------------------------------
(* A checkpoint is a place to resume from.                                 *)

LEMMA RawInit == Init => RawInv
  BY DEF Init, RawInv, InRun, InRecord

\* A run begins where the checkpoint says.
LEMMA RawStart == TypeOK /\ RawInv /\ Start => RawInv'
<1> SUFFICES ASSUME TypeOK, RawInv, Start PROVE RawInv'
  OBVIOUS
<1> USE TypeParts
<1>1. /\ pc' = "read" /\ order' \in Orders /\ pos' = 0 /\ count' = 0 /\ ~completed'
      /\ UNCHANGED <<files, checkpoint>> /\ lastOffset' = boundary'.offset
      /\ prior' = boundary' /\ overlap' = boundary'.events
  BY SavedFacts DEF Start, NoBoundary
<1>2. /\ Matches(Content(files[Raw]), boundary') /\ Len(Content(files[Raw])) = total'
      /\ boundary' \in Boundaries /\ total' \in Nat
  <2>1. CASE checkpoint = None
    <3>1. files[Raw] = Absent /\ boundary' = NoBoundary /\ total' = 0
      BY <2>1, WriterFacts DEF Start, MayResume
    <3>2. Content(files[Raw]) = <<>> /\ Len(<<>>) = 0
      BY <3>1, EmptySeq DEF Content
    <3>3. \A i \in Identities, second \in Seconds :
            Count(<<>>, i, second) = 0 /\ Cardinality(Alike(i, second)) \in Nat
      <4> TAKE i \in Identities, second \in Seconds
      <4>1. Alike(i, second) \in SUBSET Events
        BY DEF Alike
      <4>2. IsFiniteSet(Alike(i, second))
        BY <1>1, <4>1, AmongWhole
      <4> QED BY <4>2, TimesEmpty, FS_CardinalityType DEF Count
    <3>4. NoBoundary.offset = None
      BY DEF NoBoundary
    <3>5. Matches(<<>>, NoBoundary)
      BY <3>3, <3>4 DEF Matches
    <3> QED BY <3>1, <3>2, <3>5, ConstantFacts
  <2>2. CASE checkpoint # None
    <3>1. /\ boundary' = [offset |-> checkpoint.offset, events |-> checkpoint.events]
          /\ total' = checkpoint.total /\ files = checkpoint.artifacts
      BY <2>2 DEF Start, MayResume
    <3>2. Content(files[Raw]) = Held(Raw)
      BY <3>1 DEF Content, Held
    <3>3. boundary'.offset = checkpoint.offset /\ boundary'.events = checkpoint.events
      BY <3>1
    <3>4. Matches(Held(Raw), checkpoint) /\ Len(Held(Raw)) = checkpoint.total
      BY <2>2 DEF RawInv
    <3>5. boundary' \in Boundaries /\ total' \in Nat
      BY <2>2, <3>1, SavedFacts DEF FileType
    <3>6. Matches(Held(Raw), boundary')
      BY <3>3, <3>4 DEF Matches
    <3> QED BY <3>1, <3>2, <3>4, <3>5, <3>6
  <2> QED BY <2>1, <2>2
<1>3. Progress(Content(files[Raw]), 0)'
  <2> SUFFICES ASSUME NEW i \in Identities, NEW second \in Seconds
               PROVE  Count(Content(files[Raw]), i, second) =
                        IF prior'.offset = None \/ second > prior'.offset THEN Among(order', 0, Alike(i, second))
                        ELSE IF second < prior'.offset THEN Cardinality(Alike(i, second))
                        ELSE Among(order', 0, Alike(i, second)) + overlap'[i]
    BY <1>1 DEF Progress, Read
  <2>1. Among(order', 0, Alike(i, second)) = 0
    BY AmongNone
  <2>2. boundary'.events[i] \in Nat
    BY <1>2, SavedFacts
  <2> QED BY <1>1, <1>2, <2>1, <2>2 DEF Matches
<1>4. checkpoint' # None =>
         /\ Matches(Held(Raw), checkpoint)' /\ Len(Held(Raw)') = checkpoint'.total
         /\ checkpoint'.completed => Whole(Held(Raw))'
  BY <1>1 DEF RawInv, Held
<1>5. Resumed(Content(files[Raw]), boundary, count, pos)'
  <2>1. files' = files /\ pos' = 0 /\ count' = 0
    BY <1>1
  <2>2. total' + count' = total'
    <3>1. total' \in Nat
      BY <1>2
    <3>2. \A n \in Nat : n + 0 = n
      OBVIOUS
    <3> QED BY <2>1, <3>1, <3>2
  <2>4. Matches(Content(files'[Raw]), boundary') /\ Len(Content(files'[Raw])) = total' + count'
    BY <1>2, <2>1, <2>2
  <2>3. Progress(Content(files[Raw]), pos)'
    BY <1>1, <1>3 DEF Progress, Read
  <2> QED BY <2>3, <2>4 DEF Resumed
<1> QED BY <1>1, <1>4, <1>5 DEF RawInv, InRun, InRecord

\* What an earlier run committed comes once more and is passed over.
LEMMA RawSkip == TypeOK /\ RawInv /\ SkipCommitted => RawInv'
<1> SUFFICES ASSUME TypeOK, RawInv, SkipCommitted PROVE RawInv'
  OBVIOUS
<1> USE TypeParts DEF fileVars, readVars, recordVars, countVars, signalVars, errorVars
<1> DEFINE e == NextEvent
           s == Content(files[Raw])
<1>1. /\ pc = "read" /\ pc' = "read" /\ pos' = pos + 1 /\ pos < Len(order) /\ Committed(e)
      /\ overlap' = IF Offset[e] = prior.offset
                    THEN [overlap EXCEPT ![Identity[e]] = overlap[Identity[e]] - 1] ELSE overlap
      /\ UNCHANGED <<files, checkpoint, order, prior, lastOffset, total, completed, boundary, count>>
  BY DEF SkipCommitted, Reading
<1>2. Matches(s, boundary) /\ Progress(s, pos) /\ Len(s) = total + count /\ order \in Orders
  BY <1>1 DEF RawInv, Resumed, InRun
<1>3. e \in Events /\ Offset[e] \in Seconds /\ Identity[e] \in Identities /\ e = order[pos + 1] /\ pos \in Nat
  BY NextEventType DEF SkipCommitted, ReadType, NextEvent
<1>4. prior.offset \in Seconds /\ Offset[e] <= prior.offset /\ Seconds \subseteq Int
      /\ (Offset[e] = prior.offset => overlap[Identity[e]] > 0) /\ overlap \in [Identities -> Nat]
  <2>1. prior.offset \in Seconds /\ Seconds \subseteq Int
    BY <1>1, SavedFacts, ConstantFacts DEF ReadType, Committed
  <2>2. Offset[e] \in Int /\ prior.offset \in Int
    BY <1>3, <2>1
  <2> HIDE DEF e
  <2> QED BY <1>1, <2>1, <2>2 DEF Committed, ReadType
<1> HIDE DEF e
<1>5. Progress(s, pos)'
  <2> SUFFICES ASSUME NEW i \in Identities, NEW second \in Seconds
               PROVE  Count(s, i, second) =
                        IF prior.offset = None \/ second > prior.offset THEN Read(pos + 1, i, second)
                        ELSE IF second < prior.offset THEN Cardinality(Alike(i, second))
                        ELSE Read(pos + 1, i, second) + overlap'[i]
    BY <1>1 DEF Progress, Read
  <2> DEFINE r == Read(pos, i, second)
             q == Read(pos + 1, i, second)
  <2>1. r \in Nat /\ q = IF i = Identity[e] /\ second = Offset[e] THEN r + 1 ELSE r
    BY <1>1, <1>2, <1>3, ReadFacts
  <2>2. Count(s, i, second) =
          IF prior.offset = None \/ second > prior.offset THEN r
          ELSE IF second < prior.offset THEN Cardinality(Alike(i, second)) ELSE r + overlap[i]
    BY <1>2 DEF Progress
  <2>3. second = prior.offset =>
          overlap'[i] = IF i = Identity[e] /\ second = Offset[e] THEN overlap[i] - 1 ELSE overlap[i]
    BY <1>1, <1>3, <1>4
  <2>4. overlap[i] \in Nat /\ second \in Int /\ prior.offset \in Int /\ Offset[e] \in Int
    BY <1>3, <1>4
  <2> HIDE DEF r, q
  <2>5. second > prior.offset => q = r
    BY <1>4, <2>1, <2>4
  <2>6. second = prior.offset => q + overlap'[i] = r + overlap[i]
    BY <2>1, <2>3, <2>4
  <2>7. prior.offset # None
    BY <1>4, ConstantFacts
  <2> QED BY <2>2, <2>4, <2>5, <2>6, <2>7 DEF q
<1>6. Resumed(s, boundary, count, pos)'
  BY <1>1, <1>2, <1>5 DEF Resumed
<1>7. /\ lastOffset' = boundary'.offset /\ ~completed'
      /\ checkpoint' # None =>
         /\ Matches(Held(Raw), checkpoint)' /\ Len(Held(Raw)') = checkpoint'.total
         /\ checkpoint'.completed => Whole(Held(Raw))'
  BY <1>1 DEF RawInv, Held, InRecord
<1> QED BY <1>1, <1>2, <1>6, <1>7 DEF RawInv, InRun, InRecord

LEMMA RawRead == TypeOK /\ RawInv /\ ReadRecord => RawInv'
<1> SUFFICES ASSUME TypeOK, RawInv, ReadRecord PROVE RawInv'
  OBVIOUS
<1> USE TypeParts DEF fileVars, readVars, recordVars, countVars, signalVars, errorVars
<1>1. /\ pc = "read" /\ pc' = "open" /\ pos' = pos + 1 /\ item' = order[pos + 1] /\ lastOffset' = Offset[item']
      /\ ~Committed(order[pos + 1]) /\ ~MovedBackwards(order[pos + 1])
      /\ snapshot'.sizes = Sizes /\ counters'.boundary = boundary /\ counters'.count = count
      /\ UNCHANGED <<files, checkpoint, order, prior, overlap, total, completed>>
  BY DEF ReadRecord, Reading, NextEvent, Rejected
<1>2. Resumed(Content(files[Raw]), boundary, count, pos) /\ lastOffset = boundary.offset /\ order \in Orders
  BY <1>1 DEF RawInv, InRun
<1>3. Base(Raw)' = Content(files[Raw])
  <2>1. Sizes[Raw] = Len(Content(files[Raw]))
    BY EmptySeq, WriterFacts DEF Sizes, Content
  <2>2. SubSeq(Content(files[Raw]), 1, Len(Content(files[Raw]))) = Content(files[Raw])
    BY ContentFacts, WriterFacts, ConstantFacts, CutFacts
  <2> QED BY <1>1, <2>1, <2>2 DEF Base
<1>4. pos \in Nat /\ pos' > 0 /\ pos' - 1 = pos
  <2>1. pos \in 0..Len(order)
    BY DEF ReadType
  <2> QED BY <1>1, <2>1
<1>5. Resumed(Base(Raw), counters.boundary, counters.count, pos - 1)'
  BY <1>1, <1>2, <1>3, <1>4 DEF Resumed, Progress, Read
<1>6. ~Committed(item)' /\ item' = order'[pos']
  BY <1>1 DEF Committed
<1>7. boundary.offset # None => boundary.offset <= Offset[item']
  <2>1. item' \in Events /\ Offset[item'] \in Int
    BY <1>1, NextEventType, ConstantFacts DEF ReadRecord, NextEvent
  <2>2. boundary.offset # None => boundary.offset \in Int
    BY SavedFacts, ConstantFacts DEF CountType
  <2> QED BY <1>1, <1>2, <2>1, <2>2 DEF MovedBackwards
<1>8. /\ ~completed'
      /\ checkpoint' # None =>
         /\ Matches(Held(Raw), checkpoint)' /\ Len(Held(Raw)') = checkpoint'.total
         /\ checkpoint'.completed => Whole(Held(Raw))'
  BY <1>1 DEF RawInv, Held, InRecord
<1> QED BY <1>1, <1>2, <1>4, <1>5, <1>6, <1>7, <1>8 DEF RawInv, InRun, InRecord

\* Reading ends; only with the replay at its end can the capture be complete.
LEMMA RawEnds == TypeOK /\ RawInv /\ (ReadRejected \/ ReadFails \/ ReadEnds) => RawInv'
<1> SUFFICES ASSUME TypeOK, RawInv, ReadRejected \/ ReadFails \/ ReadEnds PROVE RawInv'
  OBVIOUS
<1> USE TypeParts DEF fileVars, readVars, recordVars, countVars, signalVars, errorVars
<1> DEFINE s == Content(files[Raw])
<1>1. /\ pc = "read" /\ pc' = "close" /\ (completed' => pos = Len(order))
      /\ UNCHANGED <<files, checkpoint, order, boundary, count, total>>
  <2>1. pc = "read" /\ ~completed
    BY DEF RawInv, InRecord, ReadRejected, ReadFails, ReadEnds, Reading
  <2>2. CASE ReadRejected \/ ReadFails
    BY <2>1, <2>2 DEF ReadRejected, ReadFails
  <2>3. CASE ReadEnds
    BY <2>1, <2>3 DEF ReadEnds
  <2> QED BY <2>2, <2>3
<1>2. Matches(s, boundary) /\ Progress(s, pos) /\ Len(s) = total + count /\ order \in Orders
  BY <1>1 DEF RawInv, Resumed, InRun
<1>3. ASSUME pos = Len(order) PROVE Whole(s)
  <2> SUFFICES ASSUME NEW i \in Identities, NEW second \in Seconds
               PROVE  Count(s, i, second) = Cardinality(Alike(i, second))
    BY DEF Whole
  <2> DEFINE all == Cardinality(Alike(i, second))
  <2>1. Alike(i, second) \in SUBSET Events
    BY DEF Alike
  <2>2. Read(pos, i, second) = all /\ all \in Nat
    BY <1>2, <1>3, <2>1, AmongWhole, FS_CardinalityType DEF Read
  <2>3. Count(s, i, second) <= all
    BY <1>2 DEF Matches
  <2>4. Count(s, i, second) = IF prior.offset = None \/ second > prior.offset THEN all
                              ELSE IF second < prior.offset THEN all ELSE all + overlap[i]
    BY <1>2, <2>2 DEF Progress
  <2>5. overlap[i] \in Nat
    BY DEF ReadType
  <2> HIDE DEF all
  <2>6. all + overlap[i] <= all => all + overlap[i] = all
    BY <2>2, <2>5
  <2> QED BY <2>3, <2>4, <2>6 DEF all
<1>4. checkpoint' # None =>
         /\ Matches(Held(Raw), checkpoint)' /\ Len(Held(Raw)') = checkpoint'.total
         /\ checkpoint'.completed => Whole(Held(Raw))'
  BY <1>1 DEF RawInv, Held
<1>5. /\ Matches(s, boundary)' /\ Len(s') = total' + count' /\ completed' => Whole(s')
  BY <1>1, <1>2, <1>3
<1> QED BY <1>1, <1>2, <1>4, <1>5 DEF RawInv, InRun, InRecord

LEMMA RawInside == TypeOK /\ FileInv /\ RawInv /\ Inside => RawInv'
<1> SUFFICES ASSUME TypeOK, FileInv, RawInv, Inside PROVE RawInv'
  OBVIOUS
<1>1. /\ pc \in InRecord /\ pc' \in InRecord
      /\ pc' \in {"open", "write", "commit"} => pc \in {"open", "write", "commit"}
      /\ Base(Raw)' = Base(Raw)
      /\ UNCHANGED <<checkpoint, order, pos, prior, overlap, lastOffset, total, completed,
                     item, counters>>
  BY InsideKeeps, WriterFacts
<1>2. order \in Orders /\ pos > 0 /\ Resumed(Base(Raw), counters.boundary, counters.count, pos - 1) /\ ~completed
  BY <1>1 DEF RawInv, InRun, InRecord
<1>3. Resumed(Base(Raw), counters.boundary, counters.count, pos - 1)'
  BY <1>1, <1>2 DEF Resumed, Progress, Read
<1>4. checkpoint' # None =>
         /\ Matches(Held(Raw), checkpoint)' /\ Len(Held(Raw)') = checkpoint'.total
         /\ checkpoint'.completed => Whole(Held(Raw))'
  BY <1>1 DEF RawInv, Held
<1>5. pc' \in {"open", "write", "commit"} =>
         /\ item' = order'[pos'] /\ ~Committed(item)' /\ lastOffset' = Offset[item']
         /\ counters'.boundary.offset # None => counters'.boundary.offset <= Offset[item']
  BY <1>1 DEF RawInv, Committed
<1>6. pc' \notin {"read", "close", "save"}
  BY <1>1 DEF InRecord
<1> QED BY <1>1, <1>2, <1>3, <1>4, <1>5, <1>6 DEF RawInv

\* The record is in the output, and the boundary is the one behind it.
LEMMA RawCommit == TypeOK /\ FileInv /\ StageInv /\ RawInv /\ Commit => RawInv'
<1> SUFFICES ASSUME TypeOK, FileInv, StageInv, RawInv, Commit PROVE RawInv'
  OBVIOUS
<1> USE TypeParts DEF fileVars, readVars, recordVars, countVars, signalVars, errorVars
<1> DEFINE s == Content(files[Raw])
           e == order[pos]
           n == pos - 1
<1>1. /\ pc = "commit" /\ pc' \in {"read", "close"}
      /\ UNCHANGED <<files, checkpoint, order, pos, prior, overlap, lastOffset, total, completed, boundary, count>>
  BY DEF Commit
<1>2. s = Append(Base(Raw), item) /\ boundary = After(counters.boundary, item) /\ count = counters.count + 1
  BY <1>1 DEF StageInv
<1>3. /\ Resumed(Base(Raw), counters.boundary, counters.count, n) /\ pos > 0 /\ order \in Orders
      /\ item = e /\ ~Committed(e) /\ lastOffset = Offset[e] /\ ~completed
      /\ counters.boundary.offset # None => counters.boundary.offset <= Offset[e]
  BY <1>1 DEF RawInv, InRun, InRecord
<1>4. n \in Nat /\ n < Len(order) /\ n + 1 = pos
  <2>1. pos \in 0..Len(order) /\ Len(order) \in Nat
    BY LenProperties DEF ReadType
  <2> QED BY <1>3, <2>1
<1>5. Base(Raw) \in Seq(Bytes) /\ counters.boundary \in Boundaries /\ counters.count \in Nat /\ total \in Nat /\ item \in Bytes
  BY <1>1, BaseType, WriterFacts, ConstantFacts DEF InRecord, RecordType, FileType
<1>6. Matches(s, boundary) /\ Progress(s, pos)
  <2>1. /\ Matches(Base(Raw), counters.boundary) /\ Progress(Base(Raw), n)
        /\ e = order[n + 1]
    BY <1>3, <1>4 DEF Resumed
  <2> HIDE DEF n, e
  <2>2. Matches(Append(Base(Raw), e), After(counters.boundary, e)) /\ Progress(Append(Base(Raw), e), n + 1)
    BY <1>3, <1>4, <1>5, <2>1, OneMore
  <2> QED BY <1>2, <1>3, <1>4, <2>2
<1>7. Len(s) = total + count
  <2>1. Len(s) = Len(Base(Raw)) + 1
    BY <1>2, <1>5, AppendProperties
  <2> HIDE DEF s
  <2> QED BY <1>2, <1>3, <1>5, <2>1 DEF Resumed
<1>8. Resumed(s, boundary, count, pos)' /\ lastOffset' = boundary'.offset
  <2>1. After(counters.boundary, item).offset = Offset[item]
    BY DEF After
  <2> QED BY <1>1, <1>2, <1>3, <1>6, <1>7, <2>1 DEF Resumed, Progress, Read
<1>9. checkpoint' # None =>
         /\ Matches(Held(Raw), checkpoint)' /\ Len(Held(Raw)') = checkpoint'.total
         /\ checkpoint'.completed => Whole(Held(Raw))'
  BY <1>1 DEF RawInv, Held
<1>10. Matches(s, boundary)' /\ Len(s') = total' + count' /\ ~completed' /\ order' \in Orders
  BY <1>1, <1>3, <1>6, <1>7
<1> QED BY <1>1, <1>8, <1>9, <1>10 DEF RawInv, InRun, InRecord

\* What was rolled back is as it was before the record; if the counts agree, so is the
\* boundary.
LEMMA RawRecovered == TypeOK /\ FileInv /\ AccountInv /\ StageInv /\ RawInv /\ Recovered => RawInv'
<1> SUFFICES ASSUME TypeOK, FileInv, AccountInv, StageInv, RawInv, Recovered PROVE RawInv'
  OBVIOUS
<1> USE TypeParts DEF fileVars, readVars, recordVars, countVars, signalVars, errorVars
<1> DEFINE s == Content(files[Raw])
<1>1. /\ pc = "truncate" /\ pc' = "close" /\ todo = <<>> /\ written' = snapshot.written
      /\ UNCHANGED <<files, checkpoint, order, total, completed, boundary, count>>
  BY DEF Recovered
<1>2. s = Base(Raw) /\ (count = counters.count => boundary = counters.boundary)
  BY <1>1, WriterFacts DEF StageInv
<1>3. Resumed(Base(Raw), counters.boundary, counters.count, pos - 1) /\ order \in Orders /\ ~completed
  BY <1>1 DEF RawInv, InRun, InRecord
<1>4. written'[Raw] = counters.count
  BY <1>1 DEF AccountInv, InRecord, Balanced
<1>5. count = counters.count => Matches(s, boundary) /\ Len(s) = total + count
  BY <1>2, <1>3 DEF Resumed
<1>6. checkpoint' # None =>
         /\ Matches(Held(Raw), checkpoint)' /\ Len(Held(Raw)') = checkpoint'.total
         /\ checkpoint'.completed => Whole(Held(Raw))'
  BY <1>1 DEF RawInv, Held
<1>7. written'[Raw] = count' => Matches(s, boundary)' /\ Len(s') = total' + count'
  BY <1>1, <1>4, <1>5
<1> QED BY <1>1, <1>3, <1>6, <1>7 DEF RawInv, InRun, InRecord

LEMMA RawSave == TypeOK /\ RawInv /\ Save => RawInv'
<1> SUFFICES ASSUME TypeOK, RawInv, Save PROVE RawInv'
  OBVIOUS
<1> USE TypeParts
<1> DEFINE s == Content(files[Raw])
<1>1. /\ pc = "save" /\ pc' = "unlock" /\ ~recoveryFailed /\ written[Raw] = count
      /\ checkpoint' = [offset |-> boundary.offset, events |-> boundary.events,
                        total |-> total + count, completed |-> completed, artifacts |-> files]
  BY DEF Save, CountsMatch
<1>2. Matches(s, boundary) /\ Len(s) = total + count /\ (completed => Whole(s))
  BY <1>1 DEF RawInv
<1>3. /\ checkpoint'.offset = boundary.offset /\ checkpoint'.events = boundary.events
      /\ checkpoint'.total = total + count /\ checkpoint'.completed = completed
      /\ checkpoint'.artifacts = files
  BY <1>1
<1>4. Held(Raw)' = s
  BY <1>3 DEF Held, Content
<1>5. Matches(s, checkpoint')
  BY <1>2, <1>3 DEF Matches
<1> QED BY <1>1, <1>2, <1>3, <1>4, <1>5 DEF RawInv, InRun, InRecord

LEMMA RawNext == TypeOK /\ FileInv /\ AccountInv /\ StageInv /\ RawInv /\ [Next]_vars => RawInv'
<1> SUFFICES ASSUME TypeOK, FileInv, AccountInv, StageInv, RawInv, [Next]_vars PROVE RawInv'
  OBVIOUS
<1> USE DEF fileVars, readVars, recordVars, countVars, signalVars, errorVars
<1>1. CASE UNCHANGED vars
  <2>1. UNCHANGED <<files, checkpoint, pc, order, pos, prior, overlap, lastOffset, total, completed,
                    boundary, count, item, snapshot, counters, recoveryFailed, written>>
    BY <1>1 DEF vars
  <2> QED BY <2>1 DEF RawInv, Resumed, Progress, Read, Base, Held, InRun, InRecord, Committed
<1>2. CASE SaveRefused \/ SaveFails \/ Unlock \/ Crash \/ RemoveStaleLock
  <2>1. pc' \in {"down", "unlock"} /\ checkpoint' = checkpoint
    BY <1>2 DEF SaveRefused, SaveFails, Unlock, Crash, RemoveStaleLock
  <2> QED BY <2>1 DEF RawInv, Held, InRun, InRecord
<1>3. CASE TruncateFails
  <2>1. pc = "truncate" /\ pc' = "close" /\ recoveryFailed' /\ UNCHANGED <<checkpoint, order>>
    BY <1>3 DEF TruncateFails
  <2> QED BY <2>1 DEF RawInv, Held, InRun, InRecord
<1>4. CASE CloseOutputs
  <2>1. pc = "close" /\ pc' = "save"
        /\ UNCHANGED <<files, checkpoint, order, total, completed, boundary, count, recoveryFailed, written>>
    BY <1>4 DEF CloseOutputs
  <2> QED BY <2>1 DEF RawInv, Held, InRun, InRecord
<1>5. Inside => RawInv'
  BY RawInside
<1> QED BY <1>1, <1>2, <1>3, <1>4, <1>5, RawStart, RawSkip, RawRead, RawEnds, RawCommit, RawRecovered, RawSave
        DEF Next, Inside

-----------------------------------------------------------------------------
(* The formatted output follows.                                           *)

LEMMA NotTorn ==
    ASSUME NEW s \in Seq(Bytes), NEW e \in Events, Torn \notin ToSet(s)
    PROVE  Torn \notin ToSet(Append(s, e))
<1>1. /\ Len(s) \in Nat /\ Append(s, e) \in Seq(Bytes) /\ Len(Append(s, e)) = Len(s) + 1
      /\ \A i \in 1..Len(s) : Append(s, e)[i] = s[i]
      /\ Append(s, e)[Len(s) + 1] = e
  BY LenProperties, AppendProperties, ConstantFacts
<1>2. DOMAIN s = 1..Len(s) /\ DOMAIN Append(s, e) = 1..(Len(s) + 1)
  BY <1>1, LenProperties
<1>3. \A i \in 1..Len(s) : s[i] # Torn
  BY <1>2 DEF ToSet, Range
<1>4. e # Torn
  BY EventsAssumption
<1>5. \A i \in 1..(Len(s) + 1) : Append(s, e)[i] # Torn
  <2>1. \A i \in 1..(Len(s) + 1) : i \in 1..Len(s) \/ i = Len(s) + 1
    BY <1>1
  <2> QED BY <1>1, <1>3, <1>4, <2>1
<1> QED BY <1>2, <1>5 DEF ToSet, Range

\* A record that is shown, or of which another form is shown already.
LEMMA AgreeMore ==
    ASSUME NEW raw \in Seq(Bytes), NEW formatted \in Seq(Bytes), NEW e \in Events, NEW shows \in BOOLEAN,
           Agree(raw, formatted), ~shows => PaidKey[e] # None /\ Shown(formatted, PaidKey[e])
    PROVE  Agree(Append(raw, e), IF shows THEN Append(formatted, e) ELSE formatted)
<1> DEFINE f == IF shows THEN Append(formatted, e) ELSE formatted
<1>1. Torn \notin ToSet(Append(raw, e)) /\ Torn \notin ToSet(f)
  BY NotTorn DEF Agree
<1>2. \A set : /\ Times(raw, set) \in Nat /\ Times(formatted, set) \in Nat
               /\ Times(Append(raw, e), set) = IF e \in set THEN Times(raw, set) + 1 ELSE Times(raw, set)
               /\ Times(f, set) = IF shows /\ e \in set THEN Times(formatted, set) + 1 ELSE Times(formatted, set)
  BY TimesAppend, ConstantFacts
<1> HIDE DEF f
<1>3. ASSUME NEW x \in Keyed(None) PROVE Times(f, {x}) = Times(Append(raw, e), {x})
  <2>1. Times(formatted, {x}) = Times(raw, {x})
    BY DEF Agree
  <2>2. e \in {x} => shows
    BY DEF Keyed
  <2> QED BY <1>2, <2>1, <2>2
<1>4. ASSUME NEW key \in {PaidKey[x] : x \in Events} \ {None}
      PROVE  /\ Times(f, Keyed(key)) <= Times(Append(raw, e), Keyed(key))
             /\ Times(Append(raw, e), Keyed(key)) > 0 => Times(f, Keyed(key)) > 0
  <2> DEFINE r == Times(raw, Keyed(key))
             t == Times(formatted, Keyed(key))
             more == Times(Append(raw, e), Keyed(key))
             new == Times(f, Keyed(key))
             of == e \in Keyed(key)
  <2>1. t <= r /\ (r > 0 => t > 0)
    BY DEF Agree
  <2>2. of /\ ~shows => t > 0
    BY DEF Keyed, Shown
  <2>3. /\ r \in Nat /\ t \in Nat
        /\ more = IF of THEN r + 1 ELSE r
        /\ new = IF shows /\ of THEN t + 1 ELSE t
    BY <1>2
  <2> HIDE DEF r, t, more, new, of
  <2>4. new <= more /\ (more > 0 => new > 0)
    <3>1. CASE of /\ shows
      BY <3>1, <2>1, <2>3
    <3>2. CASE of /\ ~shows
      BY <3>2, <2>1, <2>2, <2>3
    <3>3. CASE ~of
      BY <3>3, <2>1, <2>3
    <3> QED BY <3>1, <3>2, <3>3
  <2> QED BY <2>4 DEF more, new
<1> QED BY <1>1, <1>3, <1>4 DEF Agree, f

LEMMA FormattedInit == Init => FormattedInv
  BY DEF Init, FormattedInv, InRecord

LEMMA AgreeEmpty == Agree(<<>>, <<>>)
<1>1. Torn \notin ToSet(<<>>)
  BY DEF ToSet, Range
<1>2. \A set : Times(<<>>, set) = 0
  BY TimesEmpty
<1> QED BY <1>1, <1>2 DEF Agree

LEMMA FormattedStart == TypeOK /\ FormattedInv /\ Start => FormattedInv'
<1> SUFFICES ASSUME TypeOK, FormattedInv, Start PROVE FormattedInv'
  OBVIOUS
<1>1. pc' = "read" /\ seen' = {} /\ UNCHANGED <<files, checkpoint>>
  BY DEF Start
<1>2. Agree(Content(files[Raw]), Content(files[Formatted]))
  <2>1. CASE checkpoint = None
    <3>1. Content(files[Raw]) = <<>> /\ Content(files[Formatted]) = <<>>
      BY <2>1, WriterFacts DEF Start, MayResume, Content
    <3> QED BY <3>1, AgreeEmpty
  <2>2. CASE checkpoint # None
    <3>1. Content(files[Raw]) = Held(Raw) /\ Content(files[Formatted]) = Held(Formatted)
      BY <2>2 DEF Start, MayResume, Content, Held
    <3> QED BY <2>2, <3>1 DEF FormattedInv
  <2> QED BY <2>1, <2>2
<1> QED BY <1>1, <1>2 DEF FormattedInv, Held, InRecord

LEMMA FormattedRead == TypeOK /\ FormattedInv /\ ReadRecord => FormattedInv'
<1> SUFFICES ASSUME TypeOK, FormattedInv, ReadRecord PROVE FormattedInv'
  OBVIOUS
<1> USE TypeParts
<1> DEFINE key == PaidKey[NextEvent]
<1>1. /\ pc = "read" /\ pc' = "open" /\ item' = NextEvent /\ snapshot'.sizes = Sizes
      /\ show' = (key = None \/ key \notin seen) /\ seen' = IF key = None THEN seen ELSE seen \cup {key}
      /\ UNCHANGED <<files, checkpoint>>
  BY DEF ReadRecord, Reading, fileVars
<1>2. \A w \in WriterSet : Base(w)' = Content(files[w])
  <2> TAKE w \in WriterSet
  <2>1. Sizes[w] = Len(Content(files[w]))
    BY EmptySeq DEF Sizes, Content
  <2>2. SubSeq(Content(files[w]), 1, Len(Content(files[w]))) = Content(files[w])
    BY ContentFacts, ConstantFacts, CutFacts
  <2> QED BY <1>1, <2>1, <2>2 DEF Base
<1>3. /\ Agree(Content(files[Raw]), Content(files[Formatted]))
      /\ \A k \in seen : Shown(Content(files[Formatted]), k)
  BY <1>1 DEF FormattedInv
<1>4. Base(Raw)' = Content(files[Raw]) /\ Base(Formatted)' = Content(files[Formatted])
  BY <1>2, WriterFacts
<1>5. /\ Agree(Base(Raw), Base(Formatted))'
      /\ \A k \in seen' : Shown(Base(Formatted), k)' \/ (show' /\ k = PaidKey[item'])
      /\ ~show' => PaidKey[item'] # None /\ Shown(Base(Formatted), PaidKey[item])'
  BY <1>1, <1>3, <1>4
<1> QED BY <1>1, <1>5 DEF FormattedInv, Held, InRecord

LEMMA FormattedInside == TypeOK /\ FileInv /\ FormattedInv /\ Inside => FormattedInv'
<1> SUFFICES ASSUME TypeOK, FileInv, FormattedInv, Inside PROVE FormattedInv'
  OBVIOUS
<1>1. /\ pc \in InRecord /\ pc' \in InRecord
      /\ pc' \in {"open", "write", "commit"} => pc \in {"open", "write", "commit"}
      /\ Base(Raw)' = Base(Raw) /\ Base(Formatted)' = Base(Formatted)
      /\ UNCHANGED <<checkpoint, item, show, seen>>
  BY InsideKeeps, WriterFacts
<1>2. pc' \notin {"read", "close", "save"}
  BY <1>1 DEF InRecord
<1> QED BY <1>1, <1>2 DEF FormattedInv, Held

LEMMA FormattedCommit == TypeOK /\ FileInv /\ StageInv /\ FormattedInv /\ Commit => FormattedInv'
<1> SUFFICES ASSUME TypeOK, FileInv, StageInv, FormattedInv, Commit PROVE FormattedInv'
  OBVIOUS
<1> USE TypeParts
<1> DEFINE r == Content(files[Raw])
           f == Content(files[Formatted])
<1>1. pc = "commit" /\ pc' \in {"read", "close"} /\ UNCHANGED <<files, checkpoint, seen>>
  BY DEF Commit, fileVars
<1>2. r = Append(Base(Raw), item) /\ f = IF show THEN Append(Base(Formatted), item) ELSE Base(Formatted)
  BY <1>1 DEF StageInv
<1>3. /\ Agree(Base(Raw), Base(Formatted))
      /\ \A key \in seen : Shown(Base(Formatted), key) \/ (show /\ key = PaidKey[item])
      /\ ~show => PaidKey[item] # None /\ Shown(Base(Formatted), PaidKey[item])
  BY <1>1 DEF FormattedInv, InRecord
<1>4. Base(Raw) \in Seq(Bytes) /\ Base(Formatted) \in Seq(Bytes) /\ item \in Events /\ show \in BOOLEAN
  BY <1>1, BaseType, WriterFacts DEF InRecord, RecordType, WriteType
<1>5. Agree(r, f)
  BY <1>2, <1>3, <1>4, AgreeMore
<1>6. ASSUME NEW key \in seen PROVE Shown(f, key)
  <2>1. /\ Times(Base(Formatted), Keyed(key)) \in Nat
        /\ Times(Append(Base(Formatted), item), Keyed(key)) =
             IF item \in Keyed(key) THEN Times(Base(Formatted), Keyed(key)) + 1
             ELSE Times(Base(Formatted), Keyed(key))
    BY <1>4, TimesAppend, ConstantFacts
  <2>2. Times(Base(Formatted), Keyed(key)) > 0 \/ (show /\ item \in Keyed(key))
    BY <1>3, <1>4 DEF Shown, Keyed
  <2>3. Times(f, Keyed(key)) > 0
    <3>1. CASE show
      BY <1>2, <2>1, <2>2, <3>1
    <3>2. CASE ~show
      BY <1>2, <2>2, <3>2
    <3> QED BY <3>1, <3>2
  <2> QED BY <2>3 DEF Shown
<1> QED BY <1>1, <1>5, <1>6 DEF FormattedInv, Held, InRecord

LEMMA FormattedNext == TypeOK /\ FileInv /\ StageInv /\ FormattedInv /\ [Next]_vars => FormattedInv'
<1> SUFFICES ASSUME TypeOK, FileInv, StageInv, FormattedInv, [Next]_vars PROVE FormattedInv'
  OBVIOUS
<1> USE DEF fileVars, readVars, recordVars, countVars, signalVars, errorVars
<1>1. CASE UNCHANGED vars
  <2>1. UNCHANGED <<files, checkpoint, pc, item, show, seen, snapshot, recoveryFailed>>
    BY <1>1 DEF vars
  <2> QED BY <2>1 DEF FormattedInv, Base, Held, InRecord
<1>2. CASE SaveRefused \/ SaveFails \/ Unlock \/ Crash \/ RemoveStaleLock
  <2>1. pc' \in {"down", "unlock"} /\ checkpoint' = checkpoint
    BY <1>2 DEF SaveRefused, SaveFails, Unlock, Crash, RemoveStaleLock
  <2> QED BY <2>1 DEF FormattedInv, Held, InRecord
<1>3. CASE SkipCommitted
  <2>1. pc = "read" /\ pc' = "read" /\ UNCHANGED <<files, checkpoint, seen>>
    BY <1>3 DEF SkipCommitted, Reading
  <2> QED BY <2>1 DEF FormattedInv, Held, InRecord
<1>4. CASE ReadRejected \/ ReadFails \/ ReadEnds
  <2>1. pc = "read" /\ pc' = "close" /\ UNCHANGED <<files, checkpoint>>
    BY <1>4 DEF ReadRejected, ReadFails, ReadEnds, Reading
  <2> QED BY <2>1 DEF FormattedInv, Held, InRecord
<1>5. CASE TruncateFails
  <2>1. pc = "truncate" /\ pc' = "close" /\ recoveryFailed' /\ UNCHANGED checkpoint
    BY <1>5 DEF TruncateFails
  <2> QED BY <2>1 DEF FormattedInv, Held, InRecord
<1>6. CASE Recovered
  <2>1. pc = "truncate" /\ pc' = "close" /\ todo = <<>> /\ UNCHANGED <<files, checkpoint>>
    BY <1>6 DEF Recovered
  <2>2. Content(files[Raw]) = Base(Raw) /\ Content(files[Formatted]) = Base(Formatted)
    BY <2>1, WriterFacts DEF StageInv
  <2> QED BY <2>1, <2>2 DEF FormattedInv, Held, InRecord
<1>7. CASE CloseOutputs
  <2>1. pc = "close" /\ pc' = "save" /\ UNCHANGED <<files, checkpoint, recoveryFailed>>
    BY <1>7 DEF CloseOutputs
  <2> QED BY <2>1 DEF FormattedInv, Held, InRecord
<1>8. CASE Save
  <2>1. pc = "save" /\ pc' = "unlock" /\ ~recoveryFailed /\ checkpoint'.artifacts = files
    BY <1>8 DEF Save, CountsMatch
  <2>2. Held(Raw)' = Content(files[Raw]) /\ Held(Formatted)' = Content(files[Formatted])
    BY <2>1 DEF Held, Content
  <2> QED BY <2>1, <2>2 DEF FormattedInv, InRecord
<1>9. Inside => FormattedInv'
  BY FormattedInside
<1> QED BY <1>1, <1>2, <1>3, <1>4, <1>5, <1>6, <1>7, <1>8, <1>9, FormattedStart, FormattedRead, FormattedCommit
        DEF Next, Inside

-----------------------------------------------------------------------------
(* What a saved checkpoint promises.                                       *)

CaptureInv == TypeOK /\ FileInv /\ AccountInv /\ StageInv /\ RawInv /\ FormattedInv

LEMMA CaptureInvariant == Spec => []CaptureInv
<1>1. Init => CaptureInv
  BY TypeInit, FileInit, AccountInit, StageInit, RawInit, FormattedInit DEF CaptureInv
<1>2. CaptureInv /\ [Next]_vars => CaptureInv'
  BY TypeNext, FileInvNext, AccountNext, StageNext, RawNext, FormattedNext DEF CaptureInv
<1> QED BY <1>1, <1>2, PTL DEF Spec

\* For any replay in any order the provider may give it within a second, any limits and
\* any number of runs, whatever fails in them: the raw output that a checkpoint names holds
\* each record before its second once, of its second what it remembers, nothing later, and
\* no output holds part of a record (capture_checkpoint.py:295,346).
THEOREM ResumePointsAreSound == Spec => []ResumePointSound
<1>1. CaptureInv => ResumePointSound
  <2> SUFFICES ASSUME CaptureInv, checkpoint # None
               PROVE  /\ \A w \in WriterSet : Torn \notin ToSet(Held(w))
                      /\ Len(Held(Raw)) = checkpoint.total
                      /\ \A i \in Identities, second \in Seconds :
                           Times(Held(Raw), Alike(i, second)) =
                             IF checkpoint.offset = None \/ second > checkpoint.offset THEN 0
                             ELSE IF second < checkpoint.offset THEN Cardinality(Alike(i, second))
                             ELSE checkpoint.events[i]
    BY DEF ResumePointSound
  <2>1. \A w \in WriterSet : Torn \notin ToSet(Held(w))
    BY WriterFacts DEF CaptureInv, FormattedInv, Agree
  <2>2. Matches(Held(Raw), checkpoint) /\ Len(Held(Raw)) = checkpoint.total
    BY DEF CaptureInv, RawInv
  <2> QED BY <2>1, <2>2 DEF Matches, Count
<1> QED BY <1>1, CaptureInvariant, PTL

\* For any replay, and whatever fails: the formatted output has every record that is no
\* paid notice as often as the raw one, and of every paid notice at least one form, never
\* more (output_dispatch.py:170, _message_dedup.py:44).
THEOREM FormattedOutputsFollow == Spec => []FormattedFollowsRaw
<1>1. CaptureInv => FormattedFollowsRaw
  BY DEF CaptureInv, FormattedInv, FormattedFollowsRaw, Agree
<1> QED BY <1>1, CaptureInvariant, PTL

\* For any replay, and over any number of runs: a checkpoint marked completed names a raw
\* output with every record of the replay, each once (capture_checkpoint.py:331).
THEOREM CompletedCapturesAreWhole == Spec => []CompletedIsWhole
<1>1. CaptureInv => CompletedIsWhole
  BY DEF CaptureInv, RawInv, CompletedIsWhole, Whole, Count
<1> QED BY <1>1, CaptureInvariant, PTL
==============================================================================
