---------------------------- MODULE CaptureAudit -----------------------------
(***************************************************************************)
(* output/capture_parity.py: audit_capture() reads the raw and the text    *)
(* file of a capture side by side, and capture_verification.py accepts the *)
(* pair or not.  A raw line is a record (-1 when it cannot be read), a     *)
(* line of text is what a record is rendered to, and each ends with "lf",  *)
(* "crlf" or "none", the last line's lack of an end.  A record above 0 is  *)
(* a paid event with that identity, of which the text file shows the       *)
(* first; 0 is plain text.                                                 *)
(***************************************************************************)
EXTENDS Integers, SequencesExt, FiniteSetsExt, SeenCache

CONSTANTS
    Captures,    \* the pairs that are audited: [raw, text, resets]
    SeenEvents   \* max_seen_message_ids

Unreadable == -1

\* A file is cut at its line ends, so only its last line can lack one.
LinesOf(file, records) ==
    /\ file \in Seq([of : records, end : {"lf", "crlf", "none"}])
    /\ \A k \in 1..(Len(file) - 1) : file[k].end # "none"

\* A checkpoint's resets are line numbers in order (capture_checkpoint.py:251-259).
Capture(files) ==
    /\ LinesOf(files.raw, Nat \cup {Unreadable}) /\ LinesOf(files.text, Nat)
    /\ files.resets \in Seq(Nat \ {0})
    /\ \A k, l \in DOMAIN files.resets : k < l => files.resets[k] < files.resets[l]

ASSUME AuditAssumption == SeenEvents \in Nat \ {0} /\ \A files \in Captures : Capture(files)

VARIABLES
    pair,     \* the two files, and the raw lines before which deduplication began anew
    audit     \* how far the comparison is, and what it has counted

auditVars == <<pair, audit>>

-----------------------------------------------------------------------------
(* The audit, one raw line at a time.                                      *)

AuditOf(files) ==
    /\ pair = files
    /\ audit = [line |-> 1, seen |-> <<>>, reset |-> 1, expected |-> 0, read |-> 0,
                complete |-> TRUE, errors |-> 0, mismatches |-> 0, verdict |-> "open"]

AuditInit == \E files \in Captures : AuditOf(files)

\* A resumed run's deduplication began anew.
Reset(acc) ==
    IF acc.reset <= Len(pair.resets) /\ pair.resets[acc.reset] = acc.line
    THEN [acc EXCEPT !.seen = <<>>, !.reset = @ + 1] ELSE acc

\* The text file is only read as far as the two can be aligned.
ReadText(acc, record) ==
    LET counted == [acc EXCEPT !.expected = @ + 1]
    IN  IF ~acc.complete THEN counted
        ELSE IF acc.read = Len(pair.text) THEN [counted EXCEPT !.mismatches = @ + 1]
        ELSE [counted EXCEPT !.read = @ + 1,
                             !.mismatches = @ + (IF pair.text[acc.read + 1].of = record THEN 0 ELSE 1)]

AuditRecord(acc, record) ==
    IF record = Unreadable THEN [acc EXCEPT !.errors = @ + 1, !.complete = FALSE]
    ELSE IF record > 0 /\ Known(acc.seen, record) THEN acc
    ELSE IF record > 0
         THEN ReadText([acc EXCEPT !.seen = Registered(@, record, SeenEvents)], record)
         ELSE ReadText(acc, record)

Compare ==
    /\ audit.line <= Len(pair.raw)
    /\ audit' = [AuditRecord(Reset(audit), pair.raw[audit.line].of) EXCEPT !.line = @ + 1]
    /\ UNCHANGED pair

\* _observe_newline(): the style of the first line that has one is to be kept.
Style(file) ==
    LET ended == {k \in DOMAIN file : file[k].end # "none"}
    IN  IF ended = {} THEN "none" ELSE file[Min(ended)].end

Mixed(file) == \E k \in DOMAIN file : file[k].end \notin {"none", Style(file)}

Unterminated(file) == file # <<>> /\ Last(file).end = "none"

\* The lines that are left over in the text file are not counted.
AuditFails_ExtraText ==
    \/ audit.errors > 0 \/ audit.mismatches > 0
    \/ audit.reset <= Len(pair.resets) \/ ~audit.complete
    \/ Mixed(pair.raw) \/ Mixed(pair.text) \/ Unterminated(pair.raw) \/ Unterminated(pair.text)
    \/ "none" \notin {Style(pair.raw), Style(pair.text)} /\ Style(pair.raw) # Style(pair.text)

\* AuditStats.failed, or a comparison that did not come to the end.
AuditFails ==
    \/ audit.errors > 0 \/ audit.mismatches > 0
    \/ audit.reset <= Len(pair.resets) \/ ~audit.complete
    \/ audit.expected # Len(pair.text)
    \/ Mixed(pair.raw) \/ Mixed(pair.text) \/ Unterminated(pair.raw) \/ Unterminated(pair.text)
    \/ "none" \notin {Style(pair.raw), Style(pair.text)} /\ Style(pair.raw) # Style(pair.text)

\* verify_capture().
Conclude ==
    /\ audit.line > Len(pair.raw) /\ audit.verdict = "open"
    /\ audit' = [audit EXCEPT !.verdict = IF AuditFails THEN "failed" ELSE "passed"]
    /\ UNCHANGED pair

AuditNext == Compare \/ Conclude

AuditSpec == AuditInit /\ [][AuditNext]_auditVars

-----------------------------------------------------------------------------
(* What is meant: the text file is the rendering of the raw one.           *)

\* The records between the resets around it.
Segment(n, resets) == {m \in 1..n : ~\E k \in DOMAIN resets : m < resets[k] /\ resets[k] <= n}

\* Shown, unless it was among the last events shown in its segment.
Shown(raw, resets) ==
    LET shown[n \in DOMAIN raw] ==
            \/ raw[n].of = 0
            \/ \A m \in Segment(n, resets) \ {n} :
                 raw[m].of = raw[n].of /\ shown[m] =>
                   Cardinality({k \in (m + 1)..(n - 1) : raw[k].of > 0 /\ shown[k]}) >= SeenEvents
    IN  shown

Rendered(raw, resets) ==
    LET shown == Shown(raw, resets)
    IN  [k \in 1..Cardinality({n \in DOMAIN raw : shown[n]}) |->
           raw[CHOOSE n \in DOMAIN raw :
                 shown[n] /\ Cardinality({m \in 1..n : shown[m]}) = k].of]

Uniform(raw, text) ==
    \E style \in {"lf", "crlf"} :
        \A line \in {raw[k] : k \in DOMAIN raw} \cup {text[k] : k \in DOMAIN text} : line.end = style

\* The verification accepts a pair of files exactly when every raw line is a record,
\* every line of both is complete and ends alike, the runs that wrote them begin
\* where the checkpoint says, and the text is the rendering of the records, repeated
\* paid events left out as the bounded cache of the writers leaves them out
\* (capture_parity.py:277-434).
AuditIsExact ==
    audit.verdict # "open" =>
        (audit.verdict = "passed" <=>
            /\ \A n \in DOMAIN pair.raw : pair.raw[n].of # Unreadable
            /\ \A k \in DOMAIN pair.resets : pair.resets[k] \in DOMAIN pair.raw
            /\ Uniform(pair.raw, pair.text)
            /\ Rendered(pair.raw, pair.resets) = [k \in DOMAIN pair.text |-> pair.text[k].of])
=============================================================================
