-------------------------- MODULE CaptureInspection --------------------------
(***************************************************************************)
(* The capture_inspection.py of the three sites over utils/capture_reader: *)
(* what is said of a closed JSONL file and of the counters of the run that *)
(* wrote it.  A record is [id, kind, wrong]: its identity, message type,   *)
(* and what is wrong with its other fields.                                *)
(***************************************************************************)
EXTENDS Integers, SequencesExt, FiniteSetsExt

CONSTANTS
    KnownKinds,   \* _KNOWN_TYPES
    NoId          \* a record without an identity

\* read_capture_lines(): a lone surrogate, half a line, a repeated key.
Readable(line) == "unreadable" \notin line.wrong
RecordsIn(file) == Cardinality({k \in DOMAIN file : Readable(file[k])})

\* YouTube keeps the identities of its text messages only.
Repeated(site, file, k) ==
    \E j \in 1..(k - 1) :
        Readable(file[j]) /\ file[j].id = file[k].id /\ (site = "youtube" => file[j].kind = "text")

\* _identity(): YouTube looks at new text messages only, Twitch lets the others go without.
IdentityIssues(site, file, k) ==
    LET text == file[k].kind = "text" IN
    IF site = "youtube" /\ ~text THEN {}
    ELSE IF file[k].id # NoId THEN (IF Repeated(site, file, k) THEN {"duplicate id"} ELSE {})
    ELSE IF text \/ site = "kick" THEN {"missing id"} ELSE {}

\* What of a record's other fields is looked at, and what only of a text message's
\* (chat_ended of YouTube's, which has no times to look at, is not in a feed here).
OfAll == [kick |-> {"timestamp", "received", "emotes", "reply"},
          twitch |-> {"timestamp", "emotes"},
          youtube |-> {"timestamp", "received", "offset"}]
OfText == [kick |-> {"author", "undated", "content"}, twitch |-> {"author", "undated"}, youtube |-> {}]

FieldIssues(site, record) ==
    record.wrong \cap (OfAll[site] \cup (IF record.kind = "text" THEN OfText[site] ELSE {}))

LineIssues(site, file, k) ==
    IF ~Readable(file[k]) THEN {"invalid line"}
    ELSE (IF file[k].kind \in KnownKinds THEN {} ELSE {"unknown type"})
         \cup IdentityIssues(site, file, k) \cup FieldIssues(site, file[k])

Issues(site, file) == UNION {LineIssues(site, file, k) : k \in DOMAIN file}

OfKind(file, type) == Cardinality({k \in DOMAIN file : Readable(file[k]) /\ file[k].kind = type})

\* An unknown type is not among the counts of the file.
TypeMismatch(counts, file) ==
    \E type \in DOMAIN counts : counts[type] # (IF type \in KnownKinds THEN OfKind(file, type) ELSE 0)

-----------------------------------------------------------------------------
(* Kick: _frame_accounting(), _review_reasons().                           *)

Unaccounted(t) ==
    t.frames - (t.control + t.parsed + t.unsupported + t.malformed + t.errors)

EmittedOf(t) == t.preloaded + t.live + t.backfill

\* Items the deadline cut off are taken for lost.
Gaps_NoDeadline(s, file) ==
    \/ Unaccounted(s.tally) # 0
    \/ EmittedOf(s.tally) # RecordsIn(file)
    \/ s.count # RecordsIn(file)
    \/ s.tally.malformed # s.tally.malformedTypes
    \/ TypeMismatch(s.types, file)

Gaps(s, file) ==
    \/ Unaccounted(s.tally) # 0
    \/ EmittedOf(s.tally) - s.prefetched # RecordsIn(file)
    \/ s.count # RecordsIn(file)
    \/ s.tally.malformed # s.tally.malformedTypes
    \/ TypeMismatch(s.types, file)

Anomalies(t) ==
    t.unsupported + t.oddTypes + t.malformed + t.invalid + t.errors + t.pollFailures
        + t.recoveryFailures + t.truncated > 0

ReviewReasons(s, file) ==
    {r \in {"records", "failed", "deadline", "gaps", "anomalies"} :
        \/ r = "records" /\ Issues("kick", file) # {}
        \/ r = "failed" /\ ~s.success
        \/ r = "deadline" /\ ~s.complete
        \/ r = "gaps" /\ Gaps(s, file)
        \/ r = "anomalies" /\ Anomalies(s.tally)}

-----------------------------------------------------------------------------
(* Twitch looks at lines alone, YouTube at records alone.                  *)

\* _account_frames()
UnaccountedLines(t) == t.frames - t.control - t.parsed

\* _accounting(): the types of an earlier run's records are not known.
YouTubeReview(s, file) ==
    \/ s.count + s.prior # RecordsIn(file)
    \/ s.prior = 0 /\ TypeMismatch(s.types, file)
    \/ ~s.success \/ s.priorLoss \/ s.tally.malformed > 0

Inspected(site, s, file) ==
    LET review == CASE site = "kick" -> ReviewReasons(s, file) # {}
                    [] site = "twitch" -> Issues(site, file) # {} \/ UnaccountedLines(s.tally) # 0
                    [] site = "youtube" -> Issues(site, file) # {} \/ YouTubeReview(s, file)
    IN  IF review THEN "review" ELSE "ok"
=============================================================================
