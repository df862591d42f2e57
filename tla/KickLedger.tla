----------------------------- MODULE KickLedger ------------------------------
(***************************************************************************)
(* _replay_accounting() of sites/kick/capture_inspection.py: the check of  *)
(* a finished replay that only has the run's summary and the raw file.     *)
(***************************************************************************)
EXTENDS Integers, Sequences

Sum3(a, b, c) == a + b + c

\* The records the pages held, less what became of them.
RawGap(s) == s.raw - s.selected - Sum3(s.skipped, s.filtered, s.duplicate)

\* read(): a record before the one above it.
Backsteps(file) == {k \in 2..Len(file) : file[k].at < file[k - 1].at}

\* The loss counters are not looked at.
NeedsReview_LossIgnored(s, run, file, from, to) ==
    \/ Backsteps(file) # {}
    \/ ~run.success \/ run.reason \notin {"completed", "empty_window"}
    \/ run.parity \in {"failed", "not_run"}
    \/ s.complete # TRUE /\ run.reason # "empty_window"
    \/ RawGap(s) # 0
    \/ s.emitted # run.count
    \/ run.count # Len(file)
    \/ \E k \in DOMAIN file : file[k].at < from \/ file[k].at > to

\* The summary is the last of its capture.
NeedsReview(s, run, file, from, to) ==
    \/ Backsteps(file) # {}
    \/ ~run.success \/ run.reason \notin {"completed", "empty_window"}
    \/ run.parity \in {"failed", "not_run"}
    \/ s.complete # TRUE /\ run.reason # "empty_window"
    \/ s.loss > 0
    \/ RawGap(s) # 0
    \/ s.emitted # run.count
    \/ run.count # Len(file)
    \/ \E k \in DOMAIN file : file[k].at < from \/ file[k].at > to
=============================================================================
