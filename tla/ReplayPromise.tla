---------------------------- MODULE ReplayPromise ----------------------------
(***************************************************************************)
(* What the download of a recording promises whoever reads its files: they *)
(* hold records that were asked for, each once, in the order of time; and  *)
(* the recording is called whole only when every one of them is there.     *)
(***************************************************************************)
EXTENDS Integers, Sequences

CONSTANT Recorded    \* the records there can be

VARIABLES
    wanted,    \* the records of the part asked for, once that is known
    given,     \* the records in the file, in order
    verdict    \* "open", then "whole" or "partial"

vars == <<wanted, given, verdict>>

GivenSet == {given[k] : k \in DOMAIN given}

Init == wanted = {} /\ given = <<>> /\ verdict = "open"

Open ==
    /\ wanted = {} /\ verdict = "open"
    /\ wanted' \in SUBSET Recorded
    /\ UNCHANGED <<given, verdict>>

Give ==
    /\ verdict = "open"
    /\ \E r \in wanted \ GivenSet :
         /\ given # <<>> => given[Len(given)].at <= r.at
         /\ given' = Append(given, r)
    /\ UNCHANGED <<wanted, verdict>>

Close ==
    /\ verdict = "open"
    /\ verdict' \in {"whole", "partial"}
    /\ verdict' = "whole" => GivenSet = wanted
    /\ UNCHANGED <<wanted, given>>

Next == Open \/ Give \/ Close

Spec == Init /\ [][Next]_vars
=============================================================================
