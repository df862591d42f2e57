----------------------------- MODULE MergedFeed -----------------------------
(***************************************************************************)
(* What KickPublicTransport promises whoever calls recv(): the frames of   *)
(* its connections, merged, each connection's own in order and none left   *)
(* out.  A connection that fails ends the merge, but only after everything *)
(* that was accepted before has been handed over; only a requested stop (or*)
(* a setup that fails) may cut it short.                                   *)
(***************************************************************************)
EXTENDS Naturals

CONSTANT NumFeeds

Feeds == 1..NumFeeds

VARIABLES
    accepted,    \* per connection, the frames a reader has taken on
    delivered,   \* per connection, the number of the last frame handed over
    ended        \* "no", "failed" (a connection's error was raised) or "stopped"

vars == <<accepted, delivered, ended>>

Init ==
    /\ accepted = [f \in Feeds |-> 0]
    /\ delivered = [f \in Feeds |-> 0]
    /\ ended = "no"

Accept(f) ==
    /\ ended # "failed"
    /\ accepted' = [accepted EXCEPT ![f] = @ + 1]
    /\ UNCHANGED <<delivered, ended>>

Deliver(f) ==
    /\ ended = "no" /\ delivered[f] < accepted[f]
    /\ delivered' = [delivered EXCEPT ![f] = @ + 1]
    /\ UNCHANGED <<accepted, ended>>

Fail ==
    /\ ended = "no" /\ delivered = accepted
    /\ ended' = "failed"
    /\ UNCHANGED <<accepted, delivered>>

Stop ==
    /\ ended = "no"
    /\ ended' = "stopped"
    /\ UNCHANGED <<accepted, delivered>>

Next == (\E f \in Feeds : Accept(f) \/ Deliver(f)) \/ Fail \/ Stop

Spec == Init /\ [][Next]_vars
=============================================================================
