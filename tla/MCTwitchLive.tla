---------------------------- MODULE MCTwitchLive ----------------------------
(* TwitchLive on a small instance and, as a part of its own that shares no *)
(* state with it, IrcBuffer, which it rests on.                            *)
EXTENDS TwitchLive, IrcBuffer

VARIABLE part    \* the part the behaviour is of; the other stays as it is

MCInit == part \in {"live", "buffer"} /\ Init /\ IrcInit

MCNext ==
    \/ part = "live" /\ Next /\ UNCHANGED <<part, ircVars>>
    \/ part = "buffer" /\ IrcNext /\ UNCHANGED <<part, vars>>

MCSpec == MCInit /\ [][MCNext]_<<part, vars, ircVars>> /\ Fairness
=============================================================================
