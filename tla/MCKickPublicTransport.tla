----------------------- MODULE MCKickPublicTransport -----------------------
(* Instances of KickPublicTransport for TLC.                               *)
EXTENDS KickPublicTransport

\* Two frames of one connection show their order, a third one of the other
\* makes them compete for a queue of one.
MCMaxFrames == <<2, 1>>
=============================================================================
