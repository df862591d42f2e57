----------------------------- MODULE MCKickLive -----------------------------
(* KickLive with a clock one second behind, or in step.                    *)
EXTENDS KickLive

MCBehind == -1
MCInStep == 0
=============================================================================
