-------------------------- MODULE MCTimedGenerator --------------------------
(* TLC instance of TimedGenerator: an overall deadline that expires, with  *)
(* and without an inactivity one that expires and moves as items come.     *)
EXTENDS TimedGenerator

CONSTANT NoValue

MCTimeouts == {2}
MCInactivities == {1, NoValue}
=============================================================================
