--------------------------- MODULE MCOfflineAlert ---------------------------
(* Two alerts, one due at once and one a second later, and one of a type the *)
(* code does not know.                                                       *)
EXTENDS OfflineAlert, TLC

CONSTANTS Alarm, Timer, Unknown

MCAlert == {Alarm, Timer, Unknown}
MCScheduledTime == Alarm :> 0 @@ Timer :> 1 @@ Unknown :> 0
MCDuration == Alarm :> 1000 @@ Timer :> 2000 @@ Unknown :> 1000
=============================================================================
