------------------------------ MODULE MCTimers ------------------------------
EXTENDS Timers, TLC

CONSTANTS early, late

FireTimes == (early :> 0) @@ (late :> 1)
OnePrefix == {TimerIds}

=============================================================================
