------------------------------ MODULE MCTimers ------------------------------
EXTENDS Timers
ClockSteps == {-5}
=============================================================================
