--------------------------- MODULE MCTimerManager ---------------------------
(* Instances of TimerManager for TLC.                                      *)
EXTENDS TimerManager

TimerSymmetry == Permutations(Timers)
=============================================================================
