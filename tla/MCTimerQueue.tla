---------------------------- MODULE MCTimerQueue ----------------------------
(* TimerQueue for TLC: the timers are interchangeable model values.        *)
EXTENDS TimerQueue, TLC

Symmetry == Permutations(Timers)

=============================================================================
