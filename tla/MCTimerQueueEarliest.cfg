\* The timerfd against the earliest of two timers.
CONSTANTS
    Timers = {t1, t2}
    MaxDelay = 2
    MaxRepeat = 0
    MaxLate = 1
SPECIFICATION Spec
SYMMETRY Symmetry
CHECK_DEADLOCK FALSE
INVARIANT NoSleepPastExpiry
