\* A timer with a stop condition.
CONSTANTS
    Timers = {t1, t2}
    MaxDelay = 2
    MaxRepeat = 0
    MaxLate = 1
SPECIFICATION Spec
CHECK_DEADLOCK FALSE
PROPERTY RepeatsUntilStopped
