\* A timer that has expired against another that is added again and again.
CONSTANTS
    Timers = {t1, t2}
    MaxDelay = 2
    MaxRepeat = 0
    MaxLate = 1
SPECIFICATION FairSpec
CHECK_DEADLOCK FALSE
PROPERTY WaitingIsHandled
