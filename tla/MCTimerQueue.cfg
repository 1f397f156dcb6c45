\* Two timers at a time, which may expire in any order and together; others take
\* their place.
CONSTANTS
    Timers = {t1, t2}
    MaxDelay = 2
    MaxRepeat = 1
    MaxLate = 1
SPECIFICATION FairSpec
CHECK_DEADLOCK FALSE
INVARIANTS
    NoStrandedTimer
    MapMatchesQueue
PROPERTIES
    RunsWhenDue
    HandledOnceQuiet
