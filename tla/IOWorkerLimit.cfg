\* A limiter that refuses the second client, and an application that does nothing.
CONSTANTS
    Conns = {c1, c2}
    Limited = TRUE
    MaxConns = 2
    ConnectOps = {"none"}
    DataOps = {"none"}
    TimerOps = {"none"}
    MaxBytes = 1
SPECIFICATION Spec
CHECK_DEADLOCK FALSE
INVARIANT NoUseAfterFree
