\* A timer task that closes the connection it holds.
CONSTANTS
    Conns = {c1}
    Limited = FALSE
    MaxConns = 0
    ConnectOps = {"none"}
    DataOps = {"none", "Hold"}
    TimerOps = {"none", "ForceClose"}
    MaxBytes = 1
SPECIFICATION Spec
CHECK_DEADLOCK FALSE
INVARIANT NoUseAfterFree
