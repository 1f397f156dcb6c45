\* An application that answers, on a connection that may be encrypted.
CONSTANTS
    Conns = {c1}
    Limited = FALSE
    MaxConns = 0
    ConnectOps = {"none"}
    DataOps = {"none", "Send"}
    TimerOps = {"none"}
    MaxBytes = 1
SPECIFICATION Spec
CHECK_DEADLOCK FALSE
INVARIANT NoUseAfterFree
