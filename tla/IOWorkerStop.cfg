\* Stop with open connections.
CONSTANTS
    Conns = {c1, c2}
    Limited = FALSE
    MaxConns = 0
    ConnectOps = {"none"}
    DataOps = {"none"}
    TimerOps = {"none"}
    MaxBytes = 1
SPECIFICATION FairSpec
CHECK_DEADLOCK FALSE
PROPERTY StopEndsWorker
