\* One connection, plain or encrypted, under fairness; writes that take a part of
\* what is unsent, and an application that closes a connection only in its own
\* data callback.
CONSTANTS
    Conns = {c1}
    Limited = FALSE
    MaxConns = 0
    ConnectOps = {"none", "Send", "Hold"}
    DataOps = {"none", "Send", "Shutdown", "ForceClose", "Hold"}
    TimerOps = {"none", "Send"}
    MaxBytes = 2
SPECIFICATION FairSpec
CHECK_DEADLOCK FALSE
INVARIANTS
    TypeOK
    OwnedIffRegistered
    InterestExact
    ClosedHoldsNoData
    DisconnectedOnce
PROPERTIES
    CloseIsFinal
    PeerGoneIsReaped
    SendDrains
    StopLeavesLoop
