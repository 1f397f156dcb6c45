\* Two workers, two clients, a limiter, and fds that run out: two are reserved
\* and two are left for the clients and the rest of the program.
CONSTANTS
    N = 2
    Pool = {p1}
    Conns = {c1, c2}
    Limited = TRUE
    MaxConns = 2
    MaxFds = 4
    MaxOthers = 2
SPECIFICATION Spec
CHECK_DEADLOCK FALSE
INVARIANTS
    ServedWithinLimit
    ReturnedMeansDone
PROPERTIES
    ServeReturns
    ClientIsAnswered
