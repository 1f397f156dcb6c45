\* One thread of the pool and the IO thread send on one connection.
CONSTANTS
    Pool = {p1}
    Io = io
SPECIFICATION Spec
CHECK_DEADLOCK FALSE
PROPERTY SentAutomatically
