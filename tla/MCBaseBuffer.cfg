\* A vector of two bytes that grows up to seven.
CONSTANTS
    Bytes = {0, 1}
    InitSize = 2
    ExtraSize = 2
    SslSpace = 2
    MaxData = 2
    MaxSize = 7
SPECIFICATION Spec
INVARIANT IndexesInRange
PROPERTY IsByteQueue
