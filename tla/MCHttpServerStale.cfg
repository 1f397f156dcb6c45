\* Two requests without a body, cut where ParseHeaders looks at bytes that have not
\* arrived and the memory is the first one's.
CONSTANTS
    Methods <- MCMethods
    Versions <- MCVersions
    MethodLimit = 2
    InitSize = 40
    ExtraSize = 40
    Requests <- MCBodyless
    MaxRequests = 2
    BodyMaxBytes = 2
    Cuts <- MCAnyCuts
    OnRequest <- MCOnRequest
SPECIFICATION Spec
CHECK_DEADLOCK FALSE
INVARIANT HeadersReached
