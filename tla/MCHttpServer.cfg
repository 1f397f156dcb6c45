\* Two requests on a keep-alive connection, each of which may arrive in pieces.
CONSTANTS
    Methods <- MCMethods
    Versions <- MCVersions
    MethodLimit = 2
    InitSize = 40
    ExtraSize = 40
    Requests <- MCRequests
    MaxRequests = 2
    BodyMaxBytes = 2
    Cuts <- MCCuts
    OnRequest <- MCOnRequest
SPECIFICATION Spec
\* A status without a phrase makes ToString throw, and the server ends.
CHECK_DEADLOCK FALSE
INVARIANTS RequestsAsSent NoRequestStuck ResponseAsBuilt
