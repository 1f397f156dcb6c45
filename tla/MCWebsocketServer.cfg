\* Frames one at a time or back to back, their payloads cut in every way.
CONSTANTS
    Methods <- MCMethods
    Versions <- MCVersions
    MethodLimit = 7
    InitSize = 40
    ExtraSize = 40
    Handshakes <- MCHandshakes
    GET <- MCGET
    Http11 <- MCHttp11
    RequiredHeaders <- MCRequiredHeaders
    Frames <- MCFrames
    MaxFrames = 3
    RespSizes = {125, 200}
    SplitHandshake = FALSE
    SplitHeads = FALSE
    Pipelined = TRUE
    XorByte <- MCXorByte
SPECIFICATION Spec
INVARIANTS FramesAsSent ClosedOnRequest HandshakeAnswered RestIsBuffered
