\* Replies whose length takes 7 bits, or 2 bytes with or without a zero among them.
CONSTANTS
    Methods <- MCMethods
    Versions <- MCVersions
    MethodLimit = 7
    InitSize = 40
    ExtraSize = 40
    Handshakes <- MCHandshakes
    GET <- MCGET
    Http11 <- MCHttp11
    RequiredHeaders <- MCRequiredHeaders
    Frames <- MCFrames
    MaxFrames = 1
    RespSizes = {125, 200, 513, 65534}
    SplitHandshake = FALSE
    SplitHeads = FALSE
    Pipelined = TRUE
    XorByte <- MCXorByte
SPECIFICATION Spec
INVARIANT RepliesAreFramed
