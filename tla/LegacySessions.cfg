SPECIFICATION Spec
CONSTANTS
    c1 = c1
    c2 = c2
    i1 = i1
    i2 = i2
    l1 = l1
    l2 = l2
    Callers = {c1, c2}
    Parts <- MCParts
    Labels <- MCLabels
    KeyIds <- MCKeyIds
    OtherIds <- MCOtherIds
    RsaOaepHashes = {"sha1"}
    Stores <- TidyTokens
    Configured <- FewSettings
    MaxSessions = 2
    MaxBlobs = 1
    OwnNonce = TRUE
SYMMETRY Symmetry
INVARIANTS
    TypeOK
    LoginExclusive
    SessionsAccounted
    BlobsReadable
CHECK_DEADLOCK FALSE
