CONSTANTS
    c1 = c1
    c2 = c2
    nb = nb
    nc = nc
    nd = nd
    NoMap = NoMap
    None = None
    Server <- MCServer
    Client <- MCOneClient
    Name <- MCName
    Hash <- MCHash
    Zeroth = 1
    SplitThreshold = 2
    NumRedirect = 10
    RPCMayFail = FALSE
    ZerothMayFail = TRUE
    UndefinedReturn = TRUE
    Hint <- MCHint
    MaxMknod = 3
    MaxRename = 1

SPECIFICATION Spec

PROPERTIES
    ImplementsGigaDirectory
    OpsTerminate
