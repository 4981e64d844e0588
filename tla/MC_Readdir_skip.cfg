CONSTANTS
    c1 = c1
    nb = nb
    nc = nc
    nd = nd
    NoMap = NoMap
    None = None
    Server <- MCServer
    Client <- MCClient
    Name <- MCName
    Hash <- MCHash
    Garbage <- MCGarbage
    Zeroth = 1
    SplitThreshold = 2
    NumRedirect = 10
    RPCMayFail = FALSE
    ZerothMayFail = FALSE
    UndefinedReturn = FALSE
    Hint <- MCHint
    MaxMknod = 3
    MaxRename = 0
    Capacity = 1
    MaxReaddir = 1

SPECIFICATION RSpec

PROPERTIES
    ReaddirQuietComplete
