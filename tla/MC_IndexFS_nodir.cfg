CONSTANTS
    c1 = c1
    c2 = c2
    nb = nb
    nc = nc
    nd = nd
    NoMap = NoMap
    None = None
    Server <- MCServer
    Client <- MCClient
    Name <- MCName
    Hash <- MCHash
    Zeroth = 1
    SplitThreshold = 2
    NumRedirect = 10
    RPCMayFail = FALSE
    ZerothMayFail = FALSE
    UndefinedReturn = FALSE
    Hint <- MCHint
    MaxMknod = 3
    MaxRename = 0

SPECIFICATION Spec

INVARIANTS
    MknodNeverNotFound

SYMMETRY MCSymmetry
