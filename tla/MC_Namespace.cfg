\* Directories made across two restarts of a single server.
CONSTANTS
    a = a
    b = b
    t1 = t1
    t2 = t2
    None = None
    Name <- MCName
    Thread <- MCThread
    ServerId = 0
    MaxDepth = 2
    MaxOps = 3
    MaxRestarts = 2
SPECIFICATION Spec
INVARIANT DirIdsUnique
CHECK_DEADLOCK FALSE
