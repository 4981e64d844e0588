\* Two threads calling IDX_Init at once.
CONSTANTS
    t1 = t1
    t2 = t2
    Other = Other
    None = None
    Thread <- MCThread
    Key <- MCKey
    OtherKeys <- MCOtherKeys

SPECIFICATION Spec

INVARIANT CallsReachLiveClient

CHECK_DEADLOCK FALSE
