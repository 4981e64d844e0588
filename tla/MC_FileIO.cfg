CONSTANTS
    c1 = c1
    c2 = c2
    v1 = v1
    v2 = v2
    Zero = Zero
    None = None
    NoFile = NoFile
    Client <- MCClient
    Val <- MCVal
    Threshold = 2
    MaxOffset = 1
    MaxLen = 2
    MaxWrites = 3
    MaxOpens = 3

SPECIFICATION Spec

INVARIANTS
    TypeOK
    SizeRecordedAtClose

SYMMETRY MCSymmetry

CHECK_DEADLOCK FALSE
