CONSTANTS
    n1 = n1
    n2 = n2
    n3 = n3
    n4 = n4
    n5 = n5
    Absent = Absent
    Name <- MCName
    Hash <- MCHash
    NumServers = 8
    Zeroth = 3

SPECIFICATION Spec

INVARIANTS
    TypeOK
    IndexForFileIsLongestMatch
    EntriesAddressable
    BitmapBytesAgree
