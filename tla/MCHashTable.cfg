SPECIFICATION MCSpec
CONSTANTS
    Str <- Words
    HLEN = 3
    Hash <- MCHash
    MaxLines = 3
    MaxWords = 2
    key1 = key1
    key2 = key2
    key3 = key3
    key4 = key4
    key5 = key5
INVARIANTS
    IInv
    CountsKept
PROPERTIES
    ImplementsMembership
    ArrayImplementsMembership
