SPECIFICATION MCSpec
CONSTANTS
    Str <- Words
    m = 10
    k = 2
    Hash <- MCHash
    MaxLines = 2
    MaxWords = 2
INVARIANTS
    NoPatternDenied
    YesHasReasons
    HashesTellApart
