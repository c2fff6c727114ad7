SPECIFICATION MCSpec
CONSTANTS
    Texts <- ShortTexts
    PatternLists <- ShortPatterns
INVARIANTS
    KmpExact
    NaiveExact
PROPERTIES
    Terminates
