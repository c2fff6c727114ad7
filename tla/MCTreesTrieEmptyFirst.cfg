SPECIFICATION MCSpec
CONSTANTS
    Programs = {"Trie"}
    FirstLine <- Digits
    NULL = NULL
    Lines <- PatternLines
    Char <- TextChars
    MaxText = 4
PROPERTIES
    TrieImplementsDictionary
