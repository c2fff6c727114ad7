SPECIFICATION MCSpec
CONSTANTS
    Programs = {"AVL", "BPlusTree, M = 2", "BPlusTree, M = 4", "Trie", "RadixTree", "PATRICA",
                "url trie", "ac_auto"}
    FirstLine <- NonEmptyDigits
    NULL = NULL
    Lines <- PatternLines
    Char <- TextChars
    MaxText = 4
INVARIANTS
    Balanced
    NodesInOrder
    NodesAreCritical
    DumpIsLinks
    FailIsLongest
    CountsExact
PROPERTIES
    AVLImplementsDictionary
    BPlusTreeImplementsDictionary
    TrieImplementsDictionary
    RadixTreeImplementsDictionary
    PatriciaImplementsDictionary
    ImplementsIndex
