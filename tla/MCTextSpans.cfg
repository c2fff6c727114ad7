SPECIFICATION MCSpec
CONSTANTS
    Texts <- AllTexts
    Programs = {"utf8"}
    NL = NL
    FF = FF
    Char = Char
    RIO_BUFSIZE = 3
    MAXLINE = 5
    BLOCK = 2
INVARIANTS
    SpansExact
