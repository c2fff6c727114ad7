SPECIFICATION MCSpec
CONSTANTS
    Texts <- AllTexts
    Programs = {"rio", "socket", "open", "getline", "utf8", "given"}
    NL = NL
    FF = FF
    Char = Char
    RIO_BUFSIZE = 3
    MAXLINE = 5
    BLOCK = 2
INVARIANTS
    TransferExact
    DescriptorsExact
    StringsAreLines
    ValidExact
    CaseExact
    OrderExact
    SearchesExact
PROPERTIES
    TransferEnds
    ImplementsLines
    ImplementsText
