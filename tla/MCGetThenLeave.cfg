SPECIFICATION Spec
CONSTANTS
    Clients = {c1}
    NoClient = NoClient
    Root = Root
    NoPath = NoPath
    a = a
    input = input
    Names <- OneName
    Lookalikes <- NoNames
    Commands <- GetCommands
    MAX = 4
    Chars <- MCChars
    NUL = "0"
    Letter = "t"
    FILE <- MCFile
    MARKER <- MCMarker
    LineLen = 2
    MaxCommands = 1
INVARIANT OnlyLossEndsServer
CHECK_DEADLOCK FALSE
