SPECIFICATION FairSpec
CONSTANTS
    Clients = {c1, c2}
    NoClient = NoClient
    Root = Root
    NoPath = NoPath
    a = a
    input = input
    Names <- OneName
    Lookalikes <- NoNames
    Commands <- PlainCommands
    MAX = 4
    Chars <- MCChars
    NUL = "0"
    Letter = "t"
    FILE <- MCFile
    MARKER <- MCMarker
    LineLen = 2
    MaxCommands = 3
INVARIANTS RepliesMatch OnlyLossEndsServer NotStuck
PROPERTIES EveryoneServed ImplementsRemoteCommands
CHECK_DEADLOCK FALSE
