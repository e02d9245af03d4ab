SPECIFICATION Spec
CONSTANTS
    Clients = {c1, c2}
    NoClient = NoClient
    Root = Root
    NoPath = NoPath
    a = a
    input = input
    Names <- TwoNames
    Lookalikes <- PutName
    Commands <- TransferCommands
    MAX = 4
    Chars <- MCChars
    NUL = "0"
    Letter = "t"
    FILE <- MCFile
    MARKER <- MCMarker
    LineLen = 2
    MaxCommands = 3
SYMMETRY ClientSymmetry
INVARIANT TransferComplete
CHECK_DEADLOCK FALSE
