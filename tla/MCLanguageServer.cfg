CONSTANTS
    Paths = {a, b}
    Texts <- SomeTexts
    Changes <- SomeChanges
    Limits = {1}
    Positions = {0}
    Methods = {"initialize", "didOpen", "didClose", "didChange", "completion", "shutdown", "exit", "malformed", "documentSymbol", "hover", "ignored", "unsupported", "didChangeConfiguration"}
    Polite = FALSE
    MaxMessages = 4
    MaxBatch = 2
    MaxInbox = 1
SPECIFICATION Spec
SYMMETRY Symmetry
INVARIANTS
    TypeOK
    TableIsSound
    EditPositionIsAnalyzed
    RepliesInOrder
CHECK_DEADLOCK FALSE
