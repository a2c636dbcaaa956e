CONSTANTS
    Paths = {a}
    Texts <- SomeTexts
    Changes <- PoliteChanges
    Limits = {1}
    Positions = {0}
    Methods = {"initialize", "didOpen", "documentSymbol", "didChangeConfiguration"}
    Polite = TRUE
    MaxMessages = 4
    MaxBatch = 0
    MaxInbox = 2
SPECIFICATION Spec
INVARIANTS
    PoliteClientIsServed
CHECK_DEADLOCK FALSE
