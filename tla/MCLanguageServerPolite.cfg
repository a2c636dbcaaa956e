CONSTANTS
    Paths = {a}
    Texts <- SomeTexts
    Changes <- PoliteChanges
    Limits = {}
    Positions = {0}
    Methods = {"initialize", "didOpen", "didClose", "didChange", "completion", "documentSymbol", "shutdown", "exit"}
    Polite = TRUE
    MaxMessages = 7
    MaxBatch = 0
    MaxInbox = 2
SPECIFICATION Spec
INVARIANTS
    ClientAndServerAgree
    PoliteClientIsServed
PROPERTIES
    RequestsAreAnswered
CHECK_DEADLOCK FALSE
