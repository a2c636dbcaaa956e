CONSTANTS
    MaxNodes = 4
    OutOfRange = OutOfRange
    Void = Void
    Characters = {a}
    LF = LF
    MaxText = 4
    MaxInsert = 2
    Messages <- Misleading
    HeaderSize = 2
    BreakSize = 2
    MaxWritten = 3
SPECIFICATION LibrarySpec
INVARIANTS
    LighterThanParent
    ClimbFindsLeader
    EditPositionFollowsText
PROPERTIES
    CallReturns
    ImplementsPartition
    ImplementsChannel
    TextIsLines
CHECK_DEADLOCK FALSE
