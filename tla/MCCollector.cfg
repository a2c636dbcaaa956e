CONSTANTS
    Names = {a, b}
    MaxItems = 5
    Allowed = {"definition", "module", "impl", "impl_fails", "broken", "close", "stray"}
    Texts <- ShortTexts
SPECIFICATION Spec
INVARIANTS
    StackFollowsBlocks
    DefinitionsAreKept
PROPERTIES
    CollectingEnds
CHECK_DEADLOCK FALSE
