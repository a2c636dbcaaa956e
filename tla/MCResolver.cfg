CONSTANTS
    Programs <- SmallPrograms
    MaxDepth = 5
    x = x
    y = y
    Names = {x, y}
    Silent = {y}
    Vocabularies <- SmallVocabularies
SPECIFICATION RunSpec
INVARIANTS
    ScopeLastsUntilBody
    OverflowMeansCycle
    ResolutionMatchesText
    HeldReferencesAreFresh
    NamesResolveLexically
    UnusedIsReportedOnce
    BreaksBelongToTheirLoop
PROPERTIES
    ResolutionEnds
CHECK_DEADLOCK FALSE
