CONSTANTS
    M = 5
    Documents <- AllDocuments
SPECIFICATION Spec
INVARIANTS
    SemanticTokensFollowText
    NothingIsConsumedUnreported
    LastRowBindsLoosest
    BracketsMatch
    DesugaringFollowsReadme
    FormattingKeepsTokens
PROPERTIES
    ParsingEnds
CHECK_DEADLOCK FALSE
