CONSTANTS
    Characters = {"newline", "space", "slash", "star", "dot", "sign", "tick", "quote", "backslash", "letter", "digit", "bracket", "semicolon", "invalid"}
    MaxLength = 4
    MaxLong = 7
    Texts <- AllTexts
SPECIFICATION Spec
INVARIANTS
    TokensAreDisjoint
    PositionsAgree
    TokensFollowText
PROPERTIES
    LexingEnds
CHECK_DEADLOCK FALSE
