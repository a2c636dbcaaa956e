CONSTANTS
    Characters = {"newline", "quote", "backslash", "letter"}
    MaxLength = 4
    MaxLong = 0
    Texts <- ShortTexts
SPECIFICATION Spec
INVARIANT
    TokensStayOnTheirLine
CHECK_DEADLOCK FALSE
