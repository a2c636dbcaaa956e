CONSTANTS
    Names = {a}
    MaxItems = 3
    Allowed = {"definition", "impl", "close"}
    Texts <- ShortTexts
SPECIFICATION Spec
INVARIANT
    NeverAborts
CHECK_DEADLOCK FALSE
