CONSTANT
    Vocabularies <- Aliases
SPECIFICATION Spec
INVARIANT
    RequiredRelationsHold
CHECK_DEADLOCK FALSE
