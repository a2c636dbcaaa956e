CONSTANT
    Vocabularies <- Bodies
SPECIFICATION Spec
INVARIANTS
    AcceptedBodyIsSound
    TypesStayFinite
    EveryClassIsSolved
PROPERTY
    EnsuringRespectsSolutions
CHECK_DEADLOCK FALSE
