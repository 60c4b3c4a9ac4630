CONSTANTS
    Threads = {t1, t2}
    MaxId = 3
SPECIFICATION Spec
CHECK_DEADLOCK FALSE
SYMMETRY Symmetry
INVARIANTS
    TypeOK
    OwnAnswer
    NoneForgotten
PROPERTIES
    AnswerKept
    ImplementsCall
