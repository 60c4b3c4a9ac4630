SPECIFICATION Spec
CONSTANTS
    Handlers = {t1, t2, t3}
    Names = {n1}
    Starts = {0}
    Steps = {1}
    MaxSpaces = 2
    MaxOps = 8
INVARIANTS TypeOK Increasing
PROPERTIES CreatedOnce
SYMMETRY Symmetry
CHECK_DEADLOCK FALSE
