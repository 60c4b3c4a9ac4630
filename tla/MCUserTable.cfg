SPECIFICATION FairSpec
CONSTANTS
    Users = {u1, u2}
    MaxTables = 3
    MaxDialogs = 1
    MaxRequests = 3
INVARIANTS TypeOK OnlyAgreed FlagEndsWithAnswer
PROPERTIES ReportIsTrue FlagEnds
CHECK_DEADLOCK FALSE
