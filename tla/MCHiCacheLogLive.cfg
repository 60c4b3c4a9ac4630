SPECIFICATION FairSpec
CONSTANTS
    Handlers = {h1}
    Main = main
    Keys = {root, q}
    Sequences_ = {q}
    Sessions_ = {}
    Root = root
    Values = {v1}
    None = None
    Unknown = Unknown
    MaxOps = 2
    MaxCrashes = 1
PROPERTIES MaintenanceEnds RecordsReachDisk
