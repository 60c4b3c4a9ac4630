SPECIFICATION Spec
CONSTANTS
    Handlers = {h1, h2}
    Main = main
    Keys = {root, s}
    Sequences_ = {}
    Sessions_ = {s}
    Root = root
    Values = {v1, v2}
    None = None
    Unknown = Unknown
    MaxOps = 2
    MaxCrashes = 1
SYMMETRY Symmetry
VIEW Seen
INVARIANTS LogMatchesMemory Recovered
