SPECIFICATION Spec
CONSTANTS
    Conns = {c1, c2}
    MaxExchanges = 2
    MaxIdle = 1
INVARIANTS ReadStopsTimer
CHECK_DEADLOCK FALSE
