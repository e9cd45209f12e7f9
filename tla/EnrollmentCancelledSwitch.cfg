SPECIFICATION Spec
CONSTANTS
    Tokens = {t1, t2}
    CNs = {m1}
    Flavors = {f1, f2}
    Configured = {}
    Certs = {c1, c2}
    Requests = {r1}
    Empty = Empty
    NoEntry = NoEntry
    NoToken = NoToken
    MaxSpends = 3
    MaxFaults = 0
    MaxRestarts = 0
SYMMETRY Symmetry
PROPERTY CancelledNeverSwitches
CHECK_DEADLOCK FALSE
