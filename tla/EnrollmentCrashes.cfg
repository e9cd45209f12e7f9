SPECIFICATION Spec
CONSTANTS
    Tokens = {t1, t2}
    CNs = {m1, m2}
    Flavors = {f1, f2}
    Configured = {f2}
    Certs = {c1, c2}
    Requests = {r1}
    Empty = Empty
    NoEntry = NoEntry
    NoToken = NoToken
    MaxSpends = 3
    MaxFaults = 1
    MaxRestarts = 1
SYMMETRY Symmetry
INVARIANTS GrantedStaysSpent RevocationSticks
CHECK_DEADLOCK FALSE
