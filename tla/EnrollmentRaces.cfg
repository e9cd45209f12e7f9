SPECIFICATION Spec
CONSTANTS
    Tokens = {t1, t2}
    CNs = {m1, m2}
    Flavors = {f1, f2}
    Configured = {}
    Certs = {c1, c2}
    Requests = {r1, r2}
    Empty = Empty
    NoEntry = NoEntry
    NoToken = NoToken
    MaxSpends = 3
    MaxFaults = 0
    MaxRestarts = 0
SYMMETRY Symmetry
INVARIANTS TypeOK OneGrantPerToken BindingKept SpentIsAccounted
PROPERTY FlavorChangesArePaid
CHECK_DEADLOCK FALSE
