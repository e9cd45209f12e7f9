SPECIFICATION FairSpec
CONSTANTS
    Readers = {r1, r2}
    SubBuffer = 2
    MaxEvents = 3
INVARIANTS TypeOK InOrderOnce NothingMissing CtlVerdictSound
PROPERTY StreamsEnd
CHECK_DEADLOCK FALSE
