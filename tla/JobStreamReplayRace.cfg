SPECIFICATION Spec
CONSTANTS
    Readers = {r1}
    SubBuffer = 3
    MaxEvents = 2
INVARIANT EpullVerdictSound
CHECK_DEADLOCK FALSE
