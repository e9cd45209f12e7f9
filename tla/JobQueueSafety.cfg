SPECIFICATION Spec
CONSTANTS
    Jobs = {j1, j2, j3}
    Flavors = {f1, f2}
    Workers = {w1, w2}
    Handlers = {h1}
    QueueBuffer = 2
    NoFlavor = NoFlavor
    NoWorker = NoWorker
    NoJob = NoJob
SYMMETRY Symmetry
INVARIANTS TypeOK OneAtATime OneOwner RefusedNeverRuns EndedJobsHoldNothing UnfinishedIsBusy
PROPERTIES EndIsFinal ImplementsLanes
