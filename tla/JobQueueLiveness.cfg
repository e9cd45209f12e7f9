SPECIFICATION FairSpec
CONSTANTS
    Jobs = {j1, j2}
    Flavors = {f1}
    Workers = {w1}
    Handlers = {h1, h2}
    QueueBuffer = 1
    NoFlavor = NoFlavor
    NoWorker = NoWorker
    NoJob = NoJob
PROPERTIES EveryJobEnds EndedWaitingNeverRuns
