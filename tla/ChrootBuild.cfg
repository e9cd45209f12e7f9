SPECIFICATION Spec
CONSTANTS
    x = x y = y z = z
    Atoms = {x, y, z}
    Big = {z}
    MaxSnapshots = 2
    MaxBuilds = 3
    MaxTime = 3
    NoSnapshot = NoSnapshot
    Mounts <- MCMounts
    Requests <- MCRequests
    MaxEdits = 1
    MaxFaults = 1
SYMMETRY MCSymmetry
INVARIANTS TypeOK MarkedRepoIsWhole NothingLeftMounted LiveIndexServes
PROPERTIES DoneMeansPublished SnapshotIsImmutable
CHECK_DEADLOCK FALSE
