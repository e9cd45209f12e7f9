SPECIFICATION Spec
CONSTANTS
    f1 = f1 f2 = f2
    Flavors = {f1, f2}
    NoFlavor = NoFlavor
    Other = Other
    FirstRepos <- MCFirstRepos
    MaxCommands = 3
    MaxOrphans = 1
    MaxEdits = 1
    u1 = u1 u2 = u2 u3 = u3
    Uploads = {u1, u2, u3}
    Short = {u3}
    Exact = Exact
    Kin = Kin
    None = None
    Installed = Installed
    MaxUpdates = 1
    MaxRestarts = 1
SYMMETRY MCSymmetry
CONSTRAINT OneHalf
INVARIANTS TypeOK VerifiedMeansTrusted ConfigMatchesServer RunsWholeBuild LoneUploadRepairs
PROPERTIES OthersKept
CHECK_DEADLOCK FALSE
