SPECIFICATION Spec
CONSTANTS
    r1 = r1
    r2 = r2
    m1 = m1
    m2 = m2
    a1 = a1
    a2 = a2
    make_conf = make_conf
    package_use = package_use
    CNs = {m1}
    Confs = {a1, a2}
    Paths = {make_conf, package_use}
    MakeConf = make_conf
    Holds <- MCHolds
    Layers = {}
    ByName <- MCByName1
    Movers = {}
    Requests = {r1, r2}
    Job = Job
    Layer = Layer
    Upload = Upload
    Alone = Alone
    NoDir = NoDir
    None = None
    MaxFaults = 0
INVARIANT DeletedLeavesNothing
SYMMETRY Symmetry
CHECK_DEADLOCK FALSE
