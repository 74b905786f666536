SPECIFICATION MCSpec
CONSTANTS
    Procs = {p1, p2}
    Parts = {d1, d2}
    Protected = {d2}
    Shell = Shell
    None = None
    Slots = {t1, t2}
    Names = {n1, n2}
    Data = {m1}
    MAX_PID = 3
    Kinds = {"KERNEL", "RING1"}
    MAX_SERVICES = 2
    MAX_GRANTS = 1
    MAIL_DEPTH = 2
    LOAD = 2
    MAX_ID = 3
SYMMETRY Symmetry
INVARIANTS
    LeasesHaveOwner
    
    RemoteTargetIsStill
    DyingIsStill
PROPERTY ImplementsChannels
CHECK_DEADLOCK FALSE
