SPECIFICATION FairSpec
CONSTANTS
    Tasks = {"worker", "shell"}
    Worker = "worker"
    Machines <- MCMachines
    Kind <- UnitKind
    Channel <- UnitChannel
    Spaces = 1
    DISKS = 5
    PER = 1
    DEPTH = 2
    ATTEMPTS = 2
    FAULTS = 1
INVARIANT HealthyStaysOnline
PROPERTIES
    AnswersAreTrue
    CallsReturn
