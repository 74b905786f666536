CONSTANTS
    N = 7
    EPC = 2
    FPS = 4
    COPIES = 2
    LFNS = 1
    RESERVE = 4
    Names = {"old", "new", "stale"}
    Volumes <- StaleVolumes
    MAX_SIZE = 2
    MAX_OPS = 2

SPECIFICATION Spec

INVARIANT StaleStaysHidden

CHECK_DEADLOCK FALSE
