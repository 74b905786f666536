CONSTANTS
    N = 7
    EPC = 2
    FPS = 4
    COPIES = 2
    LFNS = 1
    RESERVE = 4
    Names = {"old", "new", "stale"}
    Volumes <- FatVolumes
    MAX_SIZE = 2
    MAX_OPS = 3

SPECIFICATION MCSpec

INVARIANTS
    ContentsSurvive
    CleanMeansConsistent
    
    CacheAgrees
    
    DirtyUntilConsistent

CHECK_DEADLOCK FALSE
