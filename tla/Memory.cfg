SPECIFICATION MCSpec
CONSTANTS
    CPUS = {c1, c2}
    Nobody = Nobody
    Nothing = Nothing
    PMM_MAX_PAGES = 5
    LOW_PAGES = 2
    EfiMap <- MCEfiMap
    Counts = {0, 1, 2}
    Alignments = {1, 2, 3}
    Maxima <- MCMaxima
    FAN = 2
    SLOTS = 2
    MAX_USER_PAGES = 5
    Sizes = {1, 2}
    Boundaries = {1, 4}
    Windows = {1, 5, 9}
    PAGE = 8
    UNIT = 4
    CANARY = 1
    ARENA_PAGES = 2
    MIN_ALIGN = 2
    ARENAS = 2
    LARGE = 2
    PAGES = {1, 2, 3, 4}
    HeapRequests <- MCRequests
    MAX_OVERRUNS = 1
INVARIANTS
    EveryPageHasOneOwner
    FreeCountExact
    FramesAccounted
    TreeWellFormed
    LimitHolds
    BlocksDisjoint
    NoIdleArena
PROPERTIES
    ImplementsPageOwnership
    LockReleased
