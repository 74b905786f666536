SPECIFICATION Spec
CONSTANTS
    c0 = c0
    c1 = c1
    idle0 = idle0
    idle1 = idle1
    CPUS = {c0, c1}
    Tasks = {idle0, idle1, boot, t1}
    IDLE <- MCIdle
    BOOT = boot
    BOOT_CPU = c0
    Mutexes = {m1}
    Semaphores = {s1}
    Nothing = Nothing
    MAX_ID = 4
    SEM_MAX = 1
    MAX_DEPTH = 1
INVARIANTS
    
    NoLostWakeup
    IdleSeesWork
    MutualExclusion
    OwnerMakesProgress
    ProcessStateAgrees
PROPERTIES
    ZombieNeverRuns
    KillIsSticky
