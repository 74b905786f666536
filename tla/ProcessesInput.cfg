SPECIFICATION Spec
CONSTANTS
    Procs = {p1, p2}
    Parts = {}
    Protected = {}
    Shell = Shell
    None = None
    MAX_PID = 2
INVARIANT InputReleasedOnDeath
CHECK_DEADLOCK FALSE
