CONSTANTS
    TASKS = 3
    UNIT = 2
    SLICE = 2
    LEAD = 2
    Weight <- MCWeight
SPECIFICATION Spec
PROPERTY ReadyIsRun
