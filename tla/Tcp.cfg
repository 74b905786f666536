SPECIFICATION FairSpec
CONSTANTS
    SEQ = 16
    ISS = 14
    STREAM = 2
    MSS = 1
    RETRIES = 1
    WRITES <- MCWrites
    FAULTS = 1
PROPERTIES ImplementsStream Progress
CHECK_DEADLOCK FALSE
