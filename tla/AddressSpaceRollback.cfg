CONSTANTS
    FAN = 2
    SLOTS = 2
    MAX_USER_PAGES = 5
    Sizes = {1, 2}
    Boundaries = {1, 4}
    Windows = {1, 5, 9}

SPECIFICATION SpaceSpec

PROPERTY RollbackKeepsOthers
