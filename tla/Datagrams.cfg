SPECIFICATION Spec
CONSTANTS
    Tasks = {t1}
    Ids = {1}
    Ports = {1}
    SOCKETS = 2
    DGRAMS = 1
    FRAGS = 2
    PARTS = 2
    RXQ = 1
    PINGS = 1
    LIFE = 1
    PENDING = 1
    LEARNT = 2
    LEASE = 3
    PROBES = 2
    DAD = 2
    ICMP = 1
    MSL = 0
    CLOCK = 3
    Budgets <- MCBudgets
INVARIANT RepliesAreGenuine
