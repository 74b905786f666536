SPECIFICATION FairSpec
CONSTANTS
    RootPorts <- MCRoot
    HubPorts <- MCHub
    Kinds = {"hid", "disk", "hub"}
    Leaves = {"disk","hid"}
    SLOTS = 2
    PAGES = 8
    ENDS = 2
    RING = 1
    PLUGS = 2
    FAULTS = 2
INVARIANTS NoDmaToFreePages
PROPERTY GoneIsRemoved
