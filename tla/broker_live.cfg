SPECIFICATION FairBroker
CONSTANTS
    r1 = r1
    r2 = r2
    l1 = l1
    l2 = l2
    l3 = l3
    admin = admin
    sampler = sampler
    none = none
    Runs <- MCRuns
    Leaves <- MCPair
    RunOf <- MCPairRunOf
    Admin <- admin
    Sampler <- sampler
    NoOne <- none
    InitialCapacity = 1
    CapMax = 2
    RandomMayFail = FALSE
    DatabaseMayFail = FALSE
    Caps = {}
    Samples = {"pressure", "other"}
CHECK_DEADLOCK FALSE
INVARIANTS
    WaiterIsQueued
    PermitHasOwner
    SleeperIsWoken
PROPERTIES
    SleeperIsServed
