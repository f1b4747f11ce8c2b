SPECIFICATION BrokerSpec
CONSTANTS
    r1 = r1
    r2 = r2
    l1 = l1
    l2 = l2
    l3 = l3
    admin = admin
    sampler = sampler
    none = none
    Runs <- MCRuns
    Leaves <- MCLeaves
    RunOf <- MCRunOf
    Admin <- admin
    Sampler <- sampler
    NoOne <- none
    InitialCapacity = 2
    CapMax = 2
    RandomMayFail = TRUE
    DatabaseMayFail = TRUE
    Caps = {1}
    Samples = {"other"}
SYMMETRY MCSymmetry
CHECK_DEADLOCK FALSE
INVARIANTS
    RoundRobinIsExact
    EndedRunHoldsNothing
PROPERTY
    GrantsStayWithinCapacity
