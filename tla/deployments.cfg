SPECIFICATION DeploymentSpec
CONSTANTS
    d1 = d1
    d2 = d2
    c1 = c1
    c2 = c2
    NoOne = NoOne
    Keeper = Keeper
    Deployments = {d1, d2}
    Clients = {c1, c2}
    Target <- MCTarget
    Kinds <- MCKinds
    Ports = {1}
    MaxGeneration <- MCGenerations
    MaxDocuments = 3
    MaxFaults = 1
CHECK_DEADLOCK FALSE
INVARIANTS
    EdgeNeverMisroutes
    
    
PROPERTIES
    DocumentNeverGoesBack
