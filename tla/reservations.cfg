SPECIFICATION FairReservations
CONSTANTS
    r1 = r1
    r2 = r2
    reader = reader
    writer = writer
    later = later
    Runs <- MCRuns
    Requests <- MCRequests
    RunOf <- MCRunOf
    ClaimsOf <- MCClaimsOf
    Kinds <- MCKinds
    Ids <- MCIds
    Directory = "directory"
    NotifyMayFail = TRUE
CHECK_DEADLOCK FALSE
INVARIANTS
    FirstOfClashHolds
PROPERTIES
    ReservationIsDecided
