CONSTANTS
    IDs = {s1, s2}
    NoID = NoID
    QueueCap = 1
    Clients = {c1}
    NoClient = NoClient
    Slugs = {}
    Privacy = {TRUE, FALSE}
    MaxTime = 1
    MaxCrashes = 1
    MaxFaults = 1
    MaxTroubles = 1
SPECIFICATION FairSpec
PROPERTIES EverySearchIsStored RequestsReturn ImplementsFairService
CHECK_DEADLOCK FALSE
INVARIANTS PublicHistoryInOrder
