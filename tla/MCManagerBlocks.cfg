CONSTANTS
    IDs = {s1, s2, s3}
    NoID = NoID
    QueueCap = 1
    Clients = {c1}
    NoClient = NoClient
    Slugs = {}
    Privacy = {FALSE}
    MaxTime = 0
    MaxCrashes = 0
    MaxFaults = 0
    MaxTroubles = 0
SPECIFICATION FairSpec
PROPERTY CreateSearchIsNonBlocking
CHECK_DEADLOCK FALSE
