CONSTANTS
    IDs = {s1, s2, s3}
    NoID = NoID
    QueueCap = 2
    Clients = {c1}
    NoClient = NoClient
    Slugs = {e1}
    Privacy = {FALSE}
    MaxTime = 0
    MaxCrashes = 1
    MaxFaults = 1
    MaxTroubles = 2
SPECIFICATION Spec
SYMMETRY Symmetry
INVARIANTS TypeOK Findable DeniedOnlyIfLostOrStored ResultsServed SavedHasResults PosWithinOne
PROPERTIES StatusNeverGoesBack PlaceNeverWorsens
CHECK_DEADLOCK FALSE
