CONSTANTS
    Slugs = {a, b}
    NoSlug = NoSlug
    Workers = {w1}
    QueueCap = 4
    Limit = 0
    FreshFlags = {FALSE}
    MaxRev = 3
    MaxDirs = 8
    MaxCrashes = 1
    MaxFaults = 1
SPECIFICATION FairSpec
PROPERTIES LoadFinishes EventuallyCurrent
INVARIANTS RTypeOK OpenIsServed DiskIsBounded CountersMatchList NoChangeIsLost
PROPERTIES NeverOlder
