CONSTANTS
    Slugs = {a, b}
    NoSlug = NoSlug
    Workers = {w1, w2}
    QueueCap = 4
    Limit = 1
    FreshFlags = {TRUE, FALSE}
    MaxRev = 3
    MaxDirs = 8
    MaxCrashes = 0
    MaxFaults = 0
SPECIFICATION Spec
SYMMETRY Symmetry
INVARIANTS IndexesAreOwned
PROPERTIES SavedRevisionNeverFalls
