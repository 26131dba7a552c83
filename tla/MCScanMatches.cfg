CONSTANTS
    Exts = {1, 2, 3, 4}
    Initial = {1, 2, 3}
    Updated = {3, 4}
    Results <- OneOrTwoFiles
    Limit = 1
    Cap = 1
    MatchLimit = 2
    PerPage = 2
    NoSlug = NoSlug
    Installs <- SomeInstalls
SPECIFICATION ResultsSpec
INVARIANTS AllMatchesListed
CHECK_DEADLOCK FALSE
