CONSTANTS
    Exts = {1, 2, 3, 4}
    Initial = {1, 2, 3}
    Updated = {3, 4}
    Results <- OneOrTwoFiles
    Limit = 2
    Cap = 1
    MatchLimit = 2
    PerPage = 2
    NoSlug = NoSlug
    Installs <- SomeInstalls
SPECIFICATION ResultsSpec
INVARIANTS WithinLimit MatchesBounded TotalIsExact EveryOpenIsScanned ProgressIsPercent SummaryAgrees
           OpenRowShowsItsOwn
PROPERTIES ScanEnds
CHECK_DEADLOCK FALSE
