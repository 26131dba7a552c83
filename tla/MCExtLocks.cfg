CONSTANTS
    Procs = {s1, u1, u2, f1}
    NoProc = NoProc
    Search = s1
    Updates = {u1, u2}
    Files = {f1}
    Dirs = {d1, d2, d3, d4}
    NoDir = NoDir
    MaxLeft = 1
SPECIFICATION FairSpec
INVARIANTS SearchedIndexStays OpenLeadsToIndex NoDirIsForgotten
PROPERTIES UpdatesGetIn
CHECK_DEADLOCK FALSE
