CONSTANTS
    Procs = {s1, u1}
    NoProc = NoProc
    Search = s1
    Updates = {u1}
    Files = {}
    Dirs = {d1, d2, d3, d4}
    NoDir = NoDir
    MaxLeft = 1
SPECIFICATION FairSpec
PROPERTIES SearchEnds
CHECK_DEADLOCK FALSE
