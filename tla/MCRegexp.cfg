CONSTANTS
    MaxExact = 7
    MaxSet = 8
    Literals <- MCLiterals
    Classes <- MCClasses
    Folded <- MCFolded
    Bytes <- MCBytes
    MaxLeaves = 3
    MaxUnary = 1
SPECIFICATION Spec
INVARIANTS
    InfoIsTrue
    EveryMatchIsOpened
CHECK_DEADLOCK FALSE
