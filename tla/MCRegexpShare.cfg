CONSTANTS
    MaxExact = 7
    MaxSet = 20
    Literals <- SpoilLiterals
    Classes <- MCClasses
    Folded = {}
    Bytes <- MCBytes
    MaxLeaves = 3
    MaxUnary = 0
SPECIFICATION Spec
INVARIANT QueryMatchesAll
CHECK_DEADLOCK FALSE
