CONSTANTS
    IDs = {1, 2}
    NoID = 0
    NoAnswer = 0
    Matching = {1}
    MaxPosts = 1
    MaxPolls = 2
    HasMatch = TRUE
    Failing = {2}
SPECIFICATION WebSpec
INVARIANTS WTypeOK PrivateNotListed ShownIsTrue
PROPERTIES EventuallyShown
