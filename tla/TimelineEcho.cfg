\* One request with the smallest calendar that has an offset and a float too few.
CONSTANTS
    Slugs = {"a", "b", "c"}
    Files <- MCFiles
    Threads = 2
    Requests <- MCRequests
    Ascii = {"key", "other"}
    MaxWall = 2
    MaxOffset = 1
    Float <- MCFloat
SPECIFICATION WebSpec
INVARIANT
    FetchedIsAnswered
CHECK_DEADLOCK FALSE
