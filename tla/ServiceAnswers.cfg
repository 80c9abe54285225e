\* One request against one configuration.
CONSTANTS
    Slugs = {"a", "b", "c"}
    Files <- MCFiles
    Threads = 2
    Requests <- MCRequests
    Ascii = {"key", "other"}
    MaxWall = 2
    MaxOffset = 1
    Float <- MCFloat
SPECIFICATION WebSpec
INVARIANT
    AnsweredAsDocumented
CHECK_DEADLOCK FALSE
