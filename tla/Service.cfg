\* Files of up to two instances, and one of three on two threads: resumes wait.
\* A startup that failed is over, so the system stops.
CONSTANTS
    Slugs = {"a", "b", "c"}
    Files <- MCFiles
    Threads = 2
    Requests <- MCRequests
    Ascii = {"key", "other"}
    MaxWall = 2
    MaxOffset = 1
    Float <- MCFloat
SPECIFICATION WebSpec
INVARIANTS
    TypeOK
    ServedWhenSettled
    EntriesApart
    NothingWithoutKey
    SchemaMatchesMiddleware
    EchoIsAsked
PROPERTIES
    StartsDespiteFailures
    SessionsStart
CHECK_DEADLOCK FALSE
