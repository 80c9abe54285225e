\* A single thread, shared by two logins, their pollers, a submission and a
\* timeline request.
CONSTANTS
    Logins = {l1, l2}
    Submits = {s1}
    Fetches = {f1}
    None = None
    Threads = 1
SPECIFICATION BridgeFairSpec
PROPERTY
    RequestsAnswered
