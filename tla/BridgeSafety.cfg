\* Three logins, so that a poller or a code outlives its login and meets the next;
\* two threads for up to five calls, a timeline request among them.
CONSTANTS
    Logins = {l1, l2, l3}
    Submits = {s1}
    Fetches = {f1}
    None = None
    Threads = 2
SPECIFICATION BridgeSpec
SYMMETRY RequestSymmetry
INVARIANTS
    ClientTypeOK
    HandleHoldsAttempt
    ConfirmedIsPersisted
    AwaitsItsCall
    FetchHasSession
    EveryWaiterHasATurn
    Attached
