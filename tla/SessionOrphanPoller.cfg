\* One submission outlives an authenticator login and fails a push login.
CONSTANTS
    Logins = {l1, l2}
    Submits = {s1}
    None = None
SPECIFICATION SafeSpec
INVARIANT
    NoOrphanPoller
