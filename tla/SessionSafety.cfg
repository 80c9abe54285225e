\* Three logins and two code submissions: enough for a submission that outlives
\* its login, the login after it and the one after that.
\* The event loop's fairness alone; no symmetry, because one property is a
\* liveness one.
CONSTANTS
    Logins = {l1, l2, l3}
    Submits = {s1, s2}
    None = None
SPECIFICATION Spec
INVARIANTS
    TypeOK
    PendingIffArmed
    LoginExclusion
    PushHasPoller
    Consistent
PROPERTIES
    FailedUntilRelogin
    FactorsNotMixed
    PollerEndsWithLogin
    FlowSpec
    PendingResolved
