\* Two submissions for the same login.
CONSTANTS
    Logins = {l1}
    Submits = {s1, s2}
    None = None
SPECIFICATION SafeSpec
PROPERTY
    ConfirmedSurvivesLateError
