\* One submission and two logins: the submission outlives the first.
CONSTANTS
    Logins = {l1, l2}
    Submits = {s1}
    None = None
SPECIFICATION SafeSpec
PROPERTY
    StaleCodeNeverConfirms
