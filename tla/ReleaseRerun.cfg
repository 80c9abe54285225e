\* One release, run twice.
\* It stops when nothing is left to merge, prepare or rerun.
CONSTANTS
    Changes = {c1}
    Prepares = {p1}
    Bumps = {"minor", "patch"}
    Failures = 2
    None = None
SPECIFICATION Spec
INVARIANT
    ReleasedWhenDone
CHECK_DEADLOCK FALSE
