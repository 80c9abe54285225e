\* Two releases and a change that may be merged between any two of their steps.
\* It stops when nothing is left to merge, prepare or rerun.
CONSTANTS
    Changes = {c1}
    Prepares = {p1, p2}
    Bumps = {"minor", "patch"}
    Failures = 2
    None = None
SPECIFICATION Spec
INVARIANT
    SectionsListReleases
CHECK_DEADLOCK FALSE
