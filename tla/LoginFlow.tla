------------------------------ MODULE LoginFlow ------------------------------
(***************************************************************************)
(* What one instance's login flow promises its callers, without locks,     *)
(* tasks or requests: a status, and at most one open login attempt (a      *)
(* login that is waiting for its second factor).  An attempt is opened at  *)
(* most once and is resolved exactly once - confirmed or failed - unless   *)
(* the process restarts.  Session implements this specification.           *)
(***************************************************************************)
CONSTANTS
    Attempts,  \* login requests that may open an attempt
    None       \* "no attempt is open"

VARIABLES
    status,    \* what GET /status reports
    open,      \* the open attempt, or None
    opened     \* every attempt opened so far

vars == <<status, open, opened>>

\* The second factors a login may have to wait for.
Challenges == {"authenticator", "push"}

\* How an attempt, or a login that needs no second factor, ends.
Verdicts == {"confirmed", "failed"}

Init ==
    /\ status = "idle"
    /\ open = None
    /\ opened = {}

\* A login meets a second factor: it becomes the open attempt.
Open(a) ==
    /\ open = None
    /\ a \notin opened
    /\ open' = a
    /\ opened' = opened \cup {a}
    /\ status' \in Challenges

\* The open attempt gets its verdict.
Resolve ==
    /\ open # None
    /\ open' = None
    /\ status' \in Verdicts
    /\ UNCHANGED opened

\* A verdict while nothing is open: a resumed session, or an upstream error.
Settle ==
    /\ open = None
    /\ status' \in Verdicts
    /\ UNCHANGED <<open, opened>>

\* The process restarts and forgets its status and its open attempt.
Restart ==
    /\ status' = "idle"
    /\ open' = None
    /\ UNCHANGED opened

Next ==
    \/ \E a \in Attempts : Open(a)
    \/ Resolve
    \/ Settle
    \/ Restart

Spec == Init /\ [][Next]_vars
==============================================================================
