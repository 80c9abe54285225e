-------------------------- MODULE SessionProperties --------------------------
(***************************************************************************)
(* What makes the login state machine of Session correct.  The last        *)
(* section states what the repository's text promises and the code breaks; *)
(* each of those is checked by a run of its own that finds the violation.  *)
(***************************************************************************)
EXTENDS Session, Naturals

\* A pending login always has exactly one live timeout task, its own, and
\* self._timeout_task refers to it; a login that is not pending has none.  So
\* no login waits for its second factor forever, and no timer left over from
\* an earlier login can fail a later one (session.py 182-199).
PendingIffArmed ==
    /\ state \in Pending <=> timeoutTask # None
    /\ sleeping = {timeoutTask} \ {None}
    /\ state \in Pending => timeoutTask = attempt

\* At most one login is between the lock's check and its answer, and while
\* one is, no challenge is outstanding: a fresh weblogin never overtakes a
\* login that waits for its second factor (the double check, session.py
\* 95-104).
LoginExclusion ==
    /\ \A l \in Logins : login[l] \in InsideLock => lockHolder = l
    /\ lockHolder # None => state \notin Pending

\* A session that waits for the app's approval has a live task polling for
\* it, and self._push_task refers to that task, although every poller that
\* ends clears the reference, whoever owns it (session.py 122, 229): the
\* timeout can always cancel the poll.
PushHasPoller ==
    state = "push" => pushTask = attempt /\ attempt \in polling

\* Until startup is over no request is in flight and the session is idle: what
\* resume() writes overwrites nothing (main.py 54-62: requests are served after
\* resume_all()).
QuietAtStartup ==
    ~serving =>
        /\ state = "idle"
        /\ lockHolder = None /\ lockQueue = <<>>
        /\ \A s \in Submits : submit[s] # "completing"

\* The lock is never kept by a login that is over.
LockIsOwned ==
    lockHolder # None => login[lockHolder] \in InsideLock

\* The queue of the lock holds waiting logins, each of them once.
WaitersQueued ==
    /\ \A i \in 1..Len(lockQueue) : login[lockQueue[i]] = "queued"
    /\ \A i, j \in 1..Len(lockQueue) : lockQueue[i] = lockQueue[j] => i = j

\* The inductive invariant: what a step needs to know to keep the four
\* invariants above, and what makes the action properties below hold.
Consistent ==
    /\ TypeOK
    /\ QuietAtStartup
    /\ LockIsOwned
    /\ WaitersQueued
    /\ PendingIffArmed
    /\ LoginExclusion
    /\ PushHasPoller

\* A failed session leaves "failed" only by a login that went through the
\* lock, or by a restart: no late code, late approval or timer revives it
\* (session.py 145-153, 213; domain/state.py 15).
ReviveByLogin ==
    state = "failed" /\ state' # "failed" /\ serving' =>
        \E l \in Logins : login[l] \in InsideLock /\ lockHolder = l /\ lockHolder' = None

FailedUntilRelogin == [][ReviveByLogin]_vars

\* A login is confirmed by the factor it asked for: a code confirms only a
\* login that waits for a code, an approval only one that waits for an
\* approval, even when a poller of an earlier login is still alive
\* (session.py 147, 213).
ConfirmByFactor ==
    /\ state = "authenticator" /\ state' = "confirmed" =>
           \E s \in Submits : submit[s] = "completing" /\ submit'[s] = "confirmed"
    /\ state = "push" /\ state' = "confirmed" =>
           \E l \in polling : l \notin polling'

FactorsNotMixed == [][ConfirmByFactor]_vars

\* The poller of a push login ends in the step that ends the login, or the
\* timeout that ends the login cancels it.  Only two things leave it behind: the
\* upstream error of a submission accepted for an earlier login, and the end of a
\* poller that was itself left behind, for the session tells push logins apart by
\* their state alone (session.py 141-143, 186-193, 201-204, 213-229).
LateErrorOf(s) ==
    submit[s] = "completing" /\ submit'[s] = "upstream" /\ submittedFor[s] # attempt

EndPoller ==
    state = "push" /\ state' # "push" /\ attempt \in polling' =>
        \/ \E s \in Submits : LateErrorOf(s)
        \/ \E l \in polling : l \notin polling' /\ l # attempt

PollerEndsWithLogin == [][EndPoller]_vars

\* The session implements the login flow's promise: an attempt is opened once,
\* is alone while it is open, and gets one verdict.
OpenAttempt == IF state \in Pending THEN attempt ELSE None
Opened == {l \in Logins : login[l] = "challenged"}

Flow == INSTANCE LoginFlow WITH
    Attempts <- Logins,
    status <- state,
    open <- OpenAttempt,
    opened <- Opened

FlowSpec == Flow!Spec

\* Whatever the blocking calls do - even if none of them ever returns - a
\* pending login is over eventually (ARCHITECTURE.md 217-219).
PendingResolved ==
    \A l \in Logins :
        (state \in Pending /\ attempt = l) ~> ~(state \in Pending /\ attempt = l)

------------------------------------------------------------------------------
(* Promises of the repository's text that the code does not keep.            *)

\* "A concurrent timeout may have transitioned to failed while complete_login
\* was running" (session.py 145-146): a submission whose login is gone "must
\* be ignored" (tests/test_session.py 285-287).  The re-check compares states,
\* not logins.
StaleCodeNeverConfirms ==
    [][ \A s \in Submits :
            submit[s] = "completing" /\ submit'[s] = "confirmed"
                => submittedFor[s] = attempt
      ]_vars

\* "authenticator | push -> failed (upstream error or 2FA timeout)"
\* (session.py 15): outside start_login a confirmed session does not fail.
ConfirmedSurvivesLateError ==
    [][ state = "confirmed" /\ state' = "failed"
            => \E l \in Logins : login[l] \in InsideLock /\ login'[l] = "done"
      ]_vars

\* The 2FA timeout "frees background tasks" (ARCHITECTURE.md 246): a login that
\* is over leaves no poller behind.
NoOrphanPoller == polling # {} => state = "push"
==============================================================================
