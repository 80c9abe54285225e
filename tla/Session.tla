------------------------------- MODULE Session -------------------------------
(***************************************************************************)
(* InstanceSession of tr_bridge/application/session.py: the login/2FA      *)
(* state machine of one Trade Republic account, on the asyncio event loop. *)
(*                                                                         *)
(* An action is what one coroutine does between two awaits that can        *)
(* suspend it.  A call through the TradeRepublicClient port suspends its   *)
(* caller; the action ...Returns(request, outcome) resumes it with one of  *)
(* the outcomes the port and its adapter can produce.  Request identifiers *)
(* are used once, so the sets Logins and Submits bound the runs and every  *)
(* login attempt has the name of the request that opened it.               *)
(***************************************************************************)
EXTENDS Sequences

CONSTANTS
    Logins,    \* POST /login requests
    Submits,   \* POST /login/2fa requests
    None       \* Python's None: no task, no lock owner, no attempt

ASSUME NoneIsNoLogin == None \notin Logins

VARIABLES
    serving,      \* the lifespan startup is over: requests are accepted
    state,        \* self._state
    lockHolder,   \* the login inside "async with self._lock", or None
    lockQueue,    \* logins waiting for self._lock, in FIFO order
    timeoutTask,  \* self._timeout_task, named by the login that scheduled it
    sleeping,     \* the timeout tasks alive on the event loop
    pushTask,     \* self._push_task, named by the login that created it
    polling,      \* the push-confirmation tasks alive on the event loop
    login,        \* where each POST /login is
    submit,       \* where each POST /login/2fa is, or its answer
    attempt,      \* history: the login that met the latest challenge
    submittedFor  \* history: the attempt each submission was accepted for

sessionVars == <<state, timeoutTask, sleeping, pushTask, polling>>
lockVars == <<lockHolder, lockQueue>>
requestVars == <<login, submit>>
historyVars == <<attempt, submittedFor>>
vars == <<serving, sessionVars, lockVars, requestVars, historyVars>>

------------------------------------------------------------------------------
(* States, requests and port outcomes.                                       *)

\* _PENDING_STATES
Pending == {"authenticator", "push"}

\* SessionState
SessionState == Pending \cup {"idle", "confirmed", "failed"}

\* Where a login is suspended, and how it ends: "challenged" when it returned
\* authenticator or push, "done" for every other answer.
InsideLock == {"resuming", "starting"}
LoginPC == InsideLock \cup {"new", "queued", "done", "challenged"}

\* How a 2FA submission ends: an error, or a 200 that echoes the state.
SubmitErrors ==
    {"no_login_pending", "code_rejected", "upstream", "internal_error", "dropped"}
SubmitPC == SessionState \cup SubmitErrors \cup {"new", "completing"}

\* Outcomes of the port's calls.  "upstream" stands for the errors of
\* _UPSTREAM_ERRORS, "unexpected" for every exception the adapter does not
\* translate (an OSError of the session directory, a ValueError outside
\* complete_login, ...).
ResumeOutcomes == {"valid", "none", "upstream", "unexpected"}
ChallengeOutcomes == {"authenticator", "push", "upstream", "unexpected"}
CompleteOutcomes == {"ok", "rejected", "upstream", "unexpected"}

TypeOK ==
    /\ serving \in BOOLEAN
    /\ state \in SessionState
    /\ lockHolder \in Logins \cup {None}
    /\ lockQueue \in Seq(Logins)
    /\ timeoutTask \in Logins \cup {None}
    /\ sleeping \subseteq Logins
    /\ pushTask \in Logins \cup {None}
    /\ polling \subseteq Logins
    /\ login \in [Logins -> LoginPC]
    /\ submit \in [Submits -> SubmitPC]
    /\ attempt \in Logins \cup {None}
    /\ submittedFor \in [Submits -> Logins \cup {None}]

\* The process has just started: lifespan startup runs resume() next.
Init ==
    /\ serving = FALSE
    /\ state = "idle"
    /\ lockHolder = None
    /\ lockQueue = <<>>
    /\ timeoutTask = None
    /\ sleeping = {}
    /\ pushTask = None
    /\ polling = {}
    /\ login = [l \in Logins |-> "new"]
    /\ submit = [s \in Submits |-> "new"]
    /\ attempt = None
    /\ submittedFor = [s \in Submits |-> None]

------------------------------------------------------------------------------
(* The session's private helpers.                                            *)

\* _cancel_timeout().  A task cancelled before its next step never takes it.
CancelTimeout ==
    /\ sleeping' = sleeping \ {timeoutTask}
    /\ timeoutTask' = None

\* Mutant of ScheduleTimeout: the old timer is cancelled, no new one is created.
ScheduleNoTimeout(l) == CancelTimeout

\* _schedule_timeout()
ScheduleTimeout(l) ==
    /\ sleeping' = (sleeping \ {timeoutTask}) \cup {l}
    /\ timeoutTask' = l

\* Mutant of CancelPushTask: the reference is cleared, the task is not cancelled.
ForgetPushTask ==
    /\ pushTask' = None
    /\ UNCHANGED polling

\* _cancel_push_task().  The cancelled task's own "finally" clears
\* self._push_task on the next pass of the loop, before any login can get
\* through a port call, so it is part of the same step.
CancelPushTask ==
    /\ polling' = polling \ {pushTask}
    /\ pushTask' = None

\* Mutants of Fail: the error is stored for the state; the timer is left running.
FailWithError ==
    /\ state' = "upstream"
    /\ CancelTimeout

FailKeepsTimer ==
    /\ state' = "failed"
    /\ UNCHANGED <<timeoutTask, sleeping>>

\* _fail()
Fail ==
    /\ state' = "failed"
    /\ CancelTimeout

\* Mutant of StartPushTask: the created task is not assigned.
StartPushTaskUnassigned(l) ==
    /\ polling' = polling \cup {l}
    /\ UNCHANGED pushTask

\* self._push_task = create_task(_run_push_confirmation())
StartPushTask(l) ==
    /\ polling' = polling \cup {l}
    /\ pushTask' = l

\* Mutants of the two checks below: no check after the await; the check asks
\* for any pending login.
NoCodeCheck == TRUE
AwaitingAnyFactor == state \in Pending

\* The checks that a late answer meets: is the session still waiting for it?
AwaitingCode == state = "authenticator"
AwaitingApproval == state = "push"

\* Mutant of LeaveLock: an exit path that does not release.
LeaveLockHeld(l, pc) ==
    /\ login' = [login EXCEPT ![l] = pc]
    /\ UNCHANGED lockVars

\* A login leaves the lock: the head of the queue may go next.
LeaveLock(l, pc) ==
    /\ login' = [login EXCEPT ![l] = pc]
    /\ lockHolder' = None
    /\ UNCHANGED lockQueue

------------------------------------------------------------------------------
(* Startup and restart.                                                      *)

\* resume() under the registry's resume_all(): an exception is logged and
\* leaves the instance idle.  The service accepts requests afterwards.
Resume(outcome) ==
    /\ ~serving
    /\ serving' = TRUE
    /\ state' = IF outcome = "valid" THEN "confirmed" ELSE state
    /\ UNCHANGED <<timeoutTask, sleeping, pushTask, polling>>
    /\ UNCHANGED <<lockVars, requestVars, historyVars>>

\* The process stops (crash, deploy, container restart) and comes back with a
\* new InstanceSession; requests in flight never get an answer.
Restart ==
    /\ serving
    /\ serving' = FALSE
    /\ state' = "idle"
    /\ lockHolder' = None
    /\ lockQueue' = <<>>
    /\ timeoutTask' = None
    /\ sleeping' = {}
    /\ pushTask' = None
    /\ polling' = {}
    /\ login' = [l \in Logins |->
                    IF login[l] \in InsideLock \cup {"queued"} THEN "done" ELSE login[l]]
    /\ submit' = [s \in Submits |->
                    IF submit[s] = "completing" THEN "dropped" ELSE submit[s]]
    /\ attempt' = None
    /\ UNCHANGED submittedFor

------------------------------------------------------------------------------
(* start_login()                                                             *)

\* The check before the lock: 409 login_in_progress.
RejectLogin(l) ==
    /\ state \in Pending
    /\ login' = [login EXCEPT ![l] = "done"]
    /\ UNCHANGED lockVars

\* asyncio.Lock is fair: a newcomer waits if anybody holds it or waits for it.
QueueLogin(l) ==
    /\ state \notin Pending
    /\ lockHolder # None \/ lockQueue # <<>>
    /\ login' = [login EXCEPT ![l] = "queued"]
    /\ lockQueue' = Append(lockQueue, l)
    /\ UNCHANGED lockHolder

\* Mutant of EnterLogin: no lock around the login.
EnterUnlocked(l) ==
    /\ state \notin Pending
    /\ login' = [login EXCEPT ![l] = "resuming"]
    /\ UNCHANGED lockVars

\* An uncontended lock is taken without suspending: the second check sees
\* what the first one saw.
EnterLogin(l) ==
    /\ state \notin Pending
    /\ lockHolder = None /\ lockQueue = <<>>
    /\ login' = [login EXCEPT ![l] = "resuming"]
    /\ lockHolder' = l
    /\ UNCHANGED lockQueue

CallLogin(l) ==
    /\ serving
    /\ login[l] = "new"
    /\ RejectLogin(l) \/ QueueLogin(l) \/ EnterLogin(l)
    /\ UNCHANGED <<serving, sessionVars, submit, historyVars>>

\* Mutant of AcquireLock: no second check inside the lock.
AcquireUnchecked(l) ==
    /\ lockHolder = None
    /\ lockQueue # <<>> /\ Head(lockQueue) = l
    /\ lockQueue' = Tail(lockQueue)
    /\ lockHolder' = l
    /\ login' = [login EXCEPT ![l] = "resuming"]
    /\ UNCHANGED <<serving, sessionVars, submit, historyVars>>

\* The waiter at the head gets the lock and checks the state again.
AcquireLock(l) ==
    /\ lockHolder = None
    /\ lockQueue # <<>> /\ Head(lockQueue) = l
    /\ lockQueue' = Tail(lockQueue)
    /\ \/ /\ state \in Pending
          /\ login' = [login EXCEPT ![l] = "done"]
          /\ UNCHANGED lockHolder
       \/ /\ state \notin Pending
          /\ login' = [login EXCEPT ![l] = "resuming"]
          /\ lockHolder' = l
    /\ UNCHANGED <<serving, sessionVars, submit, historyVars>>

\* client.resume_session() came back, inside the lock.
ResumeReturns(l, outcome) ==
    /\ login[l] = "resuming"
    /\ \/ /\ outcome = "valid"
          /\ state' = "confirmed"
          /\ LeaveLock(l, "done")
          /\ UNCHANGED <<timeoutTask, sleeping>>
       \/ /\ outcome = "none"
          /\ login' = [login EXCEPT ![l] = "starting"]
          /\ UNCHANGED <<state, timeoutTask, sleeping, lockVars>>
       \/ /\ outcome = "upstream"
          /\ Fail
          /\ LeaveLock(l, "done")
       \/ /\ outcome = "unexpected"
          /\ LeaveLock(l, "done")
          /\ UNCHANGED <<state, timeoutTask, sleeping>>
    /\ UNCHANGED <<serving, pushTask, polling, submit, historyVars>>

\* client.start_login() came back, inside the lock.
ChallengeReturns(l, outcome) ==
    /\ login[l] = "starting"
    /\ \/ /\ outcome = "authenticator"
          /\ state' = "authenticator"
          /\ attempt' = l
          /\ ScheduleTimeout(l)
          /\ LeaveLock(l, "challenged")
          /\ UNCHANGED <<pushTask, polling>>
       \/ /\ outcome = "push"
          /\ state' = "push"
          /\ attempt' = l
          /\ StartPushTask(l)
          /\ ScheduleTimeout(l)
          /\ LeaveLock(l, "challenged")
       \/ /\ outcome = "upstream"
          /\ Fail
          /\ LeaveLock(l, "done")
          /\ UNCHANGED <<pushTask, polling, attempt>>
       \/ /\ outcome = "unexpected"
          /\ LeaveLock(l, "done")
          /\ UNCHANGED <<sessionVars, attempt>>
    /\ UNCHANGED <<serving, submit, submittedFor>>

------------------------------------------------------------------------------
(* submit_2fa()                                                              *)

\* Mutant of CallSubmit: a code is taken whatever the state.
SubmitUnchecked(s) ==
    /\ serving
    /\ submit[s] = "new"
    /\ submit' = [submit EXCEPT ![s] = "completing"]
    /\ submittedFor' = [submittedFor EXCEPT ![s] = attempt]
    /\ UNCHANGED <<serving, sessionVars, lockVars, login, attempt>>

\* A code is taken only while the session waits for one.
CallSubmit(s) ==
    /\ serving
    /\ submit[s] = "new"
    /\ \/ /\ state # "authenticator"
          /\ submit' = [submit EXCEPT ![s] = "no_login_pending"]
          /\ UNCHANGED submittedFor
       \/ /\ state = "authenticator"
          /\ submit' = [submit EXCEPT ![s] = "completing"]
          /\ submittedFor' = [submittedFor EXCEPT ![s] = attempt]
    /\ UNCHANGED <<serving, sessionVars, lockVars, login, attempt>>

\* client.complete_login(code) came back.  Success re-checks the state and a
\* submission that lost its login is ignored; the route answers 200 with
\* whatever the state is then.  An upstream error fails the session.
SubmitReturns(s, outcome) ==
    /\ submit[s] = "completing"
    /\ \/ /\ outcome = "ok" /\ AwaitingCode
          /\ state' = "confirmed"
          /\ CancelTimeout
          /\ submit' = [submit EXCEPT ![s] = "confirmed"]
       \/ /\ outcome = "ok" /\ ~AwaitingCode
          /\ submit' = [submit EXCEPT ![s] = state]
          /\ UNCHANGED <<state, timeoutTask, sleeping>>
       \/ /\ outcome = "rejected"
          /\ submit' = [submit EXCEPT ![s] = "code_rejected"]
          /\ UNCHANGED <<state, timeoutTask, sleeping>>
       \/ /\ outcome = "upstream"
          /\ Fail
          /\ submit' = [submit EXCEPT ![s] = "upstream"]
       \/ /\ outcome = "unexpected"
          /\ submit' = [submit EXCEPT ![s] = "internal_error"]
          /\ UNCHANGED <<state, timeoutTask, sleeping>>
    /\ UNCHANGED <<serving, pushTask, polling, lockVars, login, historyVars>>

------------------------------------------------------------------------------
(* The background tasks.                                                     *)

\* _run_push_confirmation(): complete_login() returned, or raised.  A task
\* whose login is over changes nothing, but always clears self._push_task.
PushReturns(l, outcome) ==
    /\ l \in polling
    /\ polling' = polling \ {l}
    /\ pushTask' = None
    /\ \/ /\ AwaitingApproval /\ outcome = "ok"
          /\ state' = "confirmed"
          /\ CancelTimeout
       \/ /\ AwaitingApproval /\ outcome # "ok"
          /\ Fail
       \/ /\ ~AwaitingApproval
          /\ UNCHANGED <<state, timeoutTask, sleeping>>
    /\ UNCHANGED <<serving, lockVars, requestVars, historyVars>>

\* _run_timeout() after its sleep.
TimeoutFires(l) ==
    /\ l \in sleeping
    /\ sleeping' = sleeping \ {l}
    /\ timeoutTask' = None
    /\ IF state \in Pending
       THEN state' = "failed" /\ CancelPushTask
       ELSE UNCHANGED <<state, pushTask, polling>>
    /\ UNCHANGED <<serving, lockVars, requestVars, historyVars>>

------------------------------------------------------------------------------

PortReturns ==
    \/ \E l \in Logins, o \in ResumeOutcomes : ResumeReturns(l, o)
    \/ \E l \in Logins, o \in ChallengeOutcomes : ChallengeReturns(l, o)
    \/ \E s \in Submits, o \in CompleteOutcomes : SubmitReturns(s, o)
    \/ \E l \in Logins, o \in CompleteOutcomes : PushReturns(l, o)

Next ==
    \/ \E o \in ResumeOutcomes : Resume(o)
    \/ Restart
    \/ \E l \in Logins : CallLogin(l) \/ AcquireLock(l) \/ TimeoutFires(l)
    \/ \E s \in Submits : CallSubmit(s)
    \/ PortReturns

\* The event loop runs what is ready: it hands the lock over and fires timers.
LoopFairness ==
    \A l \in Logins : WF_vars(AcquireLock(l)) /\ WF_vars(TimeoutFires(l))

SafeSpec == Init /\ [][Next]_vars

Spec == SafeSpec /\ LoopFairness
==============================================================================
