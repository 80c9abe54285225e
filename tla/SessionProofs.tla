---------------------------- MODULE SessionProofs ----------------------------
(***************************************************************************)
(* Proofs about Session, for any sets of requests.  The type invariant is  *)
(* inductive on its own; the other invariants are proved together, as the  *)
(* inductive invariant Consistent, and the action properties and the       *)
(* refinement of LoginFlow follow from it.                                 *)
(***************************************************************************)
EXTENDS SessionProperties, TLAPS

\* A step of the session that is not a stutter is one of its actions; the case
\* analysis every proof below starts with.
LEMMA NextCases ==
    ASSUME Next
    PROVE  \/ \E o \in ResumeOutcomes : Resume(o)
           \/ Restart
           \/ \E l \in Logins : CallLogin(l)
           \/ \E l \in Logins : AcquireLock(l)
           \/ \E l \in Logins, o \in ResumeOutcomes : ResumeReturns(l, o)
           \/ \E l \in Logins, o \in ChallengeOutcomes : ChallengeReturns(l, o)
           \/ \E s \in Submits : CallSubmit(s)
           \/ \E s \in Submits, o \in CompleteOutcomes : SubmitReturns(s, o)
           \/ \E l \in Logins, o \in CompleteOutcomes : PushReturns(l, o)
           \/ \E l \in Logins : TimeoutFires(l)
BY DEF Next, PortReturns

------------------------------------------------------------------------------
(* Types.                                                                    *)

\* The initial state is typed (__init__, session.py 48-60).
LEMMA TypeInit == Init => TypeOK
<1> SUFFICES ASSUME Init
             PROVE  TypeOK
    OBVIOUS
<1>1. serving \in BOOLEAN
    BY Zenon DEF Init
<1>2. lockQueue \in Seq(Logins)
    BY DEF Init
<1>3. login \in [Logins -> LoginPC] /\ submit \in [Submits -> SubmitPC]
    BY DEF Init, LoginPC, SubmitPC
<1> QED
    BY <1>1, <1>2, <1>3 DEF Init, TypeOK, SessionState

\* Every action of the session keeps the types of its variables.
LEMMA TypeStep == TypeOK /\ [Next]_vars => TypeOK'
<1> SUFFICES ASSUME TypeOK, [Next]_vars
             PROVE  TypeOK'
    OBVIOUS
<1> USE DEF TypeOK
<1>1. CASE UNCHANGED vars
    BY <1>1 DEF vars, sessionVars, lockVars, requestVars, historyVars
<1>2. ASSUME NEW o \in ResumeOutcomes, Resume(o)
      PROVE  TypeOK'
    BY <1>2 DEF Resume, SessionState, lockVars, requestVars, historyVars
<1>3. CASE Restart
  <2>1. serving' \in BOOLEAN
      BY <1>3, Zenon DEF Restart
  <2>2. lockQueue' \in Seq(Logins)
      BY <1>3 DEF Restart
  <2>3. login' \in [Logins -> LoginPC]
      BY <1>3 DEF Restart, LoginPC
  <2>4. submit' \in [Submits -> SubmitPC]
      BY <1>3 DEF Restart, SubmitPC, SubmitErrors
  <2> QED
      BY <1>3, <2>1, <2>2, <2>3, <2>4 DEF Restart, SessionState
<1>4. ASSUME NEW l \in Logins, CallLogin(l)
      PROVE  TypeOK'
  <2>1. UNCHANGED <<serving, sessionVars, submit, historyVars>>
      BY <1>4 DEF CallLogin
  <2>2. lockHolder' \in Logins \cup {None} /\ lockQueue' \in Seq(Logins)
      BY <1>4 DEF CallLogin, RejectLogin, QueueLogin, EnterLogin, lockVars
  <2>3. login' \in [Logins -> LoginPC]
      BY <1>4 DEF CallLogin, RejectLogin, QueueLogin, EnterLogin, LoginPC, InsideLock
  <2> QED
      BY <2>1, <2>2, <2>3 DEF sessionVars, historyVars
<1>5. ASSUME NEW l \in Logins, AcquireLock(l)
      PROVE  TypeOK'
  <2>1. UNCHANGED <<serving, sessionVars, submit, historyVars>>
      BY <1>5 DEF AcquireLock
  <2>2. lockHolder' \in Logins \cup {None} /\ lockQueue' \in Seq(Logins)
      BY <1>5 DEF AcquireLock
  <2>3. login' \in [Logins -> LoginPC]
      BY <1>5 DEF AcquireLock, LoginPC, InsideLock
  <2> QED
      BY <2>1, <2>2, <2>3 DEF sessionVars, historyVars
<1>6. ASSUME NEW l \in Logins, NEW o \in ResumeOutcomes, ResumeReturns(l, o)
      PROVE  TypeOK'
    BY <1>6 DEF ResumeReturns, Fail, CancelTimeout, LeaveLock, SessionState, LoginPC,
                InsideLock, lockVars, historyVars
<1>7. ASSUME NEW l \in Logins, NEW o \in ChallengeOutcomes, ChallengeReturns(l, o)
      PROVE  TypeOK'
    BY <1>7 DEF ChallengeReturns, Fail, CancelTimeout, ScheduleTimeout, StartPushTask,
                LeaveLock, SessionState, Pending, LoginPC, sessionVars
<1>8. ASSUME NEW s \in Submits, CallSubmit(s)
      PROVE  TypeOK'
    BY <1>8 DEF CallSubmit, SubmitPC, SubmitErrors, sessionVars, lockVars
<1>9. ASSUME NEW s \in Submits, NEW o \in CompleteOutcomes, SubmitReturns(s, o)
      PROVE  TypeOK'
    BY <1>9 DEF SubmitReturns, Fail, CancelTimeout, SessionState, SubmitPC, SubmitErrors,
                lockVars, historyVars
<1>10. ASSUME NEW l \in Logins, NEW o \in CompleteOutcomes, PushReturns(l, o)
       PROVE  TypeOK'
    BY <1>10 DEF PushReturns, Fail, CancelTimeout, SessionState, lockVars, requestVars,
                 historyVars
<1>11. ASSUME NEW l \in Logins, TimeoutFires(l)
       PROVE  TypeOK'
    BY <1>11 DEF TimeoutFires, CancelPushTask, SessionState, lockVars, requestVars,
                 historyVars
<1> QED
    BY <1>1, <1>2, <1>3, <1>4, <1>5, <1>6, <1>7, <1>8, <1>9, <1>10, <1>11, NextCases

\* Every variable of the session keeps its type, for any sets of requests.
THEOREM Typing == SafeSpec => []TypeOK
BY TypeInit, TypeStep, PTL DEF SafeSpec

------------------------------------------------------------------------------
(* The inductive invariant.                                                  *)

\* A session that has just been built is consistent: no task, no lock, no request.
LEMMA ConsistentInit == Init => Consistent
<1> SUFFICES ASSUME Init
             PROVE  Consistent
    OBVIOUS
<1>1. state = "idle" /\ lockHolder = None /\ lockQueue = <<>>
    BY DEF Init
<1>3. timeoutTask = None /\ sleeping = {}
    BY DEF Init
<1>4. \A s \in Submits : submit[s] # "completing"
    BY DEF Init
<1>2. \A l \in Logins : login[l] = "new"
    BY DEF Init
<1> QED
    BY <1>1, <1>2, <1>3, <1>4, TypeInit DEF Consistent, QuietAtStartup, LockIsOwned,
       WaitersQueued, PendingIffArmed, LoginExclusion, PushHasPoller, Pending, InsideLock

\* A login that is not waiting may move without the queue noticing.
LEMMA QueueUntouched ==
    ASSUME TypeOK, WaitersQueued,
           NEW l \in Logins, login[l] # "queued",
           NEW pc, login' = [login EXCEPT ![l] = pc], lockQueue' = lockQueue
    PROVE  WaitersQueued'
BY DEF TypeOK, WaitersQueued

\* A newcomer joins the queue at its end.
LEMMA QueueJoined ==
    ASSUME TypeOK, WaitersQueued,
           NEW l \in Logins, login[l] # "queued",
           login' = [login EXCEPT ![l] = "queued"], lockQueue' = Append(lockQueue, l)
    PROVE  WaitersQueued'
<1>1. /\ Len(lockQueue') = Len(lockQueue) + 1
      /\ lockQueue'[Len(lockQueue) + 1] = l
      /\ \A i \in 1..Len(lockQueue) : lockQueue'[i] = lockQueue[i]
    BY DEF TypeOK
<1>2. \A i \in 1..Len(lockQueue) : lockQueue[i] # l /\ lockQueue[i] \in Logins
    BY DEF TypeOK, WaitersQueued
<1>3. Len(lockQueue) \in Nat
    BY DEF TypeOK
<1> QED
    BY <1>1, <1>2, <1>3 DEF TypeOK, WaitersQueued

\* The head leaves it.
LEMMA QueueLeft ==
    ASSUME TypeOK, WaitersQueued,
           lockQueue # <<>>, NEW l, l = Head(lockQueue),
           NEW pc, login' = [login EXCEPT ![l] = pc], lockQueue' = Tail(lockQueue)
    PROVE  WaitersQueued' /\ login[l] = "queued"
<1>1. /\ Len(lockQueue) \in Nat /\ Len(lockQueue) > 0
      /\ Len(lockQueue') = Len(lockQueue) - 1
      /\ \A i \in 1..Len(lockQueue') : lockQueue'[i] = lockQueue[i + 1]
      /\ l = lockQueue[1]
    BY DEF TypeOK
<1>2. \A i \in 1..Len(lockQueue') : lockQueue'[i] # l /\ lockQueue'[i] \in Logins
    BY <1>1 DEF TypeOK, WaitersQueued
<1>3. login[l] = "queued"
    BY <1>1 DEF WaitersQueued
<1> QED
    BY <1>1, <1>2, <1>3 DEF TypeOK, WaitersQueued

\* The steps that leave the session's own state alone: requests that arrive
\* and the lock that is handed over.
LEMMA LockStep ==
    ASSUME Consistent, TypeOK',
           NEW l \in Logins, CallLogin(l) \/ AcquireLock(l)
    PROVE  Consistent'
<1>1. UNCHANGED <<serving, state, timeoutTask, sleeping, pushTask, polling, attempt>>
    BY DEF CallLogin, AcquireLock, sessionVars, historyVars
<1>2. QuietAtStartup'
  <2>1. CASE CallLogin(l)
      <3>1. serving /\ serving' = serving
          BY <2>1 DEF CallLogin
      <3> QED
          BY <3>1, Zenon DEF QuietAtStartup
  <2>2. CASE AcquireLock(l)
      <3>1. lockQueue # <<>>
          BY <2>2 DEF AcquireLock
      <3> QED
          BY <3>1, <1>1, Zenon DEF QuietAtStartup, Consistent
  <2> QED
      BY <2>1, <2>2
<1>3. LockIsOwned' /\ LoginExclusion'
  <2> USE NoneIsNoLogin DEF Consistent, TypeOK, LockIsOwned, LoginExclusion, InsideLock
  <2>1. CASE CallLogin(l)
    <3>1. CASE RejectLogin(l)
        BY <2>1, <3>1, <1>1 DEF CallLogin, RejectLogin, lockVars
    <3>2. CASE QueueLogin(l)
        BY <2>1, <3>2, <1>1 DEF CallLogin, QueueLogin
    <3>3. CASE EnterLogin(l)
        BY <2>1, <3>3, <1>1 DEF CallLogin, EnterLogin
    <3> QED
        BY <2>1, <3>1, <3>2, <3>3 DEF CallLogin
  <2>2. CASE AcquireLock(l)
      BY <2>2, <1>1 DEF AcquireLock
  <2> QED
      BY <2>1, <2>2
<1>4. WaitersQueued'
  <2>1. CASE CallLogin(l)
      BY <2>1, QueueUntouched, QueueJoined DEF CallLogin, RejectLogin, QueueLogin,
         EnterLogin, lockVars, Consistent
  <2>2. CASE AcquireLock(l)
      BY <2>2, QueueLeft DEF AcquireLock, Consistent
  <2> QED
      BY <2>1, <2>2
<1> QED
    BY <1>1, <1>2, <1>3, <1>4 DEF Consistent, PendingIffArmed, PushHasPoller

\* A login that leaves the lock leaves it empty.
LEMMA LockLeft ==
    ASSUME TypeOK, LoginExclusion,
           NEW l \in Logins, login[l] \in InsideLock,
           NEW pc \in LoginPC \ InsideLock, LeaveLock(l, pc)
    PROVE  lockHolder' = None /\ \A m \in Logins : login'[m] \notin InsideLock
BY DEF TypeOK, LoginExclusion, LeaveLock

\* A login inside the lock finds no challenge outstanding: no timer, and
\* startup long over.
LEMMA InsideTheLock ==
    ASSUME Consistent, NEW l \in Logins, login[l] \in InsideLock
    PROVE  /\ lockHolder = l
           /\ state \notin Pending
           /\ timeoutTask = None /\ sleeping = {}
           /\ serving
<1>1. lockHolder = l /\ l # None
    BY NoneIsNoLogin DEF Consistent, LoginExclusion
<1>2. state \notin Pending
    BY <1>1 DEF Consistent, LoginExclusion
<1>3. timeoutTask = None /\ sleeping = {}
    BY <1>2 DEF Consistent, PendingIffArmed
<1>4. serving
    BY <1>1, Zenon DEF Consistent, QuietAtStartup
<1> QED
    BY <1>1, <1>2, <1>3, <1>4

\* _fail() and the confirmations leave no timer behind.
LEMMA TimerCancelled ==
    ASSUME PendingIffArmed, CancelTimeout
    PROVE  timeoutTask' = None /\ sleeping' = {}
BY DEF PendingIffArmed, CancelTimeout

\* A step that ends in a state that is not pending, without a timer, and that
\* the lock does not notice keeps the invariant.
LEMMA Settled ==
    ASSUME Consistent, TypeOK', serving,
           UNCHANGED <<serving, lockVars, login>>,
           state' \notin Pending, timeoutTask' = None, sleeping' = {}
    PROVE  Consistent'
<1>1. QuietAtStartup'
    BY Zenon DEF QuietAtStartup
<1>2. LockIsOwned' /\ LoginExclusion'
    BY DEF Consistent, LockIsOwned, LoginExclusion, lockVars
<1>3. WaitersQueued'
    BY DEF Consistent, WaitersQueued, lockVars
<1>4. PendingIffArmed' /\ PushHasPoller'
    BY DEF PendingIffArmed, PushHasPoller, Pending
<1> QED
    BY <1>1, <1>2, <1>3, <1>4 DEF Consistent

\* The steps of the login inside the lock keep the invariant: they find no timer
\* and, if they end in a challenge, start exactly one (session.py 106-125).
LEMMA LoginStep ==
    ASSUME Consistent, TypeOK',
           NEW l \in Logins,
           \/ \E o \in ResumeOutcomes : ResumeReturns(l, o)
           \/ \E o \in ChallengeOutcomes : ChallengeReturns(l, o)
    PROVE  Consistent'
<1>1. login[l] \in InsideLock
    BY DEF ResumeReturns, ChallengeReturns, InsideLock
<1>2. /\ lockHolder = l /\ state \notin Pending
      /\ timeoutTask = None /\ sleeping = {}
      /\ serving
    BY <1>1, InsideTheLock
<1>3. serving' = serving
    BY DEF ResumeReturns, ChallengeReturns
<1>4. QuietAtStartup'
    BY <1>2, <1>3, Zenon DEF QuietAtStartup
<1>5. WaitersQueued'
  <2>1. \E pc \in LoginPC : login' = [login EXCEPT ![l] = pc]
      BY DEF ResumeReturns, ChallengeReturns, LeaveLock, LoginPC, InsideLock
  <2>2. lockQueue' = lockQueue
      BY DEF ResumeReturns, ChallengeReturns, LeaveLock, lockVars
  <2> QED
      BY <1>1, <2>1, <2>2, QueueUntouched DEF Consistent, InsideLock
<1>6. ASSUME NEW o \in ResumeOutcomes, ResumeReturns(l, o)
      PROVE  Consistent'
  <2>1. CASE o = "none"
    <3>1. UNCHANGED <<state, timeoutTask, sleeping, pushTask, polling, lockVars, attempt>>
        BY <1>6, <2>1 DEF ResumeReturns, historyVars
    <3>2. LockIsOwned' /\ LoginExclusion'
        BY <1>2, <1>6, <2>1, <3>1 DEF ResumeReturns, Consistent, TypeOK, LockIsOwned,
           LoginExclusion, InsideLock, lockVars
    <3> QED
        BY <1>4, <1>5, <3>1, <3>2 DEF Consistent, PendingIffArmed, PushHasPoller
  <2>2. CASE o # "none"
    <3>1. LeaveLock(l, "done")
        BY <1>6, <2>2 DEF ResumeReturns
    <3>2. lockHolder' = None /\ \A m \in Logins : login'[m] \notin InsideLock
        BY <1>1, <3>1, LockLeft DEF Consistent, LoginPC, InsideLock
    <3>3. state' \notin Pending /\ timeoutTask' = None /\ sleeping' = {}
        BY <1>2, <1>6, <2>2 DEF ResumeReturns, Fail, CancelTimeout, Pending
    <3> QED
        BY <1>4, <1>5, <3>2, <3>3 DEF Consistent, LockIsOwned, LoginExclusion, PendingIffArmed,
           PushHasPoller, Pending
  <2> QED
      BY <2>1, <2>2
<1>7. ASSUME NEW o \in ChallengeOutcomes, ChallengeReturns(l, o)
      PROVE  Consistent'
  <2>1. \E pc \in {"done", "challenged"} : LeaveLock(l, pc)
      BY <1>7 DEF ChallengeReturns
  <2>2. lockHolder' = None /\ \A m \in Logins : login'[m] \notin InsideLock
      BY <1>1, <2>1, LockLeft DEF Consistent, LoginPC, InsideLock
  <2>3. PendingIffArmed' /\ PushHasPoller'
      BY <1>2, <1>7, NoneIsNoLogin DEF ChallengeReturns, Fail, CancelTimeout,
         ScheduleTimeout, StartPushTask, PendingIffArmed, PushHasPoller, Pending, sessionVars
  <2> QED
      BY <1>4, <1>5, <2>2, <2>3 DEF Consistent, LockIsOwned, LoginExclusion
<1> QED
    BY <1>6, <1>7

\* A code submission that returns keeps the invariant, however late it is: it
\* confirms or fails the session and cancels its timer, or changes nothing
\* (session.py 139-157).
LEMMA SubmitStep ==
    ASSUME Consistent, TypeOK',
           NEW s \in Submits, NEW o \in CompleteOutcomes, SubmitReturns(s, o)
    PROVE  Consistent'
<1>1. serving
    BY Zenon DEF Consistent, QuietAtStartup, SubmitReturns
<1>2. UNCHANGED <<serving, lockVars, login, pushTask, polling, attempt>>
    BY DEF SubmitReturns, historyVars
<1>3. CASE UNCHANGED <<state, timeoutTask, sleeping>>
  <2>1. QuietAtStartup'
      BY <1>1, <1>2, Zenon DEF QuietAtStartup
  <2> QED
      BY <1>2, <1>3, <2>1 DEF Consistent, LockIsOwned, WaitersQueued, LoginExclusion,
         PendingIffArmed, PushHasPoller, lockVars
<1>4. CASE state' \in {"confirmed", "failed"} /\ CancelTimeout
  <2>1. timeoutTask' = None /\ sleeping' = {}
      BY <1>4, TimerCancelled DEF Consistent
  <2> QED
      BY <1>1, <1>2, <1>4, <2>1, Settled DEF Pending
<1> QED
    BY <1>3, <1>4 DEF SubmitReturns, Fail

\* A poller that ends keeps the invariant, also one that was left over from an
\* earlier login: it only clears self._push_task when the session is not, or no
\* longer, waiting for an approval (session.py 211-229).
LEMMA PushStep ==
    ASSUME Consistent, TypeOK',
           NEW l \in Logins, NEW o \in CompleteOutcomes, PushReturns(l, o)
    PROVE  Consistent'
<1>1. UNCHANGED <<serving, lockVars, login, submit, attempt>>
    BY DEF PushReturns, requestVars, historyVars
<1>2. CASE AwaitingApproval
  <2>1. serving
      BY <1>2, Zenon DEF AwaitingApproval, Consistent, QuietAtStartup
  <2>2. state' \in {"confirmed", "failed"} /\ CancelTimeout
      BY <1>2 DEF PushReturns, Fail
  <2>3. timeoutTask' = None /\ sleeping' = {}
      BY <2>2, TimerCancelled DEF Consistent
  <2> QED
      BY <1>1, <2>1, <2>2, <2>3, Settled DEF Pending
<1>3. CASE ~AwaitingApproval
  <2>1. UNCHANGED <<state, timeoutTask, sleeping>>
      BY <1>3 DEF PushReturns
  <2>2. QuietAtStartup'
      BY <1>1, <2>1 DEF Consistent, QuietAtStartup, lockVars
  <2> QED
      BY <1>1, <1>3, <2>1, <2>2 DEF Consistent, LockIsOwned, WaitersQueued, LoginExclusion,
         PendingIffArmed, PushHasPoller, AwaitingApproval, lockVars
<1> QED
    BY <1>2, <1>3

\* The only timer that can fire is that of the pending login (session.py 186-194).
LEMMA TimeoutStep ==
    ASSUME Consistent, TypeOK', NEW l \in Logins, TimeoutFires(l)
    PROVE  Consistent'
<1>1. timeoutTask = l /\ l # None
    BY NoneIsNoLogin DEF TimeoutFires, Consistent, PendingIffArmed
<1>2. state \in Pending
    BY <1>1 DEF Consistent, PendingIffArmed
<1>3. serving
    BY <1>2, Zenon DEF Consistent, QuietAtStartup, Pending
<1>4. state' = "failed" /\ timeoutTask' = None /\ sleeping' = {}
    BY <1>1, <1>2 DEF TimeoutFires, Consistent, PendingIffArmed
<1>5. UNCHANGED <<serving, lockVars, login>>
    BY DEF TimeoutFires, requestVars
<1> QED
    BY <1>3, <1>4, <1>5, Settled DEF Pending

\* Consistent is inductive.
LEMMA ConsistentStep == Consistent /\ [Next]_vars => Consistent'
<1> SUFFICES ASSUME Consistent, [Next]_vars
             PROVE  Consistent'
    OBVIOUS
<1>0. TypeOK'
    BY TypeStep DEF Consistent
<1>1. CASE UNCHANGED vars
    BY <1>0, <1>1 DEF vars, sessionVars, lockVars, requestVars, historyVars, Consistent,
       QuietAtStartup, LockIsOwned, WaitersQueued, PendingIffArmed, LoginExclusion, PushHasPoller
<1>2. ASSUME NEW o \in ResumeOutcomes, Resume(o)
      PROVE  Consistent'
  <2>1. state = "idle" /\ lockHolder = None
      BY <1>2, Zenon DEF Resume, Consistent, QuietAtStartup
  <2>2. UNCHANGED <<timeoutTask, sleeping, lockVars, login>> /\ serving'
      BY <1>2 DEF Resume, requestVars
  <2>3. state' \notin Pending
      BY <1>2, <2>1 DEF Resume, Pending
  <2>4. timeoutTask' = None /\ sleeping' = {}
      BY <2>1, <2>2 DEF Consistent, PendingIffArmed, Pending
  <2>5. QuietAtStartup'
      BY <2>2, Zenon DEF QuietAtStartup
  <2> QED
      BY <1>0, <2>1, <2>2, <2>3, <2>4, <2>5 DEF Consistent, LockIsOwned, WaitersQueued,
         LoginExclusion, PendingIffArmed, PushHasPoller, Pending, lockVars
<1>3. CASE Restart
  <2>1. \A l \in Logins : login'[l] \notin InsideLock
      BY <1>3 DEF Restart, InsideLock
  <2>2. \A s \in Submits : submit'[s] # "completing"
      BY <1>3 DEF Restart
  <2>3. state' = "idle" /\ lockHolder' = None /\ lockQueue' = <<>>
      BY <1>3 DEF Restart
  <2>4. timeoutTask' = None /\ sleeping' = {}
      BY <1>3 DEF Restart
  <2> QED
      BY <1>0, <2>1, <2>2, <2>3, <2>4 DEF Consistent, QuietAtStartup, LockIsOwned,
         WaitersQueued, LoginExclusion, PendingIffArmed, PushHasPoller, Pending
<1>4. ASSUME NEW l \in Logins, CallLogin(l) \/ AcquireLock(l)
      PROVE  Consistent'
    BY <1>0, <1>4, LockStep
<1>5. ASSUME NEW l \in Logins,
             \/ \E o \in ResumeOutcomes : ResumeReturns(l, o)
             \/ \E o \in ChallengeOutcomes : ChallengeReturns(l, o)
      PROVE  Consistent'
    BY <1>0, <1>5, LoginStep
<1>6. ASSUME NEW s \in Submits, CallSubmit(s)
      PROVE  Consistent'
  <2>1. serving' /\ UNCHANGED <<sessionVars, lockVars, login, attempt>>
      BY <1>6 DEF CallSubmit
  <2>2. QuietAtStartup'
      BY <2>1, Zenon DEF QuietAtStartup
  <2> QED
      BY <1>0, <2>1, <2>2 DEF Consistent, LockIsOwned, WaitersQueued, LoginExclusion,
         PendingIffArmed, PushHasPoller, sessionVars, lockVars
<1>7. ASSUME NEW s \in Submits, NEW o \in CompleteOutcomes, SubmitReturns(s, o)
      PROVE  Consistent'
    BY <1>0, <1>7, SubmitStep
<1>8. ASSUME NEW l \in Logins, NEW o \in CompleteOutcomes, PushReturns(l, o)
      PROVE  Consistent'
    BY <1>0, <1>8, PushStep
<1>9. ASSUME NEW l \in Logins, TimeoutFires(l)
      PROVE  Consistent'
    BY <1>0, <1>9, TimeoutStep
<1> QED
    BY <1>1, <1>2, <1>3, <1>4, <1>5, <1>6, <1>7, <1>8, <1>9, NextCases

\* The session's state, its timer, its poller and its lock always agree.
THEOREM Consistency == SafeSpec => []Consistent
BY ConsistentInit, ConsistentStep, PTL DEF SafeSpec

\* Every pending login, and no other, has its own live timer.
THEOREM Armed == SafeSpec => []PendingIffArmed
BY Consistency, PTL DEF Consistent

\* One login at a time, and none while a challenge is outstanding.
THEOREM Exclusion == SafeSpec => []LoginExclusion
BY Consistency, PTL DEF Consistent

\* A login that waits for an approval has a live poller that the timeout can
\* cancel.
THEOREM Polled == SafeSpec => []PushHasPoller
BY Consistency, PTL DEF Consistent

------------------------------------------------------------------------------
(* Action properties.                                                        *)

\* Which steps of a consistent session change its state: a verdict of the
\* port to the login inside the lock, to a submission that is awaited or
\* fails, to a poller that is awaited, the timer, startup and restart.
LEMMA StateChanges ==
    ASSUME Consistent, Next, state' # state
    PROVE  \/ ~serving /\ state = "idle" /\ serving'
           \/ Restart
           \/ \E l \in Logins :
                 /\ login[l] \in InsideLock
                 /\ state \notin Pending
                 /\ lockHolder = l /\ lockHolder' = None
           \/ \E s \in Submits :
                 /\ submit[s] = "completing" /\ state = "authenticator"
                 /\ state' = "confirmed" /\ submit'[s] = "confirmed"
           \/ \E l \in polling :
                 state = "push" /\ state' = "confirmed" /\ l \notin polling'
           \/ state' = "failed"
<1>1. ASSUME NEW o \in ResumeOutcomes, Resume(o)
      PROVE  ~serving /\ state = "idle" /\ serving'
    BY <1>1, Zenon DEF Resume, Consistent, QuietAtStartup
<1>2. ASSUME NEW l \in Logins, CallLogin(l) \/ AcquireLock(l)
      PROVE  FALSE
    BY <1>2 DEF CallLogin, AcquireLock, sessionVars
<1>3. ASSUME NEW l \in Logins,
             \/ \E o \in ResumeOutcomes : ResumeReturns(l, o)
             \/ \E o \in ChallengeOutcomes : ChallengeReturns(l, o)
      PROVE  /\ login[l] \in InsideLock
             /\ state \notin Pending
             /\ lockHolder = l /\ lockHolder' = None
  <2>1. login[l] \in InsideLock
      BY <1>3 DEF ResumeReturns, ChallengeReturns, InsideLock
  <2>2. lockHolder' = None
      BY <1>3 DEF ResumeReturns, ChallengeReturns, LeaveLock
  <2> QED
      BY <2>1, <2>2, InsideTheLock
<1>4. ASSUME NEW s \in Submits, CallSubmit(s)
      PROVE  FALSE
    BY <1>4 DEF CallSubmit, sessionVars
<1>5. ASSUME NEW s \in Submits, NEW o \in CompleteOutcomes, SubmitReturns(s, o)
      PROVE  \/ /\ submit[s] = "completing" /\ state = "authenticator"
                /\ state' = "confirmed" /\ submit'[s] = "confirmed"
             \/ state' = "failed"
    BY <1>5 DEF SubmitReturns, Fail, AwaitingCode, Consistent, TypeOK
<1>6. ASSUME NEW l \in Logins, NEW o \in CompleteOutcomes, PushReturns(l, o)
      PROVE  \/ l \in polling /\ state = "push" /\ state' = "confirmed" /\ l \notin polling'
             \/ state' = "failed"
    BY <1>6 DEF PushReturns, Fail, AwaitingApproval
<1>7. ASSUME NEW l \in Logins, TimeoutFires(l)
      PROVE  state' = "failed"
    BY <1>7 DEF TimeoutFires
<1> QED
    BY <1>1, <1>2, <1>3, <1>4, <1>5, <1>6, <1>7, NextCases

\* Only a login through the lock, or a restart, gets a session out of "failed".
THEOREM Failure == SafeSpec => FailedUntilRelogin
<1>1. Consistent /\ [Next]_vars => [ReviveByLogin]_vars
  <2> SUFFICES ASSUME Consistent, Next, state = "failed", state' # "failed", serving'
               PROVE  \E l \in Logins : /\ login[l] \in InsideLock
                                        /\ lockHolder = l /\ lockHolder' = None
      BY DEF ReviveByLogin
  <2>1. ~Restart
      BY Zenon DEF Restart
  <2> QED
      BY <2>1, StateChanges
<1> QED
    BY <1>1, Consistency, PTL DEF SafeSpec, FailedUntilRelogin

\* A login is confirmed by the second factor it asked for.
THEOREM Factors == SafeSpec => FactorsNotMixed
<1>1. Consistent /\ [Next]_vars => [ConfirmByFactor]_vars
  <2> SUFFICES ASSUME Consistent, Next, state \in Pending, state' = "confirmed"
               PROVE  ConfirmByFactor
      BY DEF ConfirmByFactor, Pending
  <2>1. ~Restart
      BY DEF Restart
  <2>2. state \notin {"idle", "confirmed"}
      BY DEF Pending
  <2> QED
      BY <2>1, <2>2, StateChanges DEF ConfirmByFactor
<1> QED
    BY <1>1, Consistency, PTL DEF SafeSpec, FactorsNotMixed

------------------------------------------------------------------------------
(* Pollers that are left behind.                                             *)

\* A login that has met its challenge stays a login that has.
LEMMA ChallengedStays ==
    ASSUME Consistent, [Next]_vars, NEW k \in Logins, login[k] = "challenged"
    PROVE  login'[k] = "challenged"
<1> USE DEF Consistent, TypeOK
<1>1. ASSUME NEW l \in Logins, NEW pc, login[l] # "challenged",
             login' = [login EXCEPT ![l] = pc]
      PROVE  login'[k] = "challenged"
    BY <1>1
<1>2. CASE Restart
    BY <1>2 DEF Restart, InsideLock
<1>3. ASSUME NEW l \in Logins, CallLogin(l)
      PROVE  login'[k] = "challenged"
    BY <1>1, <1>3 DEF CallLogin, RejectLogin, QueueLogin, EnterLogin
<1>4. ASSUME NEW l \in Logins, AcquireLock(l)
      PROVE  login'[k] = "challenged"
  <2>1. login[l] = "queued"
      BY <1>4, QueueLeft DEF AcquireLock
  <2> QED
      BY <1>1, <1>4, <2>1 DEF AcquireLock
<1>5. ASSUME NEW l \in Logins, NEW o, ResumeReturns(l, o)
      PROVE  login'[k] = "challenged"
    BY <1>1, <1>5 DEF ResumeReturns, LeaveLock
<1>6. ASSUME NEW l \in Logins, NEW o, ChallengeReturns(l, o)
      PROVE  login'[k] = "challenged"
    BY <1>1, <1>6 DEF ChallengeReturns, LeaveLock
<1>7. ASSUME \/ \E o : Resume(o)
             \/ \E s \in Submits : CallSubmit(s) \/ \E o : SubmitReturns(s, o)
             \/ \E l \in Logins : TimeoutFires(l) \/ \E o : PushReturns(l, o)
      PROVE  UNCHANGED login
    BY <1>7 DEF Resume, CallSubmit, SubmitReturns, TimeoutFires, PushReturns, requestVars
<1>8. CASE UNCHANGED login
    BY <1>8
<1> QED
    BY <1>2, <1>3, <1>4, <1>5, <1>6, <1>7, <1>8, NextCases DEF vars, requestVars

\* A submission that is awaited was accepted for a login that has met its
\* challenge, and never for the push login that is pending.
Remembered ==
    /\ state \in Pending => login[attempt] = "challenged"
    /\ \A s \in Submits : submit[s] = "completing" =>
          /\ submittedFor[s] \in Logins /\ login[submittedFor[s]] = "challenged"
          /\ state = "push" => submittedFor[s] # attempt

\* A step that accepts no code and opens no attempt.
LEMMA RememberedStill ==
    ASSUME Consistent, Remembered, UNCHANGED submittedFor,
           state' \in Pending => state' = state /\ attempt' = attempt,
           \A s \in Submits : submit'[s] = "completing" => submit[s] = "completing",
           \A k \in Logins : login[k] = "challenged" => login'[k] = "challenged"
    PROVE  Remembered'
<1>1. state \in Pending => attempt \in Logins
    BY NoneIsNoLogin DEF Consistent, PendingIffArmed, TypeOK
<1> QED
    BY <1>1 DEF Remembered, Pending

LEMMA RememberedStep == Consistent /\ Remembered /\ [Next]_vars => Remembered'
<1> SUFFICES ASSUME Consistent, Remembered, [Next]_vars
             PROVE  Remembered'
    OBVIOUS
<1> USE DEF Consistent, TypeOK
<1>1. \A k \in Logins : login[k] = "challenged" => login'[k] = "challenged"
    BY ChallengedStays
<1>2. CASE UNCHANGED <<state, attempt, submit, submittedFor>>
    BY <1>1, <1>2, RememberedStill
<1>3. CASE Restart
  <2>1. /\ state' = "idle" /\ submittedFor' = submittedFor
        /\ \A s \in Submits : submit'[s] # "completing"
      BY <1>3 DEF Restart
  <2> QED
      BY <2>1 DEF Remembered, Pending
<1>4. ASSUME NEW s \in Submits, CallSubmit(s)
      PROVE  Remembered'
  <2>1. UNCHANGED <<state, attempt, login>>
      BY <1>4 DEF CallSubmit, sessionVars
  <2>2. CASE state # "authenticator"
      BY <1>4, <2>1, <2>2 DEF CallSubmit, Remembered, Pending
  <2>3. CASE state = "authenticator"
    <3>1. attempt \in Logins /\ login[attempt] = "challenged"
        BY <2>3, NoneIsNoLogin DEF PendingIffArmed, Remembered, Pending
    <3> QED
        BY <1>4, <2>1, <2>3, <3>1 DEF CallSubmit, Remembered, Pending
  <2> QED
      BY <2>2, <2>3
<1>5. ASSUME NEW l \in Logins, NEW o, ChallengeReturns(l, o)
      PROVE  Remembered'
  <2>1. UNCHANGED <<submit, submittedFor>> /\ login[l] = "starting"
      BY <1>5 DEF ChallengeReturns
  <2>2. CASE attempt' = l /\ login' = [login EXCEPT ![l] = "challenged"]
      BY <1>1, <2>1, <2>2 DEF Remembered
  <2>3. CASE state' = "failed" \/ UNCHANGED <<state, attempt>>
      BY <1>1, <2>1, <2>3, RememberedStill DEF Pending
  <2> QED
      BY <1>5, <2>2, <2>3 DEF ChallengeReturns, LeaveLock, Fail, sessionVars
<1>6. ASSUME NEW l \in Logins, NEW o, ResumeReturns(l, o) \/ PushReturns(l, o)
      PROVE  Remembered'
  <2>1. /\ UNCHANGED <<submit, attempt, submittedFor>>
        /\ state' \in {"confirmed", "failed"} \/ state' = state
      BY <1>6 DEF ResumeReturns, PushReturns, Fail, requestVars, historyVars
  <2> QED
      BY <1>1, <2>1, RememberedStill DEF Pending
<1>7. ASSUME NEW s \in Submits, NEW o, SubmitReturns(s, o)
      PROVE  Remembered'
  <2>1. /\ UNCHANGED <<attempt, submittedFor>>
        /\ state' \in {"confirmed", "failed"} \/ state' = state
      BY <1>7 DEF SubmitReturns, Fail, historyVars
  <2>2. \A r \in Submits : submit'[r] = "completing" => submit[r] = "completing"
      BY <1>7 DEF SubmitReturns
  <2> QED
      BY <1>1, <2>1, <2>2, RememberedStill DEF Pending
<1>8. ASSUME NEW l \in Logins, TimeoutFires(l)
      PROVE  Remembered'
  <2>1. /\ UNCHANGED <<submit, attempt, submittedFor>>
        /\ state' = "failed" \/ state' = state
      BY <1>8 DEF TimeoutFires, requestVars, historyVars
  <2> QED
      BY <1>1, <2>1, RememberedStill DEF Pending
<1>9. ASSUME NEW o, Resume(o)
      PROVE  Remembered'
  <2>1. /\ UNCHANGED <<submit, attempt, submittedFor>>
        /\ state' = "confirmed" \/ state' = state
      BY <1>9 DEF Resume, requestVars, historyVars
  <2> QED
      BY <1>1, <2>1, RememberedStill DEF Pending
<1>10. ASSUME NEW l \in Logins, CallLogin(l) \/ AcquireLock(l)
       PROVE  Remembered'
    BY <1>2, <1>10 DEF CallLogin, AcquireLock, sessionVars, historyVars
<1>11. CASE UNCHANGED vars
    BY <1>2, <1>11 DEF vars, sessionVars, requestVars, historyVars
<1> QED
    BY <1>3, <1>4, <1>5, <1>6, <1>7, <1>8, <1>9, <1>10, <1>11, NextCases

\* A step that ends a push login and keeps its poller is a late error's, or the
\* end of a poller that was left behind before.
LEMMA EndPollerStep ==
    ASSUME Consistent, Remembered, Next, state = "push", state' # "push", attempt \in polling'
    PROVE  \/ \E s \in Submits : LateErrorOf(s)
           \/ \E l \in polling : l \notin polling' /\ l # attempt
<1> USE DEF Consistent, TypeOK
<1>1. pushTask = attempt /\ serving /\ lockHolder = None
  <2>1. pushTask = attempt
      BY DEF PushHasPoller
  <2>2. serving
      BY Zenon DEF QuietAtStartup
  <2>3. lockHolder = None
      BY DEF LoginExclusion, Pending
  <2> QED
      BY <2>1, <2>2, <2>3
<1>2. \A l \in Logins : login[l] \notin InsideLock
    BY <1>1, NoneIsNoLogin DEF LoginExclusion
<1>3. ASSUME NEW s \in Submits, NEW o, SubmitReturns(s, o)
      PROVE  LateErrorOf(s)
    BY <1>3 DEF SubmitReturns, AwaitingCode, Remembered, LateErrorOf
<1>4. ASSUME NEW l \in Logins, NEW o, PushReturns(l, o)
      PROVE  l \in polling /\ l \notin polling' /\ l # attempt
    BY <1>4 DEF PushReturns
<1>5. ASSUME NEW l \in Logins, TimeoutFires(l)
      PROVE  FALSE
    BY <1>1, <1>5 DEF TimeoutFires, CancelPushTask, Pending
<1>6. ASSUME NEW l \in Logins,
             \E o : ResumeReturns(l, o) \/ ChallengeReturns(l, o)
      PROVE  FALSE
    BY <1>2, <1>6 DEF ResumeReturns, ChallengeReturns, InsideLock
<1>7. ASSUME \/ Restart \/ \E o : Resume(o)
             \/ \E l \in Logins : CallLogin(l) \/ AcquireLock(l)
             \/ \E s \in Submits : CallSubmit(s)
      PROVE  FALSE
    BY <1>1, <1>7 DEF Restart, Resume, CallLogin, AcquireLock, CallSubmit, sessionVars
<1> QED
    BY <1>3, <1>4, <1>5, <1>6, <1>7, NextCases

\* A push login leaves its poller behind only through the late error of an
\* earlier login's code, or through a poller left behind before it (session.py
\* 141-143, 186-193, 213-229).
THEOREM PollersEnd == SafeSpec => PollerEndsWithLogin
<1>1. Init => Remembered
    BY DEF Init, Remembered, Pending
<1>2. Consistent /\ Remembered /\ [Next]_vars => [EndPoller]_vars
    BY EndPollerStep DEF EndPoller
<1> QED
    BY <1>1, <1>2, RememberedStep, Consistency, PTL DEF SafeSpec, PollerEndsWithLogin

------------------------------------------------------------------------------
(* Refinement of LoginFlow.                                                  *)

\* While a login is pending it is the open attempt, and it is a login.
LEMMA PendingIsOpen ==
    ASSUME Consistent
    PROVE  /\ state \in Pending => OpenAttempt = attempt /\ attempt # None
           /\ state \notin Pending => OpenAttempt = None
BY DEF Consistent, PendingIffArmed, OpenAttempt

\* A step that only settles the state is a verdict: of the open attempt if
\* there is one.
LEMMA VerdictStep ==
    ASSUME Consistent, state' \in {"confirmed", "failed"}, Opened' = Opened
    PROVE  Flow!Next
<1>1. OpenAttempt' = None
    BY DEF OpenAttempt, Pending
<1>2. CASE state \in Pending
    BY <1>1, <1>2, PendingIsOpen DEF Flow!Next, Flow!Resolve, Flow!Verdicts
<1>3. CASE state \notin Pending
    BY <1>1, <1>3, PendingIsOpen DEF Flow!Next, Flow!Settle, Flow!Verdicts
<1> QED
    BY <1>2, <1>3

\* A login that ends without a challenge, or moves on, opens nothing.
LEMMA NothingOpened ==
    ASSUME TypeOK, NEW l \in Logins, login[l] # "challenged",
           NEW pc, pc # "challenged", login' = [login EXCEPT ![l] = pc]
    PROVE  Opened' = Opened
BY DEF TypeOK, Opened

\* A state and an attempt that do not change leave what is open unchanged.
LEMMA FlowStutters ==
    ASSUME UNCHANGED <<state, attempt>>, Opened' = Opened
    PROVE  UNCHANGED Flow!vars
BY DEF Flow!vars, OpenAttempt

\* What the login inside the lock does is a step of LoginFlow: it opens an
\* attempt, settles the status, or changes nothing that is promised.
LEMMA FlowLoginStep ==
    ASSUME Consistent, NEW l \in Logins,
           \/ \E o \in ResumeOutcomes : ResumeReturns(l, o)
           \/ \E o \in ChallengeOutcomes : ChallengeReturns(l, o)
    PROVE  [Flow!Next]_Flow!vars
<1>1. login[l] \in InsideLock
    BY DEF ResumeReturns, ChallengeReturns, InsideLock
<1>2. state \notin Pending /\ OpenAttempt = None
    BY <1>1, InsideTheLock, PendingIsOpen
<1>3. ASSUME NEW o \in ResumeOutcomes, ResumeReturns(l, o)
      PROVE  [Flow!Next]_Flow!vars
  <2>1. \E pc \in {"done", "starting"} : login' = [login EXCEPT ![l] = pc]
      BY <1>3 DEF ResumeReturns, LeaveLock
  <2>2. Opened' = Opened
      BY <1>1, <2>1, NothingOpened DEF Consistent, InsideLock
  <2>3. CASE o \in {"valid", "upstream"}
      BY <1>3, <2>2, <2>3, VerdictStep DEF ResumeReturns, Fail
  <2>4. CASE o \in {"none", "unexpected"}
      BY <1>3, <2>2, <2>4, FlowStutters DEF ResumeReturns, historyVars
  <2> QED
      BY <2>3, <2>4 DEF ResumeOutcomes
<1>4. ASSUME NEW o \in ChallengeOutcomes, ChallengeReturns(l, o)
      PROVE  [Flow!Next]_Flow!vars
  <2>1. CASE o \in Pending
    <3>1. state' = o /\ attempt' = l /\ login' = [login EXCEPT ![l] = "challenged"]
        BY <1>4, <2>1 DEF ChallengeReturns, LeaveLock, Pending
    <3>2. OpenAttempt' = l
        BY <2>1, <3>1 DEF OpenAttempt
    <3>3. Opened' = Opened \cup {l} /\ l \notin Opened
        BY <1>1, <3>1 DEF Opened, Consistent, TypeOK, InsideLock
    <3> QED
        BY <1>2, <2>1, <3>1, <3>2, <3>3 DEF Flow!Next, Flow!Open, Flow!Challenges, Pending
  <2>2. CASE o \notin Pending
    <3>1. login' = [login EXCEPT ![l] = "done"]
        BY <1>4, <2>2 DEF ChallengeReturns, LeaveLock, Pending
    <3>2. Opened' = Opened
        BY <1>1, <3>1, NothingOpened DEF Consistent, InsideLock
    <3>3. CASE o = "upstream"
        BY <1>4, <3>2, <3>3, VerdictStep DEF ChallengeReturns, Fail
    <3>4. CASE o = "unexpected"
        BY <1>4, <3>2, <3>4, FlowStutters DEF ChallengeReturns, sessionVars
    <3> QED
        BY <2>2, <3>3, <3>4 DEF ChallengeOutcomes, Pending
  <2> QED
      BY <2>1, <2>2
<1> QED
    BY <1>3, <1>4

\* Every step of the session is a step of LoginFlow or a stutter.
LEMMA FlowStep ==
    ASSUME Consistent, [Next]_vars
    PROVE  [Flow!Next]_Flow!vars
<1>1. CASE UNCHANGED vars
    BY <1>1, FlowStutters DEF vars, sessionVars, requestVars, historyVars, Opened
<1>2. ASSUME NEW o \in ResumeOutcomes, Resume(o)
      PROVE  [Flow!Next]_Flow!vars
  <2>1. Opened' = Opened /\ attempt' = attempt
      BY <1>2 DEF Resume, Opened, requestVars, historyVars
  <2>2. state' = state \/ state' = "confirmed"
      BY <1>2 DEF Resume
  <2> QED
      BY <2>1, <2>2, VerdictStep, FlowStutters
<1>3. CASE Restart
  <2>1. Opened' = Opened
      BY <1>3 DEF Restart, Opened, Consistent, TypeOK, InsideLock
  <2>2. state' = "idle" /\ OpenAttempt' = None
      BY <1>3 DEF Restart, OpenAttempt, Pending
  <2> QED
      BY <2>1, <2>2 DEF Flow!Next, Flow!Restart
<1>4. ASSUME NEW l \in Logins, CallLogin(l) \/ AcquireLock(l)
      PROVE  [Flow!Next]_Flow!vars
  <2>1. UNCHANGED <<state, attempt>>
      BY <1>4 DEF CallLogin, AcquireLock, sessionVars, historyVars
  <2>2. login[l] # "challenged"
    <3>1. CASE CallLogin(l)
        BY <3>1 DEF CallLogin
    <3>2. CASE AcquireLock(l)
        BY <3>2, QueueLeft DEF AcquireLock, Consistent
    <3> QED
        BY <1>4, <3>1, <3>2
  <2>3. \E pc \in {"done", "queued", "resuming"} : login' = [login EXCEPT ![l] = pc]
      BY <1>4 DEF CallLogin, RejectLogin, QueueLogin, EnterLogin, AcquireLock
  <2>4. Opened' = Opened
      BY <2>2, <2>3, NothingOpened DEF Consistent
  <2> QED
      BY <2>1, <2>4, FlowStutters
<1>5. ASSUME NEW l \in Logins,
             \/ \E o \in ResumeOutcomes : ResumeReturns(l, o)
             \/ \E o \in ChallengeOutcomes : ChallengeReturns(l, o)
      PROVE  [Flow!Next]_Flow!vars
    BY <1>5, FlowLoginStep
<1>6. ASSUME NEW s \in Submits, CallSubmit(s)
      PROVE  [Flow!Next]_Flow!vars
    BY <1>6, FlowStutters DEF CallSubmit, sessionVars, Opened
<1>7. ASSUME NEW s \in Submits, NEW o \in CompleteOutcomes, SubmitReturns(s, o)
      PROVE  [Flow!Next]_Flow!vars
  <2>1. Opened' = Opened /\ attempt' = attempt
      BY <1>7 DEF SubmitReturns, Opened, historyVars
  <2>2. state' = state \/ state' \in {"confirmed", "failed"}
      BY <1>7 DEF SubmitReturns, Fail
  <2> QED
      BY <2>1, <2>2, VerdictStep, FlowStutters
<1>8. ASSUME NEW l \in Logins, NEW o \in CompleteOutcomes, PushReturns(l, o)
      PROVE  [Flow!Next]_Flow!vars
  <2>1. Opened' = Opened /\ attempt' = attempt
      BY <1>8 DEF PushReturns, Opened, requestVars, historyVars
  <2>2. state' = state \/ state' \in {"confirmed", "failed"}
      BY <1>8 DEF PushReturns, Fail
  <2> QED
      BY <2>1, <2>2, VerdictStep, FlowStutters
<1>9. ASSUME NEW l \in Logins, TimeoutFires(l)
      PROVE  [Flow!Next]_Flow!vars
  <2>1. Opened' = Opened /\ attempt' = attempt
      BY <1>9 DEF TimeoutFires, Opened, requestVars, historyVars
  <2>2. state' = state \/ state' = "failed"
      BY <1>9 DEF TimeoutFires
  <2> QED
      BY <2>1, <2>2, VerdictStep, FlowStutters
<1> QED
    BY <1>1, <1>2, <1>3, <1>4, <1>5, <1>6, <1>7, <1>8, <1>9, NextCases

\* The session implements the login flow: an attempt is opened once, is alone
\* while it is open, and gets at most one verdict.
THEOREM Refinement == SafeSpec => FlowSpec
<1>1. Init => Flow!Init
    BY DEF Init, Flow!Init, OpenAttempt, Opened, Pending
<1>2. Consistent /\ [Next]_vars => [Flow!Next]_Flow!vars
    BY FlowStep
<1> QED
    BY <1>1, <1>2, Consistency, PTL DEF SafeSpec, FlowSpec, Flow!Spec
==============================================================================
