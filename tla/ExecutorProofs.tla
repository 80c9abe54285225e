---------------------------- MODULE ExecutorProofs ----------------------------
(***************************************************************************)
(* Proofs about the calls that Bridge has on the executor, for any sets of *)
(* requests and any pool: every coroutine that awaits the adapter has the  *)
(* call it waits for, no call that was given up is awaited, and nobody     *)
(* waits for a lock whose holder has no call.                              *)
(***************************************************************************)
EXTENDS BridgeProofs

\* AwaitsItsCall is inductive once a poller is known to be of a login that has
\* had its answer: the login and its poller share a name.
Awaiting ==
    /\ call \in [Callers -> [fun : Client!Functions \cup {"none"}, at : Client!Places]]
    /\ AwaitsItsCall
    /\ \A l \in polling : login[l] = "challenged"

LEMMA AwaitingInit == BridgeInit => Awaiting
BY DEF BridgeInit, Init, Client!Init, Awaiting, AwaitsItsCall, Client!Idle, Client!Places,
       Callers

------------------------------------------------------------------------------
(* The threads.                                                              *)

\* A thread moves a call that somebody has made, and not from its function.
LEMMA AwaitingMove ==
    ASSUME Awaiting, UNCHANGED vars, NEW c \in Callers, NEW at \in Client!Places \ {"idle"},
           call[c].at # "idle", call' = [call EXCEPT ![c].at = at]
    PROVE  Awaiting'
<1>1. UNCHANGED <<login, submit, polling>>
    BY DEF vars, sessionVars, requestVars
<1>2. call' \in [Callers -> [fun : Client!Functions \cup {"none"}, at : Client!Places]]
    BY DEF Awaiting
<1>3. /\ \A d \in Callers : call'[d].fun = call[d].fun
      /\ \A d \in Callers : call'[d] # Client!Idle <=> call[d] # Client!Idle
    BY DEF Awaiting, Client!Idle
<1>4. Logins \subseteq Callers /\ Submits \subseteq Callers
    BY DEF Callers
<1>5. AwaitsItsCall'
  <2>1. \A l \in Logins : call'[l].fun = call[l].fun
      BY <1>3, <1>4
  <2>2. \A s \in Submits : call'[s] # Client!Idle <=> call[s] # Client!Idle
      BY <1>3, <1>4
  <2> QED
      BY <1>1, <2>1, <2>2 DEF Awaiting, AwaitsItsCall
<1> QED
    BY <1>1, <1>2, <1>5 DEF Awaiting

\* ... and every step of the threads is one of those, or changes no call.
LEMMA AwaitingThreaded ==
    ASSUME Awaiting, Threaded
    PROVE  Awaiting'
<1>1. UNCHANGED vars
    BY DEF Threaded
<1>2. CASE call' = call
    BY <1>1, <1>2 DEF Awaiting, AwaitsItsCall, vars, sessionVars, requestVars
<1>3. ASSUME NEW c \in Callers, Client!Start(c)
      PROVE  Awaiting'
  <2>1. CASE call[c].at = "queued"
    <3>1. call' = [call EXCEPT ![c].at = "running"]
        BY <1>3, <2>1 DEF Client!Start
    <3>2. "running" \in Client!Places \ {"idle"}
        BY DEF Client!Places
    <3> QED
        BY <1>1, <2>1, <3>1, <3>2, AwaitingMove
  <2>2. CASE call[c].at # "queued"
      BY <1>2, <1>3, <2>2 DEF Client!Start
  <2> QED
      BY <2>1, <2>2
<1>4. ASSUME NEW c \in Callers, Client!Blocking(c)
      PROVE  Awaiting'
  <2>1. \E fun : \E raw \in Client!Returned \cup Client!Exceptions : Client!Finish(c, fun, raw)
    <3>1. CASE Client!Resume(c) \/ Client!Initiate(c) \/ Client!Verify(c) \/ Client!Confirm(c)
               \/ Client!Save(c) \/ Client!Poll(c) \/ Client!Settings(c)
      <4>1. \E fun, raw : /\ Client!Finish(c, fun, raw)
                          /\ raw \in {"true", "false", "authenticator", "push", "ok"}
          BY <3>1, Zenon DEF Client!Resume, Client!Initiate, Client!Verify, Client!Confirm,
             Client!Save, Client!Poll, Client!Settings
      <4> QED
          BY <4>1, Zenon DEF Client!Returned
    <3>2. CASE Client!Raise(c)
        BY <3>2, Zenon DEF Client!Raise
    <3> QED
        BY <1>4, <3>1, <3>2 DEF Client!Blocking
  <2>2. PICK raw \in Client!Returned \cup Client!Exceptions :
            /\ \E fun : call[c] = [fun |-> fun, at |-> "running"]
            /\ call' = [call EXCEPT ![c].at = raw]
      BY <2>1, Zenon DEF Client!Finish
  <2>3. call[c].at # "idle"
      BY <2>2
  <2>4. raw \in Client!Places \ {"idle"}
      BY DEF Client!Places, Client!Returned, Client!Exceptions
  <2> QED
      BY <1>1, <2>2, <2>3, <2>4, AwaitingMove
<1>5. ASSUME NEW p \in approved, Client!Expire(p)
      PROVE  Awaiting'
    BY <1>2, <1>5 DEF Client!Expire, Client!executorVars
<1> QED
    BY <1>3, <1>4, <1>5 DEF Threaded, Client!External

------------------------------------------------------------------------------
(* The event loop.                                                           *)

\* A step of the loop changes the call of one caller, and keeps Awaiting when
\* that is the call the caller's new place asks for and everybody else stays.
LEMMA AwaitingStep ==
    ASSUME Awaiting, NEW c \in Callers,
           call' \in [Callers -> [fun : Client!Functions \cup {"none"}, at : Client!Places]],
           \A d \in Callers \ {c} : call'[d] = call[d],
           \A l \in Logins \ {c} : login'[l] \in InsideLock => login'[l] = login[l],
           \A l \in Logins \ {c} : l \in polling' => l \in polling,
           \A l \in polling' : login'[l] = "challenged",
           \A s \in Submits \ {c} : submit'[s] = "completing" <=> submit[s] = "completing",
           c \in Logins =>
               /\ login'[c] = "resuming" => call'[c].fun = "resume"
               /\ login'[c] = "starting" => call'[c].fun = "initiate"
               /\ c \in polling' => call'[c].fun = "poll",
           c \in Submits => (submit'[c] = "completing" <=> call'[c] # Client!Idle)
    PROVE  Awaiting'
<1>1. \A l \in Logins :
         /\ login'[l] = "resuming" => call'[l].fun = "resume"
         /\ login'[l] = "starting" => call'[l].fun = "initiate"
         /\ l \in polling' => call'[l].fun = "poll"
  <2> TAKE l \in Logins
  <2>1. CASE l = c
      BY <2>1
  <2>2. CASE l # c
      BY <2>2 DEF Awaiting, AwaitsItsCall, InsideLock, Callers
  <2> QED
      BY <2>1, <2>2
<1>2. \A s \in Submits : submit'[s] = "completing" <=> call'[s] # Client!Idle
  <2> TAKE s \in Submits
  <2>1. CASE s = c
      BY <2>1
  <2>2. CASE s # c
      BY <2>2 DEF Awaiting, AwaitsItsCall, Callers
  <2> QED
      BY <2>1, <2>2
<1> QED
    BY <1>1, <1>2 DEF Awaiting, AwaitsItsCall, Client!Idle
\* What is queued or collected is a call.
LEMMA CallsAreTyped ==
    ASSUME Awaiting, NEW c \in Callers, NEW fun \in Client!Functions,
           NEW at \in {"queued", "streaming"},
           \/ call' = [call EXCEPT ![c] = [fun |-> fun, at |-> at]]
           \/ call' = [call EXCEPT ![c] = Client!Idle]
           \/ call' = call
    PROVE  /\ call' \in [Callers -> [fun : Client!Functions \cup {"none"}, at : Client!Places]]
           /\ \A d \in Callers \ {c} : call'[d] = call[d]
           /\ call' = [call EXCEPT ![c] = [fun |-> fun, at |-> at]] =>
                  call'[c].fun = fun /\ call'[c] # Client!Idle
           /\ call' = [call EXCEPT ![c] = Client!Idle] => call'[c] = Client!Idle
BY DEF Awaiting, Client!Idle, Client!Places

\* The startup's resume is nobody's who awaits (session.py 70-80).
LEMMA AwaitingStartup ==
    ASSUME Awaiting, StartupResumes \/ \E raw \in Raw : StartupEnds(raw)
    PROVE  Awaiting'
<1>1. UNCHANGED <<login, submit, polling>>
    BY DEF StartupResumes, StartupEnds, Resume, vars, sessionVars, requestVars
<1>2. None \in Callers /\ None \notin Logins /\ None \notin Submits
    BY NoneIsNoLogin, CallersDiffer DEF Callers
<1>3. \/ call' = [call EXCEPT ![None] = [fun |-> "resume", at |-> "queued"]]
      \/ call' = [call EXCEPT ![None] = Client!Idle]
    BY DEF StartupResumes, StartupEnds, Client!Run, Client!Collect
<1>4. "resume" \in Client!Functions
    BY DEF Client!Functions
<1>5. /\ call' \in [Callers -> [fun : Client!Functions \cup {"none"}, at : Client!Places]]
      /\ \A d \in Callers \ {None} : call'[d] = call[d]
    BY <1>2, <1>3, <1>4, CallsAreTyped
<1> QED
    BY <1>1, <1>2, <1>5, AwaitingStep DEF Awaiting

\* A restart leaves nobody waiting and nothing on the executor.
LEMMA AwaitingStop ==
    ASSUME Awaiting, Stop
    PROVE  Awaiting'
<1>1. call' = [c \in Callers |-> Client!Idle] /\ polling' = {}
    BY DEF Stop, Restart, Client!Crash
<1>2. \A l \in Logins : login'[l] \notin InsideLock
    BY DEF Stop, Restart, InsideLock
<1>3. \A s \in Submits : submit'[s] # "completing"
    BY DEF Stop, Restart
<1> QED
    BY <1>1, <1>2, <1>3 DEF Awaiting, AwaitsItsCall, InsideLock, Client!Idle, Client!Places, Callers

\* A login that gets into the lock has its resume queued (session.py 95-107).
LEMMA AwaitingEnter ==
    ASSUME Awaiting, Consistent, NEW l \in Logins, LoginArrives(l) \/ LoginGetsLock(l)
    PROVE  Awaiting'
<1>1. UNCHANGED <<submit, polling>> /\ l \in Callers /\ l \notin Submits
    BY CallersDiffer DEF LoginArrives, LoginGetsLock, CallLogin, AcquireLock, sessionVars, Callers
<1>2. PICK pc \in {"done", "queued", "resuming"} : login' = [login EXCEPT ![l] = pc]
    BY DEF LoginArrives, LoginGetsLock, CallLogin, RejectLogin, QueueLogin, EnterLogin, AcquireLock
<1>3. login[l] \in {"new", "queued"}
  <2>1. CASE LoginArrives(l)
      BY <2>1 DEF LoginArrives, CallLogin
  <2>2. CASE LoginGetsLock(l)
      BY <2>2 DEF LoginGetsLock, AcquireLock, Consistent, WaitersQueued, TypeOK
  <2> QED
      BY <2>1, <2>2
<1>4. login \in [Logins -> LoginPC] /\ polling \subseteq Logins
    BY DEF Consistent, TypeOK
<1>5. l \notin polling /\ login'[l] = pc /\ \A d \in Logins \ {l} : login'[d] = login[d]
    BY <1>2, <1>3, <1>4 DEF Awaiting
<1>6. CASE pc = "resuming"
  <2>1. call' = [call EXCEPT ![l] = [fun |-> "resume", at |-> "queued"]]
      BY <1>5, <1>6 DEF LoginArrives, LoginGetsLock, AwaitsIfInside, Client!Run
  <2>2. "resume" \in Client!Functions
      BY DEF Client!Functions
  <2>3. /\ call' \in [Callers -> [fun : Client!Functions \cup {"none"}, at : Client!Places]]
        /\ \A d \in Callers \ {l} : call'[d] = call[d]
        /\ call'[l].fun = "resume"
      BY <1>1, <2>1, <2>2, CallsAreTyped
  <2> QED
      BY <1>1, <1>4, <1>5, <1>6, <2>3, AwaitingStep DEF Awaiting
<1>7. CASE pc # "resuming"
  <2>1. call' = call
      BY <1>5, <1>7 DEF LoginArrives, LoginGetsLock, AwaitsIfInside, clientVars
  <2> QED
      BY <1>1, <1>4, <1>5, <1>7, <2>1, AwaitingStep DEF Awaiting
<1> QED
    BY <1>6, <1>7

\* One that has no saved session goes on to its weblogin, and any other leaves
\* the lock with its call collected (session.py 107-116).
LEMMA AwaitingResumes ==
    ASSUME Awaiting, Consistent, NEW l \in Logins, NEW raw \in Raw, LoginResumes(l, raw)
    PROVE  Awaiting'
<1>1. UNCHANGED <<submit, polling>> /\ l \in Callers /\ l \notin Submits
    BY CallersDiffer DEF LoginResumes, ResumeReturns, Callers
<1>2. login \in [Logins -> LoginPC] /\ polling \subseteq Logins
    BY DEF Consistent, TypeOK
<1>3. l \notin polling
    BY DEF LoginResumes, ResumeReturns, Awaiting
<1>4. CASE raw = "false"
  <2>1. call' = [call EXCEPT ![l] = [fun |-> "initiate", at |-> "queued"]]
      BY <1>4 DEF LoginResumes, Client!Continue
  <2>2. "initiate" \in Client!Functions
      BY DEF Client!Functions
  <2>3. /\ call' \in [Callers -> [fun : Client!Functions \cup {"none"}, at : Client!Places]]
        /\ \A d \in Callers \ {l} : call'[d] = call[d]
        /\ call'[l].fun = "initiate"
      BY <1>1, <2>1, <2>2, CallsAreTyped
  <2>4. Client!Translate(raw) = "none"
      BY <1>4 DEF Client!Translate
  <2>5. login'[l] = "starting" /\ \A d \in Logins \ {l} : login'[d] = login[d]
      BY <1>2, <2>4 DEF LoginResumes, ResumeReturns
  <2> QED
      BY <1>1, <1>2, <1>3, <2>3, <2>5, AwaitingStep DEF Awaiting
<1>5. CASE raw # "false"
  <2>1. Client!Translate(raw) # "none"
      BY <1>5 DEF Client!Translate, Raw, Client!Returned, Client!Exceptions
  <2>2. login'[l] = "done" /\ \A d \in Logins \ {l} : login'[d] = login[d]
      BY <1>2, <2>1 DEF LoginResumes, ResumeReturns, LeaveLock
  <2>3. call' = [call EXCEPT ![l] = Client!Idle]
      BY <1>5 DEF LoginResumes, Client!Collect
  <2>4. /\ call' \in [Callers -> [fun : Client!Functions \cup {"none"}, at : Client!Places]]
        /\ \A d \in Callers \ {l} : call'[d] = call[d]
      BY <1>1, <2>3 DEF Awaiting, Client!Idle, Client!Places
  <2> QED
      BY <1>1, <1>2, <1>3, <2>2, <2>4, AwaitingStep DEF Awaiting
<1> QED
    BY <1>4, <1>5

\* A push challenge leaves the login's name to its poller (session.py 117-138).
LEMMA AwaitingChallenged ==
    ASSUME Awaiting, Consistent, NEW l \in Logins, NEW raw \in Raw, LoginIsChallenged(l, raw)
    PROVE  Awaiting'
<1>1. submit' = submit /\ l \in Callers /\ l \notin Submits
    BY CallersDiffer DEF LoginIsChallenged, ChallengeReturns, Callers
<1>2. login \in [Logins -> LoginPC] /\ polling \subseteq Logins
    BY DEF Consistent, TypeOK
<1>3. l \notin polling
    BY DEF LoginIsChallenged, ChallengeReturns, Awaiting
<1>4. login'[l] \in {"challenged", "done"} /\ \A d \in Logins \ {l} : login'[d] = login[d]
    BY <1>2 DEF LoginIsChallenged, ChallengeReturns, LeaveLock
<1>5. CASE raw = "push"
  <2>1. Client!Translate(raw) = "push"
      BY <1>5, Zenon DEF Client!Translate
  <2>2. polling' = polling \cup {l} /\ login'[l] = "challenged"
      BY <1>2, <2>1 DEF LoginIsChallenged, ChallengeReturns, StartPushTask, LeaveLock
  <2>3. call' = [call EXCEPT ![l] = [fun |-> "poll", at |-> "queued"]]
      BY <1>5 DEF LoginIsChallenged, Client!Continue
  <2>4. "poll" \in Client!Functions
      BY DEF Client!Functions
  <2>5. /\ call' \in [Callers -> [fun : Client!Functions \cup {"none"}, at : Client!Places]]
        /\ \A d \in Callers \ {l} : call'[d] = call[d]
        /\ call'[l].fun = "poll"
      BY <1>1, <2>3, <2>4, CallsAreTyped
  <2> QED
      BY <1>1, <1>2, <1>4, <2>2, <2>5, AwaitingStep DEF Awaiting
<1>6. CASE raw # "push"
  <2>1. Client!Translate(raw) # "push"
      BY <1>6 DEF Client!Translate, Raw, Client!Returned, Client!Exceptions
  <2>2. polling' = polling
      BY <2>1 DEF LoginIsChallenged, ChallengeReturns, sessionVars
  <2>3. call' = [call EXCEPT ![l] = Client!Idle]
      BY <1>6 DEF LoginIsChallenged, Client!Collect
  <2>4. /\ call' \in [Callers -> [fun : Client!Functions \cup {"none"}, at : Client!Places]]
        /\ \A d \in Callers \ {l} : call'[d] = call[d]
      BY <1>1, <2>3 DEF Awaiting, Client!Idle, Client!Places
  <2> QED
      BY <1>1, <1>2, <1>3, <1>4, <2>2, <2>4, AwaitingStep DEF Awaiting
<1> QED
    BY <1>5, <1>6

\* A poller that has its answer is over (session.py 205-229).
LEMMA AwaitingPoll ==
    ASSUME Awaiting, NEW l \in Logins, NEW raw \in Raw, PollReturns(l, raw)
    PROVE  Awaiting'
<1>1. UNCHANGED <<login, submit>> /\ polling' = polling \ {l}
    BY DEF PollReturns, PushReturns, requestVars
<1>2. l \in Callers /\ l \notin Submits /\ login[l] = "challenged"
    BY CallersDiffer DEF PollReturns, PushReturns, Awaiting, Callers
<1>3. call' = [call EXCEPT ![l] = Client!Idle]
    BY DEF PollReturns, Client!Collect
<1>4. /\ call' \in [Callers -> [fun : Client!Functions \cup {"none"}, at : Client!Places]]
      /\ \A d \in Callers \ {l} : call'[d] = call[d]
    BY <1>2, <1>3 DEF Awaiting, Client!Idle, Client!Places
<1> QED
    BY <1>1, <1>2, <1>4, AwaitingStep DEF Awaiting

\* The timeout cancels the poller together with its call (session.py 188-203).
LEMMA AwaitingTimeout ==
    ASSUME Awaiting, Consistent, NEW l \in Logins, TimeoutEnds(l)
    PROVE  Awaiting'
<1>1. UNCHANGED <<login, submit>>
    BY DEF TimeoutEnds, TimeoutFires, requestVars
<1>2. polling' = polling \/ polling' = polling \ {pushTask}
    BY DEF TimeoutEnds, TimeoutFires, CancelPushTask
<1>3. CASE polling' = polling
  <2>1. call' = call
      BY <1>3 DEF TimeoutEnds, clientVars
  <2> QED
      BY <1>1, <1>3, <2>1 DEF Awaiting, AwaitsItsCall
<1>4. CASE polling' # polling
  <2>1. pushTask \in polling /\ polling' = polling \ {pushTask}
      BY <1>2, <1>4
  <2>2. pushTask \in Logins /\ pushTask \in Callers /\ pushTask \notin Submits
      BY <2>1, CallersDiffer DEF Consistent, TypeOK, Callers
  <2>3. login[pushTask] = "challenged"
      BY <2>1 DEF Awaiting
  <2>4. call' = call \/ call' = [call EXCEPT ![pushTask] = Client!Idle]
      BY <1>4 DEF TimeoutEnds, Client!Abandon
  <2>5. /\ call' \in [Callers -> [fun : Client!Functions \cup {"none"}, at : Client!Places]]
        /\ \A d \in Callers \ {pushTask} : call'[d] = call[d]
      BY <2>2, <2>4 DEF Awaiting, Client!Idle, Client!Places
  <2> QED
      BY <1>1, <2>1, <2>2, <2>3, <2>5, AwaitingStep DEF Awaiting
<1> QED
    BY <1>3, <1>4

\* A code that is taken awaits one function after the other until it has its
\* answer (session.py 137-160, pytr_client.py 84-89).
LEMMA AwaitingCodeSteps ==
    ASSUME Awaiting, Consistent, NEW s \in Submits, CodeArrives(s) \/ CodeGoesOn(s)
    PROVE  Awaiting'
<1>1. UNCHANGED <<login, polling>> /\ s \in Callers /\ s \notin Logins
    BY CallersDiffer DEF CodeArrives, CodeGoesOn, CallSubmit, Callers, vars, sessionVars,
       requestVars
<1>2. submit \in [Submits -> SubmitPC]
    BY DEF Consistent, TypeOK
<1>3. \A d \in Submits \ {s} : submit'[d] = submit[d]
    BY <1>2 DEF CodeArrives, CodeGoesOn, CallSubmit, vars, requestVars
<1>4. {"verify", "confirm", "save"} \subseteq Client!Functions
    BY DEF Client!Functions
<1>5. CASE CodeArrives(s)
  <2>1. CASE submit'[s] = "completing"
    <3>1. call' = [call EXCEPT ![s] = [fun |-> "verify", at |-> "queued"]]
        BY <1>5, <2>1 DEF CodeArrives, Client!Run, Client!CompletionSteps
    <3>2. /\ call' \in [Callers -> [fun : Client!Functions \cup {"none"}, at : Client!Places]]
          /\ \A d \in Callers \ {s} : call'[d] = call[d]
          /\ call'[s] # Client!Idle
        BY <1>1, <1>4, <3>1, CallsAreTyped
    <3> QED
        BY <1>1, <1>3, <2>1, <3>2, AwaitingStep DEF Awaiting
  <2>2. CASE submit'[s] # "completing"
    <3>1. call' = call /\ submit[s] = "new"
        BY <1>5, <2>2 DEF CodeArrives, CallSubmit, clientVars
    <3> QED
        BY <1>1, <1>3, <2>2, <3>1, AwaitingStep DEF Awaiting, AwaitsItsCall
  <2> QED
      BY <2>1, <2>2
<1>6. CASE CodeGoesOn(s)
  <2>1. submit' = submit
      BY <1>6 DEF CodeGoesOn, vars, requestVars
  <2>2. PICK i \in 1..(Len(Client!CompletionSteps) - 1) :
            Client!Continue(s, Client!CompletionSteps[i], "ok", Client!CompletionSteps[i + 1])
      BY <1>6 DEF CodeGoesOn
  <2>3. Client!CompletionSteps[i + 1] \in {"verify", "confirm", "save"}
      BY DEF Client!CompletionSteps
  <2>4. /\ call[s] = [fun |-> Client!CompletionSteps[i], at |-> "ok"]
        /\ call' = [call EXCEPT ![s] = [fun |-> Client!CompletionSteps[i + 1], at |-> "queued"]]
      BY <2>2 DEF Client!Continue
  <2>5. call[s] # Client!Idle
      BY <2>4 DEF Client!Idle
  <2>6. /\ call' \in [Callers -> [fun : Client!Functions \cup {"none"}, at : Client!Places]]
        /\ \A d \in Callers \ {s} : call'[d] = call[d]
        /\ call'[s] # Client!Idle
      BY <1>1, <1>4, <2>3, <2>4, CallsAreTyped
  <2> QED
      BY <1>1, <2>1, <2>5, <2>6, AwaitingStep DEF Awaiting, AwaitsItsCall
<1> QED
    BY <1>5, <1>6

LEMMA AwaitingCodeReturns ==
    ASSUME Awaiting, Consistent, NEW s \in Submits, NEW i, NEW raw \in Raw, CodeReturns(s, i, raw)
    PROVE  Awaiting'
<1>1. UNCHANGED <<login, polling>> /\ s \in Callers /\ s \notin Logins
    BY CallersDiffer DEF CodeReturns, SubmitReturns, Callers
<1>2. submit \in [Submits -> SubmitPC] /\ state # "completing"
    BY DEF Consistent, TypeOK, SessionState, Pending
<1>3. submit'[s] # "completing" /\ \A d \in Submits \ {s} : submit'[d] = submit[d]
    BY <1>2 DEF CodeReturns, SubmitReturns
<1>4. call' = [call EXCEPT ![s] = Client!Idle]
    BY DEF CodeReturns, Client!Collect
<1>5. /\ call' \in [Callers -> [fun : Client!Functions \cup {"none"}, at : Client!Places]]
      /\ \A d \in Callers \ {s} : call'[d] = call[d]
      /\ call'[s] = Client!Idle
    BY <1>1, <1>4 DEF Awaiting, Client!Idle, Client!Places
<1> QED
    BY <1>1, <1>3, <1>5, AwaitingStep DEF Awaiting

\* A timeline request awaits calls of its own.
LEMMA AwaitingFetch ==
    ASSUME Awaiting, NEW f \in Fetches,
           FetchArrives(f) \/ FetchRefreshed(f) \/ FetchEnds(f)
    PROVE  Awaiting'
<1>1. UNCHANGED <<login, submit, polling>>
    BY DEF FetchArrives, FetchRefreshed, FetchEnds, vars, sessionVars, requestVars
<1>2. f \in Callers /\ f \notin Logins /\ f \notin Submits
    BY CallersDiffer DEF Callers
<1>3. \/ call' = [call EXCEPT ![f] = [fun |-> "settings", at |-> "queued"]]
      \/ call' = [call EXCEPT ![f] = [fun |-> "timeline", at |-> "streaming"]]
      \/ call' = [call EXCEPT ![f] = Client!Idle]
    BY DEF FetchArrives, FetchRefreshed, FetchEnds, Client!Run, Client!Stream,
       Client!StreamEnds, Client!Collect
<1>4. {"settings", "timeline"} \subseteq Client!Functions
    BY DEF Client!Functions
<1>5. /\ call' \in [Callers -> [fun : Client!Functions \cup {"none"}, at : Client!Places]]
      /\ \A d \in Callers \ {f} : call'[d] = call[d]
    BY <1>2, <1>3, <1>4, CallsAreTyped
<1> QED
    BY <1>1, <1>2, <1>5, AwaitingStep DEF Awaiting

------------------------------------------------------------------------------
(* The theorems.                                                             *)

LEMMA AwaitingNext == Consistent /\ Awaiting /\ [BridgeNext]_bridgeVars => Awaiting'
<1> SUFFICES ASSUME Consistent, Awaiting, [BridgeNext]_bridgeVars
             PROVE  Awaiting'
    OBVIOUS
<1>1. CASE UNCHANGED bridgeVars
    BY <1>1 DEF bridgeVars, clientVars, vars, sessionVars, requestVars, Awaiting, AwaitsItsCall
<1>2. CASE Threaded
    BY <1>2, AwaitingThreaded
<1>3. CASE StartupResumes \/ \E raw \in Raw : StartupEnds(raw)
    BY <1>3, AwaitingStartup
<1>4. CASE Stop
    BY <1>4, AwaitingStop
<1>5. ASSUME NEW l \in Logins, LoginArrives(l) \/ LoginGetsLock(l)
      PROVE  Awaiting'
    BY <1>5, AwaitingEnter
<1>6. ASSUME NEW l \in Logins, TimeoutEnds(l)
      PROVE  Awaiting'
    BY <1>6, AwaitingTimeout
<1>7. ASSUME NEW l \in Logins, NEW raw \in Raw,
             LoginResumes(l, raw) \/ LoginIsChallenged(l, raw) \/ PollReturns(l, raw)
      PROVE  Awaiting'
    BY <1>7, AwaitingResumes, AwaitingChallenged, AwaitingPoll
<1>8. ASSUME NEW s \in Submits, CodeArrives(s) \/ CodeGoesOn(s)
      PROVE  Awaiting'
    BY <1>8, AwaitingCodeSteps
<1>9. ASSUME NEW s \in Submits, NEW i, NEW raw \in Raw, CodeReturns(s, i, raw)
      PROVE  Awaiting'
    BY <1>9, AwaitingCodeReturns
<1>10. ASSUME NEW f \in Fetches, FetchArrives(f) \/ FetchRefreshed(f) \/ FetchEnds(f)
       PROVE  Awaiting'
    BY <1>10, AwaitingFetch
<1> QED
    BY <1>1, <1>2, <1>3, <1>4, <1>5, <1>6, <1>7, <1>8, <1>9, <1>10 DEF BridgeNext, Loop

\* Whoever awaits the adapter has the call that its place in the code asks for on
\* the executor, and nobody awaits a call that was given up (pytr_client.py
\* 195-198, session.py 205-216).
THEOREM Awaited == BridgeSpec => []AwaitsItsCall
<1>1. BridgeSpec => []Consistent
    BY Composition, Consistency, PTL
<1>2. Awaiting => AwaitsItsCall
    BY DEF Awaiting
<1> QED
    BY <1>1, <1>2, AwaitingInit, AwaitingNext, PTL DEF BridgeSpec

\* The queue of the executor holds calls.
LEMMA BacklogStep ==
    ASSUME backlog \in Seq(Callers), [BridgeNext]_bridgeVars
    PROVE  (backlog \in Seq(Callers))'
<1>1. CASE UNCHANGED backlog
    BY <1>1
<1>2. CASE \E c \in Callers : backlog' = Append(backlog, c)
    BY <1>2
<1>3. CASE backlog # <<>> /\ backlog' = Tail(backlog)
    BY <1>3
<1>4. CASE backlog' = <<>>
    BY <1>4
<1>5. CASE Threaded
  <2>1. ASSUME NEW c \in Callers, Client!Start(c)
        PROVE  backlog # <<>> /\ backlog' = Tail(backlog)
      BY <2>1 DEF Client!Start
  <2>2. ASSUME NEW c \in Callers, Client!Blocking(c)
        PROVE  UNCHANGED backlog
      BY <2>2 DEF Client!Blocking, Client!Resume, Client!Initiate, Client!Verify, Client!Confirm,
         Client!Save, Client!Poll, Client!Settings, Client!Raise, Client!Finish
  <2>3. ASSUME NEW p \in approved, Client!Expire(p)
        PROVE  UNCHANGED backlog
      BY <2>3 DEF Client!Expire, Client!executorVars
  <2> QED
      BY <1>1, <1>3, <1>5, <2>1, <2>2, <2>3 DEF Threaded, Client!External
<1>6. CASE UNCHANGED bridgeVars
    BY <1>1, <1>6 DEF bridgeVars, clientVars
<1>7. CASE Stop
    BY <1>4, <1>7 DEF Stop, Client!Crash
<1>8. CASE StartupResumes \/ \E raw \in Raw : StartupEnds(raw)
    BY <1>1, <1>2, <1>8 DEF StartupResumes, StartupEnds, Client!Run, Client!Collect, Callers
<1>9. ASSUME NEW l \in Logins, LoginArrives(l) \/ LoginGetsLock(l) \/ TimeoutEnds(l)
      PROVE  UNCHANGED backlog \/ \E c \in Callers : backlog' = Append(backlog, c)
    BY <1>9 DEF LoginArrives, LoginGetsLock, TimeoutEnds, AwaitsIfInside, Client!Run,
       Client!Abandon, clientVars, Callers
<1>10. ASSUME NEW l \in Logins, NEW raw \in Raw,
              LoginResumes(l, raw) \/ LoginIsChallenged(l, raw) \/ PollReturns(l, raw)
       PROVE  UNCHANGED backlog \/ \E c \in Callers : backlog' = Append(backlog, c)
    BY <1>10 DEF LoginResumes, LoginIsChallenged, PollReturns, Client!Continue, Client!Collect,
       Callers
<1>11. ASSUME NEW s \in Submits, CodeArrives(s) \/ CodeGoesOn(s)
       PROVE  UNCHANGED backlog \/ \E c \in Callers : backlog' = Append(backlog, c)
    BY <1>11 DEF CodeArrives, CodeGoesOn, Client!Run, Client!Continue, clientVars, Callers
<1>12. ASSUME NEW s \in Submits, NEW i, NEW raw \in Raw, CodeReturns(s, i, raw)
       PROVE  UNCHANGED backlog
    BY <1>12 DEF CodeReturns, Client!Collect
<1>13. ASSUME NEW f \in Fetches, FetchArrives(f) \/ FetchRefreshed(f) \/ FetchEnds(f)
       PROVE  UNCHANGED backlog \/ \E c \in Callers : backlog' = Append(backlog, c)
    BY <1>13 DEF FetchArrives, FetchRefreshed, FetchEnds, Client!Run, Client!Stream,
       Client!StreamEnds, Client!Collect, Callers
<1> QED
    BY <1>1, <1>2, <1>5, <1>6, <1>7, <1>8, <1>9, <1>10, <1>11, <1>12, <1>13 DEF BridgeNext, Loop

\* The variables of the adapter keep their types.
THEOREM ClientTyping == BridgeSpec => []ClientTypeOK
<1>1. BridgeInit => backlog \in Seq(Callers)
    BY DEF BridgeInit, Client!Init
<1>2. BridgeSpec => [](backlog \in Seq(Callers))
    BY <1>1, BacklogStep, PTL DEF BridgeSpec
<1>3. Attached /\ backlog \in Seq(Callers) => ClientTypeOK
    BY DEF Attached, CookiesAreApproved, ClientTypeOK, Client!TypeOK
<1> QED
    BY <1>2, <1>3, Attachment, PTL

------------------------------------------------------------------------------
(* The queue of the lock.                                                    *)

\* A login that waits for the lock is in its queue.
Waiting ==
    \A l \in Logins : login[l] = "queued" => \E i \in 1..Len(lockQueue) : lockQueue[i] = l

\* Nobody who waits leaves the queue but by getting his turn, and a restart
\* leaves nobody waiting.
LEMMA WaitingStep == Consistent /\ Waiting /\ [Next]_vars => Waiting'
<1> SUFFICES ASSUME Consistent, Waiting, [Next]_vars
             PROVE  Waiting'
    OBVIOUS
<1> USE DEF Consistent, TypeOK
<1>1. CASE UNCHANGED <<login, lockQueue>>
    BY <1>1 DEF Waiting
<1>2. ASSUME NEW k \in Logins, NEW pc, pc # "queued", login' = [login EXCEPT ![k] = pc],
             lockQueue' = lockQueue
      PROVE  Waiting'
    BY <1>2 DEF Waiting
<1>3. ASSUME NEW k \in Logins, CallLogin(k)
      PROVE  Waiting'
  <2>1. CASE QueueLogin(k)
    <3>1. /\ login' = [login EXCEPT ![k] = "queued"]
          /\ Len(lockQueue') = Len(lockQueue) + 1 /\ Len(lockQueue) \in Nat
          /\ lockQueue'[Len(lockQueue) + 1] = k
          /\ \A i \in 1..Len(lockQueue) : lockQueue'[i] = lockQueue[i]
        BY <2>1 DEF QueueLogin
    <3>2. 1..Len(lockQueue') = (1..Len(lockQueue)) \cup {Len(lockQueue) + 1}
        BY <3>1
    <3> QED
        BY <3>1, <3>2 DEF Waiting
  <2>2. CASE RejectLogin(k) \/ EnterLogin(k)
      BY <1>2, <2>2 DEF RejectLogin, EnterLogin, lockVars
  <2> QED
      BY <1>3, <2>1, <2>2 DEF CallLogin
<1>4. ASSUME NEW k \in Logins, AcquireLock(k)
      PROVE  Waiting'
  <2>1. /\ lockQueue # <<>> /\ k = Head(lockQueue) /\ lockQueue' = Tail(lockQueue)
        /\ \E pc \in {"done", "resuming"} : login' = [login EXCEPT ![k] = pc]
      BY <1>4 DEF AcquireLock
  <2>2. /\ Len(lockQueue') = Len(lockQueue) - 1
        /\ k = lockQueue[1]
        /\ \A i \in 1..Len(lockQueue) :
              i = 1 \/ (i - 1 \in 1..Len(lockQueue') /\ lockQueue'[i - 1] = lockQueue[i])
      BY <2>1
  <2>3. ASSUME NEW l \in Logins, login'[l] = "queued"
        PROVE  \E i \in 1..Len(lockQueue') : lockQueue'[i] = l
    <3>1. l # k /\ login[l] = "queued"
        BY <2>1, <2>3
    <3>2. PICK i \in 1..Len(lockQueue) : lockQueue[i] = l
        BY <3>1 DEF Waiting
    <3> QED
        BY <2>2, <3>1, <3>2
  <2> QED
      BY <2>3 DEF Waiting
<1>5. CASE Restart
  <2>1. \A l \in Logins : login'[l] # "queued"
      BY <1>5 DEF Restart
  <2> QED
      BY <2>1 DEF Waiting
<1>6. ASSUME NEW k \in Logins, NEW o, ResumeReturns(k, o)
      PROVE  Waiting'
    BY <1>2, <1>6 DEF ResumeReturns, LeaveLock, lockVars
<1>7. ASSUME NEW k \in Logins, NEW o, ChallengeReturns(k, o)
      PROVE  Waiting'
    BY <1>2, <1>7 DEF ChallengeReturns, LeaveLock
<1>8. ASSUME \/ \E o : Resume(o)
             \/ \E s \in Submits : CallSubmit(s) \/ \E o : SubmitReturns(s, o)
             \/ \E k \in Logins : TimeoutFires(k) \/ \E o : PushReturns(k, o)
      PROVE  UNCHANGED <<login, lockQueue>>
    BY <1>8 DEF Resume, CallSubmit, SubmitReturns, TimeoutFires, PushReturns, requestVars, lockVars
<1>9. CASE UNCHANGED vars
    BY <1>1, <1>9 DEF vars, requestVars, lockVars
<1> QED
    BY <1>1, <1>3, <1>4, <1>5, <1>6, <1>7, <1>8, <1>9, NextCases

\* A login that waits for the lock is in its queue, and the lock is free or held
\* by a login with a call on the executor: nobody waits in a circle, or for
\* nothing (session.py 99-107).
THEOREM Turns == BridgeSpec => []EveryWaiterHasATurn
<1>1. BridgeInit => Waiting
    BY DEF BridgeInit, Init, Waiting
<1>2. BridgeSpec => []Consistent
    BY Composition, Consistency, PTL
<1>3. Consistent /\ Waiting /\ [BridgeNext]_bridgeVars => Waiting'
    BY WaitingStep, SessionStep
<1>4. Consistent /\ Awaiting /\ Waiting => EveryWaiterHasATurn
  <2> SUFFICES ASSUME Consistent, Awaiting, Waiting, lockHolder # None
               PROVE  call[lockHolder] # Client!Idle
      BY DEF Waiting, EveryWaiterHasATurn
  <2>1. lockHolder \in Logins /\ login[lockHolder] \in InsideLock
      BY DEF Consistent, LockIsOwned, TypeOK
  <2>2. call[lockHolder].fun \in {"resume", "initiate"}
      BY <2>1 DEF Awaiting, AwaitsItsCall, InsideLock
  <2> QED
      BY <2>2 DEF Client!Idle
<1> QED
    BY <1>1, <1>2, <1>3, <1>4, AwaitingInit, AwaitingNext, PTL DEF BridgeSpec
==============================================================================
