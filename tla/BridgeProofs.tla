----------------------------- MODULE BridgeProofs -----------------------------
(***************************************************************************)
(* Proofs about Bridge, for any sets of requests and any pool.  A step of  *)
(* the bridge is a step of the session or leaves it alone, so the session's *)
(* invariants hold inside it; with them the invariant Attached of the      *)
(* shared handle is inductive.                                             *)
(***************************************************************************)
EXTENDS Bridge, SessionProofs

------------------------------------------------------------------------------
(* The session inside the bridge.                                            *)

\* A login inside the lock that a translated answer or exception resumes is a
\* step of the session.
LEMMA LoginOutcomes ==
    ASSUME NEW l \in Logins, NEW o, ResumeReturns(l, o) \/ ChallengeReturns(l, o)
    PROVE  Next
<1>1. CASE ResumeReturns(l, o)
  <2>1. o \in ResumeOutcomes
      BY <1>1 DEF ResumeReturns, ResumeOutcomes
  <2> QED
      BY <1>1, <2>1 DEF Next, PortReturns
<1>2. CASE ChallengeReturns(l, o)
  <2>1. o \in ChallengeOutcomes
      BY <1>2 DEF ChallengeReturns, ChallengeOutcomes
  <2> QED
      BY <1>2, <2>1 DEF Next, PortReturns
<1> QED
    BY <1>1, <1>2

\* A submission that a translated answer resumes is a step of the session.
LEMMA SubmitOutcomes ==
    ASSUME NEW s \in Submits, NEW o, SubmitReturns(s, o)
    PROVE  Next
<1>1. o \in CompleteOutcomes
    BY DEF SubmitReturns, CompleteOutcomes
<1> QED
    BY <1>1 DEF Next, PortReturns

\* A poller tells success from everything else: any other outcome acts as an
\* upstream error.
LEMMA PollOutcomes ==
    ASSUME NEW l \in Logins, NEW o, PushReturns(l, o)
    PROVE  Next
<1>1. PushReturns(l, IF o = "ok" THEN "ok" ELSE "upstream")
    BY DEF PushReturns
<1> QED
    BY <1>1 DEF Next, PortReturns, CompleteOutcomes

\* The startup's resume, likewise.
LEMMA StartupOutcomes ==
    ASSUME NEW o, Resume(o)
    PROVE  Next
<1>1. Resume(IF o = "valid" THEN "valid" ELSE "none")
    BY DEF Resume
<1> QED
    BY <1>1 DEF Next, ResumeOutcomes

\* A step of the bridge is a step of the session, or does not touch it.
LEMMA SessionStep == [BridgeNext]_bridgeVars => [Next]_vars
<1> SUFFICES ASSUME [BridgeNext]_bridgeVars
             PROVE  [Next]_vars
    OBVIOUS
<1>1. CASE UNCHANGED bridgeVars
    BY <1>1 DEF bridgeVars
<1>2. CASE Threaded
    BY <1>2 DEF Threaded
<1>3. CASE StartupResumes
    BY <1>3 DEF StartupResumes
<1>4. CASE Stop
    BY <1>4 DEF Stop, Next
<1>5. ASSUME NEW raw \in Raw, StartupEnds(raw)
      PROVE  Next
    BY <1>5, StartupOutcomes DEF StartupEnds
<1>6. ASSUME NEW l \in Logins, LoginArrives(l) \/ LoginGetsLock(l) \/ TimeoutEnds(l)
      PROVE  Next
    BY <1>6 DEF LoginArrives, LoginGetsLock, TimeoutEnds, Next
<1>7. ASSUME NEW l \in Logins, NEW raw \in Raw,
             LoginResumes(l, raw) \/ LoginIsChallenged(l, raw) \/ PollReturns(l, raw)
      PROVE  Next
    BY <1>7, LoginOutcomes, PollOutcomes DEF LoginResumes, LoginIsChallenged, PollReturns
<1>8. ASSUME NEW s \in Submits, CodeArrives(s) \/ CodeGoesOn(s)
      PROVE  [Next]_vars
    BY <1>8 DEF CodeArrives, CodeGoesOn, Next
<1>9. ASSUME NEW s \in Submits, NEW i, NEW raw \in Raw, CodeReturns(s, i, raw)
      PROVE  Next
    BY <1>9, SubmitOutcomes DEF CodeReturns
<1>10. ASSUME NEW f \in Fetches, FetchArrives(f) \/ FetchRefreshed(f) \/ FetchEnds(f)
       PROVE  UNCHANGED vars
    BY <1>10 DEF FetchArrives, FetchRefreshed, FetchEnds
<1> QED
    BY <1>1, <1>2, <1>3, <1>4, <1>5, <1>6, <1>7, <1>8, <1>9, <1>10 DEF BridgeNext, Loop

\* The bridge implements the session: what the port's adapter, pytr and the
\* thread pool do together are behaviours Session allows, so every safety
\* theorem about Session holds of the bridge (instance_registry.py 41-52).
THEOREM Composition == BridgeSpec => SafeSpec
<1>1. BridgeInit => Init
    BY DEF BridgeInit
<1> QED
    BY <1>1, SessionStep, PTL DEF BridgeSpec, SafeSpec

\* So the bridge keeps what the session promises: the abstract login flow, the
\* verdict that stands until the next login, the factor that confirms, and the
\* invariants of lock, timer and poller (session.py 48-229).
THEOREM Inheritance ==
    BridgeSpec =>
        /\ FlowSpec
        /\ FailedUntilRelogin /\ FactorsNotMixed /\ PollerEndsWithLogin
        /\ []Consistent
BY Composition, Refinement, Failure, Factors, PollersEnd, Consistency, PTL

------------------------------------------------------------------------------
(* The shared handle.                                                        *)

\* Before the startup's resume nothing is on the executor and the handle is
\* empty (pytr_client.py 44-47).
LEMMA AttachedInit == BridgeInit => Attached
BY DEF BridgeInit, Init, Client!Init, Attached, HandleIsOwned, HandleHoldsAttempt,
       CookiesAreApproved, ConfirmedIsPersisted, Client!Idle, Client!Places, Callers,
       Pending

\* While a weblogin is being initiated no other login is inside the lock, and
\* no second factor is outstanding.
LEMMA InitiatorIsAlone ==
    ASSUME Consistent, HandleIsOwned, NEW c \in Callers, call[c].fun = "initiate"
    PROVE  /\ state \notin Pending
           /\ \A d \in Callers : call[d].fun = "initiate" => d = c
<1>1. \A d \in Callers : call[d].fun = "initiate" => d \in Logins /\ lockHolder = d
    BY DEF HandleIsOwned, Consistent, LoginExclusion, InsideLock
<1> QED
    BY <1>1, NoneIsNoLogin DEF Consistent, LoginExclusion

\* A pending login has a name.
LEMMA PendingHasAttempt ==
    ASSUME Consistent, state \in Pending
    PROVE  attempt \in Logins /\ attempt # None
BY NoneIsNoLogin DEF Consistent, PendingIffArmed, TypeOK

\* The threads' steps keep Attached.
LEMMA AttachedThreaded ==
    ASSUME Consistent, Attached, Threaded
    PROVE  Attached'
<1> USE DEF Attached, Client!Places, Client!Functions, Client!Returned, Client!Exceptions
<1>1. UNCHANGED <<state, attempt, login>>
    BY DEF Threaded, vars, sessionVars, requestVars, historyVars
<1>2. ASSUME NEW c \in Callers, Client!Start(c)
      PROVE  Attached'
    BY <1>1, <1>2 DEF Client!Start, Client!upstreamVars, HandleIsOwned, HandleHoldsAttempt,
        CookiesAreApproved, ConfirmedIsPersisted, Pending
<1>3. ASSUME NEW c \in Callers, Client!Resume(c)
      PROVE  Attached'
    BY <1>1, <1>3 DEF Client!Resume, Client!Finish, HandleIsOwned, HandleHoldsAttempt,
        CookiesAreApproved, ConfirmedIsPersisted, Pending
<1>4. ASSUME NEW c \in Callers, Client!Initiate(c)
      PROVE  Attached'
  <2>1. PICK kind \in {"authenticator", "push"} : Client!Finish(c, "initiate", kind)
      BY <1>4 DEF Client!Initiate
  <2>2. call[c].fun = "initiate" /\ c \in Logins
      BY <2>1 DEF Client!Finish, HandleIsOwned
  <2>3. state \notin Pending /\ \A d \in Callers : call[d].fun = "initiate" => d = c
      BY <2>2, InitiatorIsAlone
  <2>4. call' = [call EXCEPT ![c].at = kind] /\ process' = c
        /\ UNCHANGED <<cookies, file, approved, expired>>
      BY <1>4, <2>1 DEF Client!Initiate, Client!Finish
  <2>5. HandleIsOwned'
      BY <1>1, <2>2, <2>3, <2>4, NoneIsNoLogin DEF HandleIsOwned
  <2>6. CookiesAreApproved'
      BY <2>2, <2>4 DEF CookiesAreApproved
  <2> QED
      BY <1>1, <2>1, <2>3, <2>4, <2>5, <2>6 DEF HandleHoldsAttempt, ConfirmedIsPersisted
<1>5. ASSUME NEW c \in Callers, Client!Verify(c)
      PROVE  Attached'
    BY <1>1, <1>5 DEF Client!Verify, Client!Finish, HandleIsOwned, HandleHoldsAttempt,
        CookiesAreApproved, ConfirmedIsPersisted, Pending
<1>6. ASSUME NEW c \in Callers, Client!Confirm(c)
      PROVE  Attached'
    BY <1>1, <1>6 DEF Client!Confirm, Client!Finish, HandleIsOwned, HandleHoldsAttempt,
        CookiesAreApproved, ConfirmedIsPersisted, Pending
<1>7. ASSUME NEW c \in Callers, Client!Save(c)
      PROVE  Attached'
    BY <1>1, <1>7 DEF Client!Save, Client!Finish, HandleIsOwned, HandleHoldsAttempt,
        CookiesAreApproved, ConfirmedIsPersisted, Pending
<1>8. ASSUME NEW c \in Callers, Client!Poll(c)
      PROVE  Attached'
    BY <1>1, <1>8, NoneIsNoLogin DEF Client!Poll, Client!Finish, HandleIsOwned, HandleHoldsAttempt,
        CookiesAreApproved, ConfirmedIsPersisted, Pending
<1>9. ASSUME NEW c \in Callers, Client!Raise(c)
      PROVE  Attached'
    BY <1>1, <1>9 DEF Client!Raise, Client!Finish, HandleIsOwned, HandleHoldsAttempt,
        CookiesAreApproved, ConfirmedIsPersisted, Pending
<1>11. ASSUME NEW c \in Callers, Client!Settings(c)
       PROVE  Attached'
    BY <1>1, <1>11 DEF Client!Settings, Client!Finish, HandleIsOwned, HandleHoldsAttempt,
        CookiesAreApproved, ConfirmedIsPersisted, Pending
<1>10. ASSUME NEW p \in approved, Client!Expire(p)
       PROVE  Attached'
    BY <1>1, <1>10 DEF Client!Expire, Client!executorVars, HandleIsOwned, HandleHoldsAttempt,
        CookiesAreApproved, ConfirmedIsPersisted
<1> QED
    BY <1>2, <1>3, <1>4, <1>5, <1>6, <1>7, <1>8, <1>9, <1>10, <1>11
    DEF Threaded, Client!External, Client!Blocking

\* A step of the loop moves one caller to no function, to the queue with its
\* next one or to the stream of events, and leaves the handle and the cookies alone.  It keeps Attached
\* when that function finds what it needs, no other login leaves its place,
\* and what the session claims of the handle is so already.
LEMMA CallStep ==
    ASSUME Attached, NEW c \in Callers,
           NEW fun \in Client!Functions \cup {"none"}, NEW at \in {"idle", "queued", "streaming"},
           call' = [call EXCEPT ![c] = [fun |-> fun, at |-> at]],
           UNCHANGED <<process, cookies, file, approved, expired>>,
           fun = "initiate" => c \in Logins /\ login'[c] = "starting",
           fun = "poll" => c \in Logins,
           fun \in {"poll", "verify", "confirm", "save"} => process # None,
           fun \in {"save", "settings", "timeline"} => cookies # None,
           \A d \in Logins \ {c} : login[d] = "starting" => login'[d] = "starting",
           state' \in Pending => process = attempt',
           state' = "confirmed" => cookies # None /\ file # None
    PROVE  Attached'
<1> USE DEF Attached, Client!Places
<1>1. HandleIsOwned'
    BY DEF HandleIsOwned, Pending
<1>2. CookiesAreApproved'
    BY DEF CookiesAreApproved
<1>3. ConfirmedIsPersisted'
    BY DEF CookiesAreApproved, ConfirmedIsPersisted
<1> QED
    BY <1>1, <1>2, <1>3 DEF HandleHoldsAttempt

\* Likewise a step that collects the caller's answer.
LEMMA CollectStep ==
    ASSUME Attached, NEW c \in Callers,
           call' = [call EXCEPT ![c] = Client!Idle],
           UNCHANGED <<process, cookies, file, approved, expired>>,
           \A d \in Logins \ {c} : login[d] = "starting" => login'[d] = "starting",
           state' \in Pending => process = attempt',
           state' = "confirmed" => cookies # None /\ file # None
    PROVE  Attached'
<1> USE DEF Attached, Client!Idle, Client!Places
<1>1. HandleIsOwned'
    BY DEF HandleIsOwned, Pending
<1>2. CookiesAreApproved'
    BY DEF CookiesAreApproved
<1>3. ConfirmedIsPersisted'
    BY DEF CookiesAreApproved, ConfirmedIsPersisted
<1> QED
    BY <1>1, <1>2, <1>3 DEF HandleHoldsAttempt

\* A step that leaves the whole adapter alone, likewise.
LEMMA NoCallStep ==
    ASSUME Attached, UNCHANGED clientVars,
           \A d \in Logins : login[d] = "starting" => login'[d] = "starting",
           state' \in Pending => process = attempt',
           state' = "confirmed" => cookies # None /\ file # None
    PROVE  Attached'
BY DEF Attached, clientVars, HandleIsOwned, HandleHoldsAttempt, CookiesAreApproved,
       ConfirmedIsPersisted

\* What the session claims of the handle stays so while the session does not
\* move.
LEMMA ClaimsKept ==
    ASSUME Attached, UNCHANGED <<state, attempt>>
    PROVE  /\ state' \in Pending => process = attempt'
           /\ state' = "confirmed" => cookies # None /\ file # None
BY NoneIsNoLogin DEF Attached, HandleHoldsAttempt, ConfirmedIsPersisted, CookiesAreApproved,
   Pending

\* The startup's resume (session.py 70-80).
LEMMA AttachedStartup ==
    ASSUME Consistent, Attached,
           StartupResumes \/ \E raw \in Raw : StartupEnds(raw)
    PROVE  Attached'
<1>3. None \in Callers
    BY DEF Callers
<1>1. CASE StartupResumes
  <2>1. UNCHANGED <<state, attempt, login>>
      BY <1>1 DEF StartupResumes, vars, sessionVars, requestVars, historyVars
  <2>2. /\ call' = [call EXCEPT ![None] = [fun |-> "resume", at |-> "queued"]]
        /\ UNCHANGED <<process, cookies, file, approved, expired>>
      BY <1>1 DEF StartupResumes, Client!Run, Client!upstreamVars
  <2>3. /\ \A d \in Logins : login[d] = "starting" => login'[d] = "starting"
        /\ state' \in Pending => process = attempt'
        /\ state' = "confirmed" => cookies # None /\ file # None
      BY <2>1, ClaimsKept
  <2>4. \A d \in Logins \ {None} : login[d] = "starting" => login'[d] = "starting"
      BY <2>3
  <2>5. "resume" \in Client!Functions \cup {"none"}
      BY DEF Client!Functions
  <2> QED
      BY <1>3, <2>2, <2>3, <2>4, <2>5, CallStep, Zenon
<1>2. ASSUME NEW raw \in Raw, StartupEnds(raw)
      PROVE  Attached'
  <2>1. call[None] = [fun |-> "resume", at |-> raw] /\ UNCHANGED <<login, attempt>>
      BY <1>2 DEF StartupEnds, Client!Collect, Resume, requestVars, historyVars
  <2>2. state' = IF raw = "true" THEN "confirmed" ELSE "idle"
      BY <1>2 DEF StartupEnds, Resume, Client!Translate, Raw, Client!Returned,
         Client!Exceptions, Consistent, QuietAtStartup
  <2>3. raw = "true" => cookies # None /\ file # None
      BY <2>1 DEF Attached, CookiesAreApproved, Callers
  <2>4. /\ state' \in Pending => process = attempt'
        /\ state' = "confirmed" => cookies # None /\ file # None
      BY <2>1, <2>2, <2>3 DEF Pending
  <2>5. \A d \in Logins \ {None} : login[d] = "starting" => login'[d] = "starting"
      BY <2>1
  <2>6. /\ call' = [call EXCEPT ![None] = Client!Idle]
        /\ UNCHANGED <<process, cookies, file, approved, expired>>
      BY <1>2 DEF StartupEnds, Client!Collect, Client!upstreamVars
  <2> QED
      BY <1>3, <2>4, <2>5, <2>6, CollectStep
<1> QED
    BY <1>1, <1>2

\* A restart leaves an idle session, an empty executor and an empty handle; the
\* cookie file is still there.
LEMMA AttachedStop ==
    ASSUME Attached, Stop
    PROVE  Attached'
BY DEF Stop, Restart, Client!Crash, Client!Idle, Client!Places, Attached, HandleIsOwned,
       HandleHoldsAttempt, CookiesAreApproved, ConfirmedIsPersisted, Pending

\* A login that arrives, or gets the lock, awaits resume_session() if it is in
\* (session.py 95-107).
LEMMA AttachedEnter ==
    ASSUME Consistent, Attached, NEW l \in Logins, LoginArrives(l) \/ LoginGetsLock(l)
    PROVE  Attached'
<1>1. UNCHANGED <<state, attempt>> /\ AwaitsIfInside(l)
    BY DEF LoginArrives, LoginGetsLock, CallLogin, AcquireLock, sessionVars, historyVars
<1>2. \E pc \in LoginPC : login' = [login EXCEPT ![l] = pc]
    BY DEF LoginArrives, LoginGetsLock, CallLogin, RejectLogin, QueueLogin, EnterLogin,
           AcquireLock, LoginPC, InsideLock
<1>3. login[l] # "starting"
  <2>1. CASE LoginArrives(l)
      BY <2>1 DEF LoginArrives, CallLogin
  <2>2. CASE LoginGetsLock(l)
      BY <2>2 DEF LoginGetsLock, AcquireLock, Consistent, WaitersQueued, TypeOK
  <2> QED
      BY <2>1, <2>2
<1>4. \A d \in Logins : login[d] = "starting" => login'[d] = "starting"
    BY <1>2, <1>3 DEF Consistent, TypeOK
<1>5. /\ state' \in Pending => process = attempt'
      /\ state' = "confirmed" => cookies # None /\ file # None
    BY <1>1, ClaimsKept
<1>6. CASE UNCHANGED clientVars
    BY <1>4, <1>5, <1>6, NoCallStep
<1>7. CASE Client!Run(l, "resume")
  <2>1. /\ call' = [call EXCEPT ![l] = [fun |-> "resume", at |-> "queued"]]
        /\ UNCHANGED <<process, cookies, file, approved, expired>>
      BY <1>7 DEF Client!Run, Client!upstreamVars
  <2> QED
      BY <2>1, <1>4, <1>5, CallStep DEF Callers, Client!Functions
<1> QED
    BY <1>1, <1>6, <1>7 DEF AwaitsIfInside

\* The outcomes that move a session forward stand for one raw answer each
\* (pytr_client.py 218-254).
LEMMA Translated ==
    ASSUME NEW raw \in Raw
    PROVE  /\ Client!Translate(raw) = "valid" => raw = "true"
           /\ Client!Translate(raw) \in Pending => raw = Client!Translate(raw)
           /\ Client!TranslateCompletion(raw) = "ok" => raw = "ok"
BY DEF Client!Translate, Client!TranslateCompletion, Raw, Client!Returned,
       Client!Exceptions, Pending

\* resume_session() of the adapter came back: the login is confirmed with the
\* cookies it loaded, goes on to initiate a weblogin, or fails (session.py
\* 106-114).
LEMMA AttachedResumes ==
    ASSUME Consistent, Attached, NEW l \in Logins, NEW raw \in Raw, LoginResumes(l, raw)
    PROVE  Attached'
<1>1. ResumeReturns(l, Client!Translate(raw)) /\ UNCHANGED attempt
    BY DEF LoginResumes, ResumeReturns, historyVars
<1>2. \A d \in Logins \ {l} : login[d] = "starting" => login'[d] = "starting"
    BY <1>1 DEF ResumeReturns, LeaveLock, Consistent, TypeOK
<1>3. state \notin Pending
    BY <1>1, NoneIsNoLogin DEF ResumeReturns, Consistent, LoginExclusion, InsideLock
<1>4. CASE raw = "false"
  <2>1. /\ call' = [call EXCEPT ![l] = [fun |-> "initiate", at |-> "queued"]]
        /\ UNCHANGED <<process, cookies, file, approved, expired>>
      BY <1>4 DEF LoginResumes, Client!Continue, Client!upstreamVars
  <2>2. login'[l] = "starting" /\ UNCHANGED state
      BY <1>1, <1>4 DEF ResumeReturns, Client!Translate, Consistent, TypeOK
  <2>3. /\ state' \in Pending => process = attempt'
        /\ state' = "confirmed" => cookies # None /\ file # None
      BY <1>1, <2>2, ClaimsKept
  <2>4. l \in Callers /\ "initiate" \in Client!Functions \cup {"none"}
      BY DEF Callers, Client!Functions
  <2> QED
      BY <1>2, <2>1, <2>2, <2>3, <2>4, CallStep, Zenon
<1>5. CASE raw # "false"
  <2>1. /\ call[l] = [fun |-> "resume", at |-> raw]
        /\ call' = [call EXCEPT ![l] = Client!Idle]
        /\ UNCHANGED <<process, cookies, file, approved, expired>>
      BY <1>5 DEF LoginResumes, Client!Collect, Client!upstreamVars
  <2>2. raw = "true" => cookies # None /\ file # None
      BY <2>1 DEF Attached, CookiesAreApproved, Callers
  <2>3. state' \in {state, "failed"} \/ (raw = "true" /\ state' = "confirmed")
    <3>1. \/ state' \in {state, "failed"}
          \/ Client!Translate(raw) = "valid" /\ state' = "confirmed"
        BY <1>1 DEF ResumeReturns, Fail
    <3> QED
        BY <3>1, Translated
  <2>4. state = "confirmed" => cookies # None /\ file # None
      BY NoneIsNoLogin DEF Attached, ConfirmedIsPersisted, CookiesAreApproved
  <2>5. /\ state' \in Pending => process = attempt'
        /\ state' = "confirmed" => cookies # None /\ file # None
      BY <1>3, <2>2, <2>3, <2>4 DEF Pending
  <2>6. l \in Callers
      BY DEF Callers
  <2> QED
      BY <1>2, <2>1, <2>5, <2>6, CollectStep
<1> QED
    BY <1>4, <1>5

\* start_login() of the adapter came back: the handle holds the process of the
\* login that is now pending; a poller takes its turn on the executor
\* (session.py 111-125).
LEMMA AttachedChallenged ==
    ASSUME Consistent, Attached, NEW l \in Logins, NEW raw \in Raw, LoginIsChallenged(l, raw)
    PROVE  Attached'
<1>1. ChallengeReturns(l, Client!Translate(raw))
    BY DEF LoginIsChallenged
<1>2. \A d \in Logins \ {l} : login[d] = "starting" => login'[d] = "starting"
    BY <1>1 DEF ChallengeReturns, LeaveLock, Consistent, TypeOK
<1>3. state \notin Pending
    BY <1>1, NoneIsNoLogin DEF ChallengeReturns, Consistent, LoginExclusion, InsideLock
<1>4. call[l] = [fun |-> "initiate", at |-> raw] /\ l \in Callers
      /\ UNCHANGED <<process, cookies, file, approved, expired>>
    BY DEF LoginIsChallenged, Client!Collect, Client!Continue, Client!upstreamVars, Callers
<1>5. raw \in Pending => process = l
    BY <1>4 DEF Attached, HandleIsOwned
<1>6. state' \in {state, "failed"} \/ (raw \in Pending /\ state' = raw /\ attempt' = l)
  <2>1. \/ state' \in {state, "failed"}
        \/ /\ Client!Translate(raw) \in Pending
           /\ state' = Client!Translate(raw) /\ attempt' = l
      BY <1>1 DEF ChallengeReturns, Fail, Pending, sessionVars
  <2> QED
      BY <2>1, Translated
<1>7. state = "confirmed" => cookies # None /\ file # None
    BY NoneIsNoLogin DEF Attached, ConfirmedIsPersisted, CookiesAreApproved
<1>8. /\ state' \in Pending => process = attempt'
      /\ state' = "confirmed" => cookies # None /\ file # None
    BY <1>3, <1>5, <1>6, <1>7 DEF Pending
<1>9. CASE raw = "push"
  <2>1. call' = [call EXCEPT ![l] = [fun |-> "poll", at |-> "queued"]]
      BY <1>9 DEF LoginIsChallenged, Client!Continue
  <2>2. process # None /\ "poll" \in Client!Functions \cup {"none"}
      BY <1>5, <1>9, NoneIsNoLogin DEF Pending, Client!Functions
  <2> QED
      BY <1>2, <1>4, <1>8, <2>1, <2>2, CallStep, Zenon
<1>10. CASE raw # "push"
  <2>1. call' = [call EXCEPT ![l] = Client!Idle]
      BY <1>10 DEF LoginIsChallenged, Client!Collect
  <2> QED
      BY <1>2, <1>4, <1>8, <2>1, CollectStep
<1> QED
    BY <1>9, <1>10

\* complete_login(code) is called on the process of the pending login, and goes
\* from one function to the next; the cookies are saved once they are issued
\* (pytr_client.py 76-89).
LEMMA AttachedCode ==
    ASSUME Consistent, Attached, NEW s \in Submits, CodeArrives(s) \/ CodeGoesOn(s)
    PROVE  Attached'
<1>1. UNCHANGED <<state, attempt, login>>
    BY DEF CodeArrives, CodeGoesOn, CallSubmit, vars, sessionVars, requestVars, historyVars
<1>2. /\ state' \in Pending => process = attempt'
      /\ state' = "confirmed" => cookies # None /\ file # None
    BY <1>1, ClaimsKept
<1>3. \A d \in Logins : login[d] = "starting" => login'[d] = "starting"
    BY <1>1
<1>4. s \in Callers /\ {"verify", "confirm", "save"} \subseteq Client!Functions \cup {"none"}
    BY DEF Callers, Client!Functions
<1>5. CASE CodeArrives(s)
  <2>1. CASE UNCHANGED clientVars
      BY <1>2, <1>3, <2>1, NoCallStep
  <2>2. CASE submit'[s] = "completing"
    <3>1. state = "authenticator"
        BY <1>5, <2>2 DEF CodeArrives, CallSubmit, Consistent, TypeOK
    <3>2. process # None
        BY <3>1, PendingHasAttempt DEF Attached, HandleHoldsAttempt, Pending
    <3>3. /\ call' = [call EXCEPT ![s] = [fun |-> "verify", at |-> "queued"]]
          /\ UNCHANGED <<process, cookies, file, approved, expired>>
        BY <1>5, <2>2 DEF CodeArrives, Client!Run, Client!CompletionSteps, Client!upstreamVars
    <3> QED
        BY <1>2, <1>3, <1>4, <3>2, <3>3, CallStep, Zenon
  <2> QED
      BY <1>5, <2>1, <2>2 DEF CodeArrives
<1>6. CASE CodeGoesOn(s)
  <2>1. \/ Client!Continue(s, "verify", "ok", "confirm")
        \/ Client!Continue(s, "confirm", "ok", "save")
      BY <1>6 DEF CodeGoesOn, Client!CompletionSteps
  <2>2. CASE Client!Continue(s, "verify", "ok", "confirm")
    <3>1. call[s] = [fun |-> "verify", at |-> "ok"]
        BY <2>2 DEF Client!Continue
    <3>2. process # None
        BY <1>4, <3>1 DEF Attached, HandleIsOwned
    <3>3. /\ call' = [call EXCEPT ![s] = [fun |-> "confirm", at |-> "queued"]]
          /\ UNCHANGED <<process, cookies, file, approved, expired>>
        BY <2>2 DEF Client!Continue, Client!upstreamVars
    <3> QED
        BY <1>2, <1>3, <1>4, <3>2, <3>3, CallStep, Zenon
  <2>3. CASE Client!Continue(s, "confirm", "ok", "save")
    <3>1. call[s] = [fun |-> "confirm", at |-> "ok"]
        BY <2>3 DEF Client!Continue
    <3>2. process # None /\ cookies # None
        BY <1>4, <3>1 DEF Attached, HandleIsOwned, CookiesAreApproved
    <3>3. /\ call' = [call EXCEPT ![s] = [fun |-> "save", at |-> "queued"]]
          /\ UNCHANGED <<process, cookies, file, approved, expired>>
        BY <2>3 DEF Client!Continue, Client!upstreamVars
    <3> QED
        BY <1>2, <1>3, <1>4, <3>2, <3>3, CallStep, Zenon
  <2> QED
      BY <2>1, <2>2, <2>3
<1> QED
    BY <1>5, <1>6

\* A code confirms only when the cookies are saved, and moves no login
\* (session.py 139-157).
LEMMA AttachedCodeReturns ==
    ASSUME Consistent, Attached, NEW s \in Submits,
           NEW i \in 1..Len(Client!CompletionSteps), NEW raw \in Raw, CodeReturns(s, i, raw)
    PROVE  Attached'
<1>1. SubmitReturns(s, Client!TranslateCompletion(raw)) /\ UNCHANGED <<login, attempt>>
    BY DEF CodeReturns, SubmitReturns, historyVars
<1>2. /\ s \in Callers
      /\ call' = [call EXCEPT ![s] = Client!Idle]
      /\ UNCHANGED <<process, cookies, file, approved, expired>>
    BY DEF CodeReturns, Client!Collect, Client!upstreamVars, Callers
<1>3. raw = "ok" => call[s] = [fun |-> "save", at |-> "ok"]
    BY DEF CodeReturns, Client!Collect, Client!CompletionSteps
<1>4. raw = "ok" => cookies # None /\ file # None
    BY <1>2, <1>3 DEF Attached, CookiesAreApproved
<1>5. \/ state' \in {state, "failed"}
      \/ Client!TranslateCompletion(raw) = "ok" /\ state' = "confirmed"
    BY <1>1 DEF SubmitReturns, Fail
<1>6. /\ state \in Pending => process = attempt
      /\ state = "confirmed" => cookies # None /\ file # None
    BY NoneIsNoLogin DEF Attached, HandleHoldsAttempt, ConfirmedIsPersisted, CookiesAreApproved
<1>7. /\ state' \in Pending => process = attempt'
      /\ state' = "confirmed" => cookies # None /\ file # None
    BY <1>1, <1>4, <1>5, <1>6, Translated DEF Pending
<1>8. \A d \in Logins \ {s} : login[d] = "starting" => login'[d] = "starting"
    BY <1>1
<1> QED
    BY <1>2, <1>7, <1>8, CollectStep

\* A poller confirms only when pytr has saved the cookies (session.py 206-229).
LEMMA AttachedPoll ==
    ASSUME Consistent, Attached, NEW l \in Logins, NEW raw \in Raw, PollReturns(l, raw)
    PROVE  Attached'
<1>1. PushReturns(l, Client!TranslateCompletion(raw)) /\ UNCHANGED <<login, attempt>>
    BY DEF PollReturns, PushReturns, requestVars, historyVars
<1>2. /\ l \in Callers
      /\ call' = [call EXCEPT ![l] = Client!Idle]
      /\ UNCHANGED <<process, cookies, file, approved, expired>>
    BY DEF PollReturns, Client!Collect, Client!upstreamVars, Callers
<1>3. raw = "ok" => call[l] = [fun |-> "poll", at |-> "ok"]
    BY DEF PollReturns, Client!Collect
<1>4. raw = "ok" => cookies # None /\ file # None
    BY <1>2, <1>3 DEF Attached, CookiesAreApproved
<1>5. \/ state' \in {state, "failed"}
      \/ Client!TranslateCompletion(raw) = "ok" /\ state' = "confirmed"
    BY <1>1 DEF PushReturns, Fail
<1>6. /\ state \in Pending => process = attempt
      /\ state = "confirmed" => cookies # None /\ file # None
    BY NoneIsNoLogin DEF Attached, HandleHoldsAttempt, ConfirmedIsPersisted, CookiesAreApproved
<1>7. /\ state' \in Pending => process = attempt'
      /\ state' = "confirmed" => cookies # None /\ file # None
    BY <1>1, <1>4, <1>5, <1>6, Translated DEF Pending
<1>8. \A d \in Logins \ {l} : login[d] = "starting" => login'[d] = "starting"
    BY <1>1
<1> QED
    BY <1>2, <1>7, <1>8, CollectStep

\* The timeout abandons at most the poll of the login it fails (session.py
\* 186-204).
LEMMA AttachedTimeout ==
    ASSUME Consistent, Attached, NEW l \in Logins, TimeoutEnds(l)
    PROVE  Attached'
<1>1. UNCHANGED <<login, attempt>> /\ state' \in {state, "failed"}
    BY DEF TimeoutEnds, TimeoutFires, requestVars, historyVars
<1>2. /\ state' \in Pending => process = attempt'
      /\ state' = "confirmed" => cookies # None /\ file # None
    BY <1>1, NoneIsNoLogin DEF Attached, HandleHoldsAttempt, ConfirmedIsPersisted,
       CookiesAreApproved, Pending
<1>3. \A d \in Logins : login[d] = "starting" => login'[d] = "starting"
    BY <1>1
<1>4. CASE UNCHANGED clientVars
    BY <1>2, <1>3, <1>4, NoCallStep
<1>5. CASE polling' # polling /\ Client!Abandon(pushTask)
  <2>1. pushTask \in Callers
      BY DEF Consistent, TypeOK, Callers
  <2>2. UNCHANGED <<process, cookies, file, approved, expired>>
      BY <1>5 DEF Client!Abandon, Client!upstreamVars
  <2>3. CASE call' = [call EXCEPT ![pushTask] = Client!Idle]
      BY <1>2, <1>3, <2>1, <2>2, <2>3, CollectStep
  <2>4. CASE UNCHANGED <<call, backlog>>
      BY <1>2, <1>3, <2>2, <2>4, NoCallStep DEF clientVars
  <2> QED
      BY <1>5, <2>3, <2>4 DEF Client!Abandon, Client!executorVars
<1> QED
    BY <1>4, <1>5 DEF TimeoutEnds

\* A timeline request starts with a confirmed session's cookies, and finds
\* cookies in the jar until it ends (session.py 167-171, pytr_client.py
\* 113-126).
LEMMA AttachedFetch ==
    ASSUME Attached, NEW f \in Fetches,
           FetchArrives(f) \/ FetchRefreshed(f) \/ FetchEnds(f)
    PROVE  Attached'
<1>1. UNCHANGED <<state, attempt, login>> /\ f \in Callers
    BY DEF FetchArrives, FetchRefreshed, FetchEnds, vars, sessionVars, requestVars,
       historyVars, Callers
<1>2. /\ state' \in Pending => process = attempt'
      /\ state' = "confirmed" => cookies # None /\ file # None
    BY <1>1, ClaimsKept
<1>3. \A d \in Logins \ {f} : login[d] = "starting" => login'[d] = "starting"
    BY <1>1
<1>4. {"settings", "timeline"} \subseteq Client!Functions \cup {"none"}
    BY DEF Client!Functions
<1>5. CASE FetchArrives(f)
  <2>1. cookies # None
      BY <1>1, <1>2, <1>5 DEF FetchArrives
  <2>2. /\ call' = [call EXCEPT ![f] = [fun |-> "settings", at |-> "queued"]]
        /\ UNCHANGED <<process, cookies, file, approved, expired>>
      BY <1>5 DEF FetchArrives, Client!Run, Client!upstreamVars
  <2> QED
      BY <1>1, <1>2, <1>3, <1>4, <2>1, <2>2, CallStep, Zenon
<1>6. CASE Client!Stream(f)
  <2>1. cookies # None
      BY <1>1, <1>6 DEF Client!Stream, Attached, CookiesAreApproved
  <2>2. /\ call' = [call EXCEPT ![f] = [fun |-> "timeline", at |-> "streaming"]]
        /\ UNCHANGED <<process, cookies, file, approved, expired>>
      BY <1>6 DEF Client!Stream, Client!upstreamVars
  <2> QED
      BY <1>1, <1>2, <1>3, <1>4, <2>1, <2>2, CallStep, Zenon
<1>7. CASE call' = [call EXCEPT ![f] = Client!Idle]
           /\ UNCHANGED <<process, cookies, file, approved, expired>>
    BY <1>1, <1>2, <1>3, <1>7, CollectStep
<1> QED
    BY <1>5, <1>6, <1>7 DEF FetchRefreshed, FetchEnds, Client!StreamEnds, Client!Collect,
       Client!upstreamVars

------------------------------------------------------------------------------
(* The theorems.                                                             *)

\* Every step of the bridge keeps the handle, the cookies and the session in
\* agreement.
LEMMA AttachedStep == Consistent /\ Attached /\ [BridgeNext]_bridgeVars => Attached'
<1> SUFFICES ASSUME Consistent, Attached, [BridgeNext]_bridgeVars
             PROVE  Attached'
    OBVIOUS
<1>1. CASE UNCHANGED bridgeVars
  <2>1. UNCHANGED clientVars /\ UNCHANGED <<state, attempt, login>>
      BY <1>1 DEF bridgeVars, vars, sessionVars, requestVars, historyVars
  <2>2. \A d \in Logins : login[d] = "starting" => login'[d] = "starting"
      BY <2>1
  <2> QED
      BY <2>1, <2>2, ClaimsKept, NoCallStep
<1>2. CASE Threaded
    BY <1>2, AttachedThreaded
<1>3. CASE StartupResumes \/ \E raw \in Raw : StartupEnds(raw)
    BY <1>3, AttachedStartup
<1>4. CASE Stop
    BY <1>4, AttachedStop
<1>5. ASSUME NEW l \in Logins, LoginArrives(l) \/ LoginGetsLock(l)
      PROVE  Attached'
    BY <1>5, AttachedEnter
<1>6. ASSUME NEW l \in Logins, TimeoutEnds(l)
      PROVE  Attached'
    BY <1>6, AttachedTimeout
<1>7. ASSUME NEW l \in Logins, NEW raw \in Raw,
             LoginResumes(l, raw) \/ LoginIsChallenged(l, raw) \/ PollReturns(l, raw)
      PROVE  Attached'
    BY <1>7, AttachedResumes, AttachedChallenged, AttachedPoll
<1>8. ASSUME NEW s \in Submits, CodeArrives(s) \/ CodeGoesOn(s)
      PROVE  Attached'
    BY <1>8, AttachedCode
<1>9. ASSUME NEW s \in Submits, NEW i \in 1..Len(Client!CompletionSteps),
             NEW raw \in Raw, CodeReturns(s, i, raw)
      PROVE  Attached'
    BY <1>9, AttachedCodeReturns
<1>10. ASSUME NEW f \in Fetches, FetchArrives(f) \/ FetchRefreshed(f) \/ FetchEnds(f)
       PROVE  Attached'
    BY <1>10, AttachedFetch
<1> QED
    BY <1>1, <1>2, <1>3, <1>4, <1>5, <1>6, <1>7, <1>8, <1>9, <1>10 DEF BridgeNext, Loop

\* The invariant of the shared handle holds, given the session's own.
THEOREM Attachment == BridgeSpec => []Attached
<1>1. BridgeInit => Attached
    BY AttachedInit
<1>2. Consistent /\ Attached /\ [BridgeNext]_bridgeVars => Attached'
    BY AttachedStep
<1>3. BridgeSpec => []Consistent
    BY Composition, Consistency, PTL
<1> QED
    BY <1>1, <1>2, <1>3, PTL DEF BridgeSpec

\* While a login waits for its second factor, the handle all logins share holds
\* the process of that login (session.py 99-124, pytr_client.py 60-68).
THEOREM HandleHolds == BridgeSpec => []HandleHoldsAttempt
<1>1. Attached => HandleHoldsAttempt
    BY DEF Attached
<1> QED
    BY <1>1, Attachment, PTL

\* Whatever happens to the session between the check of a timeline request and
\* its end, the request goes to Trade Republic with the cookies of an approved
\* login (session.py 167-171, pytr_client.py 113-126).
THEOREM FetchSession == BridgeSpec => []FetchHasSession
<1>1. Attached => FetchHasSession
    BY DEF Attached, CookiesAreApproved, FetchHasSession, Callers
<1> QED
    BY <1>1, Attachment, PTL

\* A confirmed session is approved by Trade Republic, in the cookie jar and on
\* disk (session.py 155, 214; pytr_client.py 76-89).
THEOREM Persistence == BridgeSpec => []ConfirmedIsPersisted
<1>1. Attached => ConfirmedIsPersisted
    BY DEF Attached
<1> QED
    BY <1>1, Attachment, PTL
==============================================================================
