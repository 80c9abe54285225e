-------------------------------- MODULE Bridge --------------------------------
(***************************************************************************)
(* One instance as the registry wires it: an InstanceSession (Session) over *)
(* a PytrClient (PytrClient) that shares one handle and a bounded thread   *)
(* pool between every login, submission, poller and timeline request.      *)
(* Each action is a step of the event loop - an action of the session      *)
(* together with what its coroutine does through the port - or a step of a *)
(* thread.                                                                 *)
(***************************************************************************)
EXTENDS Session, Naturals

CONSTANTS
    Fetches,   \* clients that ask for the timeline, one request at a time
    Threads    \* size of the default executor's thread pool

ASSUME ThreadsAreSome == Threads \in Nat \ {0}

\* A call says whose it is.
ASSUME CallersDiffer ==
    /\ None \notin Submits \cup Fetches
    /\ Logins \cap Submits = {} /\ (Logins \cup Submits) \cap Fetches = {}

VARIABLES call, backlog, process, cookies, file, approved, expired

\* None is the caller of the startup's resume().
Callers == Logins \cup Submits \cup Fetches \cup {None}

Client == INSTANCE PytrClient

clientVars == <<call, backlog, process, cookies, file, approved, expired>>
bridgeVars == <<vars, clientVars>>

BridgeInit == Init /\ Client!Init

------------------------------------------------------------------------------
(* Startup and restart.                                                      *)

StartupResumes ==
    /\ ~serving
    /\ call[None] = Client!Idle
    /\ Client!Run(None, "resume")
    /\ UNCHANGED vars

StartupEnds(raw) ==
    /\ Client!Collect(None, "resume", raw)
    /\ Resume(Client!Translate(raw))

Stop == Restart /\ Client!Crash

------------------------------------------------------------------------------
(* start_login(): resume_session() and start_login() of the adapter.         *)

\* A login that gets into the lock awaits resume_session() at once.
AwaitsIfInside(l) ==
    IF login'[l] = "resuming" THEN Client!Run(l, "resume") ELSE UNCHANGED clientVars

LoginArrives(l) == CallLogin(l) /\ AwaitsIfInside(l)

LoginGetsLock(l) == AcquireLock(l) /\ AwaitsIfInside(l)

LoginResumes(l, raw) ==
    /\ ResumeReturns(l, Client!Translate(raw))
    /\ IF raw = "false"
       THEN Client!Continue(l, "resume", raw, "initiate")
       ELSE Client!Collect(l, "resume", raw)

\* Mutant of LoginIsChallenged: the poller is created but awaits nothing.
LoginChallengedNoPoll(l, raw) ==
    /\ ChallengeReturns(l, Client!Translate(raw))
    /\ Client!Collect(l, "initiate", raw)

\* A push challenge leaves the login's name to the poller it starts.
LoginIsChallenged(l, raw) ==
    /\ ChallengeReturns(l, Client!Translate(raw))
    /\ IF raw = "push"
       THEN Client!Continue(l, "initiate", raw, "poll")
       ELSE Client!Collect(l, "initiate", raw)

------------------------------------------------------------------------------
(* submit_2fa(): complete_login(code) of the adapter.                        *)

CodeArrives(s) ==
    /\ CallSubmit(s)
    /\ IF submit'[s] = "completing"
       THEN Client!Run(s, Client!CompletionSteps[1])
       ELSE UNCHANGED clientVars

\* One function of complete_login(code) returned: on to the next.
CodeGoesOn(s) ==
    /\ \E i \in 1..(Len(Client!CompletionSteps) - 1) :
          Client!Continue(s, Client!CompletionSteps[i], "ok", Client!CompletionSteps[i + 1])
    /\ UNCHANGED vars

\* The last one returned, or one of them raised.
CodeReturns(s, i, raw) ==
    /\ raw = "ok" => i = Len(Client!CompletionSteps)
    /\ Client!Collect(s, Client!CompletionSteps[i], raw)
    /\ SubmitReturns(s, Client!TranslateCompletion(raw))

------------------------------------------------------------------------------
(* The background tasks: complete_login() without a code, and the timeout.   *)

PollReturns(l, raw) ==
    /\ Client!Collect(l, "poll", raw)
    /\ PushReturns(l, Client!TranslateCompletion(raw))

TimeoutEnds(l) ==
    /\ TimeoutFires(l)
    /\ IF polling' # polling THEN Client!Abandon(pushTask) ELSE UNCHANGED clientVars

------------------------------------------------------------------------------
(* fetch_timeline(): the refresh on a thread, the events on the loop.  It    *)
(* changes nothing of the session.  A request that finds it not confirmed is *)
(* answered at once.                                                         *)

\* Mutant of FetchArrives: the session's state is not asked.
FetchUnchecked(f) ==
    /\ serving /\ call[f] = Client!Idle
    /\ Client!Run(f, "settings")
    /\ UNCHANGED vars

FetchArrives(f) ==
    /\ serving /\ call[f] = Client!Idle
    /\ state = "confirmed"
    /\ Client!Run(f, "settings")
    /\ UNCHANGED vars

\* The refresh returned, or raised and ends the request.
FetchRefreshed(f) ==
    /\ \/ Client!Stream(f)
       \/ \E raw \in Client!Exceptions : Client!Collect(f, "settings", raw)
    /\ UNCHANGED vars

FetchEnds(f) == Client!StreamEnds(f) /\ UNCHANGED vars

------------------------------------------------------------------------------

Raw == Client!Returned \cup Client!Exceptions

Loop ==
    \/ StartupResumes \/ Stop
    \/ \E raw \in Raw : StartupEnds(raw)
    \/ \E l \in Logins : LoginArrives(l) \/ LoginGetsLock(l) \/ TimeoutEnds(l)
    \/ \E l \in Logins, raw \in Raw :
          LoginResumes(l, raw) \/ LoginIsChallenged(l, raw) \/ PollReturns(l, raw)
    \/ \E s \in Submits : CodeArrives(s) \/ CodeGoesOn(s)
    \/ \E s \in Submits, i \in 1..Len(Client!CompletionSteps), raw \in Raw :
          CodeReturns(s, i, raw)
    \/ \E f \in Fetches : FetchArrives(f) \/ FetchRefreshed(f) \/ FetchEnds(f)

Threaded == Client!External /\ UNCHANGED vars

BridgeNext == Loop \/ Threaded

BridgeSpec == BridgeInit /\ [][BridgeNext]_bridgeVars

\* The loop runs every callback that is ready.
LoopRuns ==
    /\ \A l \in Logins :
          /\ WF_bridgeVars(LoginGetsLock(l))
          /\ WF_bridgeVars(\E raw \in Raw : LoginResumes(l, raw) \/ LoginIsChallenged(l, raw))
          /\ WF_bridgeVars(\E raw \in Raw : PollReturns(l, raw))
    /\ \A s \in Submits :
          WF_bridgeVars(CodeGoesOn(s)
             \/ \E i \in 1..Len(Client!CompletionSteps), raw \in Raw : CodeReturns(s, i, raw))
    /\ \A f \in Fetches : WF_bridgeVars(FetchRefreshed(f))

\* A free thread starts the oldest call, and every blocking call ends.
ThreadsRun ==
    \A c \in Logins \cup Submits \cup Fetches :
        /\ WF_bridgeVars(Client!Start(c) /\ UNCHANGED vars)
        /\ WF_bridgeVars(Client!Blocking(c) /\ UNCHANGED vars)

BridgeFairSpec == BridgeSpec /\ LoopRuns /\ ThreadsRun

------------------------------------------------------------------------------
(* Properties.                                                               *)

\* The types of the adapter's variables: sessions and processes are those of
\* logins, and a session that has expired was approved once.
ClientTypeOK == Client!TypeOK

\* The handle and the session agree on the login: while a second factor is
\* outstanding the handle holds the process of that very login, so a code is
\* verified against the challenge it answers.  The session never says which
\* process it means: the lock and the double check have to guarantee it
\* (session.py 99-124, pytr_client.py 60-68).
HandleHoldsAttempt == state \in Pending => process = attempt

\* A confirmed session is one that Trade Republic has approved, in the cookie
\* jar and on disk, so a restart finds it: whatever late submission or poller
\* confirmed it (session.py 155, 214; pytr_client.py 76-89).
ConfirmedIsPersisted == state = "confirmed" => cookies \in approved /\ file \in approved

\* Every coroutine that awaits the adapter has a call on the executor to wait
\* for, the one its place in the code asks for; nobody awaits a call that was
\* abandoned.
AwaitsItsCall ==
    /\ \A l \in Logins :
          /\ login[l] = "resuming" => call[l].fun = "resume"
          /\ login[l] = "starting" => call[l].fun = "initiate"
          /\ l \in polling => call[l].fun = "poll"
    /\ \A s \in Submits : submit[s] = "completing" <=> call[s] # Client!Idle

\* A timeline request checks the session once and suspends twice.  Whatever
\* fails the session or logs it in anew meanwhile, the cookies it goes to Trade
\* Republic with are never those of a login that was not approved: they are
\* replaced, by no login before its approval, and not taken away (session.py
\* 167-171, pytr_client.py 113-126).
FetchHasSession ==
    \A f \in Fetches : call[f].fun \in {"settings", "timeline"} => cookies \in approved

\* Nobody waits in a circle, or for nothing: a login that waits for the lock is
\* in its queue, and the lock is either free for the head of the queue or held by
\* a login that has a call on the executor, which waits for nobody but a thread
\* (session.py 99-107).
EveryWaiterHasATurn ==
    \A l \in Logins : login[l] = "queued" =>
        /\ \E i \in 1..Len(lockQueue) : lockQueue[i] = l
        /\ lockHolder # None => call[lockHolder] # Client!Idle

\* The inductive invariant of the handle, together with the session's own: a
\* weblogin is initiated only by the login inside the lock, and the process it
\* opened is the handle's until that login has its challenge; whoever completes
\* a login finds a process; cookies are issued before they are saved; and the
\* web sessions the adapter reports are approved ones, in jar and file.
HandleIsOwned ==
    \A c \in Callers :
        /\ call[c].fun = "initiate" => c \in Logins /\ login[c] = "starting"
        /\ call[c].fun = "initiate" /\ call[c].at \in Pending => process = c
        /\ call[c].fun = "poll" => c \in Logins
        /\ call[c].fun \in {"poll", "verify", "confirm", "save"} => process # None

CookiesAreApproved ==
    /\ process \in Logins \cup {None}
    /\ expired \subseteq approved /\ approved \subseteq Logins
    /\ {cookies, file} \subseteq approved \cup {None}
    /\ \A c \in Callers :
          /\ call[c].fun = "save" \/ call[c] = [fun |-> "confirm", at |-> "ok"]
                => cookies # None
          /\ call[c] \in [fun : {"resume", "poll", "save"}, at : {"true", "ok"}]
                => cookies # None /\ file # None
          /\ call[c].fun \in {"settings", "timeline"} => cookies # None

Attached ==
    /\ call \in [Callers -> [fun : Client!Functions \cup {"none"}, at : Client!Places]]
    /\ HandleIsOwned
    /\ HandleHoldsAttempt
    /\ CookiesAreApproved
    /\ ConfirmedIsPersisted

\* Every login and every code is answered, and every timeline request gets past
\* its refresh, although all calls share a bounded pool with the pollers of
\* logins that are over (pytr_client.py 195-198, session.py 207-210).  Nothing
\* bounds the stream of events that follows the refresh.
RequestsAnswered ==
    /\ \A l \in Logins : login[l] # "new" ~> login[l] \in {"done", "challenged"}
    /\ \A s \in Submits : submit[s] = "completing" ~> submit[s] # "completing"
    /\ \A f \in Fetches : call[f].fun = "settings" ~> call[f].fun # "settings"
==============================================================================
