------------------------------ MODULE PytrClient ------------------------------
(***************************************************************************)
(* PytrClient of tr_bridge/adapters/pytr/pytr_client.py: the adapter that  *)
(* runs pytr's blocking functions on the threads of the default executor,  *)
(* on one TradeRepublicApi handle shared by every call, and translates     *)
(* their exceptions.                                                       *)
(*                                                                         *)
(* A caller awaits one function at a time: it is queued, started by a free *)
(* thread, returns, and is then collected by the event loop.  pytr, the    *)
(* cookie file and Trade Republic are external: they are modelled by what  *)
(* the adapter expects of them.  A login process and the web session it    *)
(* ends in have the name of the login that initiated the process.          *)
(***************************************************************************)
EXTENDS Naturals, Sequences, FiniteSets

CONSTANTS
    Logins,    \* the logins that initiate a weblogin
    Callers,   \* the requests and tasks that await the adapter
    Threads,   \* size of the default executor's thread pool
    None       \* no process, no session, no cookie file

VARIABLES
    call,      \* per caller: the function it has on the executor, and how far
    backlog,   \* the executor's queue of calls no thread has started
    process,   \* the login process the handle holds
    cookies,   \* the web session in the handle's cookie jar
    file,      \* the web session saved in cookies.txt
    approved,  \* the processes whose second factor Trade Republic accepted
    expired    \* the web sessions Trade Republic no longer accepts

executorVars == <<call, backlog>>
upstreamVars == <<process, cookies, file, approved, expired>>
vars == <<executorVars, upstreamVars>>

\* pytr's functions: resume_websession, initiate_weblogin, complete_weblogin
\* without and with a code, _await_weblogin_confirmation, save_websession,
\* settings; and Timeline.tl_loop(), which runs on the event loop itself.
Functions ==
    {"resume", "initiate", "poll", "verify", "confirm", "save", "settings", "timeline"}

\* What a blocking function raises.  "json" is requests' JSONDecodeError,
\* which is a RequestException and a ValueError at once.
Exceptions == {"http", "json", "value", "other"}
Returned == {"true", "false", "authenticator", "push", "ok"}
Places == {"idle", "queued", "running", "streaming"} \cup Returned \cup Exceptions

Idle == [fun |-> "none", at |-> "idle"]
Running == {c \in Callers : call[c].at = "running"}

TypeOK ==
    /\ call \in [Callers -> [fun : Functions \cup {"none"}, at : Places]]
    /\ backlog \in Seq(Callers)
    /\ {process, cookies, file} \subseteq Logins \cup {None}
    /\ expired \subseteq approved /\ approved \subseteq Logins

Init ==
    /\ call = [c \in Callers |-> Idle]
    /\ backlog = <<>>
    /\ process = None
    /\ cookies = None
    /\ file = None
    /\ approved = {}
    /\ expired = {}

------------------------------------------------------------------------------
(* The adapter.                                                              *)

\* _run(): loop.run_in_executor(None, func)
Run(c, fun) ==
    /\ call' = [call EXCEPT ![c] = [fun |-> fun, at |-> "queued"]]
    /\ backlog' = Append(backlog, c)
    /\ UNCHANGED upstreamVars

\* The event loop collects what a thread returned or raised.
Collect(c, fun, raw) ==
    /\ call[c] = [fun |-> fun, at |-> raw]
    /\ raw \in Returned \cup Exceptions
    /\ call' = [call EXCEPT ![c] = Idle]
    /\ UNCHANGED <<backlog, upstreamVars>>

\* ... and the coroutine goes on to await the next function.
Continue(c, fun, raw, next) ==
    /\ call[c] = [fun |-> fun, at |-> raw]
    /\ call' = [call EXCEPT ![c] = [fun |-> next, at |-> "queued"]]
    /\ backlog' = Append(backlog, c)
    /\ UNCHANGED upstreamVars

\* fetch_timeline: the web session is refreshed, the events are streamed ...
Stream(c) ==
    /\ call[c] = [fun |-> "settings", at |-> "ok"]
    /\ call' = [call EXCEPT ![c] = [fun |-> "timeline", at |-> "streaming"]]
    /\ UNCHANGED <<backlog, upstreamVars>>

\* ... and tl_loop() returned or raised.
StreamEnds(c) ==
    /\ call[c] = [fun |-> "timeline", at |-> "streaming"]
    /\ call' = [call EXCEPT ![c] = Idle]
    /\ UNCHANGED <<backlog, upstreamVars>>

\* The awaiting task is cancelled: a call that no thread has started is never
\* made, though its place in the queue stays; a running one goes on without
\* anybody waiting for it.
Abandon(c) ==
    /\ call' = IF call[c].at = "queued" THEN [call EXCEPT ![c] = Idle] ELSE call
    /\ UNCHANGED <<backlog, upstreamVars>>

\* The except clauses of resume_session and start_login.
Translate(raw) ==
    CASE raw \in {"http", "json"} -> "upstream"
      [] raw \in {"value", "other"} -> "unexpected"
      [] raw = "true" -> "valid"
      [] raw = "false" -> "none"
      [] OTHER -> raw

\* The except clauses of complete_login: ValueError comes first.
TranslateCompletion(raw) ==
    IF raw \in {"value", "json"} THEN "rejected" ELSE Translate(raw)

\* Mutants of CompletionSteps: the login process is not polled to completion;
\* the cookies are not saved.
StepsWithoutConfirm == <<"verify", "save">>
StepsWithoutSave == <<"verify", "confirm">>

\* complete_login(code) awaits these functions one after the other.
CompletionSteps == <<"verify", "confirm", "save">>

------------------------------------------------------------------------------
(* The executor's threads, pytr and Trade Republic.                          *)

\* A free thread takes the oldest call, and drops it if it was cancelled.
Start(c) ==
    /\ backlog # <<>> /\ Head(backlog) = c
    /\ Cardinality(Running) < Threads
    /\ call' = IF call[c].at = "queued" THEN [call EXCEPT ![c].at = "running"] ELSE call
    /\ backlog' = Tail(backlog)
    /\ UNCHANGED upstreamVars

Finish(c, fun, raw) ==
    /\ call[c] = [fun |-> fun, at |-> "running"]
    /\ call' = [call EXCEPT ![c].at = raw]
    /\ UNCHANGED <<backlog, expired>>

\* resume_websession loads the cookie file and asks whether its session lives.
Resume(c) ==
    /\ \/ Finish(c, "resume", "false") /\ file \in expired \cup {None}
       \/ Finish(c, "resume", "true") /\ file \notin expired \cup {None}
    /\ cookies' = IF file = None THEN cookies ELSE file
    /\ UNCHANGED <<process, file, approved>>

\* initiate_weblogin opens a new process, named by the login that asks.
Initiate(c) ==
    /\ \E kind \in {"authenticator", "push"} : Finish(c, "initiate", kind)
    /\ process' = c
    /\ UNCHANGED <<cookies, file, approved>>

\* The code is right for the process the handle holds.
Verify(c) ==
    /\ Finish(c, "verify", "ok")
    /\ approved' = approved \cup {process}
    /\ UNCHANGED <<process, cookies, file>>

\* The confirmation poll ends: the session cookies are issued.
Confirm(c) ==
    /\ Finish(c, "confirm", "ok")
    /\ process \in approved
    /\ cookies' = process
    /\ UNCHANGED <<process, file, approved>>

Save(c) ==
    /\ Finish(c, "save", "ok")
    /\ file' = cookies
    /\ UNCHANGED <<process, cookies, approved>>

\* complete_weblogin() without a code polls until the user approves in the
\* app - the process it started with, or the one the handle holds by now -
\* and saves the cookies itself.
Poll(c) ==
    /\ Finish(c, "poll", "ok")
    /\ \E p \in {c, process} :
          /\ approved' = approved \cup {p}
          /\ cookies' = p
          /\ file' = p
    /\ UNCHANGED process

\* settings refreshes the web session in the cookie jar; Trade Republic answers
\* 401 to one that has expired.
Settings(c) ==
    /\ Finish(c, "settings", "ok")
    /\ cookies \in approved \ expired
    /\ UNCHANGED <<process, cookies, file, approved>>

\* Any function may raise.
Raise(c) ==
    /\ \E fun \in Functions, raw \in Exceptions : Finish(c, fun, raw)
    /\ UNCHANGED <<process, cookies, file, approved>>

Blocking(c) ==
    \/ Resume(c) \/ Initiate(c) \/ Verify(c) \/ Confirm(c) \/ Save(c) \/ Poll(c)
    \/ Settings(c) \/ Raise(c)

\* Trade Republic ends a web session without telling anybody.
Expire(p) ==
    /\ p \in approved \ expired
    /\ expired' = expired \cup {p}
    /\ UNCHANGED <<executorVars, process, cookies, file, approved>>

\* The process stops: threads, queue, handle and cookie jar are gone, the
\* file stays.
Crash ==
    /\ call' = [c \in Callers |-> Idle]
    /\ backlog' = <<>>
    /\ process' = None
    /\ cookies' = None
    /\ UNCHANGED <<file, approved, expired>>

External ==
    \/ \E c \in Callers : Start(c) \/ Blocking(c)
    \/ \E p \in approved : Expire(p)
==============================================================================
