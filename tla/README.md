# Verification of trade-republic-bridge

TLA+ models of the service in `src/tr_bridge`, the TLC runs that check them on small
instances and the theorems that TLAPS proves about them. Line numbers refer to the files
under `src/`; `PROJECT.json` maps every definition to the lines it models.

## 1. The system

The service is a thin HTTP wrapper around `pytr` for several Trade Republic accounts. It
runs on one asyncio event loop; `pytr`'s blocking functions run on the threads of the
loop's default executor.

| component | state it keeps | operations | talks to |
|---|---|---|---|
| `InstanceSession` (`application/session.py`), one per account | `_state`, `_lock`, `_timeout_task`, `_push_task` | `resume`, `start_login`, `submit_2fa`, `fetch_timeline`; two background tasks: the 2FA timeout and the push poller | awaits its `TradeRepublicClient` port |
| `PytrClient` (`adapters/pytr/pytr_client.py`), one per account | the lazily built `TradeRepublicApi` handle, with its login process and cookie jar; `cookies.txt` | `resume_session`, `start_login`, `complete_login`, `fetch_timeline`; translation of exceptions | the executor, pytr, Trade Republic |
| `InstanceRegistry` (`instance_registry.py`) and the lifespan (`main.py`) | the map from names to sessions | construction, `resume_all`, `get` | `Config`, every session |
| time window (`timewindow.py`) | none | `parse_window`, `to_utc_iso` | the timeline route |
| web adapter (`adapters/web`, `auth.py`, `errors.py`) | none | authentication, routes, error handlers | registry, sessions |
| `Config` (`config.py`) | an immutable snapshot | `load`, `from_file` | the YAML file |
| workflows (`.github`, `scripts`) | a git repository, its releases and images | prepare-release, release, changelog; CI | git, GitHub, the container registry |

What is hard in it:

- **Interleavings around awaits.** Every port call suspends its coroutine for as long as a
  blocking HTTP call takes. Meanwhile the timeout may fire, another request may come in, a
  poller of an earlier login may end. The state checked before the await says nothing about
  the state after it.
- **The lock with its double check.** `start_login` checks the state before it waits for
  `_lock` and again inside.
- **Tasks and their references.** `_timeout_task` and `_push_task` are overwritten, cancelled
  and cleared from four places, and a poller clears `_push_task` whoever owns it.
- **A shared handle.** The session never says which login process it means: a code is
  verified against the one the handle holds by then.
- **A bounded thread pool** for logins, codes and the polls of logins that are over;
  cancelling a poll does not stop its thread (`session.py` 207-210).
- **A fetch that overlaps everything.** `fetch_timeline` checks the state once, suspends
  twice, and shares handle and cookies with logins that replace them.
- **Partial failure and restart.** A code login takes three blocking calls; the process may
  stop between any two steps, and only `cookies.txt` survives.
- **Errors by class.** An exception finds its handler, its status and its code through its
  MRO; the middleware is outside the reach of all handlers but one.
- **Workflows that fail half-way and are rerun**, with no concurrency group between them.
- **Time at its boundaries.** Windows are compared as instants and echoed as wall clocks.

What makes each component correct:

- *InstanceSession*: one login at a time; a pending login always has its own live timeout and
  never outlives it; an approval confirms only a push login and a code only an authenticator
  login; a failed session is revived only by a new login.
- *PytrClient under a session*: while a second factor is outstanding the handle holds the
  process of that very login; a confirmed session has approved cookies on disk; nobody awaits
  a call that was given up.
- *Startup*: no request meets an unfinished `resume`; a failing instance stops nobody; no
  two entries of an accepted file share a session and a directory.
- *Web*: nothing behind the key without the key; the document says so truthfully; every
  error has its documented status and code (two have not).
- *Timeline*: the window that is echoed is the one that Trade Republic was asked for, in UTC
  and in order whatever the offsets; what was fetched is answered (not always).
- *Release*: a version is one and the same commit in git and in the registry; its image is
  published in the end; a change is listed once (or never).

The complete list of hazards, each at its line with the properties that cover it, is in
`PROJECT.json`.

## 2. The modules

| module | what it is |
|---|---|
| `LoginFlow` | what a login flow promises: at most one open attempt, opened once, resolved once |
| `Session` | `InstanceSession` over an arbitrary port |
| `SessionProperties` | its invariants, action properties, refinement mapping, liveness, and the promises of the text it breaks |
| `SessionProofs` | the theorems about `Session` |
| `PytrClient` | the adapter and the executor over an external pytr and Trade Republic |
| `Bridge` | `Session` composed with `PytrClient`, as the registry wires them |
| `BridgeProofs`, `ExecutorProofs` | the theorems about `Bridge`: the handle, the calls that are awaited and the lock's queue |
| `TimeWindow` | a timeline's window: as it is parsed, asked of Trade Republic and echoed |
| `Config` | what a configuration file is parsed into, or refused for |
| `Registry`, `RegistryProofs` | startup: loading, concurrent resumes on the pool, its refinement of `Session`, and the theorems about it |
| `Web`, `WebProofs` | one request through middleware, routing, handlers, the session and error handlers, and the theorems |
| `VersionLedger` | what a release promises: a version is claimed by one commit for good, released once, published as nothing else |
| `Release`, `ReleaseProofs` | the release workflows over one repository, and the theorems |
| `MCBridge`, `MCWeb` | symmetry; the files, the requests and a calendar, for TLC |

Two compositions. `LoginFlow` <- `Session` <- `Bridge` goes from the promise of a login to
the handle it is made with, for one instance. `Config` <- `Registry` <- `Web`, with
`TimeWindow`, goes from the file to a request, for all of them. They meet in `Web`'s action
`Call`: a handler awaits its session there, and `Raised` is what the operations of the session
and of the adapter may raise. And they meet in `Registry`'s `SessionsStart`: each instance of
the file starts as a `Session` of its own, without a login yet. `VersionLedger` <- `Release`
stands alone.

### Session

One action is what one coroutine does between two awaits that can suspend it. A request of
the port ends with an outcome the adapter can produce (`ResumeOutcomes`,
`ChallengeOutcomes`, `CompleteOutcomes`); `upstream` stands for `RateLimitedError` and
`TrUpstreamError`, which the session does not tell apart, and `unexpected` for everything the
adapter does not translate.

| code | model |
|---|---|
| `self._state` | `state` |
| `self._lock`: holder and FIFO waiters | `lockHolder`, `lockQueue` |
| `self._timeout_task`, and the timeout tasks alive | `timeoutTask`, `sleeping` |
| `self._push_task`, and the pollers alive | `pushTask`, `polling` |
| the coroutines of the routes | `login`, `submit` |
| lifespan startup over | `serving` |
| history, never read by a guard | `attempt`, `submittedFor` |

A task has the name of the login that created it, so "the reference is to *its own* timer"
can be said. `asyncio.Lock` is fair: a newcomer waits when anybody holds the lock or waits
for it; an uncontended lock is taken without suspending. `Restart` is a stop at any moment
that forgets everything but what a client has already been told.

Simplifications: a task that is cancelled takes no further step, and the `finally` of a
cancelled poller, which runs on the next pass of the loop, is merged with its cancellation -
a login that could start a new poller in between needs several round trips to the executor.
Requests are not cancelled when their client disconnects, which is what the framework does.

### PytrClient and Bridge

`call` says which blocking function a caller awaits and how far it is (queued, running,
returned, raised), `backlog` is the executor's queue. A call that is cancelled while it is
queued keeps its place until a thread takes it from there and drops it, and one that is
running runs on, as in a `ThreadPoolExecutor`. `process`, `cookies` and `file` are the login
process in the handle, the cookie jar and `cookies.txt`; a process and the web session it
ends in have the name of the login that initiated it. `approved` and `expired` are Trade
Republic's view. The functions of pytr are external: each is modelled by what the adapter
relies on, and may raise any of four kinds of exception - among them `json`, requests'
`JSONDecodeError`, which is a `RequestException` and a `ValueError` at once. A pytr without
the confirmation hook (`pytr_client.py` 105-110) behaves like an `http` failure of `confirm`.
A poll is not pinned to a process: it may complete the one it was started for or the one the
handle holds by the time it ends.

`Bridge` conjoins every action of `Session` with what its coroutine does through the port,
and adds the steps of the threads. It shows which outcomes can really meet which state. A
timeline request (`Fetches`) checks the state, awaits `settings` on a thread and then the
event stream, which runs on the loop itself and takes no thread; logins, submissions and
pollers may replace the handle's process and its cookies between any two of its steps.

### Config, Registry, Web, TimeWindow

A file is what `yaml.safe_load` makes of it: `Config` has the values a YAML document may
hold, with `True` an integer as in Python and a string a text that white space may surround.
`Loads` says which files are accepted, as one conjunction; the order of the errors only
changes a log line.

`Registry` takes the file through the lifespan and keeps, per instance, how far
`_resume_safe` is and what state its session has. `Web` adds one request, because the adapter
keeps nothing between two: the middleware's lookup after `rstrip("/")`, the comparison of
keys that only takes ASCII, the redirect of a trailing slash, 404 and 405, the validation
that comes before the lookup of the instance, and then the exception's way through `MRO`,
`HandlerOf` and `Problem`. Bodies of successful answers are left out.

A timestamp is a wall clock and an offset in one unit of time; the calendar runs from 0 to
`MaxWall`, as `datetime.min`..`datetime.max`, and an instant may lie outside it. A timeline
request carries its query and the clock at the time it is parsed. `Asked` is the window of
floats that pytr gets: `timestamp()` rounds, from the year 2242 on by more than a microsecond,
so `Float` is any function that keeps the order - two instants in a row may become one. An
awaited timeline request returns only if both bounds can be echoed; otherwise it raises an
`OverflowError` after its fetch. It may also raise what the refresh (`RefreshRaises`) and the
event stream (`StreamRaises`) do, or a `ValidationError` for an event that is not of the
response's model.

### Release

A commit is a position of `main`; merges, runs of `prepare-release.yml` and runs of
`release.yml` interleave freely, since no workflow has a concurrency group. A release run
belongs to the commit that queued it, may fail after any step (`Failures` bounds how often)
and is rerun from its first step. `branches`, `prs`, `tags`, `releases` and `images` are the
outside world: a tag cannot be moved, a release or a pull request not created twice, a branch
not pushed over one that changed since the checkout (`--force-with-lease`), and a release PR
not merged after another one, because both change `VERSION`.

## 3. What TLC checks

| run | bounds | shows |
|---|---|---|
| `session_safety` | 3 logins, 2 submissions | the invariants and action properties of the session, that it implements `LoginFlow`, what may leave a poller behind (`PollerEndsWithLogin`), and `PendingResolved`: under the loop's fairness alone a pending login ends, though no blocking call ever may |
| `bridge_safety` | 3 logins, 1 submission, 1 timeline request, 2 threads | handle, cookies and session agree; nobody awaits an abandoned call; a fetch always has an approved session's cookies; no login waits for nothing |
| `bridge_answers` | 2 logins, 1 submission, 1 timeline request, 1 thread | every request is answered when blocking calls end |
| `service` | the files of `MCFiles`, 2 threads, 3 wall clocks, 3 offsets, one request of every kind | startup and authentication, from the file to the answer; the window asked for and echoed; each instance's startup implements `Session` |
| `release` | 1 change, 2 preparations, minor or patch, 2 failures | tags, images and sections of the changelog agree; no push of a tag or creation of a release is refused; the workflows implement `VersionLedger`; every version is published |
| `session_stale_code`, `session_late_error`, `session_orphan_poller`, `timeline_echo`, `service_answers`, `release_rerun`, `release_sections` | 1-2 logins, 1-2 submissions; as `service`; 1-2 preparations | a violation each, section 5 |

Why the bounds are enough to be worth something. A submission or a poller that outlives its
login needs a second login to meet and a third one to be overtaken by: three logins. Two
submissions race each other for one login, or one outlives it. In `bridge_safety` the pool of
two is smaller than the five calls that can be outstanding, so calls queue behind polls that
nobody awaits any more, and a fetch behind both; `bridge_answers` takes the pool to its limit
of one. For a timeline, three wall clocks and offsets of -1, 0 and 1 give windows whose order
by wall clock and by instant differ, timestamps on both ends of the calendar whose instant
lies outside it, and, with the floats of `MCFloat`, a window that rounds to an empty one.
`MCFiles` has every list of up to two entries out of eleven right and wrong
ones - two names that differ in white space among them -, every kind of key and timeout with
the rest as it should be, and one file of three instances, of which one has to wait for a
thread. The requests are every path with and without its trailing slash, both methods, every
header, a configured instance and another, a body with and without a code, one right and one
wrong window; and every window of the calendar for the one combination that reaches a session.
Two preparations can compute the same version,
race for its branch, or follow each other; two failures stop a release run, and its rerun.

Symmetry is used in `bridge_safety` only, which checks no liveness. Deadlock is checked in
the session's and the bridge's runs, and they have none: a service can always be restarted. `service` stops when its startup failed or its one request is answered,
`release` when nothing is left to merge, prepare or rerun; they do not check it.

Fairness.

- `LoopFairness`: the event loop hands the lock to its waiter and fires a timer whose sleep
  is over. `LoopRuns`: it resumes a coroutine whose call has returned.
- `ThreadsRun`, and the fairness of `Registry`: a free thread starts the oldest call and every
  blocking call ends, with whatever result; pytr's HTTP requests and its bounded polling loop
  end, as `session.py` 207-210 says of the poll ("it will run to completion (or raise)
  regardless"). Nothing is assumed about which outcome comes, nor that anybody sends a code,
  approves a login or that the event stream of a fetch ends.
- `Release`: a queued run goes on to its end or fails, and the maintainers rerun one that
  failed. Nobody has to prepare or merge anything.

`PendingResolved` does without any assumption about threads, because the timeout must work
when a call hangs. `StartsDespiteFailures` cannot: `main.py` 61 waits for every resume, and
no timeout bounds one.

Every property has a mutant, a plausible bug in the code (a missing re-check, a timer that is
not cancelled, an unreleased lock, a dropped offset, a public path matched by its prefix, an
image gated on the tag) under which its run finds a violation. The mutants are next to the
definitions they replace.

## 4. What TLAPS proves

Every invariant, every action property and every refinement that a passing run checks is also a
theorem, for any sets of requests, files and instances, any pool and any calendar:

- `SessionProofs`: `Typing`; `Armed`, `Exclusion`, `Polled` from `Consistency`; the action
  properties `Failure`, `Factors` and `PollersEnd`; and `Refinement`, that `Session` implements `LoginFlow`.
- `BridgeProofs`: `Composition`, that `Bridge` implements `Session`, so all of the above holds
  of the bridge, as `Inheritance` spells out; `HandleHolds`, `Persistence` and `FetchSession`
  from `Attachment`.
- `ExecutorProofs`: `Awaited`, `ClientTyping` and `Turns`.
- `RegistryProofs`: `StartupTyping`, `Startup` and `Entries`; `Sessions`, that the
  startup of every instance implements `Session`.
- `WebProofs`: `StartupRefined`, that requests change nothing of the registry, so the theorems
  about it hold of the service; `KeyGuards`, `SchemaTruth` and `Echo`.
- `ReleaseProofs`: `Tracing`, `ImageTag`, `Changelog` and `Unhindered`; `KeepsLedger`, that
  `Release` implements `VersionLedger`.

The arguments.

*Session.* None of the invariants is inductive alone: that a timer is only ever replaced by
its own login's needs that no challenge is outstanding inside the lock, which needs that the
lock is held by whoever is inside, which needs that waiters in the queue are waiting, once
each. `Consistent` is the conjunction that is inductive: `TypeOK`, `QuietAtStartup`,
`LockIsOwned`, `WaitersQueued`, `PendingIffArmed`, `LoginExclusion` and `PushHasPoller`.
`PollersEnd` needs besides which login a submission was accepted for (`Remembered`): one that
is under way while a push login waits was accepted for an earlier, authenticator login.

*Bridge.* `HandleHoldsAttempt` follows from mutual exclusion and one more fact, that a process
initiated by a login stays the handle's until that login has its answer (`HandleIsOwned`):
nobody else can initiate meanwhile, because only the login inside the lock does.
`ConfirmedIsPersisted` follows from what a blocking function has done when it returns
(`CookiesAreApproved`), and so does `FetchHasSession`: cookies, once approved, are replaced
only by approved ones. `Attached` is their conjunction, inductive together with `Consistent`.
`AwaitsItsCall` needs that a live poller belongs to a login that has been challenged
(`Awaiting`): then the one call a login may have on the executor is its poll.
`EveryWaiterHasATurn` joins three invariants: who waits for the lock is in its queue
(`Waiting`), the lock's holder is inside `start_login` (`LockIsOwned`), and who is inside
awaits a call of its own (`Awaiting`).

*Startup and web.* `Settled`, in the module of the proofs, is the inductive invariant of the
startup: the types, and that serving means every resume is over. `EntriesApart` counts: a list whose stripped names
differ is in bijection with the set of its names. `SessionsStart` is a step simulation
(`SessionsStep`): the end of a resume is `Session`'s `Resume` for its own instance and a
stutter for every other, and all other steps of the startup are stutters for all. The
middleware's properties carry over from the moment the request came in, because nothing
changes the configuration afterwards (`Guarded`, `Announced`). `Echo` carries the result of
`parse_window` over the await (`Windowed`), for any calendar and any monotone `Float`.

*Release.* Versions grow along `main`, strictly with a release, so no two releases have the
same one; a tag names the release commit of its version; a run past the tag's check or
creation has its own commit tagged (`Traced`, inductive). The changelog needs in addition
that a change is merged once and that what a section has listed lies before the next tag
(`Listing`). `NothingRefused` needs that a release has its tag (`Unrefused`) and that two
commits with a run have different versions: then what a run saw of its own version nobody
else can change. `LedgerSpec` maps `PushTag` to `Claim`, `CreateRelease` to `Announce`,
`PushImage` to `Publish` and every other step to a stutter; that git refuses a second tag of
a name keeps a claim new, `Traced` that a commit has one tag, and that an image is of the
claimed commit.

The assumptions: `None` is no login, submission or request, and those differ (`NoneIsNoLogin`,
`CallersDiffer`); there is a thread (`ThreadsAreSome`, `PoolAssumption`); `MaxWall` and
`MaxOffset` are naturals (`ClockAssumption`), floats keep the order of instants
(`FloatAssumption`), and a timeline request has a query (`QueriesAssumption`); the list of a YAML document has an end
(`ListsAreFinite`); the bump types are the three of the workflow (`BumpTypes`).

Only model-checked: the liveness properties `PendingResolved`, `RequestsAnswered`,
`StartsDespiteFailures` and `EveryVersionPublished` - liveness under fairness and `ENABLED`
are out of the prover's reach. No proof needs induction over data and no module has a
recursive operator.

## 5. Where the code and its text disagree

With a run that shows it:

- **A stale code confirms another login** (`StaleCodeNeverConfirms`). The re-check after
  `complete_login` compares states, not logins. Login 1 times out while its code is on its
  way, login 2 reaches `authenticator`, the code of login 1 returns and confirms login 2.
  (That the cookies are approved ones nevertheless is `ConfirmedIsPersisted`.)
- **A late error fails a confirmed session** (`ConfirmedSurvivesLateError`). The error path
  of `submit_2fa` calls `_fail()` without the re-check of the success path.
- **A poller is left behind** (`NoOrphanPoller`). `_fail()` cancels the timeout, which is the
  only one to cancel the poller. A poller that was left behind and meets a later push login
  fails or confirms that one, for it looks at the state alone (`session.py` 213-229); the model
  has those steps. `PollerEndsWithLogin` says how far the damage goes: in any other step that
  ends a push login, its poller ends or is cancelled.
- **A timestamp that cannot be echoed** (`FetchedIsAnswered`). `0001-01-01T00:00:00+05:00`
  passes the checks, is fetched, and ends in a 500 because `astimezone(UTC)` overflows.
- **Two answers that are not the documented ones** (`AnsweredAsDocumented`, two
  counterexamples of the same length: TLC stops at one of them). `compare_digest` raises a
  `TypeError` for a key that is not ASCII, in the header or in the configuration: the answer is
  a 500, where `README.md` 121 has a 401. A 2FA body without a code is answered 422
  `validation_error` (`handlers.py` 84-94), where `README.md` 330 has 400 `invalid_request`.
- **A release that is never created** (`ReleasedWhenDone`). Tag and release are one step that
  is skipped when the tag exists: a run that fails between the two is rerun to its end.
- **A change in no section of the changelog** (`SectionsListReleases`). The section is
  computed when the preparation starts; a change merged before its PR is belongs to the release
  and precedes the tag from which the next section starts. The property also fails, by a longer
  trace, for a section prepared while the last tag is still missing, which lists the whole
  history again; so `SectionsDisjoint`, which holds, is about sections since a tag.

Met while modelling, without a run of their own:

- A submission that is ignored is answered 200 with whatever the state is, `failed` included.
- A login that arrives while another one is inside the lock is queued and then runs itself
  (`QueueLogin`), where `ARCHITECTURE.md` 212-213 announces a 409; and `idle` is described
  there (209) as the state after a session is torn down, which no step of the code leads to.
- The 408 `twofa_timeout` of the documentation is raised nowhere; the 429 is missing from the
  table of the timeline, and `http_error` and `validation_error` from the table of the codes.
- A window of two far-away instants that one float stands for is in order when it is checked
  and empty when it is asked for.
- A file that is not UTF-8 fails with a `UnicodeDecodeError`, which is not the `ConfigError`
  that the other unreadable files end in; either way the startup fails.
- A `JSONDecodeError` in `complete_login(code)` is taken for a rejected code.
- A rerun of an older release moves `:latest` back to it.

## 6. Not modelled, and what is left

Not modelled, and why:

- *CI workflow*: lint, tests and a comment. The one shared branch, `ci-data`, is written by
  the test job of pushes to `main`, which its concurrency group runs one at a time.
- *OpenAPI document*: which operations ask for the key is in `Web` (`SchemaPublicPaths`); the
  rest is the framework's transformation of the declarations.
- *Packaging*: build recipes without behaviour of their own.
- Bodies of successful answers, the wording of details, logging, and how the path of the
  configuration is resolved.
- Two readers on one websocket: `Bridge` lets timeline requests overlap logins; what pytr does
  with two at once is pytr's code, of which the adapter says nothing.
- `_ensure_api` (`pytr_client.py` 200-216): the handle is there from the start, and its
  `mkdir` enters only as an `unexpected` exception.
- A `resume` that raises at startup - Trade Republic is unreachable, or fails - leaves its
  instance idle with a session on disk that may be alive; the next login finds it, for
  `start_login` resumes first. No property is stated: the code logs the failure and promises
  only that the others start (`StartsDespiteFailures`).
- pytr's executor is external: that a `ThreadPoolExecutor` loses no call is modelled, not
  checked.

What is left, in this order:

1. Several instances on one pool after the startup: the pollers of one account against the
   logins of another. The safety theorems hold of each instance, whose handle, cookies and
   directory nobody shares (`EntriesApart`); `RequestsAnswered` would need the pool of
   `Bridge` with two sessions, beyond what TLC finishes in minutes with two logins each.
2. `Restart` in `Registry`: a process that stops while it resumes begins again with the same
   files, so nothing but the outcomes could differ.
3. The text's missing promises - which shape drift a timeline survives, which version
   `:latest` is - would each make a property of a step that is modelled already.
