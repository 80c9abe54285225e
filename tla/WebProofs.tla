------------------------------- MODULE WebProofs -------------------------------
(***************************************************************************)
(* Proofs about Web, for any requests, files and keys.                     *)
(***************************************************************************)
EXTENDS Web, TLAPS

\* A request comes only when the service serves, and the configuration stays
\* the one its key was compared with.
Guarded ==
    /\ request # NoRequest => phase = "serving"
    /\ NothingWithoutKey

\* Startup's steps are over before the first request.
LEMMA GuardedStartup ==
    ASSUME Guarded, Next, UNCHANGED webVars
    PROVE  Guarded'
<1>1. UNCHANGED <<request, outcome>>
    BY DEF webVars
<1>2. CASE request = NoRequest
    BY <1>1, <1>2 DEF Guarded, NothingWithoutKey, NoRequest
<1>3. CASE request # NoRequest
    <2>1. phase = "serving"
        BY <1>3 DEF Guarded
    <2>2. UNCHANGED <<config, phase>>
        BY <2>1 DEF Next, LoadRaises, Load, ResumeStarts, ResumeEnds, GatherEnds
    <2> QED
        BY <1>1, <2>1, <2>2 DEF Guarded, NothingWithoutKey
<1> QED
    BY <1>2, <1>3

\* A request that is admitted without the key asks for a page.
LEMMA AdmittedHasKey ==
    ASSUME NEW req, Admitted(req), req.path \notin Pages
    PROVE  req.key = config.api_key
BY DEF Admitted, IsPublic, PublicPaths, HasKey

\* Every handler behind the middleware takes an admitted request.
LEMMA GuardedArrive ==
    ASSUME Guarded, Arrive, UNCHANGED registryVars
    PROVE  Guarded'
<1> PICK req \in Requests : Handle(req)
    BY DEF Arrive
<1>1. phase = "serving" /\ request' = req /\ UNCHANGED <<phase, config>>
    BY DEF Arrive, Handle, Refuse, RefuseByTypeError, Redirect, NoRoute, Return, Invalid, Unknown,
           Call, Take, registryVars
<1>2. CASE Refuse(req) \/ RefuseByTypeError(req)
    <2>1. outcome' \in {"UnauthorizedException", "TypeError"}
        BY <1>2 DEF Refuse, RefuseByTypeError, Take
    <2> QED
        BY <1>1, <2>1 DEF Guarded, NothingWithoutKey
<1>3. CASE Redirect(req) \/ NoRoute(req) \/ Return(req) \/ Invalid(req) \/ Unknown(req) \/ Call(req)
    <2>1. Admitted(req)
        BY <1>3 DEF Redirect, NoRoute, Return, Invalid, Unknown, Call, Accepted, Routed
    <2>2. req.path \in Pages \/ req.key = config.api_key
        BY <2>1, AdmittedHasKey
    <2> QED
        BY <1>1, <2>2 DEF Guarded, NothingWithoutKey
<1> QED
    BY <1>2, <1>3 DEF Handle

\* A session answers only whom the middleware let pass.
LEMMA GuardedAnswer ==
    ASSUME Guarded, SessionReturns \/ SessionRaises, UNCHANGED registryVars
    PROVE  Guarded'
<1>1. outcome = "awaiting" /\ UNCHANGED <<request, phase, config>>
    BY DEF SessionReturns, SessionRaises, registryVars
<1> QED
    BY <1>1 DEF Guarded, NothingWithoutKey

\* Whoever has not the key learns nothing from a protected path: whatever the
\* routes, the requests and the configured key (handlers.py 43-66).
THEOREM KeyGuards == WebSpec => []NothingWithoutKey
<1>1. WebInit => Guarded
    BY DEF WebInit, Guarded, NothingWithoutKey, NoRequest
<1>2. Guarded /\ [WebNext]_serviceVars => Guarded'
    <2> SUFFICES ASSUME Guarded, [WebNext]_serviceVars
                 PROVE  Guarded'
        OBVIOUS
    <2>1. CASE UNCHANGED serviceVars
        BY <2>1 DEF serviceVars, registryVars, webVars, Guarded, NothingWithoutKey
    <2>2. CASE Next /\ UNCHANGED webVars
        BY <2>2, GuardedStartup
    <2>3. CASE Arrive /\ UNCHANGED registryVars
        BY <2>3, GuardedArrive
    <2>4. CASE (SessionReturns \/ SessionRaises) /\ UNCHANGED registryVars
        BY <2>4, GuardedAnswer
    <2> QED
        BY <2>1, <2>2, <2>3, <2>4 DEF WebNext
<1>3. Guarded => NothingWithoutKey
    BY DEF Guarded
<1> QED
    BY <1>1, <1>2, <1>3, PTL DEF WebSpec

\* Requests leave the startup alone: the service behaves as Registry allows, so
\* its theorems hold of the service (main.py 54-62, routes.py 37-126).
THEOREM StartupRefined == WebSpec => Spec
<1>1. WebInit => Init
    BY DEF WebInit
<1>2. [WebNext]_serviceVars => [Next]_registryVars
    BY DEF WebNext, serviceVars
<1> QED
    BY <1>1, <1>2, PTL DEF WebSpec, Spec

\* A request that waits for a session is for a route that has one.
Announced ==
    /\ outcome = "awaiting" => request.path \in SessionRoutes
    /\ SchemaMatchesMiddleware

\* The paths that the document and the middleware both call public.
LEMMA PublicInSchema ==
    ASSUME NEW req, req.path \in SchemaPaths
    PROVE  IsPublic(req) <=> req.path \in SchemaPublicPaths
BY DEF SchemaPaths, SchemaPublicPaths, IsPublic, PublicPaths, Pages

\* Without a header a request is refused as the document says, or goes on.
LEMMA AnnouncedArrive ==
    ASSUME Announced, NEW req \in Requests, Handle(req)
    PROVE  Announced'
<1>1. request' = req
    BY DEF Handle, Refuse, RefuseByTypeError, Redirect, NoRoute, Return, Invalid, Unknown,
           Call, Take
<1>2. CASE Refuse(req) \/ RefuseByTypeError(req)
    <2>1. ~IsPublic(req) /\ outcome' # "awaiting"
        BY <1>2 DEF Refuse, RefuseByTypeError, Take
    <2>2. req.key = NoHeader => outcome' = "UnauthorizedException"
        BY <1>2 DEF Refuse, RefuseByTypeError, Take
    <2> QED
        BY <1>1, <2>1, <2>2, PublicInSchema DEF Announced, SchemaMatchesMiddleware
<1>3. CASE Redirect(req) \/ NoRoute(req) \/ Return(req) \/ Invalid(req) \/ Unknown(req) \/ Call(req)
    <2>1. Admitted(req)
        BY <1>3 DEF Redirect, NoRoute, Return, Invalid, Unknown, Call, Accepted, Routed
    <2>2. outcome' # "UnauthorizedException"
        BY <1>3 DEF Redirect, NoRoute, Return, Invalid, Unknown, Call, Take
    <2>3. outcome' = "awaiting" => req.path \in SessionRoutes
        BY <1>3 DEF Redirect, NoRoute, Return, Invalid, Unknown, Call, Take
    <2>4. req.key = NoHeader => IsPublic(req)
        BY <2>1 DEF Admitted, HasKey
    <2> QED
        BY <1>1, <2>2, <2>3, <2>4, PublicInSchema DEF Announced, SchemaMatchesMiddleware
<1> QED
    BY <1>2, <1>3 DEF Handle

\* No session raises what the middleware does.
LEMMA SessionsDoNotRefuse ==
    ASSUME Announced, SessionReturns \/ SessionRaises
    PROVE  outcome' \notin {"UnauthorizedException", "awaiting"}
<1>1. outcome = "awaiting" /\ request' = request
    BY DEF SessionReturns, SessionRaises
<1>2. \A class \in Raised(request) : class \notin {"UnauthorizedException", "awaiting"}
    BY DEF Raised, RefreshRaises, StreamRaises, ResponseRaises
<1> QED
    BY <1>2 DEF SessionReturns, SessionRaises

LEMMA AnnouncedAnswer ==
    ASSUME Announced, SessionReturns \/ SessionRaises
    PROVE  Announced'
<1>1. outcome = "awaiting" /\ request' = request
    BY DEF SessionReturns, SessionRaises
<1> QED
    BY <1>1, SessionsDoNotRefuse DEF Announced, SchemaMatchesMiddleware

LEMMA AnnouncedInit == WebInit => Announced
BY DEF WebInit, Announced, SchemaMatchesMiddleware, NoRequest

LEMMA AnnouncedStep == Announced /\ [WebNext]_serviceVars => Announced'
<1> SUFFICES ASSUME Announced, [WebNext]_serviceVars
             PROVE  Announced'
    OBVIOUS
<1>1. CASE UNCHANGED <<request, outcome>>
    BY <1>1 DEF Announced, SchemaMatchesMiddleware
<1>2. CASE UNCHANGED serviceVars \/ (Next /\ UNCHANGED webVars)
    BY <1>1, <1>2 DEF serviceVars, webVars
<1>3. CASE Arrive
    BY <1>3, AnnouncedArrive DEF Arrive
<1>4. CASE SessionReturns \/ SessionRaises
    BY <1>4, AnnouncedAnswer
<1> QED
    BY <1>2, <1>3, <1>4 DEF WebNext

\* The document asks for the key exactly where the middleware does, with and
\* without a trailing slash (main.py 80-108, handlers.py 51-52).
THEOREM SchemaTruth == WebSpec => []SchemaMatchesMiddleware
<1>1. Announced => SchemaMatchesMiddleware
    BY DEF Announced
<1> QED
    BY <1>1, AnnouncedInit, AnnouncedStep, PTL DEF WebSpec


------------------------------------------------------------------------------
(* The echo of a timeline's window.                                          *)

\* The bounds of a query are instants; those of an accepted one are in order.
LEMMA BoundsAreInstants ==
    ASSUME NEW q \in Query
    PROVE  /\ Instant(Since(q)) \in Instants
           /\ Instant(Until(q)) \in Instants
           /\ ParseWindow(q) => Instant(Since(q)) < Instant(Until(q))
<1>1. /\ q.since.wall \in Wall /\ q.since.offset \in Offset
      /\ q.until.wall \in Wall /\ q.until.offset \in Offset
      /\ q.now \in Wall
    BY DEF Query, Value
<1>2. /\ Since(q).wall \in Wall /\ Since(q).offset \in Offset
      /\ Until(q).wall \in Wall /\ Until(q).offset \in Offset
    BY <1>1, ClockAssumption DEF Since, Until, ParseIso, Offset
<1> QED
    BY <1>2, ClockAssumption DEF Instant, Instants, Wall, Offset, ParseWindow, Later

\* What is known of a timeline request that awaits its session, or has its events.
Windowed ==
    request.path = "timeline" =>
        /\ request.query \in Query
        /\ outcome = "awaiting" => ParseWindow(request.query)
        /\ outcome = "returned" /\ answer = Success(200) =>
               ParseWindow(request.query) /\ Renders(request.query)

\* A request that is answered at once is none for a timeline, or was not answered
\* with events; one that is awaited was parsed.
LEMMA WindowedArrive ==
    ASSUME NEW req \in Requests, Handle(req)
    PROVE  Windowed'
<1>1. request' = req
    BY DEF Handle, Refuse, RefuseByTypeError, Redirect, NoRoute, Return, Invalid, Unknown, Call,
           Take
<1>2. req.path = "timeline" => req.query \in Query
    BY QueriesAssumption
<1>3. outcome' = "awaiting" /\ req.path = "timeline" => ParseWindow(req.query)
    BY DEF Handle, Refuse, RefuseByTypeError, Redirect, NoRoute, Return, Invalid, Unknown, Call,
           Take, Accepted, WellFormed
<1>4. req.path = "timeline" => ~(outcome' = "returned" /\ answer' = Success(200))
    BY DEF Handle, Refuse, RefuseByTypeError, Redirect, NoRoute, Return, Invalid, Unknown, Call,
           Take, Success, Pages
<1> QED
    BY <1>1, <1>2, <1>3, <1>4 DEF Windowed

\* A session that returns has rendered the window, one that raises answers no events.
LEMMA WindowedAnswer ==
    ASSUME Windowed, SessionReturns \/ SessionRaises
    PROVE  Windowed'
<1>1. outcome = "awaiting" /\ request' = request
    BY DEF SessionReturns, SessionRaises
<1>2. CASE SessionReturns
    BY <1>1, <1>2 DEF Windowed, SessionReturns
<1>3. CASE SessionRaises
    <2>1. outcome' \notin {"returned", "awaiting"}
        BY <1>3 DEF SessionRaises, Raised, RefreshRaises, StreamRaises, ResponseRaises
    <2> QED
        BY <1>1, <2>1 DEF Windowed
<1> QED
    BY <1>2, <1>3

LEMMA WindowedStep == Windowed /\ [WebNext]_serviceVars => Windowed'
<1> SUFFICES ASSUME Windowed, [WebNext]_serviceVars
             PROVE  Windowed'
    OBVIOUS
<1>1. CASE UNCHANGED webVars
    BY <1>1 DEF Windowed, webVars
<1>2. CASE Arrive
    BY <1>2, WindowedArrive DEF Arrive
<1>3. CASE SessionReturns \/ SessionRaises
    BY <1>3, WindowedAnswer
<1> QED
    BY <1>1, <1>2, <1>3 DEF WebNext, serviceVars

\* The echoed window is the one that was asked of Trade Republic, in order and in
\* UTC: for every calendar, every offset, every query and every float
\* (timewindow.py 62 and 78, pytr_client.py 119-120).
THEOREM Echo == WebSpec => []EchoIsAsked
<1>1. WebInit => Windowed
    BY DEF WebInit, Windowed, NoRequest
<1>2. Windowed => EchoIsAsked
    <2> SUFFICES ASSUME Windowed, request.path = "timeline", outcome = "returned",
                        answer = Success(200)
                 PROVE  /\ {UtcWall(Since(request.query)), UtcWall(Until(request.query))} \subseteq Wall
                        /\ UtcWall(Since(request.query)) < UtcWall(Until(request.query))
                        /\ Asked(request.query) =
                              <<Float[UtcWall(Since(request.query))], Float[UtcWall(Until(request.query))]>>
        BY DEF EchoIsAsked
    <2>1. request.query \in Query /\ ParseWindow(request.query) /\ Renders(request.query)
        BY DEF Windowed
    <2> QED
        BY <2>1, BoundsAreInstants DEF Renders, HasUtcWall, UtcWall, Asked
<1> QED
    BY <1>1, <1>2, WindowedStep, PTL DEF WebSpec
================================================================================
