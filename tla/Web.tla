---------------------------------- MODULE Web ----------------------------------
(***************************************************************************)
(* The web adapter over the registry: the middleware of handlers.py, the   *)
(* routes of routes.py and the way from an exception to an answer          *)
(* (errors.py, domain/state.py).  The adapter keeps no state between       *)
(* requests, so one request says what each of them meets.  FastAPI and     *)
(* Starlette are external.                                                 *)
(***************************************************************************)
EXTENDS Registry, TimeWindow

CONSTANTS
    Requests,  \* the requests that clients send
    Ascii      \* the texts that are pure ASCII

ASSUME QueriesAssumption ==
    \A req \in Requests : req.path = "timeline" => req.query \in Query

NoHeader == "no header"

VARIABLES
    request,  \* the request that is being handled, or was last
    outcome,  \* what its handler came to: "awaiting" a session, "returned", or
              \* the class of the exception it raised
    answer    \* its answer: the status and the problem's code

webVars == <<request, outcome, answer>>
serviceVars == <<registryVars, webVars>>

------------------------------------------------------------------------------
(* Routes.                                                                   *)

\* The routes that reach no session: the landing page, the probe, the
\* documents that FastAPI serves.
Pages == {"/", "/health", "/openapi.json", "/docs", "/docs/oauth2-redirect", "/redoc"}

\* The routes of one instance, and those that await its session.
SessionRoutes == {"login", "2fa", "timeline"}
InstanceRoutes == {"status"} \cup SessionRoutes

Routes == Pages \cup {"/instances"} \cup InstanceRoutes

Method(path) == IF path \in {"login", "2fa"} THEN "POST" ELSE "GET"

\* A request names a path without its trailing slash, and says whether it has
\* one; its "key" is the X-API-Key header, or NoHeader.  A request of the 2FA
\* route says whether its body "hasCode", one of the timeline has its "query".
Unrouted == "/docs/other"

NoRequest == [path |-> "none"]
NoAnswer == [status |-> 0, code |-> "none"]
Success(status) == [status |-> status, code |-> "none"]

------------------------------------------------------------------------------
(* From an exception to an answer.                                           *)

\* __mro__ of the exceptions a handler raises, down to Exception.
MRO(class) ==
    CASE class = "NoLoginPendingError" ->
            <<class, "InvalidStateError", "DomainError", "Exception">>
      [] class \in {"LoginInProgressError", "CodeRejectedError", "RateLimitedError",
                    "TrUpstreamError", "SessionExpiredError", "InvalidRequestError",
                    "InstanceNotFoundError"} ->
            <<class, "DomainError", "Exception">>
      [] OTHER -> <<class, "Exception">>

First(seq, S) ==
    seq[CHOOSE i \in DOMAIN seq : seq[i] \in S /\ \A j \in 1..(i - 1) : seq[j] \notin S]

\* The class attributes status and code: NoLoginPendingError inherits one.
StatusOf ==
    [LoginInProgressError |-> 409, CodeRejectedError |-> 401, RateLimitedError |-> 429,
     TrUpstreamError |-> 502, SessionExpiredError |-> 401, InvalidStateError |-> 409,
     InvalidRequestError |-> 400, InstanceNotFoundError |-> 404]

CodeOf ==
    [LoginInProgressError |-> "login_in_progress", CodeRejectedError |-> "code_rejected",
     RateLimitedError |-> "rate_limited", TrUpstreamError |-> "tr_upstream_error",
     SessionExpiredError |-> "session_expired", InvalidStateError |-> "invalid_state",
     NoLoginPendingError |-> "no_login_pending", InvalidRequestError |-> "invalid_request",
     InstanceNotFoundError |-> "instance_not_found"]

\* to_problem_detail()
ToProblemDetail(class) ==
    [status |-> StatusOf[First(MRO(class), DOMAIN StatusOf)],
     code   |-> CodeOf[First(MRO(class), DOMAIN CodeOf)]]

InternalError == [status |-> 500, code |-> "internal_error"]
Unauthorized == [status |-> 401, code |-> "unauthorized"]
HttpError(status) == [status |-> status, code |-> "http_error"]

\* register_handlers()
Handled == {"RequestValidationError", "DomainError", "Exception"}

\* Starlette takes the handler of the first class that has one.
HandlerOf(class) == First(MRO(class), Handled)

Problem(class) ==
    CASE HandlerOf(class) = "DomainError" -> ToProblemDetail(class)
      [] HandlerOf(class) = "RequestValidationError" ->
            [status |-> 422, code |-> "validation_error"]
      [] OTHER -> InternalError

------------------------------------------------------------------------------
(* The middleware.                                                           *)

PublicPaths == Pages

\* Mutants of IsPublic: the path is looked up as it is; by its prefix.
IsPublicAsWritten(req) == ~req.slash /\ req.path \in PublicPaths
IsPublicByPrefix(req) == req.path \in PublicPaths \cup {Unrouted}

\* The lookup after rstrip("/").
IsPublic(req) == req.path \in PublicPaths

\* check_api_key(): compare_digest() takes only ASCII texts.
Comparable(req) == {req.key, config.api_key} \subseteq Ascii
HasKey(req) == req.key # NoHeader /\ Comparable(req) /\ req.key = config.api_key

\* A request is in, and comes to what its handler makes of it.
Take(req, result, response) ==
    /\ request' = req
    /\ outcome' = result
    /\ answer' = response

Refuse(req) ==
    /\ ~IsPublic(req)
    /\ \/ req.key = NoHeader
       \/ Comparable(req) /\ ~HasKey(req)
    /\ Take(req, "UnauthorizedException", Unauthorized)

\* An exception in the middleware is outside the reach of every handler but
\* the one for Exception.
RefuseByTypeError(req) ==
    /\ ~IsPublic(req)
    /\ req.key # NoHeader /\ ~Comparable(req)
    /\ Take(req, "TypeError", InternalError)

Admitted(req) == IsPublic(req) \/ HasKey(req)

------------------------------------------------------------------------------
(* Behind the middleware: routing, validation, the handlers.                 *)

\* A trailing slash is redirected to the route without it.
Redirect(req) ==
    /\ Admitted(req)
    /\ req.slash /\ req.path \in Routes
    /\ Take(req, "returned", Success(307))

NoRoute(req) ==
    /\ Admitted(req)
    /\ \/ req.path \notin Routes
          /\ Take(req, "HTTPException", HttpError(404))
       \/ req.path \in Routes /\ ~req.slash /\ req.method # Method(req.path)
          /\ Take(req, "HTTPException", HttpError(405))

Routed(req) ==
    /\ Admitted(req)
    /\ req.path \in Routes /\ ~req.slash /\ req.method = Method(req.path)

\* Pages, the list of instances and the status of one return at once.
Return(req) ==
    /\ Routed(req)
    /\ \/ req.path \in Pages \cup {"/instances"}
       \/ req.path = "status" /\ req.name \in Instances
    /\ Take(req, "returned", Success(IF req.path = "/" THEN 307 ELSE 200))

\* The body's model takes it, parse_window() returns.
WellFormed(req) ==
    /\ req.path = "2fa" => req.hasCode
    /\ req.path = "timeline" => ParseWindow(req.query)

\* A body or a window is validated before the instance is looked up.
Invalid(req) ==
    /\ Routed(req) /\ ~WellFormed(req)
    /\ LET class == IF req.path = "timeline" THEN "InvalidRequestError"
                    ELSE "RequestValidationError"
       IN  Take(req, class, Problem(class))

Accepted(req) == Routed(req) /\ WellFormed(req)

\* registry.get() raises ...
Unknown(req) ==
    /\ Accepted(req)
    /\ req.path \in InstanceRoutes /\ req.name \notin Instances
    /\ Take(req, "InstanceNotFoundError", Problem("InstanceNotFoundError"))

\* ... or finds the session, which the handler awaits.
Call(req) ==
    /\ Accepted(req)
    /\ req.path \in SessionRoutes /\ req.name \in Instances
    /\ Take(req, "awaiting", NoAnswer)

\* What a timeline request meets before its window is fetched - the session's
\* state, the refresh of the web session - and while it is.
RefreshRaises == {"SessionExpiredError", "RateLimitedError", "TrUpstreamError", "OSError"}
StreamRaises == {"SessionExpiredError", "TrUpstreamError"}

\* What the way from the events to the answer raises: a bound that UTC cannot
\* show, an event that is not of the response's model.
ResponseRaises(query) == {IF Renders(query) THEN "ValidationError" ELSE "OverflowError"}

\* What the session's operations and the routes after them raise; an OSError, of
\* the session directory, is declared by none.
Raised(req) ==
    IF req.path = "timeline"
    THEN RefreshRaises \cup StreamRaises \cup ResponseRaises(req.query)
    ELSE {"RateLimitedError", "TrUpstreamError", "OSError"} \cup
         (IF req.path = "login" THEN {"LoginInProgressError"}
          ELSE {"NoLoginPendingError", "CodeRejectedError"})

SessionReturns ==
    /\ outcome = "awaiting"
    /\ request.path = "timeline" => Renders(request.query)
    /\ outcome' = "returned"
    /\ answer' = Success(200)
    /\ UNCHANGED request

SessionRaises ==
    /\ outcome = "awaiting"
    /\ \E class \in Raised(request) :
          /\ outcome' = class
          /\ answer' = Problem(class)
    /\ UNCHANGED request

Handle(req) ==
    \/ Refuse(req) \/ RefuseByTypeError(req)
    \/ Redirect(req) \/ NoRoute(req)
    \/ Return(req) \/ Invalid(req) \/ Unknown(req) \/ Call(req)

\* Bound: one request.
Arrive ==
    /\ phase = "serving" /\ request = NoRequest
    /\ \E req \in Requests : Handle(req)

------------------------------------------------------------------------------

WebInit ==
    /\ Init
    /\ request = NoRequest
    /\ outcome = "none"
    /\ answer = NoAnswer

WebNext ==
    \/ Next /\ UNCHANGED webVars
    \/ Arrive /\ UNCHANGED registryVars
    \/ (SessionReturns \/ SessionRaises) /\ UNCHANGED registryVars

WebSpec == WebInit /\ [][WebNext]_serviceVars /\ Fairness

\* The paths of the OpenAPI document, and _SCHEMA_PUBLIC_PATHS, whose operations
\* _custom_openapi() marks as public.
SchemaPaths == Routes \ (Pages \ {"/health"})
SchemaPublicPaths == {"/health"}

------------------------------------------------------------------------------
(* Properties.                                                               *)

\* Whoever has not the key learns nothing from a protected path, not even
\* whether it, the instance or the parameters exist: the key is checked before
\* the framework routes and validates (handlers.py 43-66).
NothingWithoutKey ==
    request # NoRequest /\ request.path \notin Pages /\ request.key # config.api_key =>
        outcome \in {"UnauthorizedException", "TypeError"}

\* The OpenAPI document tells the truth: a request without a key is refused
\* exactly where the document asks for one - with a trailing slash or not
\* (main.py 80-108, handlers.py 51-52).
SchemaMatchesMiddleware ==
    request # NoRequest /\ request.key = NoHeader /\ request.path \in SchemaPaths =>
        (outcome = "UnauthorizedException" <=> request.path \notin SchemaPublicPaths)

\* The window that an answer echoes is the one that Trade Republic was asked for,
\* with bounds that UTC can show and in order, whatever the offsets of the query
\* (README.md 302-303, timewindow.py 62 and 78, pytr_client.py 119-120).
EchoIsAsked ==
    request.path = "timeline" /\ outcome = "returned" /\ answer = Success(200) =>
        LET s == UtcWall(Since(request.query))
            u == UtcWall(Until(request.query))
        IN  /\ {s, u} \subseteq Wall /\ s < u
            /\ Asked(request.query) = <<Float[s], Float[u]>>

\* "Malformed timestamps raise 400" (routes.py 109-110): no timestamp that the
\* service cannot render makes a request fail after its fetch.
FetchedIsAnswered == outcome # "OverflowError"

\* The problems of README.md 327-340 for what handlers and sessions raise:
\* "missing code" is an invalid_request, and what has no row an internal_error.
\* The answers of the framework's router are not in that table.
Documented ==
    [InvalidRequestError |-> <<400, "invalid_request">>,
     RequestValidationError |-> <<400, "invalid_request">>,
     SessionExpiredError |-> <<401, "session_expired">>,
     CodeRejectedError |-> <<401, "code_rejected">>,
     UnauthorizedException |-> <<401, "unauthorized">>,
     InstanceNotFoundError |-> <<404, "instance_not_found">>,
     NoLoginPendingError |-> <<409, "no_login_pending">>,
     LoginInProgressError |-> <<409, "login_in_progress">>,
     RateLimitedError |-> <<429, "rate_limited">>,
     TrUpstreamError |-> <<502, "tr_upstream_error">>,
     OSError |-> <<500, "internal_error">>,
     OverflowError |-> <<500, "internal_error">>,
     ValidationError |-> <<500, "internal_error">>]

\* "Missing or invalid keys return 401 unauthorized" (README.md 121).
KeysAnsweredAsDocumented ==
    request # NoRequest /\ request.path \notin Pages /\ request.key # config.api_key =>
        answer = Unauthorized

\* Every error of the service is answered with the status and the code that the
\* documentation gives it (README.md 121 and 327-340, handlers.py 53-117).  Two are
\* not: compare_digest() raises a TypeError when either text is not ASCII, and the
\* answer is a 500; a body without a code is a 422.
AnsweredAsDocumented ==
    /\ KeysAnsweredAsDocumented
    /\ outcome \in DOMAIN Documented =>
           <<answer.status, answer.code>> = Documented[outcome]
==============================================================================
