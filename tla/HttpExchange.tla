---------------------------- MODULE HttpExchange ----------------------------
(***************************************************************************)
(* The HTTP plugin from onRegister to onStop, and one request on its way   *)
(* through the execution engine: what the guards, the handler, the timeout *)
(* and the filters come to, and which answer the adapter commits. The      *)
(* route was selected before (HttpRouting); Express and Fastify are        *)
(* external, as far as the adapters use them.                              *)
(***************************************************************************)
EXTENDS ExecutionEngine, Functions

CONSTANTS
    Undefined,
    Configurations, \* [adapter, timeout, healthChecks], of HttpPluginOptions
    Endpoints,      \* [method, code, timeout, writes], of the decorators and the handler
    Failures        \* the classes of the errors that guards, pipes and handlers throw

VARIABLES
    options,
    endpoint,
    phase,      \* of the plugin: "created", "registered", "starting", "started", "stopping", "stopped", "error"
    server,     \* "created", "opening", "listening", "failed", "closing" or "closed"
    exchange,   \* "none" before the request arrives, then "open"
    value,      \* what won the race or was returned by a filter
    failure,    \* the class of context.error
    response    \* [status, committed, by], and who attempted to commit it

vars2 == <<vars, options, endpoint, phase, server, exchange, value, failure, response>>
plugin == <<options, endpoint, phase, server, exchange>>

-----------------------------------------------------------------------------
(* HttpStatusCode, the errors and the results.                             *)

Ok == 200
Created == 201
Accepted == 202
NoContent == 204
MovedPermanently == 301
Found == 302
BadRequest == 400
InternalServerError == 500
ServiceUnavailable == 503

DefaultStatusCode(method) ==
    CASE method = "post" -> Created [] method = "delete" -> NoContent [] OTHER -> Ok

ClientErrors ==
    [BadRequestError |-> BadRequest, UnauthorizedError |-> 401, PaymentRequiredError |-> 402,
     ForbiddenError |-> 403, NotFoundError |-> 404, MethodNotAllowedError |-> 405,
     NotAcceptableError |-> 406, ProxyAuthenticationRequiredError |-> 407,
     RequestTimeoutError |-> 408, ConflictError |-> 409, GoneError |-> 410,
     LengthRequiredError |-> 411, PreconditionFailedError |-> 412,
     ContentTooLargeError |-> 413, UriTooLongError |-> 414, UnsupportedMediaTypeError |-> 415]

LaterClientErrors ==
    [RangeNotSatisfiableError |-> 416, ExpectationFailedError |-> 417, UnusedError |-> 418,
     MisdirectedRequestError |-> 421, UnprocessableContentError |-> 422, LockedError |-> 423,
     FailedDependencyError |-> 424, PreconditionRequiredError |-> 428,
     TooManyRequestsError |-> 429, RateLimitExceededError |-> 429, UnrecoverableError |-> 456]

ServerErrors ==
    [InternalServerError |-> InternalServerError, NotImplementedError |-> 501,
     BadGatewayError |-> 502, ServiceUnavailableError |-> ServiceUnavailable,
     GatewayTimeoutError |-> 504, HttpVersionNotSupportedError |-> 505,
     InsufficientStorageError |-> 507, LoopDetectedError |-> 508]

HttpErrors ==
    [e \in DOMAIN ClientErrors \cup DOMAIN LaterClientErrors \cup DOMAIN ServerErrors |->
        CASE e \in DOMAIN ClientErrors -> ClientErrors[e]
          [] e \in DOMAIN LaterClientErrors -> LaterClientErrors[e]
          [] OTHER -> ServerErrors[e]]

PipeErrors == {"PipeStepParsingError", "PipeStepValidationError"}

\* Not the code: for the mutants.
OnlyHttpErrors(e) == IF e \in DOMAIN HttpErrors THEN HttpErrors[e] ELSE Ok

\* ReturnErrorFilter.e
StatusOfError(e) ==
    CASE e \in PipeErrors -> BadRequest
      [] e \in DOMAIN HttpErrors -> HttpErrors[e]
      [] OTHER -> InternalServerError

\* HttpResults: what a handler or a filter makes with it, and its status.
HttpResults ==
    [Ok |-> Ok, Created |-> Created, Accepted |-> Accepted, NoContent |-> NoContent,
     Redirect |-> Found, PermanentRedirect |-> MovedPermanently,
     File |-> Ok, Download |-> Ok, Stream |-> Ok, BadRequest |-> BadRequest, Unauthorized |-> 401,
     Forbidden |-> 403, NotFound |-> 404, InternalServerError |-> InternalServerError]

PlainValues == {"undefined", "string", "object"}
Values == PlainValues \cup DOMAIN HttpResults

\* HttpResultResolver.resolve, and the process of the results. A file or a
\* stream does not set its status; that of a new response is Ok.
StatusOfResult(v) ==
    CASE v = "Error" -> StatusOfError(failure)
      [] v \in PlainValues -> IF endpoint.code # Undefined THEN endpoint.code
                              ELSE DefaultStatusCode(endpoint.method)
      [] OTHER -> HttpResults[v]

\* BodyHttpResult without a value and redirects end the response, which is no
\* error when it has ended; all the others set headers.
EndsOnly(v) == v \in {"undefined", "NoContent", "Redirect", "PermanentRedirect"}

-----------------------------------------------------------------------------
(* HttpPlugin and the adapters.                                            *)

Awaits == options.adapter = "fastify"

\* The resolver of timeouts is registered with options.timeout only, but the
\* decorator @Timeout of a handler counts without it.
HasTimeout == endpoint.timeout \/ options.timeout

\* The filters are those of the application and ReturnErrorFilter, which has
\* the lowest priority.
IsPlan ==
    /\ Len(plan.catch) > 0 /\ plan.catch[Len(plan.catch)] = Errors
    /\ plan.timeout = HasTimeout

NoResponse == [status |-> Ok, committed |-> FALSE, by |-> "none", attempts |-> {}]

HttpInit ==
    /\ options \in Configurations
    /\ endpoint \in Endpoints
    /\ Init /\ IsPlan
    /\ phase = "created" /\ server = "created" /\ exchange = "none"
    /\ value = "undefined" /\ failure = Undefined
    /\ response = NoResponse

Lifecycle == UNCHANGED <<vars, options, endpoint, value, failure, response>>

\* Without options.healthChecks the health controller has no routes.
OnRegister ==
    /\ phase = "created"
    /\ phase' = "registered"
    /\ UNCHANGED <<server, exchange>> /\ Lifecycle

OnStart ==
    /\ phase = "registered"
    /\ phase' = IF Awaits THEN "starting" ELSE "started"
    /\ server' = "opening"
    /\ UNCHANGED exchange /\ Lifecycle

Listen ==
    /\ server = "opening"
    /\ \/ server' = "listening" /\ phase' = "started"
       \/ server' = "failed" /\ phase' = IF Awaits THEN "error" ELSE phase
    /\ UNCHANGED exchange /\ Lifecycle

OnStop ==
    /\ phase = "started"
    /\ phase' = IF Awaits THEN "stopping" ELSE "stopped"
    /\ server' = IF server = "failed" THEN "closed" ELSE "closing"
    /\ UNCHANGED exchange /\ Lifecycle

\* The server closes when its connections have been answered.
Close ==
    /\ server = "closing"
    /\ exchange = "none" \/ response.committed
    /\ server' = "closed" /\ phase' = "stopped"
    /\ UNCHANGED exchange /\ Lifecycle

Arrive ==
    /\ server = "listening" /\ exchange = "none"
    /\ endpoint.writes => options.healthChecks
    /\ exchange' = "open"
    /\ UNCHANGED <<phase, server>> /\ Lifecycle

-----------------------------------------------------------------------------
(* The execution of the request.                                           *)

Running == exchange = "open" /\ execution = "running"

Guard ==
    /\ Running /\ BeforeReturns
    /\ UNCHANGED <<plugin, value, failure, response>>

Attempt(by, status) ==
    response' = [response EXCEPT !.attempts = @ \cup {by},
                                 !.committed = TRUE,
                                 !.status = IF response.committed THEN @ ELSE status,
                                 !.by = IF response.committed THEN @ ELSE by]

Throws(e) ==
    /\ Running /\ StepThrows
    /\ failure' = IF Open THEN e ELSE failure
    /\ UNCHANGED <<plugin, value, response>>

\* HealthController.getHealth writes the response itself and returns a
\* HandledResult; writing again throws on Express.
HandlerWrites ==
    /\ Running /\ step > plan.before /\ endpoint.writes
    /\ ~(response.committed /\ options.adapter = "express")
    /\ \E status \in {Ok, ServiceUnavailable} : Attempt("handler", status)
    /\ HandlerReturns /\ result' = ResultOfRace(TRUE)
    /\ value' = IF Open THEN "Handled" ELSE value
    /\ UNCHANGED <<plugin, failure>>

HandlerEnds(v) ==
    /\ Running /\ ~endpoint.writes
    /\ HandlerReturns
    /\ result' = ResultOfRace(v # "undefined")
    /\ value' = IF Open THEN v ELSE value
    /\ UNCHANGED <<plugin, failure, response>>

\* TimeoutProcessor and HttpTimeoutResolver.
ResolverThrows == options.timeout
TimeoutEnds ==
    /\ exchange = "open"
    /\ IF ResolverThrows THEN TimeoutThrows ELSE TimeoutReturns
    /\ failure' = IF Open /\ ResolverThrows THEN "RequestTimeoutError" ELSE failure
    /\ UNCHANGED <<plugin, value, response>>

Fire ==
    /\ exchange = "open" /\ TimerFires
    /\ UNCHANGED <<plugin, value, failure, response>>

IsReturnErrorFilter == pos = Len(plan.catch)

ReturnError ==
    /\ IsReturnErrorFilter
    /\ FilterReturns /\ result' = "filter"
    /\ value' = "Error"
    /\ UNCHANGED <<plugin, failure, response>>

ApplicationFilter ==
    /\ ~IsReturnErrorFilter
    /\ \/ FilterReturns /\ result' = "filter" /\ value' \in Values \ {"undefined"}
       \/ FilterReturns /\ result' = "undefined" /\ value' = "undefined"
       \/ FilterThrows /\ UNCHANGED value
    /\ UNCHANGED <<plugin, failure, response>>

AfterStep ==
    /\ AfterReturns \/ AfterThrows
    /\ UNCHANGED <<plugin, value, failure, response>>

\* Not the code: for the mutants.
WritesNothing(v) == v \in {"Handled", "undefined"}

\* HandledResult.process
IsHandled(v) == v = "Handled"

\* ResultProcessor.process and the response of the adapter.
Respond ==
    /\ ResultProcessed
    /\ main' = IF /\ response.committed /\ options.adapter = "express"
                  /\ ~IsHandled(value) /\ ~EndsOnly(value) THEN "rejected" ELSE "resolved"
    /\ IF IsHandled(value) THEN UNCHANGED response
       ELSE Attempt("result", StatusOfResult(value))
    /\ UNCHANGED <<plugin, value, failure>>

\* The handler of the route rejected: the framework answers with the status of
\* the error, or 500.
FrameworkAnswers ==
    /\ exchange = "open" /\ main = "rejected" /\ ~response.committed
    /\ \E status \in {BadRequest, InternalServerError} : Attempt("framework", status)
    /\ UNCHANGED <<vars, plugin, value, failure>>

Handler == HandlerWrites \/ \E v \in Values : HandlerEnds(v)
Engine == Fire \/ TimeoutEnds \/ ReturnError \/ ApplicationFilter \/ AfterStep \/ Respond \/ FrameworkAnswers

HttpNext ==
    \/ OnRegister \/ OnStart \/ Listen \/ OnStop \/ Close \/ Arrive
    \/ Guard \/ Handler \/ \E e \in Failures : Throws(e)
    \/ Engine

\* As in ExecutionEngine; and a closing server closes when it can.
HttpSpec == HttpInit /\ [][HttpNext]_vars2 /\ WF_vars2(Engine) /\ WF_vars2(Close)

-----------------------------------------------------------------------------
(* Properties.                                                             *)

Filtered == Len(plan.catch) > 1

\* An execution that failed is never answered as a success unless a filter of
\* the application or the handler itself answered it, and one that succeeded
\* never as a failure, unless @HttpCode says so: guards, pipes, handler and
\* timeout, through the race, the filters and the results.
OutcomeIsAnswered ==
    response.by = "result" =>
        /\ error # "none" /\ ~Filtered => response.status >= 400
        /\ error = "none" /\ value \notin {"BadRequest", "Unauthorized", "Forbidden", "NotFound", "InternalServerError"}
            => response.status < 400 \/ response.status = endpoint.code

\* Every request is answered once its handler has ended or its timeout fired.
EveryRequestIsAnswered ==
    exchange = "open" /\ (plan.timeout \/ execution # "running") ~> response.committed
=============================================================================
