-------------------------------- MODULE MCHttp --------------------------------
(***************************************************************************)
(* The parts of the HTTP plugin, each on its small instance. They share no *)
(* state, so a behaviour is one of a single part: "component" says which,  *)
(* and the others keep still. Components restricts a run to some of them.  *)
(***************************************************************************)
EXTENDS HttpExchange, HttpRateLimit, HttpRouting, HttpSession, HttpUpload

CONSTANT Components

VARIABLE component

allVars == <<component, vars2, limitVars, routingVars, sessionVars, uploadVars>>

ASSUME RateLimitAssumption == RateLimitAssumptions
ASSUME SessionAssumption == SessionAssumptions

-----------------------------------------------------------------------------
(* Routing: two controllers whose paths, hosts and versions overlap.       *)

MCRouteParameters == {":p", ":q", ":tenant"}
Admin == <<"admin", "org">>
Tenant == <<":tenant", "org">>
Hosts == {Absent, Admin, <<"shop", "org">>}

Route(h, m, p, v) == [handler |-> h, method |-> m, path |-> p, version |-> v]
Paths == {<<"a">>, <<":p">>, <<"a", "b">>, <<":p", "b">>, <<"*any">>}

Controllers(handler, hosts, versions, paths) ==
    {[path |-> <<>>, host |-> h, version |-> v, routes |-> <<Route(handler, "get", p, w)>>] :
        h \in hosts, v \in {Absent}, p \in paths, w \in versions}

\* One controller with a prefix, on one host.
Prefixed ==
    {[path |-> <<"a">>, host |-> h, version |-> <<"2">>,
      routes |-> <<Route("list", "post", <<>>, Absent), Route("item", m, p, v)>>] : m \in {"get", "post"},
        h \in {Absent, <<Admin>>}, p \in {<<>>, <<":q">>, <<"b">>}, v \in {Absent, <<"1">>}}

OneHost == {Absent, <<Admin>>, <<Tenant>>}
MCRoutedApplications ==
    {<<c, d>> : c \in Controllers("first", OneHost, {Absent, <<"1">>}, Paths),
                d \in Controllers("second", OneHost, {Absent, <<"2">>}, Paths) \cup Prefixed}

Actions(a) == [duplicate |-> a, ambiguous |-> a, unreachable |-> a]
Versioning(version, type, action) ==
    [basePath |-> <<>>, version |-> version, versionType |-> type, defaultVersion |-> <<"1">>,
     routeValidation |-> TRUE, actions |-> Actions(action)]
MCRoutingConfigurations ==
    {Versioning(TRUE, "header", "error"), Versioning(TRUE, "uri", "error"), Versioning(FALSE, Absent, "warn")}

Segments == {<<"a">>, <<"b">>, <<"a", "b">>, <<"b", "b">>}
MCRoutedRequests ==
    [method : {"get"}, path : Segments, host : Hosts, version : {Absent, "*", "1", "2"}]
        \cup [method : {"get"}, path : {<<"v:version">> \o s : s \in Segments}, host : Hosts,
              version : {"1", "2"}]
        \cup [method : {"post"}, path : {<<"a">>, <<"a", "b">>, <<"v:version", "a">>,
              <<"v:version", "a", "b">>}, host : Hosts, version : {"1", "2"}]

\* Two routes of one path, where one has two hosts.
SeveralHosts == {Absent, <<<<"*">>, Admin>>, <<Tenant>>, <<Admin>>, <<Tenant, <<"shop", "org">>>>}
HostApplications ==
    {<<c, d>> : c \in Controllers("first", SeveralHosts, {Absent}, {<<"a">>}),
                d \in Controllers("second", SeveralHosts, {Absent}, {<<"a">>})}

-----------------------------------------------------------------------------
(* Rate limit: two endpoints of one class, each with its policy.           *)

LimitPolicy(disabled, ttl, limit) == [disabled |-> disabled, ttl |-> ttl, limit |-> limit]
LimitPolicies ==
    {NotGiven, LimitPolicy(TRUE, NotGiven, NotGiven), LimitPolicy(FALSE, 2, NotGiven),
     LimitPolicy(FALSE, NotGiven, 1), LimitPolicy(FALSE, 0, 0)}
MCLimitedApplications ==
    {[list |-> [method |-> m, class |-> c], item |-> [method |-> NotGiven, class |-> c]] :
        m \in LimitPolicies, c \in LimitPolicies}
MCLimitConfigurations ==
    {[rateLimit |-> TRUE, ttl |-> NotGiven, limit |-> 2], [rateLimit |-> FALSE, ttl |-> 3, limit |-> 2]}

-----------------------------------------------------------------------------
(* Exchange: both adapters, and handlers that return or write.             *)

MCConfigurations ==
    {[adapter |-> a, timeout |-> t, healthChecks |-> TRUE] : a \in {"express", "fastify"}, t \in BOOLEAN}
Handles(method, code, limited, writes) == [method |-> method, code |-> code, timeout |-> limited, writes |-> writes]
MCEndpoints ==
    {Handles("get", Undefined, FALSE, TRUE), Handles("post", Undefined, TRUE, FALSE), Handles("delete", 200, FALSE, FALSE)}
MCFailures == {"RateLimitExceededError", "PipeStepValidationError", "Error"}

-----------------------------------------------------------------------------
(* Upload: requests of up to three parts.                                  *)

UploadLimits(size, files, mimes) == [maxFileSize |-> size, maxFiles |-> files, allowedMimeTypes |-> mimes]
MCUploadConfigurations ==
    {[plugin |-> p, class |-> c, method |-> m] :
        p \in {NotSet, UploadLimits(2, NotSet, NotSet)},
        c \in {NotSet, UploadLimits(NotSet, 1, NotSet)},
        m \in {NotSet, UploadLimits(1, NotSet, {"png"}), UploadLimits(NotSet, 2, NotSet)}}

FilePart(name, mime, size) == [type |-> "file", name |-> name, mime |-> mime, size |-> size]
FieldPart(name) == [type |-> "field", name |-> name, mime |-> NotSet, size |-> 0]
Parts == {FilePart("a", "png", 1), FilePart("a", "pdf", 2), FilePart("b", "png", 3), FieldPart("a"), FieldPart("b")}
MCUploadRequests == UNION {[1 .. n -> Parts] : n \in 0 .. 3} \cup {NotMultipart}
MCUploadParameters == {<<"uploadedFile", "a">>, <<"uploadedFiles", "a">>, <<"uploadedFiles", NotSet>>,
                 <<"body", "a">>, <<"body", "b">>}

-----------------------------------------------------------------------------
(* One component at a time. In an exchange the application has at most two *)
(* steps, one of them a guard.                                             *)

ExchangeIsIdle ==
    /\ options = CHOOSE o \in Configurations : TRUE
    /\ endpoint = CHOOSE e \in Endpoints : TRUE
    /\ plan = [before |-> 0, after |-> 0, timeout |-> HasTimeout, catch |-> <<Errors>>]
    /\ HttpInit
LimitIsIdle ==
    /\ limits = CHOOSE o \in LimitConfigurations : TRUE
    /\ metadata = CHOOSE a \in LimitedApplications : TRUE
    /\ LimitInit
SessionIsIdle == framework = (CHOOSE f \in Frameworks : TRUE) /\ SessionInit
UploadIsIdle ==
    /\ uploadAdapter = (CHOOSE a \in UploadAdapters : TRUE) /\ multipart = NotMultipart
    /\ uploadOptions = CHOOSE o \in UploadConfigurations : TRUE
    /\ UploadInit
RoutingIsIdle ==
    /\ controllers = CHOOSE a \in RoutedApplications : TRUE
    /\ routing = CHOOSE o \in RoutingConfigurations : TRUE
    /\ RoutingInit

MCInit ==
    /\ component \in Components
    /\ IF component = "exchange" THEN HttpInit /\ plan.before <= 1 /\ plan.before + plan.after <= 2 ELSE ExchangeIsIdle
    /\ IF component = "rateLimit" THEN LimitInit ELSE LimitIsIdle
    /\ IF component = "session" THEN SessionInit ELSE SessionIsIdle
    /\ IF component = "upload" THEN UploadInit ELSE UploadIsIdle
    /\ IF component = "routing" THEN RoutingInit ELSE RoutingIsIdle

Exchanging(A) == component = "exchange" /\ A /\ UNCHANGED <<component, limitVars, sessionVars, uploadVars, routingVars>>
Limiting(A) == component = "rateLimit" /\ A /\ UNCHANGED <<component, vars2, sessionVars, uploadVars, routingVars>>
Remembering(A) == component = "session" /\ A /\ UNCHANGED <<component, vars2, limitVars, uploadVars, routingVars>>
Uploading(A) == component = "upload" /\ A /\ UNCHANGED <<component, vars2, limitVars, sessionVars, routingVars>>
Routing(A) == component = "routing" /\ A /\ UNCHANGED <<component, vars2, limitVars, sessionVars, uploadVars>>

MCNext ==
    \/ Exchanging(HttpNext)
    \/ Limiting(LimitNext)
    \/ Remembering(SessionNext)
    \/ Uploading(UploadNext)
    \/ Routing(RoutingNext)

MCSpec == MCInit /\ [][MCNext]_allVars /\ WF_allVars(Exchanging(Engine)) /\ WF_allVars(Exchanging(Close))
==============================================================================
