----------------------------- MODULE HttpRouting -----------------------------
(***************************************************************************)
(* packages/http: which handler answers a request. RouteGenerator turns    *)
(* the metadata of the controllers into groups of routes, RouteValidator   *)
(* looks for conflicts, the adapter picks the group by method and path,    *)
(* and HttpEngine the route of the group by host and by version.           *)
(*                                                                         *)
(* A path is a sequence of segments and a host a sequence of labels: the   *)
(* code joins and splits strings, lower-cases hosts and drops their port.  *)
(***************************************************************************)
EXTENDS Integers, Sequences, FiniteSetsExt, Selection

CONSTANTS
    RouteParameters,       \* segments and labels that start with ":"
    RouteWildcards,        \* segments that start with "*"
    Absent,                \* undefined
    RoutedApplications,    \* sequences of controllers, in the order they are registered
    RoutingConfigurations, \* HttpPluginOptions
    RoutedRequests

IsList(s) == s \in Seq(Range(s))
AreHosts(hosts) == IsList(hosts) /\ \A pattern \in Range(hosts) : IsList(pattern)

\* Controllers, routes, hosts and their labels are lists, and a host that is given is not Absent.
ASSUME RoutingAssumptions ==
    \A application \in RoutedApplications :
        /\ IsList(application)
        /\ \A c \in Range(application) : IsList(c.routes) /\ (c.host # Absent => AreHosts(c.host))

Default(value, otherwise) == IF value = Absent THEN otherwise ELSE value
Some(seq, Test(_)) == \E i \in DOMAIN seq : Test(seq[i])

VARIABLES
    registration,          \* of HttpPlugin.onRegister, then "serving" or "failed"
    controllers,
    routing,
    routes,         \* the groups of the RouteGenerator
    answer          \* the last request with the route and the status of its answer

routingVars == <<registration, controllers, routing, routes, answer>>

NoAnswer == [request |-> Absent, route |-> Absent, status |-> "none"]

RoutingInit ==
    /\ registration = "new"
    /\ controllers \in RoutedApplications
    /\ routing \in RoutingConfigurations
    /\ routes = <<>>
    /\ answer = NoAnswer

-----------------------------------------------------------------------------
(* Hosts and versions.                                                     *)

AnyHost == <<"*">>
IsDynamicLabel(label) == label = "*" \/ label \in RouteParameters

HostMatches(host, pattern) ==
    \/ pattern = AnyHost
    \/ /\ host # Absent
       /\ Len(host) = Len(pattern)
       /\ \A i \in DOMAIN pattern : IsDynamicLabel(pattern[i]) \/ pattern[i] = host[i]

IsHostAccepted(host, accepted) == Some(accepted, LAMBDA p : HostMatches(host, p))

PatternsOverlap(p, q) ==
    \/ AnyHost \in {p, q}
    \/ /\ Len(p) = Len(q)
       /\ \A i \in DOMAIN p : IsDynamicLabel(p[i]) \/ IsDynamicLabel(q[i]) \/ p[i] = q[i]

HostsOverlap(ps, qs) == Some(ps, LAMBDA p : Some(qs, LAMBDA q : PatternsOverlap(p, q)))

LabelScore(label) ==
    IF label = "*" THEN 1 ELSE IF label \in RouteParameters THEN 10 ELSE 100
Specificity(pattern) ==
    LET score[n \in 0 .. Len(pattern)] == IF n = 0 THEN 0 ELSE score[n - 1] + LabelScore(pattern[n])
    IN score[Len(pattern)]

IsWildcardVersion(v) == v \in {"*", "default"}
AcceptsAnyVersion(versions) == Some(versions, IsWildcardVersion)
IsVersionAccepted(version, accepted) ==
    AcceptsAnyVersion(accepted) \/ (version # Absent /\ version \in Range(accepted))

VersionsOverlap(vs, ws) ==
    \/ <<>> \in {vs, ws}
    \/ AcceptsAnyVersion(vs) \/ AcceptsAnyVersion(ws)
    \/ Some(vs, LAMBDA v : v \in Range(ws))

-----------------------------------------------------------------------------
(* RouteGenerator.generate.                                                *)

VersionInUri == routing.version /\ routing.versionType = "uri"
RoutePath(c, r) ==
    routing.basePath \o (IF VersionInUri THEN <<"v:version">> ELSE <<>>) \o c.path \o r.path

DefaultVersions ==
    IF routing.versionType = "uri" THEN Default(routing.defaultVersion, <<"*">>) ELSE <<"*">>
RouteVersions(c, r) ==
    IF routing.version THEN Default(r.version, Default(c.version, DefaultVersions)) ELSE <<>>

RoutesOf(c) ==
    [i \in DOMAIN c.routes |->
        LET r == c.routes[i] IN
        [handler |-> r.handler, method |-> r.method, path |-> RoutePath(c, r),
         versions |-> RouteVersions(c, r), hosts |-> Default(c.host, <<AnyHost>>)]]

SamePath(r, s) == r.path = s.path

SameKey(r, s) == r.method = s.method /\ r.path = s.path

\* The routes of one method and path form a group, in the order of their first routes.
GroupRoutes(rs) ==
    LET firsts == Select([i \in DOMAIN rs |-> i],
                         {i \in DOMAIN rs : \A j \in 1 .. i - 1 : ~SameKey(rs[j], rs[i])}) IN
    [g \in DOMAIN firsts |-> Select(rs, {i \in DOMAIN rs : SameKey(rs[firsts[g]], rs[i])})]

GenerateRoutes ==
    /\ registration = "new"
    /\ registration' = "generated"
    /\ routes' = GroupRoutes(Flat([i \in DOMAIN controllers |-> RoutesOf(controllers[i])]))
    /\ UNCHANGED <<controllers, routing, answer>>

-----------------------------------------------------------------------------
(* RouteComparator.compare and RouteValidator.validate.                    *)

IsStatic(segment) == segment \notin RouteParameters \cup RouteWildcards
NormalizeSegment(segment) ==
    IF segment \in RouteParameters THEN ":" ELSE IF segment \in RouteWildcards THEN "*" ELSE segment
Shape(path) == [i \in DOMAIN path |-> NormalizeSegment(path[i])]
SegmentsOverlap(a, b) == a = b \/ ~IsStatic(a) \/ ~IsStatic(b)

Ambiguous(p, q) ==
    /\ Len(p) = Len(q)
    /\ \E i \in DOMAIN p : \/ p[i] \in RouteParameters /\ IsStatic(q[i])
                           \/ q[i] \in RouteParameters /\ IsStatic(p[i])
    /\ \A i \in DOMAIN p : SegmentsOverlap(p[i], q[i])

WildcardCovers(p, q) ==
    \E w \in DOMAIN p :
        /\ p[w] \in RouteWildcards
        /\ \A i \in 1 .. w - 1 : p[i] \notin RouteWildcards
        /\ \A i \in 1 .. w - 1 : i <= Len(q) /\ SegmentsOverlap(p[i], q[i])

Compare(r, s) ==
    IF \/ r.method # s.method
       \/ ~HostsOverlap(r.hosts, s.hosts)
       \/ ~VersionsOverlap(r.versions, s.versions)
    THEN {}
    ELSE IF Shape(r.path) = Shape(s.path) THEN {"duplicate"}
    ELSE (IF Ambiguous(r.path, s.path) THEN {"ambiguous"} ELSE {}) \cup
         (IF WildcardCovers(r.path, s.path) THEN {"unreachable"} ELSE {})

FindConflicts ==
    LET rs == Flat(routes) IN
    UNION {Compare(rs[p[1]], rs[p[2]]) : p \in {q \in (DOMAIN rs) \X (DOMAIN rs) : q[1] < q[2]}}

\* routeValidationOptions name the action for each type of conflict: warnings
\* are logged, an error makes onRegister reject.
Validate ==
    /\ registration = "generated"
    /\ registration' = IF /\ routing.routeValidation
                          /\ \E type \in FindConflicts : routing.actions[type] = "error"
                       THEN "failed" ELSE "serving"
    /\ UNCHANGED <<controllers, routing, routes, answer>>

-----------------------------------------------------------------------------
(* HttpEngine.execute, up to the guards of the execution.                  *)

\* VersionProcessor: HttpPlugin registers a resolver for these types, and only
\* when versions are enabled.
ResolvedVersion(request) ==
    IF routing.version /\ routing.versionType \in {"header", "media-type", "uri"}
    THEN request.version ELSE Absent

AcceptingHost(rs, host) == Select(rs, {i \in DOMAIN rs : IsHostAccepted(host, rs[i].hosts)})

\* Not the code: for the mutants.
FirstHostMatch(rs, host) ==
    IF AcceptingHost(rs, host) = <<>> THEN <<Head(rs)>> ELSE <<Head(AcceptingHost(rs, host))>>

\* Math.max over the patterns of the routes.
HasHighest(rs, i) ==
    Some(rs[i].hosts, LAMBDA h : \A j \in DOMAIN rs : \A k \in DOMAIN rs[j].hosts :
                                    Specificity(h) >= Specificity(rs[j].hosts[k]))
MostSpecific(rs) == Select(rs, {i \in DOMAIN rs : HasHighest(rs, i)})
HostMatch(rs, host) ==
    IF AcceptingHost(rs, host) = <<>> THEN <<Head(rs)>> ELSE MostSpecific(AcceptingHost(rs, host))

VersionMatch(rs, version) ==
    LET exact == Select(rs, {i \in DOMAIN rs : version \in Range(rs[i].versions)})
        any == Select(rs, {i \in DOMAIN rs : AcceptsAnyVersion(rs[i].versions)}) IN
    IF version # Absent /\ ~IsWildcardVersion(version) /\ exact # <<>> THEN Head(exact)
    ELSE IF any # <<>> THEN Head(any) ELSE Head(rs)

\* HostGuard and VersionGuard; the latter is removed when versions are disabled.
GuardStatus(route, host, version) ==
    IF ~IsHostAccepted(host, route.hosts) THEN "NotFound"
    ELSE IF routing.version /\ ~IsVersionAccepted(version, route.versions) THEN "BadRequest"
    ELSE "handled"

\* Express calls the handler of the first path that matches. The segment
\* "v:version" of a request stands for a "v" and the version it asks for.
PathMatches(path, segments) ==
    \E w \in 0 .. Len(path) :
        /\ IF w = Len(path) THEN Len(segments) = w ELSE path[w + 1] \in RouteWildcards /\ Len(segments) > w
        /\ \A i \in 1 .. w : path[i] \notin RouteWildcards /\ i <= Len(segments)
                             /\ (path[i] \in RouteParameters \/ path[i] = segments[i])

MatchingGroups(request) ==
    {g \in DOMAIN routes : /\ Head(routes[g]).method = request.method
                           /\ PathMatches(Head(routes[g]).path, request.path)}
Dispatched(request) == Min(MatchingGroups(request))

Answer(request) ==
    IF MatchingGroups(request) = {}
    THEN [request |-> request, route |-> Absent, status |-> "NotFound"]
    ELSE LET version == ResolvedVersion(request)
             route == VersionMatch(HostMatch(routes[Dispatched(request)], request.host), version) IN
         [request |-> request, route |-> route,
          status |-> GuardStatus(route, request.host, version)]

\* A request changes nothing that the next one reads: one per behaviour is enough.
Execute(request) ==
    /\ registration = "serving"
    /\ answer = NoAnswer
    /\ answer' = Answer(request)
    /\ UNCHANGED <<registration, controllers, routing, routes>>

RoutingNext == GenerateRoutes \/ Validate \/ \E request \in RoutedRequests : Execute(request)

RoutingSpec == RoutingInit /\ [][RoutingNext]_routingVars

-----------------------------------------------------------------------------
(* Properties.                                                             *)

Declared == Flat(routes)
IsStrict == routing.routeValidation /\ \A type \in DOMAIN routing.actions :
                                            routing.actions[type] = "error"

\* The routes the adapter cannot tell apart by path are compared by the validator.
ComparedByPath ==
    \A r, s \in Range(Declared) :
        SamePath(r, s) \/ (HostsOverlap(r.hosts, s.hosts) /\ VersionsOverlap(r.versions, s.versions))
HaveOneHost == \A r \in Range(Declared) : Len(r.hosts) = 1

\* When the validator finds no conflict, every declared route answers some
\* request: no group hides another, and no route of a group is always beaten
\* by another. Routes on disjoint hosts or versions are dispatched by path alone,
\* and a route with several hosts can be hidden by one of them: the validator
\* knows of neither.
EveryRouteAnswers ==
    registration = "serving" /\ answer = NoAnswer /\ IsStrict /\ ComparedByPath /\ HaveOneHost =>
        \A r \in Range(Declared) : \E request \in RoutedRequests :
            Answer(request).route = r /\ Answer(request).status = "handled"

\* The specificity of the host patterns that match, which is what should count.
MatchingSpecificity(r, host) ==
    Max({Specificity(h) : h \in {p \in Range(r.hosts) : HostMatches(host, p)}})
Prefers(r, s, host, version) ==
    \/ MatchingSpecificity(r, host) > MatchingSpecificity(s, host)
    \/ /\ MatchingSpecificity(r, host) = MatchingSpecificity(s, host)
       /\ version # Absent /\ ~IsWildcardVersion(version)
       /\ version \in Range(r.versions) /\ version \notin Range(s.versions)

\* Of the routes of the group that accept a request's host, no other matches it
\* more closely than the one that answers, or equally and names the version
\* that is asked for; a version is refused only when none of the closest accepts it.
BestRouteAnswers ==
    answer.route # Absent /\ HaveOneHost =>
        LET request == answer.request
            version == ResolvedVersion(request)
            hosts == {r \in Range(routes[Dispatched(request)]) : IsHostAccepted(request.host, r.hosts)} IN
        /\ (answer.status = "NotFound") = (hosts = {})
        /\ answer.status # "NotFound" =>
            \A r \in hosts : ~Prefers(r, answer.route, request.host, version)
        /\ answer.status = "BadRequest" =>
            \A r \in hosts :
                MatchingSpecificity(r, request.host) = MatchingSpecificity(answer.route, request.host) =>
                    ~IsVersionAccepted(version, r.versions)

\* host-matcher.ts: "Returns the most specific matching host routes". A route
\* is selected for how closely it matches the host of the request.
MostSpecificHost ==
    answer.status = "handled" =>
        \A r \in Range(routes[Dispatched(answer.request)]) :
            IsHostAccepted(answer.request.host, r.hosts) =>
                MatchingSpecificity(answer.route, answer.request.host)
                    >= MatchingSpecificity(r, answer.request.host)
=============================================================================
