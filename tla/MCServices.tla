------------------------------ MODULE MCServices ------------------------------
(***************************************************************************)
(* The plugins beside HTTP and what all of them read, each on its small    *)
(* instance: connections, derived queries, WebSocket events, log files,    *)
(* declarations and the OpenAPI document. They share no state, so that a   *)
(* behaviour is one of a single part, as in MCHttp.                        *)
(***************************************************************************)
EXTENDS Connections, Logger, WebSocket, OpenApi, Declarations, DerivedQueries, TLC

CONSTANTS Components, None

VARIABLE component

allVars == <<component, vars, logVars, socketVars, documentVars, loadVars, queryVars>>

-----------------------------------------------------------------------------
(* Derived queries: three columns, plain ones and ones that mislead.       *)

ColumnOf(path, tag, length) == [path |-> path, tag |-> tag, length |-> length]
Age == ColumnOf("age", <<"Age">>, 3)
MCColumns == {
    <<Age, ColumnOf("name", <<"Name">>, 4)>>,
    \* columns that end with an operator, and that contain a separator
    <<Age, ColumnOf("name", <<"Age", "In">>, 5)>>,
    <<ColumnOf("name", <<"Or", "der">>, 5), Age>>}

Source(name, type, entities) == [name |-> name, type |-> type, entities |-> entities]
MCDataSources == {<<Source("main", type, {"User"})>> : type \in {"sql", "mongodb", "sqlite"}}
    \cup {<<Source("main", "sql", {}), Source("other", "mongodb", {"User"})>>, <<Source("main", "sql", {})>>}

Predicates == [path : {"age"}, operator : Operators]
    \cup {[path |-> "name", operator |-> o] : o \in {p \in Operators : p.name \in {"Equal", "Between"}}}
ByName == {x \in Predicates : x.path = "name" /\ x.operator = Equal}
Groups == {<<<<p>>>> : p \in Predicates}
    \cup {<<<<p, q>>>> : p \in Predicates, q \in ByName} \cup {<<<<p>>, <<q>>>> : p \in Predicates, q \in ByName}
Sorts == {<<>>, <<[path |-> "name", direction |-> "DESC"], [path |-> "age", direction |-> "ASC"]>>}
MCMethodQueries == {[operation |-> "findMany", groups |-> g, order |-> <<>>] : g \in Groups}
    \cup {[operation |-> o, groups |-> <<<<p>>>>, order |-> s] : o \in {"findOne", "count"}, p \in Predicates, s \in Sorts}

MethodName(prefix, body) == [prefix |-> prefix, body |-> body]
MCMalformedNames == {
    MethodName("findBy", <<"Age", "Or", "Or", "Age">>), MethodName("findBy", <<"Age", "And">>),
    MethodName("findBy", OrderBy \o <<"Age">>), MethodName("findBy", <<"Age">> \o OrderBy),
    MethodName("findBy", <<"Age">> \o OrderBy \o <<"Age">> \o OrderBy \o <<"Age">>),
    MethodName("existsBy", <<"Age", "Null">>), MethodName("findOneBy", <<"Age">> \o OrderBy \o <<"Age", "Asc">>)}

MCQueryInputs == [args : UNION {[1 .. n -> {None, 1, 2}] : n \in 0 .. 3}, page : {None}]
    \cup [args : {<<1>>}, page : {[page |-> 1, size |-> 0], [page |-> 1, size |-> 2]}]
MCRepositories == <<[target |-> "UserRepository", entity |-> "User"]>>
MCTableRows == [age : {None, 0, 1, 2, 3}, name : {None, 1, 2}]

-----------------------------------------------------------------------------
(* WebSocket: two classes of one namespace and one of another.             *)

Event(name, regex, global, timeout) ==
    [event |-> name, regex |-> regex, global |-> global, timeout |-> timeout]
MCGatewayClasses == <<
    [namespace |-> <<"chat">>,
     events |-> <<Event("connection", FALSE, FALSE, FALSE), Event("say", FALSE, FALSE, TRUE)>>],
    [namespace |-> <<"/", "chat">>,
     events |-> <<Event("any", TRUE, TRUE, FALSE), Event("s-words", TRUE, FALSE, FALSE)>>],
    [namespace |-> <<"/">>, events |-> <<Event("say", FALSE, FALSE, FALSE)>>]>>
MCMatchesName(expression, name) == expression = "any" \/ name = "say"

-----------------------------------------------------------------------------
(* Logger: a file of one entry that is rotated twice, and other transports. *)

MCLoggerConfigurations ==
    {[rotating |-> 2], [rotating |-> 2, http |-> 3], [memory |-> 3, stream |-> 0], [webhook |-> 2, null |-> 0],
     [console |-> 3]}

-----------------------------------------------------------------------------
(* Declarations: a base class, two classes that extend it, one that        *)
(* extends one of them, and an unrelated class with the name of another.   *)

MCProjectClasses == {"Base", "Left", "Right", "Leaf", "Other"}
MCClassChain == "Base" :> <<"Base">> @@ "Left" :> <<"Left", "Base">> @@ "Right" :> <<"Right", "Base">>
           @@ "Leaf" :> <<"Leaf", "Left", "Base">> @@ "Other" :> <<"Other">>
MCClassName == [c \in MCProjectClasses |-> IF c = "Other" THEN "Right" ELSE c]

Declared(decorator, p, i) == [decorator |-> decorator, property |-> p, index |-> i]
Declarables == {Declared(n, "class", 0) : n \in OnClass} \cup {Declared(n, p, 0) : n \in OnEither, p \in {"class", "method"}}
          \cup {Declared(n, "method", i) : n \in OnMethod, i \in {0, 1}}

WithRole(d) == IF d.property = "class" THEN <<>> ELSE <<Declared("Controller", "class", 0)>>
ProgramsOf(d) ==
    {"Base" :> base @@ "Left" :> left @@ "Right" :> <<d>> @@ "Leaf" :> leaf @@ "Other" :> <<Declared("Injectable", "class", 0)>> :
        base \in {<<>>, <<d>> \o WithRole(d)}, left \in {<<d, [d EXCEPT !.index = 2]>>, <<Declared("Injectable", "class", 0)>>},
        leaf \in {<<>>, <<[d EXCEPT !.index = 2], d>>}}
NoDeclarations == [c \in MCProjectClasses |-> <<>>]
MCClassPrograms == {NoDeclarations} \cup UNION {ProgramsOf(d) : d \in Declarables}

-----------------------------------------------------------------------------
(* OpenAPI: two routes and three classes, of which two share the list of   *)
(* their properties by inheritance, with every reference between them.     *)

Text(t) == [text |-> t, parameter |-> FALSE]
Meta(type, items) == [type |-> type, items |-> items]
Types == {Meta("string", None), Meta("integer", None), Meta(None, None), Meta("array", None),
          Meta("array", <<>>), Meta("array", <<"Base", "Other">>)} \cup {Meta(c, None) : c \in {"Base", "Derived", "Other"}}
Property(p, name, m, required) == [property |-> p, name |-> name, required |-> required] @@ m
Lists ==
    {[l1 |-> <<Property("a", "x", m, TRUE), Property("b", None, n, FALSE)>>, l2 |-> <<Property("c", name, k, TRUE)>>] :
        m \in Types, n \in {Meta("string", None), Meta("Derived", None)}, k \in Types, name \in {"c", "z"}}
Documented(name) == [Base |-> [name |-> "Base", list |-> "l1"], Derived |-> [name |-> "Derived", list |-> "l1"],
                  Other |-> [name |-> name, list |-> "l2"]]
Response(status, m) == [status |-> status] @@ m
Route(path, method, property, parameters, responses) ==
    [path |-> path, method |-> method, target |-> "UserController", property |-> property,
     parameters |-> parameters, responses |-> responses]
Field(in, field, type) == [in |-> in, field |-> field, type |-> type]
Routes == {
    <<Route(<<Text("users"), [text |-> "id", parameter |-> TRUE]>>, "get", "one",
            <<Field("path", "id", "string"), Field("header", "h", "string")>>,
            <<Response(200, m), Response(404, Meta(None, None))>>),
      Route(<<Text("users")>>, "post", "create", <<Field("body", "b", body)>>, <<>>)>> :
    <<m, body>> \in ({Meta("Derived", None)} \X {"Base", "Other", "string", None}) \cup {<<Meta("string", None), "Other">>}}
Options == {[globalPrefix |-> g, docsUrl |-> <<>>, exposeJson |-> TRUE, exposeYaml |-> g] : g \in BOOLEAN}
\* Paths and schemas do not depend on each other: the lists of one name go with the prefix.
MCOpenApiProjects ==
    {p \in [options : Options, basePath : {<<Text("api")>>}, routes : Routes,
            classes : {Documented("Other"), Documented("Base")}, lists : Lists] :
        p.options.globalPrefix <=> p.lists.l2[1].name = "z"}

-----------------------------------------------------------------------------
(* One component at a time. Of two names of connections "a" comes first,   *)
(* and calls that also go to a server are awaited.                         *)

QueriesAreIdle ==
    /\ columns = CHOOSE schema \in Schemas : TRUE
    /\ dataSources = CHOOSE sources \in Sources : TRUE
    /\ QueriesInit
LoggerIsIdle ==
    /\ LogInit
    /\ transports = CHOOSE t \in LoggerConfigurations : TRUE
    /\ overlap = 1
ConnectionsAreIdle ==
    /\ Init
    /\ plugin = "data" /\ configs = <<[name |-> "a", auto |-> {}]>>
DocumentIsIdle ==
    /\ project = CHOOSE p \in Projects : TRUE
    /\ DocumentInit

DeclarationsAreIdle ==
    /\ program = NoDeclarations
    /\ LoadInit

MCInit ==
    /\ component \in Components
    /\ IF component = "declarations" THEN LoadInit ELSE DeclarationsAreIdle
    /\ IF component = "connections" THEN Init /\ configs[1].name = "a" ELSE ConnectionsAreIdle
    /\ IF component = "logger" THEN LogInit /\ ("http" \in Transports => overlap = 1) ELSE LoggerIsIdle
    /\ SocketInit
    /\ IF component = "openapi" THEN DocumentInit ELSE DocumentIsIdle
    /\ IF component = "queries" THEN QueriesInit ELSE QueriesAreIdle

Connecting(A) ==
    component = "connections" /\ A /\ UNCHANGED <<component, logVars, socketVars, documentVars, loadVars, queryVars>>
Querying(A) ==
    component = "queries" /\ A /\ UNCHANGED <<component, vars, logVars, socketVars, documentVars, loadVars>>
Logging(A) == component = "logger" /\ A /\ UNCHANGED <<component, vars, socketVars, documentVars, loadVars, queryVars>>
Messaging(A) == component = "websocket" /\ A /\ UNCHANGED <<component, vars, logVars, documentVars, loadVars, queryVars>>
Documenting(A) == component = "openapi" /\ A /\ UNCHANGED <<component, vars, logVars, socketVars, loadVars, queryVars>>
Declaring(A) == component = "declarations" /\ A /\ UNCHANGED <<component, vars, logVars, socketVars, documentVars, queryVars>>

MCNext ==
    \/ Connecting(Next)
    \/ Querying(QueriesNext)
    \/ Messaging(SocketNext)
    \/ Logging(LogNext)
    \/ Declaring(LoadNext)
    \/ Documenting(DocumentNext)

\* As in Connections and OpenApi: brokers answer, and what awaits nothing goes on.
MCSpec ==
    /\ MCInit /\ [][MCNext]_allVars
    /\ WF_allVars(Connecting(Destroy)) /\ WF_allVars(Connecting(\E r \in Resources : Answers(r)))
    /\ WF_allVars(Documenting(DocumentNext))

-----------------------------------------------------------------------------
(* Properties of the parts; all but this one are in their modules.         *)

\* The loops over growing collections end: onStop over the maps that connections
\* made meanwhile are added to, and the generation over the schemas that refer
\* to each other (Connections, OpenApi).
LoopsEnd ==
    /\ phase \in Loops ~> phase \in {"stopped", "error"}
    /\ component = "openapi" ~> (component = "openapi" /\ state \in {"done", "TypeError"})
=============================================================================
