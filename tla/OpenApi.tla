-------------------------------- MODULE OpenApi --------------------------------
(***************************************************************************)
(* packages/openapi: OpenApiPlugin registers the routes of its document    *)
(* and OpenApiDocumentGenerator describes every registered route, then, in *)
(* rounds, the schemas that what it described refers to, which may refer   *)
(* to further ones and to each other.                                      *)
(*                                                                         *)
(* The metadata of properties are lists that classes share (Declarations). *)
(***************************************************************************)
EXTENDS Naturals, Sequences, Functions, Selection

CONSTANTS
    Projects,   \* [options, basePath, routes, classes, lists], see below
    Undefined

IsList(s) == s \in Seq(Range(s))
ItemsAreList(m) == m.type = "array" /\ m.items # Undefined => IsList(m.items)

\* Routes, parameters, responses, properties and items are lists.
ASSUME DocumentAssumptions ==
    \A p \in Projects :
        /\ IsList(p.routes)
        /\ \A r \in Range(p.routes) :
            /\ IsList(r.parameters) /\ IsList(r.responses)
            /\ \A m \in Range(r.responses) : ItemsAreList(m)
        /\ \A t \in DOMAIN p.classes : p.classes[t].list # "none" =>
                /\ IsList(p.lists[p.classes[t].list])
                /\ \A m \in Range(p.lists[p.classes[t].list]) : ItemsAreList(m)

VARIABLES
    project,
    routes,     \* HttpAdapter's registered routes, in order
    nameless,   \* <<list, index>> of the properties whose name was cleared
    schemasToGenerate, schemasAlreadyGenerated,
    round,      \* the schemas that this round has left
    document,   \* [paths, schemas]
    state       \* "registering", "paths", "schemas", "done" or "TypeError"

documentVars == <<project, routes, nameless, schemasToGenerate, schemasAlreadyGenerated, round, document, state>>

DocumentInit ==
    /\ project \in Projects
    /\ routes = project.routes
    /\ nameless = {} /\ schemasToGenerate = <<>> /\ schemasAlreadyGenerated = {} /\ round = <<>>
    /\ document = [paths |-> <<>>, schemas |-> <<>>]
    /\ state = "registering"

-----------------------------------------------------------------------------
(* OpenApiPlugin.onRegister. Urls and paths are segments, [text, parameter]. *)

Segment(text) == [text |-> text, parameter |-> FALSE]
BasePath == IF project.options.globalPrefix THEN project.basePath ELSE <<>>
DocsUrl(file) == BasePath \o project.options.docsUrl \o <<Segment(file)>>
DocsRoute(file, property) ==
    [path |-> DocsUrl(file), method |-> "get", target |-> "OpenApiController", property |-> property,
     parameters |-> <<>>, responses |-> <<>>]
DocsRoutes ==
    (IF project.options.exposeJson THEN <<DocsRoute("json", "getOpenApiJson")>> ELSE <<>>)
    \o (IF project.options.exposeYaml THEN <<DocsRoute("yaml", "getOpenApiYaml")>> ELSE <<>>)

RegisteredRoutes == project.routes \o DocsRoutes

RegisterDocument ==
    /\ state = "registering"
    /\ routes' = RegisteredRoutes
    /\ state' = "paths"
    /\ UNCHANGED <<project, nameless, schemasToGenerate, schemasAlreadyGenerated, round, document>>

-----------------------------------------------------------------------------
(* Objects of metadata: [type, items], items Undefined but for arrays.     *)

Primitive == {"string", "number", "boolean", "array"}
IsPrimitiveType(t) == t \in Primitive

\* What is neither a class nor primitive ("integer") has no name.
NameForSchema(t) == IF t \in DOMAIN project.classes THEN project.classes[t].name ELSE "undefined"

TypesOf(m) == IF m.type # "array" THEN <<m.type>> ELSE m.items
ReferencesOf(m) == Select(TypesOf(m), {i \in DOMAIN TypesOf(m) : ~IsPrimitiveType(TypesOf(m)[i])})
Throws(m) == m.type = Undefined \/ (m.type = "array" /\ m.items = Undefined)

\* generateOpenApiObjectFromMetadata: the names it refers to and the types it states.
ObjectOf(m) ==
    [refs |-> {NameForSchema(t) : t \in Range(ReferencesOf(m))},
     type |-> IF IsPrimitiveType(m.type) THEN m.type ELSE "none"]

\* What a list of such objects refers to, in the order it is come across.
ReferredBy(ms) == Flat([i \in DOMAIN ms |-> ReferencesOf(ms[i])])

\* A Set keeps the order in which its elements were added first.
AddSchemas(set, added) ==
    set \o Select(added, {i \in DOMAIN added : added[i] \notin Range(set) \cup {added[j] : j \in 1 .. i - 1}})

-----------------------------------------------------------------------------
(* Paths.                                                                  *)

\* transformPathToOpenApiFormat: a parameter is written in braces.
OpenApiPath(path) == [i \in DOMAIN path |-> IF path[i].parameter THEN <<"{", path[i].text, "}">> ELSE <<path[i].text>>]

ParametersOf(r) ==
    Select(r.parameters, {i \in DOMAIN r.parameters : r.parameters[i].in \in {"path", "header", "query", "cookie"}})
BodiesOf(r) == Select(r.parameters, {i \in DOMAIN r.parameters : r.parameters[i].in = "body"})
\* Of several bodies the first one counts.
BodyOf(r) == IF BodiesOf(r) = <<>> THEN <<>>
             ELSE IF IsPrimitiveType(BodiesOf(r)[1].type) THEN <<>>
             ELSE <<[type |-> BodiesOf(r)[1].type, items |-> Undefined]>>
IsSpecialCaseRoute(r) == r.target = "OpenApiController"
ResponsesOf(r) == IF IsSpecialCaseRoute(r) THEN <<>> ELSE r.responses
HasContent(r, i) == ResponsesOf(r)[i].type # Undefined
ObjectsOf(r) == Select(ResponsesOf(r), {i \in DOMAIN ResponsesOf(r) : HasContent(r, i)}) \o BodyOf(r)

\* All of these are generated; of the responses of one status the last one is written.
IsLastOfStatus(r, i) ==
    \A j \in DOMAIN ResponsesOf(r) : j > i => ResponsesOf(r)[j].status # ResponsesOf(r)[i].status
Written(r) ==
    Range(BodyOf(r))
        \cup {ResponsesOf(r)[i] : i \in {i \in DOMAIN ResponsesOf(r) : HasContent(r, i) /\ IsLastOfStatus(r, i)}}

Operation(r) ==
    [target |-> r.target, property |-> r.property, parameters |-> {p.field : p \in Range(ParametersOf(r))},
     objects |-> {ObjectOf(m) : m \in Written(r)}]
PlaceOf(r) == <<OpenApiPath(r.path), r.method>>
WithOperation(paths, r) ==
    [k \in DOMAIN paths \cup {PlaceOf(r)} |-> IF k = PlaceOf(r) THEN Operation(r) ELSE paths[k]]

ThrowTypeError ==
    /\ state' = "TypeError"
    /\ UNCHANGED <<project, routes, nameless, schemasToGenerate, schemasAlreadyGenerated, round, document>>

DocumentRoute ==
    /\ state = "paths" /\ routes # <<>>
    /\ LET r == Head(routes)
           referred == ReferredBy(ObjectsOf(r)) IN
        IF \E m \in Range(ObjectsOf(r)) : Throws(m) THEN ThrowTypeError
        ELSE /\ document' = [document EXCEPT !.paths = WithOperation(@, r)]
             /\ schemasToGenerate' = AddSchemas(schemasToGenerate, referred)
             /\ routes' = Tail(routes)
             /\ UNCHANGED <<project, nameless, schemasAlreadyGenerated, round, state>>

-----------------------------------------------------------------------------
(* Schemas.                                                                *)

IsNew(t) == t \notin schemasAlreadyGenerated

StartRound ==
    /\ \/ state = "paths" /\ routes = <<>>
       \/ state = "schemas" /\ round = <<>> /\ schemasToGenerate # <<>>
    /\ round' = Select(schemasToGenerate, {i \in DOMAIN schemasToGenerate : IsNew(schemasToGenerate[i])})
    /\ schemasToGenerate' = <<>>
    /\ schemasAlreadyGenerated' = schemasAlreadyGenerated \cup Range(schemasToGenerate)
    /\ state' = "schemas"
    /\ UNCHANGED <<project, routes, nameless, document>>

ListOf(t) == IF t \in DOMAIN project.classes THEN project.classes[t].list ELSE "none"
PropertiesOf(t) == IF ListOf(t) = "none" THEN <<>> ELSE project.lists[ListOf(t)]
NameOfProperty(t, i, cleared) ==
    LET p == PropertiesOf(t)[i] IN
    IF p.name = Undefined \/ <<ListOf(t), i>> \in cleared THEN p.property ELSE p.name

ClearedBy(t) == nameless \cup {<<ListOf(t), i>> : i \in DOMAIN PropertiesOf(t)}

\* Not the code: for the mutants.
RequiredOfCleared(t) ==
    {NameOfProperty(t, i, ClearedBy(t)) : i \in {i \in DOMAIN PropertiesOf(t) : PropertiesOf(t)[i].required}}

\* required is computed before generateProperties clears the names.
RequiredOf(t) == {NameOfProperty(t, i, nameless) : i \in {i \in DOMAIN PropertiesOf(t) : PropertiesOf(t)[i].required}}

\* Of properties that have one name, the last one is written.
Properties(t) ==
    [n \in {NameOfProperty(t, i, nameless) : i \in DOMAIN PropertiesOf(t)} |->
        LET last == CHOOSE i \in DOMAIN PropertiesOf(t) :
                        /\ NameOfProperty(t, i, nameless) = n
                        /\ \A j \in DOMAIN PropertiesOf(t) : NameOfProperty(t, j, nameless) = n => j <= i IN
        ObjectOf(PropertiesOf(t)[last])]
Schema(t) == [properties |-> Properties(t), required |-> RequiredOf(t)]

GenerateSchema ==
    /\ state = "schemas" /\ round # <<>>
    /\ LET t == Head(round)
           referred == ReferredBy(PropertiesOf(t)) IN
        IF \E m \in Range(PropertiesOf(t)) : Throws(m) THEN ThrowTypeError
        ELSE /\ document' = [document EXCEPT !.schemas =
                    [k \in DOMAIN @ \cup {NameForSchema(t)} |-> IF k = NameForSchema(t) THEN Schema(t) ELSE @[k]]]
             /\ nameless' = ClearedBy(t)
             /\ schemasToGenerate' = AddSchemas(schemasToGenerate, referred)
             /\ round' = Tail(round)
             /\ UNCHANGED <<project, routes, schemasAlreadyGenerated, state>>

Finish ==
    /\ state = "schemas" /\ round = <<>> /\ schemasToGenerate = <<>>
    /\ state' = "done"
    /\ UNCHANGED <<project, routes, nameless, schemasToGenerate, schemasAlreadyGenerated, round, document>>

DocumentNext == RegisterDocument \/ DocumentRoute \/ StartRound \/ GenerateSchema \/ Finish
DocumentSpec == DocumentInit /\ [][DocumentNext]_documentVars /\ WF_documentVars(DocumentNext)

-----------------------------------------------------------------------------
(* Properties.                                                             *)

Objects ==
    (UNION {operation.objects : operation \in Range(document.paths)})
        \cup (UNION {Range(schema.properties) : schema \in Range(document.schemas)})

\* Every reference of a finished document, from a path or from a schema that was
\* itself only referred to, leads to a schema; each required property is one of
\* its schema under the name it is written with; and every registered route, the
\* document's own included, is described by its own operation unless it shares
\* path and method with another.
DocumentIsClosed ==
    state = "done" =>
        /\ \A o \in Objects : o.refs \subseteq DOMAIN document.schemas
        /\ \A n \in DOMAIN document.schemas :
               document.schemas[n].required \subseteq DOMAIN document.schemas[n].properties
        /\ \A route \in Range(RegisteredRoutes) :
               LET described == document.paths[PlaceOf(route)] IN
               \/ described.target = route.target /\ described.property = route.property
               \/ \E other \in Range(RegisteredRoutes) \ {route} : PlaceOf(other) = PlaceOf(route)
=============================================================================
