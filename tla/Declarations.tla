----------------------------- MODULE Declarations -----------------------------
(***************************************************************************)
(* What the decorators of every package leave behind when the modules of a *)
(* project are loaded: MetadataStatic (reflect-metadata, which looks up    *)
(* the chain of classes) and ClassRegistry (by the name of a class).       *)
(*                                                                         *)
(* A decorator that collects several declarations gets the list that the   *)
(* chain of classes leads to, pushes to it and defines it on its own       *)
(* class: lists are shared, so that they are kept on a heap.               *)
(***************************************************************************)
EXTENDS Naturals, Sequences, FiniteSets, Selection

CONSTANTS
    Classes,
    Chain,      \* class -> itself and the classes it extends, nearest first
    NameOf,     \* class -> its name
    Programs,   \* class -> declarations, as TypeScript applies them
    Members,    \* what is declared on: methods, and
    Class,      \* the class itself
    Removable   \* the classes that HttpPlugin removes from the registry, by its options

\* Which decorators TypeScript accepts on a class, on a method and on both.
OnClass == {"Injectable", "InjectableScope", "InjectableToken", "Inject", "StepTarget", "Controller", "Scheduler",
            "WebSocket", "Repository", "OpenApiSchema"}
OnEither == {"Pipe", "Timeout", "RateLimit", "Use", "FileUpload", "Secured"}
OnMethod == {"Parameter", "StepMethod", "Method", "HttpCode", "Job", "WebSocketEvent", "OpenApiProperty", "OpenApiResponse"}
Declaration ==
    [decorator : OnClass, property : {Class}, index : Nat] \cup [decorator : OnEither, property : Members, index : Nat]
    \cup [decorator : OnMethod, property : Members \ {Class}, index : Nat]

\* A class is the first of its chain, of which the rest is that of what it extends.
ASSUME DeclarationsAssumptions ==
    /\ Class \in Members
    /\ Chain \in [Classes -> Seq(Classes)]
    /\ \A c \in Classes :
        /\ Chain[c] # <<>> /\ Chain[c][1] = c
        /\ \A i \in DOMAIN Chain[c] : Chain[Chain[c][i]] = SubSeq(Chain[c], i, Len(Chain[c]))
    /\ Programs \subseteq [Classes -> Seq(Declaration)]

VARIABLES
    program,
    applied,    \* class -> declarations applied so far
    store,      \* [lists: the heap, metadata: <<key, class, property>> -> value, registry: classes in order]
    removed

loadVars == <<program, applied, store, removed>>

LoadInit ==
    /\ program \in Programs
    /\ applied = [c \in Classes |-> 0]
    /\ store = [lists |-> <<>>, metadata |-> <<>>, registry |-> <<>>]
    /\ removed = {}

-----------------------------------------------------------------------------
(* MetadataStatic. A value is a list of the heap or one entry.             *)

Reference(n) == [list |-> n]

HasOwn(s, key, c, p) == <<key, c, p>> \in DOMAIN s.metadata
Owners(s, key, c, p) == {i \in DOMAIN Chain[c] : HasOwn(s, key, Chain[c][i], p)}
Has(s, key, c, p) == Owners(s, key, c, p) # {}
Get(s, key, c, p) ==
    LET i == CHOOSE i \in Owners(s, key, c, p) : \A j \in Owners(s, key, c, p) : i <= j IN
    s.metadata[<<key, Chain[c][i], p>>]

Define(s, key, c, p, value) ==
    LET at == <<key, c, p>> IN
    [s EXCEPT !.metadata = [k \in DOMAIN @ \cup {at} |-> IF k = at THEN value ELSE @[k]]]

\* Not the code: for the mutants.
OwnList(s, key, c, p) == IF HasOwn(s, key, c, p) THEN Get(s, key, c, p).list ELSE Len(s.lists) + 1

\* The list of the chain, or a new one.
SharedList(s, key, c, p) == IF Has(s, key, c, p) THEN Get(s, key, c, p).list ELSE Len(s.lists) + 1
WithList(s, key, c, p) ==
    LET n == SharedList(s, key, c, p) IN
    IF n > Len(s.lists) THEN [s EXCEPT !.lists = Append(@, <<>>)] ELSE s
Listed(s, key, c, p) == WithList(s, key, c, p).lists[SharedList(s, key, c, p)]
Push(s, key, c, p, list) ==
    LET n == SharedList(s, key, c, p)
        t == WithList(s, key, c, p) IN
    Define([t EXCEPT !.lists[n] = list], key, c, p, Reference(n))

\* ClassRegistry.register and remove: a Map keeps the place of a name it has.
SameName(c, d) == NameOf[c] = NameOf[d]
Registered(s, c) ==
    IF \E i \in DOMAIN s.registry : SameName(s.registry[i], c)
    THEN [s EXCEPT !.registry = [i \in DOMAIN @ |-> IF SameName(@[i], c) THEN c ELSE @[i]]]
    ELSE [s EXCEPT !.registry = Append(@, c)]
Unregistered(s, c) == [s EXCEPT !.registry = Select(@, {i \in DOMAIN @ : ~SameName(c, @[i])})]
GetWithMetadata(s, key) == Select(s.registry, {i \in DOMAIN s.registry : Has(s, key, s.registry[i], Class)})

-----------------------------------------------------------------------------
(* The decorators: what each does to the store, in steps.                  *)

Registers == [effect |-> "register"]
Defines(key, p) == [effect |-> "define", key |-> key, property |-> p]
Pushes(key, p) == [effect |-> "push", key |-> key, property |-> p]
Sets(key, p) == [effect |-> "set", key |-> key, property |-> p]

Constructable(key) == <<Registers, Defines("constructable", Class), Defines(key, Class)>>
OnClassOrMethod(key, d) == <<Defines(key, d.property)>>
Role(key) == Constructable("injectable") \o <<Defines(key, Class)>>
OfMethod(key, d) == <<Pushes(key, Class), Defines(key, d.property)>>

\* di
Injectable(d) == Constructable("injectable") \o <<Defines("injectable", Class)>>
InjectableScope(d) == <<Defines("injectable-scope", Class)>>
InjectableToken(d) == <<Defines("injectable-token", Class)>>
InjectToken(d) == <<Sets("inject", Class)>>
\* engine
Parameter(d) == <<Pushes("parameter", d.property)>>
Pipe(d) == <<Pushes("pipe", d.property)>>
StepMethod(d) == <<Pushes("step-method", Class)>>
StepTarget(d) == Constructable("injectable") \o <<Pushes("step-target", Class)>>
Timeout(d) == OnClassOrMethod("timeout", d)
RateLimit(d) == OnClassOrMethod("rate-limit", d)
Use(d) == OnClassOrMethod("use", d)
\* http
Controller(d) == Role("controller")
Method(d) == OfMethod("route", d)
FileUpload(d) == OnClassOrMethod("file-upload", d)
HttpCode(d) == OnClassOrMethod("http-code", d)
\* schedule, websocket, data, security, openapi
Scheduler(d) == Role("scheduler")
Job(d) == <<Pushes("job", Class)>>
WebSocket(d) == Role("websocket")
WebSocketEvent(d) == OfMethod("websocket-event", d)
Repository(d) == Role("repository")
Secured(d) == OnClassOrMethod("secured", d)
OpenApiSchema(d) == <<Defines("openapi-schema", Class)>>
OpenApiProperty(d) == <<Pushes("openapi-property", Class)>>
OpenApiResponse(d) == <<Pushes("openapi-response", d.property)>>

Effects(d) ==
    CASE d.decorator = "Injectable" -> Injectable(d)
      [] d.decorator = "InjectableScope" -> InjectableScope(d)
      [] d.decorator = "InjectableToken" -> InjectableToken(d)
      [] d.decorator = "Inject" -> InjectToken(d)
      [] d.decorator = "Parameter" -> Parameter(d)
      [] d.decorator = "Pipe" -> Pipe(d)
      [] d.decorator = "StepMethod" -> StepMethod(d)
      [] d.decorator = "StepTarget" -> StepTarget(d)
      [] d.decorator = "Timeout" -> Timeout(d)
      [] d.decorator = "RateLimit" -> RateLimit(d)
      [] d.decorator = "Use" -> Use(d)
      [] d.decorator = "Controller" -> Controller(d)
      [] d.decorator = "Method" -> Method(d)
      [] d.decorator = "FileUpload" -> FileUpload(d)
      [] d.decorator = "HttpCode" -> HttpCode(d)
      [] d.decorator = "Scheduler" -> Scheduler(d)
      [] d.decorator = "Job" -> Job(d)
      [] d.decorator = "WebSocket" -> WebSocket(d)
      [] d.decorator = "WebSocketEvent" -> WebSocketEvent(d)
      [] d.decorator = "Repository" -> Repository(d)
      [] d.decorator = "Secured" -> Secured(d)
      [] d.decorator = "OpenApiSchema" -> OpenApiSchema(d)
      [] d.decorator = "OpenApiProperty" -> OpenApiProperty(d)
      [] d.decorator = "OpenApiResponse" -> OpenApiResponse(d)

Entry(c, d) == [class |-> c, declaration |-> d]

\* The parameters of a constructor are a Map by index.
SetIndex(list, c, d) ==
    Append(Select(list, {i \in DOMAIN list : list[i].declaration.index # d.index}), Entry(c, d))
Perform(s, effect, c, d) ==
    CASE effect.effect = "register" -> Registered(s, c)
      [] effect.effect = "define" -> Define(s, effect.key, c, effect.property, Entry(c, d))
      [] effect.effect = "push" ->
            Push(s, effect.key, c, effect.property,
                 Append(Listed(s, effect.key, c, effect.property), Entry(c, d)))
      [] effect.effect = "set" ->
            Push(s, effect.key, c, effect.property,
                 SetIndex(Listed(s, effect.key, c, effect.property), c, d))

Performed(s, effects, c, d) ==
    LET after[n \in 0 .. Len(effects)] ==
            IF n = 0 THEN s ELSE Perform(after[n - 1], effects[n], c, d)
    IN after[Len(effects)]

-----------------------------------------------------------------------------
(* Modules are loaded one after the other, a class after what it extends.  *)

IsApplied(c) == applied[c] = Len(program[c])
IsLoaded(c) == \A i \in DOMAIN Chain[c] : IsApplied(Chain[c][i])
IsLoading(c) == applied[c] > 0 /\ ~IsApplied(c)

Apply(c) ==
    /\ ~IsApplied(c)
    /\ \A i \in DOMAIN Chain[c] \ {1} : IsApplied(Chain[c][i])
    /\ \A other \in Classes \ {c} : ~IsLoading(other)
    /\ LET d == program[c][applied[c] + 1] IN
        store' = Performed(store, Effects(d), c, d)
    /\ applied' = [applied EXCEPT ![c] = @ + 1]
    /\ UNCHANGED <<program, removed>>

\* HttpPlugin removes its own controllers that the options do not enable.
Disable(c) ==
    /\ c \in Removable \ removed /\ \A other \in Classes : IsLoaded(other)
    /\ store' = Unregistered(store, c)
    /\ removed' = removed \cup {c}
    /\ UNCHANGED <<program, applied>>

LoadNext == \E c \in Classes : Apply(c) \/ Disable(c)
LoadSpec == LoadInit /\ [][LoadNext]_loadVars

-----------------------------------------------------------------------------
(* Properties.                                                             *)

\* What the decorators of a class pushed to so far, and the declarations that they collected.
Performs(d, effect) == \E i \in DOMAIN Effects(d) : Effects(d)[i] = effect
PushedTo(c) ==
    UNION {{e \in {Effects(program[c][i])[j] : j \in DOMAIN Effects(program[c][i])} : e.effect = "push"} :
           i \in 1 .. applied[c]}
Collected(c, effect) ==
    Select([i \in 1 .. applied[c] |-> Entry(c, program[c][i])],
           {i \in 1 .. applied[c] : Performs(program[c][i], effect)})

\* Those of its chain, from the class that extends nothing.
Inherited(c, effect) == Flat([i \in DOMAIN Chain[c] |-> Collected(Chain[c][Len(Chain[c]) + 1 - i], effect)])

\* The list that a reader gets, and what it finds of the class in it.
HasList(c, key, p) == IF Has(store, key, c, p) THEN "list" \in DOMAIN Get(store, key, c, p) ELSE FALSE
IsOf(c, e) == \E i \in DOMAIN Chain[c] : Chain[c][i] = e.class
Found(c, key, p) ==
    LET list == store.lists[Get(store, key, c, p).list] IN Select(list, {i \in DOMAIN list : IsOf(c, list[i])})

ListsAreKept ==
    \A c \in Classes : \A i \in DOMAIN Chain[c] : \A effect \in PushedTo(Chain[c][i]) :
        /\ HasList(c, effect.key, effect.property)
        /\ Found(c, effect.key, effect.property) = Inherited(c, effect)

\* What a class is registered for, so far.
RolesOf(c) ==
    UNION {LET effects == Effects(program[c][i]) IN
           IF effects[1].effect = "register" THEN {effects[j].key : j \in DOMAIN effects \ {1}} ELSE {} :
           i \in 1 .. applied[c]}

RolesAreFound ==
    \A c \in Classes \ removed : (\A other \in Classes \ {c} : ~SameName(c, other)) =>
        \A key \in RolesOf(c) : LET found == GetWithMetadata(store, key) IN
            Cardinality({i \in DOMAIN found : found[i] = c}) = 1

\* Of what was applied so far a class has the declarations of the classes it
\* extends and its own, in this order and once each, wherever its list came
\* from and whatever other classes of the hierarchy were loaded since; and when
\* it has a role (a controller, a step, a scheduler...) it is found by it, once,
\* however many of its decorators register it and its bases, unless another
\* class has its name or it was removed. (MetadataStatic, ClassRegistry.)
DeclarationsAreKept == ListsAreKept /\ RolesAreFound
=============================================================================
