------------------------------ MODULE Container ------------------------------
(***************************************************************************)
(* packages/di: Container.resolve, ScopedContainer.resolve and             *)
(* ClassResolver.resolve, called by several asynchronous callers that      *)
(* share one container and its one ClassResolver.                          *)
(*                                                                         *)
(* JavaScript runs one caller at a time, until it awaits: running is the   *)
(* caller whose code runs, or NoCaller while every caller awaits. A call   *)
(* descends into the dependencies without awaiting anything, so a step may *)
(* be preceded by another caller's only where the code awaits. Promises    *)
(* settle in any order: a factory may take any time.                       *)
(***************************************************************************)
EXTENDS Naturals, Sequences

CONSTANTS
    Token,          \* the tokens that are resolved
    Class,          \* the classes the providers construct
    Caller,         \* each one has a scoped container, which it may pass
    NoCaller,
    Workloads,      \* what the program binds, and what it asks for
    Falsy           \* the tokens whose factory returns a falsy value

Scopes == {"singleton", "scoped", "transient"}

UseValue(n) == [kind |-> "value", no |-> n]
UseExisting(t) == [kind |-> "existing", target |-> t]
UseClass(k, s, d) == [kind |-> "class", class |-> k, scope |-> s, deps |-> d]
UseFactory(k, s, d) == [kind |-> "factory", class |-> k, scope |-> s, deps |-> d]
Unbound == [kind |-> "unbound"]

Makers == [kind : {"class", "factory"}, class : Class, scope : Scopes, deps : Seq(Token)]
Providers == {Unbound} \cup Makers \cup [kind : {"value"}, no : Nat]
             \cup [kind : {"existing"}, target : Token]

\* The provider map to start from, the callers, the tokens whose constructor or
\* factory may throw, and a bound on the calls of Container.resolve from outside.
ASSUME ContainerAssumptions ==
    /\ NoCaller \notin Caller /\ Falsy \subseteq Token
    /\ Workloads \subseteq [providers : [Token -> Providers], callers : SUBSET Caller,
                            mayFail : SUBSET Token, maxCalls : Nat]
    \* An alias names a provider: chains of aliases are left out.
    /\ \A w \in Workloads, t \in Token : LET p == w.providers IN
            p[t].kind = "existing" => p[p[t].target].kind # "existing"

VARIABLES
    workload,       \* the one of Workloads the system runs
    providers,      \* Container.providers
    instances,      \* ScopedContainer.instances of each caller: a number, 0 if absent
    resolving,      \* ClassResolver.resolving
    running,        \* the caller that runs, or NoCaller
    call,           \* where each caller is, and what it resolves
    frames,         \* the ClassResolver.resolve activations of each caller
    calls,          \* the calls made so far
    made,           \* history: the instances made for each token
    singletons,     \* history: the tokens bound as singletons
    leaks           \* history: the entries a throwing resolve left in resolving

vars == <<workload, providers, instances, resolving, running, call, frames, calls, made, singletons,
          leaks>>
history == <<workload, calls, made, singletons, leaks>>

IsMaker(p) == p.kind \in {"class", "factory"}

\* at: "idle", "resolve" (inside Container.resolve), "frame" (inside
\* ClassResolver.resolve), "factory", "built", "given" and "thrown" (awaiting).
NoCall == [at |-> "idle", token |-> CHOOSE t \in Token : TRUE, scoped |-> FALSE,
           scope |-> "transient", no |-> 0, error |-> "none"]

Init ==
    /\ workload \in Workloads
    /\ providers = workload.providers
    /\ instances = [c \in Caller |-> [t \in Token |-> 0]]
    /\ resolving = <<>>
    /\ running = NoCaller
    /\ call = [c \in Caller |-> NoCall]
    /\ frames = [c \in Caller |-> <<>>]
    /\ calls = 0
    /\ made = [t \in Token |-> 0]
    /\ singletons = {t \in Token : IsMaker(providers[t]) /\ providers[t].scope = "singleton"}
    /\ leaks = 0

-----------------------------------------------------------------------------
Asked(c) == providers[call[c].token]
Resolves(c) == running = c /\ call[c].at = "resolve"
Top(c) == frames[c][Len(frames[c])]
Pop(s) == IF s = <<>> THEN s ELSE SubSeq(s, 1, Len(s) - 1)

Throw(c, e) == call' = [call EXCEPT ![c].at = "thrown", ![c].error = e]
Give(c, n) == call' = [call EXCEPT ![c].at = "given", ![c].no = n]
Await == running' = NoCaller

\* Injector.get(token, scopedContainer), with or without the scoped container.
Ask(c, t, s) ==
    /\ running = NoCaller
    /\ call[c].at = "idle"
    /\ calls < workload.maxCalls
    /\ call' = [call EXCEPT ![c] = [NoCall EXCEPT !.at = "resolve", !.token = t, !.scoped = s]]
    /\ running' = c
    /\ calls' = calls + 1
    /\ UNCHANGED <<providers, instances, resolving, frames, workload, made, singletons, leaks>>

(* Container.resolve.                                                      *)
NotFound(c) ==
    /\ Resolves(c) /\ Asked(c).kind = "unbound"
    /\ Throw(c, "notFound") /\ Await
    /\ UNCHANGED <<providers, instances, resolving, frames, history>>

ResolveValue(c) ==
    /\ Resolves(c) /\ Asked(c).kind = "value"
    /\ Give(c, Asked(c).no) /\ Await
    /\ UNCHANGED <<providers, instances, resolving, frames, history>>

\* this.resolve(provider.useExisting): the scoped container is not passed on.
ResolveExisting(c) ==
    /\ Resolves(c) /\ Asked(c).kind = "existing"
    /\ call' = [call EXCEPT ![c].token = Asked(c).target, ![c].scoped = FALSE]
    /\ UNCHANGED <<providers, instances, resolving, running, frames, history>>

\* A scoped provider needs the scoped container.
NeedsContainer(c) == Asked(c).scope = "scoped" /\ ~call[c].scoped
NoScopedContainer(c) ==
    /\ Resolves(c) /\ IsMaker(Asked(c)) /\ NeedsContainer(c)
    /\ Throw(c, "noScope") /\ Await
    /\ UNCHANGED <<providers, instances, resolving, frames, history>>

\* Not the code: for the mutants.
NeverCached(c) == FALSE

Cached(c) ==
    /\ Asked(c).scope = "scoped"
    /\ instances[c][call[c].token] # 0
    /\ call[c].token \notin Falsy
ResolveCached(c) ==
    /\ Resolves(c) /\ IsMaker(Asked(c)) /\ ~NeedsContainer(c) /\ Cached(c)
    /\ Give(c, instances[c][call[c].token]) /\ Await
    /\ UNCHANGED <<providers, instances, resolving, frames, history>>

(* ClassResolver.resolve.                                                  *)
Reaches(c) == Resolves(c) /\ IsMaker(Asked(c)) /\ ~NeedsContainer(c) /\ ~Cached(c)
Entry(p) == [class |-> p.class, scope |-> p.scope]
Push(c) == resolving' = Append(resolving, Entry(Asked(c)))

Entries == {resolving[i] : i \in DOMAIN resolving}
IsCircular(c) == \E e \in Entries : e.class = Asked(c).class
\* Not the code: for the mutants.
ScopedOnly(c) == Asked(c).scope = "scoped" /\ \E e \in Entries : e.scope = "singleton"

ViolatesScope(c) ==
    /\ Asked(c).scope \in {"scoped", "transient"}
    /\ \E e \in Entries : e.scope = "singleton"

\* Both errors are thrown before the try block whose finally pops the entry.
Circular(c) ==
    /\ Reaches(c) /\ IsCircular(c)
    /\ Push(c) /\ leaks' = leaks + 1
    /\ Throw(c, "circular") /\ Await
    /\ UNCHANGED <<workload, providers, instances, frames, calls, made, singletons>>

ScopeViolation(c) ==
    /\ Reaches(c) /\ ~IsCircular(c) /\ ViolatesScope(c)
    /\ Push(c) /\ leaks' = leaks + 1
    /\ Throw(c, "scope") /\ Await
    /\ UNCHANGED <<workload, providers, instances, frames, calls, made, singletons>>

\* Only a scoped provider is resolved with the scoped container: the resolves
\* of singletons and transients drop it.
PassesContainer(p) == p.scope = "scoped"
Enter(c) ==
    /\ Reaches(c) /\ ~IsCircular(c) /\ ~ViolatesScope(c)
    /\ Push(c)
    /\ frames' = [frames EXCEPT ![c] = Append(@,
            [token |-> call[c].token, provider |-> Asked(c), next |-> 1,
             scoped |-> PassesContainer(Asked(c))])]
    /\ call' = [call EXCEPT ![c].at = "frame"]
    /\ UNCHANGED <<providers, instances, running, history>>

\* container.resolve of the next parameter.
Depend(c) ==
    /\ running = c /\ call[c].at = "frame"
    /\ Top(c).next <= Len(Top(c).provider.deps)
    /\ call' = [call EXCEPT ![c].at = "resolve", ![c].scoped = Top(c).scoped,
                            ![c].token = Top(c).provider.deps[Top(c).next]]
    /\ frames' = [frames EXCEPT ![c][Len(frames[c])].next = @ + 1]
    /\ UNCHANGED <<providers, instances, resolving, running, history>>

CallFactory(c) ==
    /\ running = c /\ call[c].at = "frame"
    /\ Top(c).next > Len(Top(c).provider.deps)
    /\ Top(c).provider.kind = "factory"
    /\ call' = [call EXCEPT ![c].at = "factory"] /\ Await
    /\ UNCHANGED <<providers, instances, resolving, frames, history>>

\* Not the code: for the mutants.
ClassesOnly(c) ==
    /\ running = c /\ call[c].at = "frame"
    /\ Top(c).next > Len(Top(c).provider.deps)
    /\ Top(c).provider.kind = "class"

\* new classType(...) goes on at once; a factory's promise settles later.
Constructs(c) ==
    \/ /\ running = c /\ call[c].at = "frame"
       /\ Top(c).next > Len(Top(c).provider.deps)
       /\ Top(c).provider.kind = "class"
    \/ running = NoCaller /\ call[c].at = "factory"

\* Not the code: for the mutants.
NotPopped == resolving

\* The finally block pops the last entry, whoever pushed it.
Popped == Pop(resolving)
Leave(c) == resolving' = Popped /\ frames' = [frames EXCEPT ![c] = Pop(@)]

Construct(c) ==
    LET t == Top(c).token IN
    /\ Constructs(c)
    /\ Leave(c) /\ Await
    /\ made' = [made EXCEPT ![t] = @ + 1]
    /\ call' = [call EXCEPT ![c].at = "built", ![c].token = t, ![c].no = made[t] + 1,
                            ![c].scope = Top(c).provider.scope]
    /\ UNCHANGED <<workload, providers, instances, calls, singletons, leaks>>

ConstructFails(c) ==
    /\ Constructs(c) /\ Top(c).token \in workload.mayFail
    /\ Leave(c) /\ Await
    /\ Throw(c, "failed")
    /\ UNCHANGED <<providers, instances, history>>

(* The code after the awaits of Container and ScopedContainer.             *)

\* Not the code: for the mutants.
NeverShared(c) == FALSE

IsShared(c) == call[c].scope = "singleton"

\* resolveSingleton binds the value; ScopedContainer.resolve keeps it.
Store(c) ==
    /\ running = NoCaller /\ call[c].at = "built"
    /\ providers' = IF IsShared(c) THEN [providers EXCEPT ![call[c].token] = UseValue(call[c].no)]
                                   ELSE providers
    /\ instances' = IF call[c].scope = "scoped"
                    THEN [instances EXCEPT ![c][call[c].token] = call[c].no] ELSE instances
    /\ Give(c, call[c].no)
    /\ UNCHANGED <<resolving, running, frames, history>>

\* The value reaches the resolve of the dependent, or the program.
Receive(c) ==
    /\ running = NoCaller /\ call[c].at = "given"
    /\ IF frames[c] = <<>>
       THEN call' = [call EXCEPT ![c].at = "idle"] /\ UNCHANGED running
       ELSE call' = [call EXCEPT ![c].at = "frame"] /\ running' = c
    /\ UNCHANGED <<providers, instances, resolving, frames, history>>

\* So does a rejection, through the finally block of every frame.
Unwind(c) ==
    /\ running = NoCaller /\ call[c].at = "thrown"
    /\ IF frames[c] = <<>>
       THEN call' = [call EXCEPT ![c].at = "idle"] /\ UNCHANGED <<resolving, frames>>
       ELSE Leave(c) /\ UNCHANGED call
    /\ UNCHANGED <<providers, instances, running, history>>

Resolve(c) ==
    \/ NotFound(c) \/ ResolveValue(c) \/ ResolveExisting(c)
    \/ NoScopedContainer(c) \/ ResolveCached(c)
    \/ Circular(c) \/ ScopeViolation(c) \/ Enter(c)
Activation(c) == Depend(c) \/ CallFactory(c) \/ Construct(c) \/ ConstructFails(c)
Continue(c) == Store(c) \/ Receive(c) \/ Unwind(c)
Progress(c) == Resolve(c) \/ Activation(c) \/ Continue(c)

Next == \E c \in workload.callers :
    \/ \E t \in Token, s \in BOOLEAN : Ask(c, t, s)
    \/ Progress(c)

\* Code that can run does run, and the factories' promises settle.
Spec == Init /\ [][Next]_vars /\ \A c \in Caller : WF_vars(Progress(c))

-----------------------------------------------------------------------------
Chain(c) == {frames[c][i].provider : i \in DOMAIN frames[c]}
Begins(c, e) == call[c].error # e /\ call'[c].error = e

OneCaller == \E c \in Caller : workload.callers = {c}
CircularErrorsAreReal ==
    \A c \in Caller : Begins(c, "circular") => \E p \in Chain(c) : p.class = Asked(c).class
ScopeErrorsAreReal ==
    \A c \in Caller : Begins(c, "scope") => \E p \in Chain(c) : p.scope = "singleton"

\* A CircularDependencyError names a real cycle, in which the class is being
\* resolved further up in the same call, and a ScopeDependencyError a singleton
\* of the call, which would hold the instance: when calls do not overlap, and
\* until the first error that leaves its entries on the stack.
ErrorsAreReal ==
    [][OneCaller /\ leaks = 0 => CircularErrorsAreReal /\ ScopeErrorsAreReal]_vars

\* "If a circular dependency is detected", with calls that overlap.
NoFalseCycle == [][leaks = 0 => CircularErrorsAreReal]_vars

\* "If a scope dependency is violated", after calls that failed.
NoFalseScopeError == [][ScopeErrorsAreReal]_vars

\* What is being resolved for a caller is resolved for nothing that is made of
\* it, and no singleton captures an instance that lives shorter: in no chain of
\* frames a class comes twice, and what is constructed for a singleton is a
\* singleton, when calls do not overlap.
NoCaptive ==
    OneCaller => \A c \in Caller : \A i, j \in DOMAIN frames[c] : i < j =>
        /\ frames[c][i].provider.class # frames[c][j].provider.class
        /\ frames[c][i].provider.scope = "singleton" => frames[c][j].provider.scope = "singleton"

\* A singleton is made once, even if the resolution it was made for failed
\* later, when calls do not overlap; and one gets the instance that is bound.
SingletonOnce == OneCaller =>
    /\ \A t \in singletons : made[t] <= 1
    /\ \A c \in Caller : call[c].at = "given" /\ call[c].token \in singletons =>
            providers[call[c].token] = UseValue(call[c].no)

\* A scoped container keeps the first instance of a scoped provider, unless
\* it is falsy.
ScopedOnce ==
    [][\A c \in Caller, t \in Token \ Falsy :
            instances[c][t] # 0 => instances'[c][t] = instances[c][t]]_vars

\* Every call ends, with an instance or an error, whatever the graph.
CallsEnd == \A c \in Caller : call[c].at # "idle" ~> call[c].at = "idle"
=============================================================================
