-------------------------- MODULE ExecutionPlanner --------------------------
(***************************************************************************)
(* packages/engine: ExecutionPlanner.plan with its cache, and what         *)
(* StepGenerator and StepDefinition give it. The order of the steps is     *)
(* that of ExecutionSteps.                                                 *)
(*                                                                         *)
(* Requests for the same handler may interleave: plan awaits the steps     *)
(* between the lookup in the cache and the insertion.                      *)
(***************************************************************************)
EXTENDS FiniteSets, ExecutionSteps

CONSTANTS
    Request,        \* the execution contexts
    Handler,        \* a target and a propertyKey
    Key,            \* "<target name>.<propertyKey>" of each handler
    TargetOf,       \* the handler of each request
    TransportOf,    \* the transport of each request
    GlobalLists,    \* the lists of global steps to start from
    LocalLists,     \* the lists of steps each handler may declare with @Use
    NoPlan

Transports == {"all", "http", "websocket"}

\* scope is that of an interceptor; id is the place in the order of declaration.
Steps == [type : Types, scope : {"before", "after"}, global : BOOLEAN,
          priority : Nat, transport : Transports, id : Nat]

Ordered(s) == \A i, j \in DOMAIN s : i < j => s[i].id < s[j].id

ASSUME PlannerAssumptions ==
    /\ TargetOf \in [Request -> Handler] /\ TransportOf \in [Request -> Transports \ {"all"}]
    /\ \A s \in GlobalLists : s \in Seq(Steps) /\ Ordered(s) /\ \A i \in DOMAIN s : s[i].global
    /\ DOMAIN LocalLists = Handler
    \* StepDefinition gives a step that is not global the priority 0.
    /\ \A h \in Handler : \A s \in LocalLists[h] :
            s \in Seq(Steps) /\ Ordered(s) /\ \A i \in DOMAIN s : ~s[i].global /\ s[i].priority = 0

Keys == {Key[h] : h \in Handler}

VARIABLES
    globalSteps,        \* StepGenerator.globalSteps
    localSteps,         \* the steps of the @Use of each handler
    registeredPlans,    \* ExecutionPlanner.registeredPlans
    at,                 \* where each request is in plan(context)
    planned             \* the plan each request was given

plannerVars == <<globalSteps, localSteps, registeredPlans, at, planned>>

PlannerInit ==
    /\ globalSteps \in GlobalLists
    /\ localSteps \in {f \in [Handler -> UNION {LocalLists[h] : h \in Handler}] :
                            \A h \in Handler : f[h] \in LocalLists[h]}
    /\ registeredPlans = [k \in Keys |-> NoPlan]
    /\ at = [r \in Request |-> "new"]
    /\ planned = [r \in Request |-> NoPlan]

-----------------------------------------------------------------------------
\* buildGlobalSteps fills globalSteps once.
StepsOf(h) == globalSteps \o localSteps[h]

\* Not the code: for the mutants.
AnyTransport(s, transport) == s

Valid(s, transport) == Select(s, {i \in DOMAIN s : s[i].transport \in {"all", transport}})

GeneratePlan(h, transport) ==
    LET valid == Valid(StepsOf(h), transport) IN
    [handler |-> h, before |-> Before(valid), after |-> After(valid), catch |-> Catch(valid)]

-----------------------------------------------------------------------------
PlanOf(r) == GeneratePlan(TargetOf[r], TransportOf[r])
KeyOf(r) == Key[TargetOf[r]]

IsRegistered(r) == registeredPlans[KeyOf(r)] # NoPlan

CacheHit(r) ==
    /\ at[r] = "new" /\ IsRegistered(r)
    /\ planned' = [planned EXCEPT ![r] = registeredPlans[KeyOf(r)]]
    /\ at' = [at EXCEPT ![r] = "planned"]
    /\ UNCHANGED <<globalSteps, localSteps, registeredPlans>>

CacheMiss(r) ==
    /\ at[r] = "new" /\ ~IsRegistered(r)
    /\ at' = [at EXCEPT ![r] = "generating"]
    /\ UNCHANGED <<globalSteps, localSteps, registeredPlans, planned>>

\* After the await: the plan is generated and replaces whatever is registered.
Generate(r) ==
    /\ at[r] = "generating"
    /\ registeredPlans' = [registeredPlans EXCEPT ![KeyOf(r)] = PlanOf(r)]
    /\ planned' = [planned EXCEPT ![r] = PlanOf(r)]
    /\ at' = [at EXCEPT ![r] = "planned"]
    /\ UNCHANGED <<globalSteps, localSteps>>

PlannerNext == \E r \in Request : CacheHit(r) \/ CacheMiss(r) \/ Generate(r)

PlannerSpec == PlannerInit /\ [][PlannerNext]_plannerVars

-----------------------------------------------------------------------------
Planned == {r \in Request : at[r] = "planned"}

\* Steps nest: before steps run from the outermost to the innermost, after
\* steps the other way round, and the filters nearest to the handler come first.
StepsNest ==
    \A r \in Planned :
        /\ SortedBy(planned[r].before, Precedes)
        /\ SortedBy(planned[r].after, Inner)
        /\ SortedBy(planned[r].catch, Nearer)

\* A request runs its own handler with every step that is declared for it and
\* its transport, each in its list and once, even when the plan was made by
\* and for another request.
PlanFits ==
    \A r \in Planned :
        LET p == planned[r]
            declared == {x \in Elements(StepsOf(TargetOf[r])) : x.transport \in {"all", TransportOf[r]}}
            exactly(s, S) == Elements(s) = S /\ Len(s) = Cardinality(S) IN
        /\ p.handler = TargetOf[r]
        /\ exactly(p.catch, {x \in declared : x.type = "filter"})
        /\ exactly(p.after, {x \in declared : x.type = "interceptor" /\ x.scope = "after"})
        /\ exactly(p.before, {x \in declared : \/ x.type \in {"middleware", "guard"}
                                               \/ x.type = "interceptor" /\ x.scope = "before"})
=============================================================================
