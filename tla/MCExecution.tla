----------------------------- MODULE MCExecution -----------------------------
(***************************************************************************)
(* What an execution is made of: the instances it runs on, its plan, its   *)
(* arguments and, where it is secured, its identity and its decisions;     *)
(* each on its small instance. A behaviour is one of a single part.        *)
(***************************************************************************)
EXTENDS MCContainer, ExecutionPlanner, Security, Pipes, TLC

CONSTANTS
    Components,
    h1, h2, r1, r2, r3, MaxGlobal, MaxLocal

VARIABLE component

allVars == <<component, vars, plannerVars, securityVars, pipesVars>>

-----------------------------------------------------------------------------
(* The planner: short lists of steps of every kind, for three requests.    *)

Kinds == {[type |-> t, scope |-> "before"] : t \in Types}
         \cup {[type |-> "interceptor", scope |-> "after"]}

Step(k, global, p, tr, i) ==
    [type |-> k.type, scope |-> k.scope, global |-> global, priority |-> p, transport |-> tr, id |-> i]

Lists(S, n, base) ==
    UNION {{[i \in 1 .. m |-> [s[i] EXCEPT !.id = base + i]] : s \in [1 .. m -> S]} : m \in 0 .. n}

GlobalStepLists ==
    Lists({Step(k, TRUE, p, "all", 0) : k \in Kinds, p \in 0 .. 1} \cup {Step(k, TRUE, 0, "websocket", 0) : k \in Kinds},
          MaxGlobal, 0)
LocalStepLists ==
    Lists({Step(k, FALSE, 0, "all", 0) : k \in Kinds}, MaxLocal, MaxGlobal)
OneGuard == {<<Step([type |-> "guard", scope |-> "before"], FALSE, 0, "all", MaxGlobal + 1)>>}

\* Two requests of h1 race for its plan, a third one is of h2.
TwoHandlers == {h1, h2}
KeyOfHandler == [h \in TwoHandlers |-> h]
ListsOfHandler == [h \in TwoHandlers |-> IF h = h1 THEN LocalStepLists ELSE OneGuard]
TwoTargets == [r \in {r1, r2, r3} |-> IF r = r3 THEN h2 ELSE h1]
ByHandler == [r \in {r1, r2, r3} |-> IF r = r3 THEN "websocket" ELSE "http"]

\* Two requests of h1, over two transports.
BothTransports == [r \in {r1, r2, r3} |-> IF r = r2 THEN "websocket" ELSE "http"]

-----------------------------------------------------------------------------
(* Pipes: two executions of handlers with pipes of the class, the method   *)
(* and the parameters, on requests with what each step tells apart.        *)

MCNumerals == "7" :> 7 @@ "1" :> 1
MCWords == "" :> 0 @@ "7" :> 1 @@ "1" :> 1 @@ "on" :> 2 @@ "off" :> 3 @@ "name" :> 4

Pipe(name) == [step |-> name]
PipeAt(name, n) == [step |-> name, value |-> n]
Letters == [step |-> "Regex", pattern |-> [word |-> "name", global |-> FALSE]]
Everywhere == [step |-> "Regex", pattern |-> [word |-> "name", global |-> TRUE]]
Range2To8 == [step |-> "Range", min |-> 2, max |-> 8]
Schema == [step |-> "ValidateSchema", class |-> "Body"]
NoSchema == [step |-> "ValidateSchema", class |-> "none"]

Parameter(field, pipes) == [field |-> field, steps |-> pipes]
Piped(class, method, parameters) ==
    [classPipes |-> class, methodPipes |-> method, parameters |-> parameters]

MCPipeHandlers == {
    Piped(<<Pipe("Trim")>>, <<Pipe("LowerCase")>>,
          <<Parameter("a", <<Pipe("NotEmpty"), Letters>>), Parameter("b", <<Pipe("ParseInt"), PipeAt("Min", 2)>>)>>),
    Piped(<<PipeAt("Max", 5)>>, <<>>, <<Parameter("a", <<Pipe("ParseFloat")>>), Parameter("b", <<Pipe("UpperCase")>>)>>),
    Piped(<<>>, <<PipeAt("Min", 2)>>, <<Parameter("b", <<Range2To8>>)>>),
    Piped(<<PipeAt("MinLength", 2)>>, <<PipeAt("MaxLength", 4)>>, <<Parameter("a", <<Everywhere>>)>>),
    Piped(<<>>, <<>>, <<Parameter("b", <<Pipe("ParseBoolean")>>), Parameter("o", <<Schema>>)>>),
    Piped(<<>>, <<>>, <<Parameter("o", <<NoSchema>>)>>),
    Piped(<<>>, <<Pipe("Trim")>>, <<Parameter("a", <<Pipe("NotEmpty")>>)>>),
    Piped(<<Pipe("Trim")>>, <<>>, <<Undecorated, Parameter("a", <<Pipe("NotEmpty")>>)>>),
    Piped(<<Pipe("Trim")>>, <<>>, <<Undecorated, Parameter("a", <<>>), Undecorated>>)}

Nothing == [type |-> "undefined"]
Text(word, spaces, upper, more) ==
    [type |-> "string", word |-> word, spaces |-> spaces, upper |-> upper, more |-> more]
Strings ==
    {Text("", FALSE, FALSE, FALSE), Text("", TRUE, FALSE, FALSE),
     Text("name", TRUE, TRUE, FALSE), Text("name", FALSE, FALSE, FALSE),
     Text("off", FALSE, FALSE, FALSE), Text("7", FALSE, FALSE, FALSE),
     Text("7", FALSE, FALSE, TRUE), Text("1", TRUE, FALSE, FALSE)}
Values == Strings \cup {Nothing, [type |-> "number", n |-> 7], [type |-> "boolean", b |-> TRUE]}
Body(valid) == [type |-> "object", valid |-> valid, instance |-> FALSE]
MCPipeRequests ==
    {"a" :> v @@ "b" :> Text("7", TRUE, FALSE, FALSE) @@ "o" :> Body(FALSE) : v \in Values}
    \cup {"a" :> Nothing @@ "b" :> Nothing @@ "o" :> Nothing}
    \cup {"a" :> Text("name", FALSE, FALSE, FALSE) @@ "b" :> v @@ "o" :> Body(TRUE) : v \in Values}

-----------------------------------------------------------------------------
(* Security: every order of the two middlewares and of the two guards,     *)
(* either first, chains of two classes, and both strategies with two       *)
(* authenticators.                                                         *)

Guards == {"checkAuthentication", "checkAuthorization"}
Orders ==
    {s \in [1 .. 4 -> StepNames] : /\ \A i, j \in 1 .. 4 : i # j => s[i] # s[j]
                                  /\ (s[1] \in Guards) = (s[2] \in Guards)}
Declaration(class, method) == [class |-> class, method |-> method]
Declarations == {Declaration(c, m) : c \in {None, <<>>, <<"p1">>}, m \in {None, <<"p2", "p3">>}}
NoDeclaration == Declaration(None, None)
Options(strategy, transports, selected) == [strategy |-> strategy, transports |-> transports, selected |-> selected]
SecuredConfigurations ==
    [options : {Options("all", {}, <<>>), Options("all", {"http"}, <<>>), Options("selected", {"all"}, <<"a2", "a1">>),
                Options("selected", {"http", "job"}, <<>>)},
     registered : {<<"a1", "a2">>}, order : Orders,
     supports : {[a1 |-> {"http"}, a2 |-> {"all"}], [a1 |-> {"job"}, a2 |-> {"http"}]},
     classes : {<<x, NoDeclaration>> : x \in Declarations} \cup {<<NoDeclaration, x>> : x \in Declarations}
               \cup {<<Declaration(None, <<"p2">>), Declaration(<<"p1", "p3">>, <<>>)>>}]

-----------------------------------------------------------------------------
(* One component at a time.                                                *)

PlannerIsIdle ==
    /\ globalSteps = <<>> /\ localSteps = [h \in Handler |-> <<>>] /\ registeredPlans = [k \in Keys |-> NoPlan]
    /\ at = [r \in Request |-> "new"] /\ planned = [r \in Request |-> NoPlan]
AnyLoad == CHOOSE w \in Workloads : TRUE
ContainerIsIdle == workload = AnyLoad /\ Init
SecurityIsIdle ==
    /\ config = None /\ transport = None /\ secured = FALSE /\ steps = <<>>
    /\ stage = 0 /\ asked = 0 /\ context = NoContext /\ outcome = "none"
PipesAreIdle ==
    /\ handler = None /\ requests = None /\ lastIndex = {} /\ value = None
    /\ state = [e \in Executions |-> "new"] /\ position = None

MCInit ==
    /\ component \in Components
    /\ IF component = "di" THEN Init ELSE ContainerIsIdle
    /\ IF component = "planner" THEN PlannerInit ELSE PlannerIsIdle
    /\ IF component = "security" THEN SecurityInit ELSE SecurityIsIdle
    /\ IF component = "pipes" THEN PipesInit ELSE PipesAreIdle

MCNext ==
    \/ component = "di" /\ Next /\ UNCHANGED <<component, plannerVars, securityVars, pipesVars>>
    \/ component = "planner" /\ PlannerNext /\ UNCHANGED <<component, vars, securityVars, pipesVars>>
    \/ component = "pipes" /\ PipesNext /\ UNCHANGED <<component, vars, plannerVars, securityVars>>
    \/ component = "security" /\ SecurityNext /\ UNCHANGED <<component, vars, plannerVars, pipesVars>>

\* The fairness of Container.
MCSpec == MCInit /\ [][MCNext]_allVars /\ \A c \in Caller : WF_allVars(component = "di" /\ Progress(c) /\ UNCHANGED <<component, plannerVars, securityVars, pipesVars>>)

=============================================================================
