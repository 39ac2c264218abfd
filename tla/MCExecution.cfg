SPECIFICATION MCSpec
CONSTANTS
    Components = {"di", "planner", "pipes", "security"}
    a = a
    b = b
    d = d
    c1 = c1
    c2 = c2
    NoCaller = NoCaller
    Token <- Tokens
    Class <- Tokens
    Caller = {c1, c2}
    Workloads <- EveryLoad
    Falsy = {d}
    h1 = h1
    h2 = h2
    r1 = r1
    r2 = r2
    r3 = r3
    NoPlan = NoPlan
    MaxGlobal = 2
    MaxLocal = 2
    Request = {r1, r2, r3}
    Handler <- TwoHandlers
    Key <- KeyOfHandler
    TargetOf <- TwoTargets
    TransportOf <- ByHandler
    GlobalLists <- GlobalStepLists
    LocalLists <- ListsOfHandler
    Executions = {"e1", "e2"}
    Handlers <- MCPipeHandlers
    Requests <- MCPipeRequests
    Numerals <- MCNumerals
    Words <- MCWords
    Yes = {"1", "on"}
    No = {"off"}
    Undecorated = Undecorated
    NaN = NaN
    Configurations <- SecuredConfigurations
    SecurityTransports = {"http", "job"}
    None = None
CHECK_DEADLOCK FALSE
INVARIANTS
    NoCaptive
    SingletonOnce
    StepsNest
    PlanFits
    HandlerGetsItsArguments
    SecuredRunsAuthorized
PROPERTIES
    ErrorsAreReal
    
    CallsEnd
