SPECIFICATION MCSpec
CONSTANTS
    Components = {"websocket"}
    None = None
    Names = {"a", "b"}
    MaxConnections = 2
    Null = None
    Schemas <- MCColumns
    Repositories <- MCRepositories
    Sources <- MCDataSources
    Queries <- MCMethodQueries
    Malformed <- MCMalformedNames
    Inputs <- MCQueryInputs
    Rows <- MCTableRows
    Clients = {"c1"}
    Gateways <- MCGatewayClasses
    EventNames = {"say", "sing"}
    Matches <- MCMatchesName
    MaxMessages = 2
    Outcomes = {"value", "error", "timeout"}
    Nothing = None
    LoggerConfigurations <- MCLoggerConfigurations
    LoggedWith = {"debug", "warn"}
    MaxEntries = 4
    MaxPending = 2
    MaxSize = 1
    MaxFiles = 2
    Missing = Missing
    Classes <- MCProjectClasses
    Chain <- MCClassChain
    NameOf <- MCClassName
    Programs <- MCClassPrograms
    Members = {"class", "method"}
    Class = "class"
    Removable = {"Other"}
    Projects <- MCOpenApiProjects
    Undefined = None
CHECK_DEADLOCK FALSE
INVARIANT
    TimeoutIsAnswered
