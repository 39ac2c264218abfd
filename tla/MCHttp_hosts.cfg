SPECIFICATION MCSpec
CONSTANTS
    Components = {"routing"}
    MaxSteps = 2
    Undefined = Undefined
    None = None
    NotMultipart = NotMultipart
    NotSet = NotSet
    UploadAdapters = {"express", "fastify"}
    DefaultMaxFileSize = 3
    DefaultMaxFiles = 2
    Configurations <- MCConfigurations
    Endpoints <- MCEndpoints
    Failures <- MCFailures
    Absent = Absent
    RouteWildcards = {"*any"}
    RouteParameters <- MCRouteParameters
    RoutedApplications <- HostApplications
    RoutingConfigurations <- MCRoutingConfigurations
    RoutedRequests <- MCRoutedRequests
    Clients = {"a"}
    LimitedEndpoints = {"list", "item"}
    LimitedApplications <- MCLimitedApplications
    LimitConfigurations <- MCLimitConfigurations
    DefaultTtl = 4
    DefaultLimit = 2
    SweepEvery = 3
    Second = 3
    MaxTime = 5
    NotGiven = NotGiven
    Frameworks = {"express", "fastify"}
    SessionKeys = {"k1", "k2"}
    SessionValues = {1, 2}
    MaxCalls = 4
    UploadConfigurations <- MCUploadConfigurations
    UploadRequests <- MCUploadRequests
    UploadParameters <- MCUploadParameters
CHECK_DEADLOCK FALSE
INVARIANT MostSpecificHost
