SPECIFICATION CoreSpec
CONSTANTS
    Plugin = {p1, p2, p3}
    Graphs <- MCGraphs
    Wait = TRUE
INVARIANTS
    TopologicalOrder
    CircularErrorIsExact
    StartsAfterDependencies
    StopsAfterDependents
    CleanShutdown
    WaitingIsServing
PROPERTIES
    FailedPluginIsLeftAlone
    ShutdownCompletes
    
CHECK_DEADLOCK FALSE
