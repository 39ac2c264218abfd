SPECIFICATION Spec
CONSTANTS
    Plugin = {p1, p2, p3}
    Graphs <- MCGraphs
SYMMETRY PluginSymmetry
INVARIANT DestroyStopsWhatStarted
CHECK_DEADLOCK FALSE
