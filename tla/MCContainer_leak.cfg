SPECIFICATION Spec
CONSTANTS
    a = a
    b = b
    d = d
    c1 = c1
    c2 = c2
    NoCaller = NoCaller
    Token <- Tokens
    Class <- Tokens
    Caller = {c1, c2}
    Workloads <- AfterCaptive
    Falsy = {d}
CHECK_DEADLOCK FALSE
PROPERTIES
    NoFalseScopeError
