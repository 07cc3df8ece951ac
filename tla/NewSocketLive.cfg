SPECIFICATION FairSpec
CONSTANTS
    AppThread = {a1, a2}
    WorkQueue = work
    CoapThread = coap
    Request = {r1, r2}
    Socket = {s1, s2}
    NULL = NULL
    UseProvisioning = FALSE
    SuspendDisconnect = TRUE
    ConnectOnInit = TRUE
CHECK_DEADLOCK FALSE
INVARIANTS
    SocketOwned
PROPERTIES
    ImplementsConnection
    EveryCallReturns
    EveryMessageEnds
    ConnectingResolves
