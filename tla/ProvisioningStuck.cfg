SPECIFICATION FairSpec
CONSTANTS
    AppThread = {a1, a2}
    WorkQueue = work
    CoapThread = coap
    Request = {r1, r2}
    Socket = {s1, s2}
    NULL = NULL
    UseProvisioning = TRUE
    SuspendDisconnect = FALSE
    ConnectOnInit = FALSE
CHECK_DEADLOCK FALSE
PROPERTIES
    ConnectingResolves
