SPECIFICATION Spec
CONSTANTS
    AppThread = {a1, a2}
    WorkQueue = work
    CoapThread = coap
    Request = {r1, r2, r3, r4}
    Socket = {s1, s2}
    NULL = NULL
    UseProvisioning = TRUE
    SuspendDisconnect = FALSE
    ConnectOnInit = TRUE
SYMMETRY Symmetry
CHECK_DEADLOCK FALSE
INVARIANTS
    TypeOK
    SlabAccounting
    ObservationTracked
    SubscribesOnce
    ObservationHasSocket
    SingleMutator
    ProvisioningExclusive
    WaitsForNothingElse
PROPERTIES
    ImplementsConnection
    ImplementsSlab
