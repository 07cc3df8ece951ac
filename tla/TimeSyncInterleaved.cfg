SPECIFICATION Spec
CONSTANTS
    RefreshInterval = 2
    FallbackDelay = 4
    MaxLatency = 1
    Offset = 10
    MaxUptime = 9
INVARIANTS
    TypeOK
    AlwaysPlanned
    AsksOften
    AccurateAlone
