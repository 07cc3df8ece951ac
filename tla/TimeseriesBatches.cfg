SPECIFICATION Spec
CONSTANTS
    Request = {r1, r2, r3}
    NULL = NULL
    PayloadSize = 12
    EntrySize <- AllSizes
    MaxCount = 4
SYMMETRY Symmetry
CHECK_DEADLOCK FALSE
INVARIANTS
    TypeOK
    BlocksOfCall
    SentInOrder
    MessagesSound
    SplitsLargeBatches
PROPERTY
    ImplementsSlab
