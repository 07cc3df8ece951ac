SPECIFICATION Spec
CONSTANTS
    Request = {r1, r2}
    NULL = NULL
    PayloadSize = 12
    EntrySize <- SmallSizes
    MaxCount = 4
INVARIANTS
    FreesAllocatedBlocks
