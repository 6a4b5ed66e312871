SPECIFICATION Spec
CONSTANTS
    NumWords = 3
    Bits = {b0}
    PartitionWords = 2
    MaxCount = 2
    TIMEOUT_CYCLES = 2
INVARIANTS
    LockPartitionLocks
