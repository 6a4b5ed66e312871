SPECIFICATION UnitsSpec
CONSTANTS
    FifoDepth = 2
    Interrupts = {i1, i2}
    Addresses = {0}
    MaxBytes = 4
    OtherNotifs = {n1}
    Periods = {1, 2}
    MaxTicks = 3
    AddressSpace = 16
    base_address = 5
    FlashSize = 9
    Lengths = {0, 6, 9, 15}
    Half = 4
    CyclesToWait = {0, 3, 7}
    MaxStep = 2
    RamSize = 4
    Chars = {0, 1}
    MaxCount = 3
    TextSizes = {8, 9}
    DataSizes = {0, 4, 5, 11}
    BssSizes = {0, 7, 16}
    Data = {{}, {0}}
    TokenWords = {0, 1}
    TokenIndices = {0, 3, 4}
    WordMod = 8
    RawStates = {0, 8, 9, 12, 13, 31, 42}
    Bases = {b1, b2}
    Vars = {v1, v2}
    Results = {r1, r2}
    Dlens <- MCDlens
    Payload <- MCPayload
    WORD_MOD = 2
    FlagBits = 4
INVARIANTS
    PlatformTypeOK
    TransfersFaithful
    ResetRequestNotLost
    WatchdogOnTime
    LibcRight
    ImageInPlace
    CrcRight
    TypeOK
    ReleaseExactlyOnce
    ChecksumOfWordsReturned
PROPERTIES
    WaitsEnd
