SPECIFICATION RomSpec
CONSTANTS
    AxiConfigs <- SmallConfigs
    SocStrangers = {3}
    Contested <- ContestedRegs
    WdtIndices = {4, 15, 20}
    WdtValues = {5}
    UserIndices = {4, 16}
    Direct <- DirectRegs
    OtpSvn = 7
    MaxDisturbances = 1
    NumHashes = 2
    WordsPerHash = 2
    ExpectedLen = 4
    PK_HASH_REG_COUNT = 4
    HashWords = {0, 1}
    OtpHash <- SmallOtpHash
    MCU_MBOX_USERS = 1
    MBOX_AXI_USER_COUNT = 1
    Users = {1, 2}
    Strangers = {1, 3}
    OTP_TIMEOUT = 2
    READY_TIMEOUT = 3
    MaxResets = 2
INVARIANTS
    SetupTypeOK
    UsersSealed
    AxiTypeOK
    VerifiedUsersInForce
    VerifiedLocksExact
    FailureHasCause
    TypeOK
    ProgressTruthful
PROPERTIES
    FirmwareWaitEnds
    MilestonesNeverLost
    FailedFlowStops
    EveryBootEnds
