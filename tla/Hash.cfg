SPECIFICATION SetupSpec
CONSTANTS
    AxiConfigs <- SmallConfigs
    SocStrangers = {3}
    Contested <- ContestedRegs
    WdtIndices = {4, 15, 20}
    WdtValues = {5}
    UserIndices = {4, 16}
    Direct <- DirectRegs
    OtpSvn = 7
    MaxDisturbances = 1
    NumHashes = 8
    WordsPerHash = 12
    ExpectedLen = 96
    PK_HASH_REG_COUNT = 12
    HashWords = {0, 1}
    OtpHash <- SmallOtpHash
INVARIANT
    HashVerdictRight
