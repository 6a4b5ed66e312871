SPECIFICATION Spec
CONSTANTS
    Others = {o1}
    MAILBOX_SIZE <- MCMailboxSize
    MAX_WAIT_CYCLES = 2
    ReqLens <- MCReqLens
    ReqCounts <- MCReqCounts
    RespCounts <- MCRespCounts
    RespDlens <- MCRespDlens
    MaxDirectWords = 1
    NumTxns = 2
INVARIANTS
    ResponseReleasesLock
