SPECIFICATION Spec
CONSTANTS
    OTP_TIMEOUT = 2
    READY_TIMEOUT = 3
    MaxResets = 2
INVARIANTS
    FatalErrorRecorded
