SPECIFICATION FairSpec
CONSTANTS
    Message = {m1, m2}
    Workflow = {w1, w2}
    Payload = {p}
    Silent = {}
    Window = 1
    HardDeadline = 1
    Lease = 1
    MaxClaimTries = 3
    MaxClaimAttempts = 3
    CanFail = TRUE
    None = None
PROPERTIES DecidedBatchCloses
CHECK_DEADLOCK FALSE
