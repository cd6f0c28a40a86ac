SPECIFICATION FairSpec
CONSTANTS
    Message = {m1, m2}
    Workflow = {w1, w2, w3}
    Payload = {p, q}
    Silent = {q}
    Window = 1
    HardDeadline = 2
    Lease = 1
    MaxClaimTries = 3
    MaxClaimAttempts = 2
    CanFail = FALSE
    None = None
PROPERTIES EveryMessageAnswered
CHECK_DEADLOCK FALSE
