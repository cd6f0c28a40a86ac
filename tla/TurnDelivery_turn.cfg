SPECIFICATION TurnSpec
CONSTANTS
    Message = {m1, m2}
    Turn = m1
    Sender = {w1, w2}
    Payload = {p, q}
    Silent = {q}
    Window = 1
    HardDeadline = 2
    Lease = 1
    MaxClaimTries = 3
    MaxClaimAttempts = 2
    CanFail = TRUE
    None = None
    Parts = 1
    Reconciler = {c1}
    SendLease = 2
    CanLose = TRUE
    MaxAttempts = 3
    Grace = 1
INVARIANTS
    OnlyRepliesAreSent
    CopiesPerClaim
CHECK_DEADLOCK FALSE
