SPECIFICATION Spec
CONSTANTS
    Message = {m1, m2, m3}
    Workflow = {w1, w2, w3}
    Payload = {p, q}
    Silent = {q}
    Window = 2
    HardDeadline = 4
    Lease = 1
    MaxClaimTries = 3
    MaxClaimAttempts = 2
    CanFail = TRUE
    None = None
SYMMETRY Symmetry
INVARIANTS TypeOK BatchesAreIntervals OneLiveLease
           SupersededByNewer ClaimTriesSuffice
PROPERTIES OnlyOwnerCompletes KeepsOwnership
CHECK_DEADLOCK FALSE
