SPECIFICATION FairSpec
CONSTANTS
    Sender = {s1, s2}
    Reconciler = {c1, c2}
    None = None
    MaxAttempts = 3
    Grace = 1
    SendLease = 2
    Parts = 2
    CanLose = TRUE
INVARIANTS
    OneSend
    SubmittedIsProved
    PartsInOrder
PROPERTIES
    ProofIsFinal
    NothingForgotten
CHECK_DEADLOCK FALSE
