SPECIFICATION Spec
CONSTANTS
    Sender = {s1, s2, s3}
    Reconciler = {c1}
    None = None
    MaxAttempts = 2
    Grace = 1
    SendLease = 1
    Preference <- MCPreference
    Windowed = {"whatsapp"}
    Conversations = {"whatsapp", "telegram"}
    Retirable = {"telegram"}
    CanDie = TRUE
INVARIANTS
    OneAtATime
    SentIsTrue
    CopiesWithinBudget
PROPERTY
    NeverAfterProof
SYMMETRY Symmetry
CHECK_DEADLOCK FALSE
