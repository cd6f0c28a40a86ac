SPECIFICATION Spec
CONSTANTS
    Creator = {c1, c2, c3}
    Delivery = {d1, d2}
    None = None
    MaxTakeovers = 2
INVARIANTS
    NothingPaidIsGivenUp
PROPERTIES
    TriggerNeverRefuses
    PaidIsRecorded
CHECK_DEADLOCK FALSE
