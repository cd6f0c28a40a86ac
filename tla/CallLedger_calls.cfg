SPECIFICATION Spec
CONSTANTS
    Turn = {t1, t2}
    Contact = {k1}
    ContactOf <- MCContactOf
    Dispatcher = {d1, d2}
    Reason = {"user_hangup", "no_answer"}
    Kind = {"started", "ended", "analyzed"}
    None = None
    Expiring = {t1}
    MaxExpiries = 1
INVARIANTS
    CallsPerLease
    OneLiveCall
    StatusFollowsRecord
PROPERTIES
    ProviderCallIsFixed
    PlacedCallsAreClosed
CHECK_DEADLOCK FALSE
