SPECIFICATION FollowupSpec
CONSTANTS
    NCalls = 3
    Sweep = {w1}
    Limit = 2
    MaxAsking = 1
    MaxSends = 2
    MaxMishaps = 2
INVARIANTS
    MarkerMeansDone
CHECK_DEADLOCK FALSE
PROPERTIES
    GateHeedsOptOut
    FollowupHappens
