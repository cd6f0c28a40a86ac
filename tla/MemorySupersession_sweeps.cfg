SPECIFICATION FairSpec
CONSTANTS
    goal = goal
    course = course
    timeline = timeline
    Memory <- MCMemory
    Known = {goal}
    Slot <- MCSlot
    Cron = {c1, c2}
    MaxAttempts = 2
    MaxDeaths = 1
    None = None
INVARIANTS NoStaleTwin ParkedHasKeeper
PROPERTIES ParkedIsResolved
CHECK_DEADLOCK FALSE
