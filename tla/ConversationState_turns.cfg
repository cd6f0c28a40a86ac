SPECIFICATION Spec
CONSTANTS
    Turn = {t1, t2, t3}
    Call = {call}
    MaxDrafts = 1
    None = None
SYMMETRY Symmetry
INVARIANTS HistoryIsComplete NothingSaidIsAssumed FallbacksInARow RefusedOnlyIfMoved
CHECK_DEADLOCK FALSE
