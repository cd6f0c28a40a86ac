SPECIFICATION Spec
CONSTANTS
    inbound = inbound
    turn = turn
    call = call
    correction = correction
    name = name
    plan = plan
    Source <- MCSource
    Field <- MCField
    Gives <- MCGives
    OrderOf <- MCOrderOf
    KeyOf <- MCKeyOf
    WorkerOf <- MCWorkerOf
    Flush = {f1, f2}
    None = None
    MaxAttempts = 2
    MaxEnqueues = 3
INVARIANTS
    RowShowsLatest
    ProjectedWasShown
PROPERTIES
    RowIsSettled
CHECK_DEADLOCK FALSE
