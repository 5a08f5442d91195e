SPECIFICATION FairSpec
CONSTANTS
    t1 = t1
    t2 = t2
    r1 = r1
    r2 = r2
    Task = {t1, t2}
    Runtime = {r1, r2}
    RuntimeOf <- MCRuntimeOf
    MaxConcurrentTasks = 1
    None = None
    MaxRestarts = 1
INVARIANTS
    TypeOK
    SlotsAccountedFor
PROPERTIES
    CompletedByAgent
    CancelledAgentStops
    NothingHeldBack
    DaemonStops
CHECK_DEADLOCK FALSE
