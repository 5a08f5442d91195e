SPECIFICATION Spec
CONSTANTS
    n1 = n1
    n2 = n2
    t1 = t1
    t2 = t2
    c1 = c1
    s1 = s1
    s2 = s2
    e1 = e1
    Run = {n1, n2}
    Trigger = {t1, t2}
    Caller = {c1}
    Scheduler = {s1, s2}
    Reporter = {e1}
    None = None
    MaxTicks = 2
    MaxCrashes = 1
    MaxFailures = 1
SYMMETRY Interchangeable
INVARIANTS
    OneRunPerTick
    OverlapBounded
    TriggerRearmed
CONSTRAINT TwoTicks
CHECK_DEADLOCK FALSE
