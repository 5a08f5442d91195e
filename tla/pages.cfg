SPECIFICATION Spec
CONSTANTS
    Task = {1, 2}
    Session = {s1}
    Send = {p, q}
    Issue = Issue
    None = None
    MaxMessages = 2
    MaxWire = 2
SYMMETRY Interchangeable
INVARIANTS
    ItemsAreMessages
    CardsFollowTasks
    IndicatorShown
    IndicatorWatched
CHECK_DEADLOCK FALSE
