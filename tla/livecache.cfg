SPECIFICATION Spec
CONSTANTS
    Item = {i1, i2}
    Edit = {e1}
    None = None
    Watched <- QueryKeys
    MaxWrites = 2
    MaxDrops = 1
    MaxFailures = 1
INVARIANTS
    StaleIsMarked
    VisibleIsCurrent
    RefusedEditIsGone
CHECK_DEADLOCK FALSE
CONSTRAINTS
    Explained
    OneFault
SYMMETRY ItemSymmetry
