SPECIFICATION Spec
CONSTANTS
    User = {ann, bob}
    None = None
    PatUser = {}
    Batch = {1, 2}
    Races = {"commands"}
    MaxSessions = 2
    MaxTrouble = 0
INVARIANT NeverInherits
CHECK_DEADLOCK FALSE
