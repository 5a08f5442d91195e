SPECIFICATION Spec
CONSTANTS
    User = {ann, bob}
    None = None
    PatUser = {}
    Batch = {1, 2}
    Races = {"commands"}
    MaxSessions = 2
    MaxTrouble = 1
SYMMETRY Interchangeable
INVARIANTS
    TypeOK
    WrittenPatIsOwn
    CredentialsFollowUser
    DaemonFollowsSession
CHECK_DEADLOCK FALSE
