SPECIFICATION FairSpec
CONSTANTS
    User = {ann}
    None = None
    PatUser = {ann}
    Batch = {1, 2}
    Races = {"commands"}
    MaxSessions = 2
    MaxTrouble = 1
PROPERTIES
    StatusFollowsDaemon
CHECK_DEADLOCK FALSE
