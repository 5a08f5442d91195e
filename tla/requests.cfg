SPECIFICATION FairSpec
CONSTANTS
    p1 = p1
    u1 = u1
    u2 = u2
    r1 = r1
    r2 = r2
    Ping = {p1}
    Update = {u1, u2}
    Runtime = {r1, r2}
    None = None
    MaxRestarts = 1
INVARIANTS
    TypeOK
    OneActiveUpdate
    OneUpdateWorking
PROPERTIES
    HandedOutOnce
    UpdateEnds
    UpdateAdmittedAgain
CONSTRAINT PingOrUpdates
CHECK_DEADLOCK FALSE
