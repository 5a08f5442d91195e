SPECIFICATION FairSpec
CONSTANTS
    a1 = a1
    a2 = a2
    h1 = h1
    i1 = i1
    r1 = r1
    t1 = t1
    t2 = t2
    Task = {t1, t2}
    Agent = {a1, a2}
    Runtime = {r1}
    Issue = {i1}
    Chat = {}
    ChattingAgent = a1
    ChatAgent <- MCChatAgent
    MaxConcurrentTasks <- OneTaskAtATime
    MaxContinuations = 1
    None = None
    Handler = {h1}
    Sweeper = Sweeper
    Inputs = {"mention", "claim", "start", "age", "expire", "heartbeat", "sweep"}
    Reason = {}
    StatusRequest = {}
    MaxCrashes = 0
INVARIANTS
    SweptIssuesReset
PROPERTIES
    UnderwayEnds
CHECK_DEADLOCK FALSE
