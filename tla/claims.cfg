SPECIFICATION Spec
CONSTANTS
    a1 = a1
    c1 = c1
    h1 = h1
    h2 = h2
    i1 = i1
    r1 = r1
    t1 = t1
    t2 = t2
    t3 = t3
    Task = {t1, t2, t3}
    Agent = {a1}
    Runtime = {r1}
    Issue = {i1}
    Chat = {c1}
    ChattingAgent = a1
    ChatAgent <- MCChatAgent
    MaxConcurrentTasks <- OneTaskAtATime
    MaxContinuations = 1
    None = None
    Handler = {h1, h2}
    Sweeper = Sweeper
    Inputs = {"mention", "chat", "claim", "start", "complete", "fail", "cancel", "lostResponse", "resolve"}
    Reason = {"timeout"}
    StatusRequest = {}
    MaxCrashes = 1
SYMMETRY Interchangeable
INVARIANTS
    TypeOK
    OneUnderwayPerIssueAgent
    OvercommitBounded
    ContinuationSound
PROPERTIES
    ImplementsLifecycle
CHECK_DEADLOCK FALSE
