SPECIFICATION Spec
CONSTANTS
    a1 = a1
    h1 = h1
    h2 = h2
    i1 = i1
    r1 = r1
    r2 = r2
    t1 = t1
    t2 = t2
    t3 = t3
    Task = {t1, t2, t3}
    Agent = {a1}
    Runtime = {r1, r2}
    Issue = {i1}
    Chat = {}
    ChattingAgent = a1
    ChatAgent <- MCChatAgent
    MaxConcurrentTasks <- OneTaskAtATime
    MaxContinuations = 1
    None = None
    Handler = {h1, h2}
    Sweeper = Sweeper
    Inputs = {"mention", "claim", "start", "complete", "register", "deregister", "bind", "lostResponse"}
    Reason = {}
    StatusRequest = {}
    MaxCrashes = 0
SYMMETRY Interchangeable
INVARIANTS
    HeldByItsRuntime
    ReceivedOnce
CHECK_DEADLOCK FALSE
