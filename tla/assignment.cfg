SPECIFICATION Spec
CONSTANTS
    a1 = a1
    a2 = a2
    c1 = c1
    h1 = h1
    i1 = i1
    r1 = r1
    t1 = t1
    t2 = t2
    t3 = t3
    t4 = t4
    Task = {t1, t2, t3, t4}
    Agent = {a1, a2}
    Runtime = {r1}
    Issue = {i1}
    Chat = {c1}
    ChattingAgent = a1
    ChatAgent <- MCChatAgent
    MaxConcurrentTasks <- TwoTasksAtATime
    MaxContinuations = 3
    None = None
    Handler = {h1}
    Sweeper = Sweeper
    Inputs = {"comment", "update", "chat", "claim", "start", "archive", "restore", "fail"}
    Reason = {"timeout", "crashed"}
    StatusRequest = {"cancelled", "done"}
    MaxCrashes = 0
SYMMETRY Interchangeable
INVARIANTS
    QueueFollowsAssignee
    ArchivedAgentHasNoTask
    EscalationEndsChain
    AgentStatusReconciled
CHECK_DEADLOCK FALSE
