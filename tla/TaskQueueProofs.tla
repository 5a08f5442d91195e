--------------------------- MODULE TaskQueueProofs ---------------------------
(****************************************************************************)
(* Theorems about the task queue, for every value of its constants.         *)
(****************************************************************************)
EXTENDS TaskQueueProperties, TLAPS

\* No statement deletes a row.
TasksStay == \A t \in Task : status[t] # "absent" => status'[t] # "absent"

-----------------------------------------------------------------------------
(* Local variables *)

LEMMA NoLocIsLocal == NoLoc \in Local /\ \A t \in Task : ~Knows(NoLoc, t)
BY StoreAssumption DEF NoLoc, Local, Knows

LEMMA LocIsLocal ==
    ASSUME LocalTypes, NEW p \in Process
    PROVE  loc[p] \in Local /\ LocalAt(pc[p], loc[p])
BY DEF LocalTypes

LEMMA GotoKeepsLocals ==
    ASSUME LocalTypes, KnownTasks, TasksStay,
           NEW p \in Process, NEW label \in Label, NEW l,
           label # "idle" => /\ l \in Local /\ LocalAt(label, l)
                             /\ \A t \in Task : Knows(l, t) => status'[t] # "absent",
           Goto(p, label, l)
    PROVE  LocalTypes' /\ KnownTasks'
<1>1. pc' \in [Process -> Label]
  BY DEF LocalTypes, Goto
<1>2. loc' \in [Process -> Local]
  BY NoLocIsLocal DEF LocalTypes, Goto
<1>3. \A q \in Process : LocalAt(pc'[q], loc'[q])
  BY DEF LocalTypes, Goto, LocalAt
<1>4. KnownTasks'
  BY NoLocIsLocal DEF LocalTypes, Goto, KnownTasks, TasksStay, Knows
<1> QED
  BY <1>1, <1>2, <1>3, <1>4 DEF LocalTypes, LocalAt

LEMMA LocIsKnown ==
    ASSUME KnownTasks, NEW p \in Process, NEW t \in Task, Knows(loc[p], t)
    PROVE  status[t] # "absent"
BY DEF KnownTasks

-----------------------------------------------------------------------------
(* Type correctness *)

\* A step that writes no table, or only agent_task_queue, has little to show.
LEMMA NoTableChanges ==
    ASSUME TypeOK, LocalTypes', KnownTasks', UNCHANGED <<storeVars, holder, crashes>>
    PROVE  TypeOK'
BY DEF TypeOK, TaskTypes, AgentTypes, RuntimeTypes, IssueTypes, LoopTypes, RowsNameAgents,
       storeVars, taskVars, agentVars, runtimeVars, issueVars, loopVars

LEMMA OnlyTasksChange ==
    ASSUME TypeOK, TaskTypes', RowsNameAgents', LocalTypes', KnownTasks',
           UNCHANGED <<agentVars, runtimeVars, issueVars, loopVars, holder, crashes>>
    PROVE  TypeOK'
BY DEF TypeOK, AgentTypes, RuntimeTypes, IssueTypes, LoopTypes,
       agentVars, runtimeVars, issueVars, loopVars

LEMMA NoTaskChanges ==
    ASSUME TypeOK, UNCHANGED taskVars
    PROVE  TaskTypes' /\ RowsNameAgents' /\ TasksStay
BY DEF TypeOK, TaskTypes, RowsNameAgents, taskVars, TasksStay

LEMMA SetStatusKeepsTypes ==
    ASSUME TaskTypes, RowsNameAgents, NEW S \in SUBSET Task,
           \A t \in S : status[t] # "absent",
           NEW s \in Status \ {"absent"}, SetStatus(S, s), aged' \in SUBSET aged
    PROVE  TaskTypes' /\ RowsNameAgents' /\ TasksStay
BY DEF TaskTypes, RowsNameAgents, SetStatus, TasksStay

LEMMA InsertKeepsTypes ==
    ASSUME TaskTypes, RowsNameAgents, NEW t \in Task, NEW new \in Row, new.agent \in Agent,
           InsertTask(t, new)
    PROVE  TaskTypes' /\ RowsNameAgents' /\ TasksStay
BY DEF TaskTypes, RowsNameAgents, InsertTask, TasksStay, Status, Live, Pending

\* Each statement on agent_task_queue.
LEMMA StatementsKeepTypes ==
    ASSUME TaskTypes, RowsNameAgents,
           \/ \E t \in Task : \/ StartAgentTask(t) \/ CompleteAgentTask(t)
                              \/ FailAgentTask(t) \/ CancelAgentTask(t)
                              \/ \E S \in SUBSET Task : ClaimAgentTask(t, S)
           \/ \E i \in Issue \cup Chat \cup {None} : CancelAgentTasksByIssue(i)
           \/ \E a \in Agent \cup {None} : CancelAgentTasksByAgent(a)
           \/ FailStaleTasks \/ FailTasksForOfflineRuntimes
           \/ \E r \in Runtime : MigrateQueuedTasksToRuntime(r)
    PROVE  TaskTypes' /\ RowsNameAgents' /\ TasksStay
<1> USE DEF TasksIn, Live, Pending, Underway, Outcome, Status
<1>1. CASE \E t \in Task : \/ StartAgentTask(t) \/ CompleteAgentTask(t)
                           \/ FailAgentTask(t) \/ CancelAgentTask(t)
                           \/ \E S \in SUBSET Task : ClaimAgentTask(t, S)
  <2>1. PICK t \in Task : \/ StartAgentTask(t) \/ CompleteAgentTask(t)
                          \/ FailAgentTask(t) \/ CancelAgentTask(t)
                          \/ \E S \in SUBSET Task : ClaimAgentTask(t, S)
    BY <1>1
  <2>2. \E s \in Status \ {"absent"} : status[t] # "absent" /\ SetStatus({t}, s) /\ aged' \in SUBSET aged
    BY <2>1 DEF StartAgentTask, CompleteAgentTask, FailAgentTask, CancelAgentTask, ClaimAgentTask
  <2> QED
    BY <2>2, SetStatusKeepsTypes
<1>2. CASE \E i \in Issue \cup Chat \cup {None} : CancelAgentTasksByIssue(i)
  BY <1>2, SetStatusKeepsTypes DEF CancelAgentTasksByIssue
<1>3. CASE \E a \in Agent \cup {None} : CancelAgentTasksByAgent(a)
  BY <1>3, SetStatusKeepsTypes DEF CancelAgentTasksByAgent
<1>4. CASE FailStaleTasks
  BY <1>4, SetStatusKeepsTypes DEF FailStaleTasks, StaleTasks
<1>5. CASE FailTasksForOfflineRuntimes
  BY <1>5, SetStatusKeepsTypes DEF FailTasksForOfflineRuntimes, OrphanedTasks
<1>6. CASE \E r \in Runtime : MigrateQueuedTasksToRuntime(r)
  BY <1>6 DEF MigrateQueuedTasksToRuntime, TaskTypes, RowsNameAgents, TasksStay, Row
<1> QED
  BY <1>1, <1>2, <1>3, <1>4, <1>5, <1>6

\* A request that only reads, then goes to a label with well-formed locals.
LEMMA ReadingKeepsTypes ==
    ASSUME TypeOK, UNCHANGED <<storeVars, holder, crashes>>,
           NEW p \in Process, NEW label \in Label, NEW l, Goto(p, label, l),
           label # "idle" => /\ l \in Local /\ LocalAt(label, l)
                             /\ \A t \in Task : Knows(l, t) => status[t] # "absent"
    PROVE  TypeOK'
<1>1. TasksStay /\ status' = status
  BY NoTaskChanges DEF storeVars, taskVars
<1>2. LocalTypes' /\ KnownTasks'
  BY <1>1, GotoKeepsLocals DEF TypeOK
<1> QED
  BY <1>2, NoTableChanges

LEMMA WritingTasksKeepsTypes ==
    ASSUME TypeOK, TaskTypes', RowsNameAgents', TasksStay,
           UNCHANGED <<agentVars, runtimeVars, issueVars, loopVars, holder, crashes>>,
           NEW p \in Process, NEW label \in Label, NEW l, Goto(p, label, l),
           label # "idle" => /\ l \in Local /\ LocalAt(label, l)
                             /\ \A t \in Task : Knows(l, t) => status[t] # "absent"
    PROVE  TypeOK'
<1>1. \A t \in Task : status[t] # "absent" => status'[t] # "absent"
  BY DEF TasksStay
<1>2. LocalTypes' /\ KnownTasks'
  BY <1>1, GotoKeepsLocals DEF TypeOK
<1> QED
  BY <1>2, OnlyTasksChange

LEMMA EnqueueLocals ==
    ASSUME NEW a \in Agent, NEW x \in Target
    PROVE  LET l == [NoLoc EXCEPT !.agent = a, !.target = x]
           IN  l \in Local /\ LocalAt("load", l) /\ \A t \in Task : ~Knows(l, t)
BY StoreAssumption DEF NoLoc, Local, LocalAt, Knows

LEMMA ReconcileLocals ==
    ASSUME NEW agents \in SUBSET Agent, NEW then \in {"idle", "stale"}
    PROVE  LET l == [NoLoc EXCEPT !.agents = agents, !.then = then]
           IN  l \in Local /\ LocalAt("reconcile", l) /\ \A t \in Task : ~Knows(l, t)
BY StoreAssumption DEF NoLoc, Local, LocalAt, Knows

LEMMA ArriveTypes ==
    ASSUME TypeOK, NEW h \in Handler, Arrive(h)
    PROVE  TypeOK'
<1> USE DEF Request, At
<1>h. h \in Process
  BY DEF Process
<1>l. {"idle", "load", "writeIssue", "skip", "count", "reconcile", "loop", "continue",
       "cancelAgent", "migrateAgents"} \subseteq Label
  BY DEF Label
<1>1. ASSUME NEW i \in Issue, Comment(h, i) PROVE TypeOK'
  <2>1. assignee[i] \in Agent /\ i \in Target
    BY <1>1 DEF Comment, Target
  <2> QED
    BY <1>1, <1>h, <1>l, <2>1, EnqueueLocals, ReadingKeepsTypes DEF Comment, Enqueue
<1>2. ASSUME NEW i \in Issue, NEW a \in Agent, Mention(h, i, a) PROVE TypeOK'
  BY <1>2, <1>h, <1>l, EnqueueLocals, ReadingKeepsTypes DEF Mention, Enqueue, Target
<1>3. ASSUME NEW c \in Chat, SendChatMessage(h, c) PROVE TypeOK'
  <2>1. ChatAgent[c] \in Agent /\ c \in Target
    BY StoreAssumption DEF Target
  <2> QED
    BY <1>3, <1>h, <1>l, <2>1, EnqueueLocals, ReadingKeepsTypes DEF SendChatMessage, Enqueue
<1>4. ASSUME NEW i \in Issue, UpdateIssue(h, i) PROVE TypeOK'
  <2>1. PICK s \in StatusRequest \cup {"keep"}, a \in Agent \cup {None},
             asks \in {"nothing", "assign", "unassign"} :
               /\ asks = "assign" => a \in Agent \ archived
               /\ Goto(h, "writeIssue", [NoLoc EXCEPT
                    !.target = i, !.agent = a, !.status = s,
                    !.marks = (IF asks = "assign" /\ a # assignee[i] THEN {"reassigned"} ELSE {})
                         \cup (IF s = "cancelled" /\ issueStatus[i] # s THEN {"cancelled"} ELSE {})])
    BY <1>4 DEF UpdateIssue
  <2> DEFINE m == (IF asks = "assign" /\ a # assignee[i] THEN {"reassigned"} ELSE {})
                  \cup (IF s = "cancelled" /\ issueStatus[i] # s THEN {"cancelled"} ELSE {})
             l == [NoLoc EXCEPT !.target = i, !.agent = a, !.status = s, !.marks = m]
  <2>2. m \in SUBSET {"reassigned", "cancelled", "retry"} /\ ("reassigned" \in m => a \in Agent)
    BY <2>1
  <2>3. l \in Local /\ LocalAt("writeIssue", l) /\ \A t \in Task : ~Knows(l, t)
    <3> HIDE DEF m
    <3> QED
      BY <2>2, StoreAssumption, QueueAssumption DEF NoLoc, Local, LocalAt, Knows, Target
  <2>4. Goto(h, "writeIssue", l)
    BY <2>1
  <2> HIDE DEF l
  <2> QED
    BY <1>4, <1>h, <1>l, <2>3, <2>4, ReadingKeepsTypes DEF UpdateIssue
<1>5. ASSUME NEW i \in Issue, NEW a \in Agent, ResolveLoop(h, i, a) PROVE TypeOK'
  <2>1. TasksStay /\ TaskTypes' /\ RowsNameAgents' /\ status' = status
    BY <1>5, NoTaskChanges DEF ResolveLoop, taskVars
  <2>2. LoopTypes'
    BY <1>5 DEF ResolveLoop, ResolveLoopDetection, TypeOK, LoopTypes, EscalateAt
  <2>3. LocalTypes' /\ KnownTasks'
    <3>1. CASE assignee[i] # None /\ Enqueue(h, assignee[i], i)
      <4>1. assignee[i] \in Agent /\ i \in Target
        BY <3>1 DEF TypeOK, IssueTypes, Target
      <4> QED
        BY <3>1, <4>1, <1>h, <1>l, <2>1, EnqueueLocals, GotoKeepsLocals DEF Enqueue, TypeOK
    <3>2. CASE Goto(h, "skip", [NoLoc EXCEPT !.target = i])
      <4>1. LET l == [NoLoc EXCEPT !.target = i]
            IN  l \in Local /\ LocalAt("skip", l) /\ \A t \in Task : ~Knows(l, t)
        BY StoreAssumption DEF NoLoc, Local, LocalAt, Knows, Target
      <4> QED
        BY <3>2, <4>1, <1>h, <1>l, <2>1, GotoKeepsLocals DEF TypeOK
    <3>3. CASE UNCHANGED <<pc, loc>>
      BY <3>3, <2>1 DEF TypeOK, LocalTypes, KnownTasks
    <3> QED
      BY <1>5, <3>1, <3>2, <3>3 DEF ResolveLoop
  <2> QED
    BY <1>5, <2>1, <2>2, <2>3 DEF ResolveLoop, TypeOK, AgentTypes, RuntimeTypes, IssueTypes,
       agentVars, runtimeVars, issueVars
<1>6. ASSUME NEW r \in Runtime, ClaimTaskForRuntime(h, r) PROVE TypeOK'
  <2>1. AgentsPendingAt(r) \subseteq Agent
    BY DEF AgentsPendingAt, TasksIn, Pending, TypeOK, RowsNameAgents
  <2>2. LET l == [NoLoc EXCEPT !.runtime = r, !.agents = AgentsPendingAt(r)]
        IN  l \in Local /\ LocalAt("count", l) /\ \A t \in Task : ~Knows(l, t)
    BY <2>1, StoreAssumption DEF NoLoc, Local, LocalAt, Knows
  <2> QED
    BY <1>6, <1>h, <1>l, <2>2, ReadingKeepsTypes DEF ClaimTaskForRuntime
<1>7. ASSUME NEW r \in Runtime, DaemonRegister(h, r) PROVE TypeOK'
  <2>1. TasksStay /\ TaskTypes' /\ RowsNameAgents' /\ status' = status
    BY <1>7, NoTaskChanges DEF DaemonRegister, taskVars
  <2>2. LET l == [NoLoc EXCEPT !.runtime = r]
        IN  l \in Local /\ LocalAt("migrateAgents", l) /\ \A t \in Task : ~Knows(l, t)
    BY StoreAssumption DEF NoLoc, Local, LocalAt, Knows
  <2>3. LocalTypes' /\ KnownTasks'
    BY <1>7, <2>1, <2>2, <1>h, <1>l, GotoKeepsLocals DEF DaemonRegister, TypeOK
  <2> QED
    BY <1>7, <2>1, <2>3 DEF DaemonRegister, SeenOnline, TypeOK, AgentTypes, RuntimeTypes,
       IssueTypes, LoopTypes, agentVars, issueVars, loopVars
<1>8. ASSUME NEW t \in Task, CompleteTask(h, t) \/ CancelTask(h, t) PROVE TypeOK'
  <2>1. TaskTypes' /\ RowsNameAgents' /\ TasksStay
    BY <1>8, StatementsKeepTypes DEF CompleteTask, CancelTask, TypeOK
  <2>2. {row[t].agent} \in SUBSET Agent
    BY <1>8 DEF CompleteTask, CancelTask, CompleteAgentTask, CancelAgentTask, Live, Pending,
       Underway, TypeOK, RowsNameAgents
  <2> QED
    BY <1>8, <1>h, <1>l, <2>1, <2>2, ReconcileLocals, WritingTasksKeepsTypes
    DEF CompleteTask, CancelTask, ReconcileThen
<1>9. ASSUME NEW t \in Task, NEW reason \in Reason, FailTask(h, t, reason) PROVE TypeOK'
  <2> DEFINE l == [NoLoc EXCEPT !.task = t, !.agents = {row[t].agent},
                     !.marks = IF MayContinue(t, reason) THEN {"retry"} ELSE {}]
  <2>1. TaskTypes' /\ RowsNameAgents' /\ TasksStay
    BY <1>9, StatementsKeepTypes DEF FailTask, TypeOK
  <2>2. status[t] # "absent" /\ row[t].agent \in Agent
    BY <1>9 DEF FailTask, FailAgentTask, Underway, TypeOK, RowsNameAgents
  <2>3. /\ l \in Local /\ LocalAt("loop", l) /\ LocalAt("continue", l) /\ LocalAt("reconcile", l)
        /\ \A u \in Task : Knows(l, u) => status[u] # "absent"
    BY <2>2, StoreAssumption DEF NoLoc, Local, LocalAt, Knows
  <2>4. Goto(h, "loop", l) \/ Goto(h, "continue", l) \/ Goto(h, "reconcile", l)
    BY <1>9 DEF FailTask
  <2> HIDE DEF l
  <2> QED
    BY <1>9, <1>h, <1>l, <2>1, <2>3, <2>4, WritingTasksKeepsTypes DEF FailTask
<1>10. ASSUME NEW a \in Agent, ArchiveAgent(h, a) PROVE TypeOK'
  <2>1. TasksStay /\ TaskTypes' /\ RowsNameAgents' /\ status' = status
    BY <1>10, NoTaskChanges DEF ArchiveAgent, taskVars
  <2>2. LET l == [NoLoc EXCEPT !.agent = a]
        IN  l \in Local /\ LocalAt("cancelAgent", l) /\ \A t \in Task : ~Knows(l, t)
    BY StoreAssumption DEF NoLoc, Local, LocalAt, Knows
  <2>3. LocalTypes' /\ KnownTasks'
    BY <1>10, <2>1, <2>2, <1>h, <1>l, GotoKeepsLocals DEF ArchiveAgent, TypeOK
  <2> QED
    BY <1>10, <2>1, <2>3 DEF ArchiveAgent, TypeOK, AgentTypes, RuntimeTypes,
       IssueTypes, LoopTypes, runtimeVars, issueVars, loopVars
<1> QED
  BY <1>1, <1>2, <1>3, <1>4, <1>5, <1>6, <1>7, <1>8, <1>9, <1>10 DEF Arrive

LEMMA ServeTypes ==
    ASSUME TypeOK, NEW h \in Process, Serve(h)
    PROVE  TypeOK'
<1> USE DEF At
<1>l. {"idle", "stale", "cancelIssue", "load", "insert", "count", "snapshot", "lock", "deliver",
       "continue", "reconcile", "setStatus", "reassign", "cancelIssue", "migrateTasks"} \subseteq Label
  BY DEF Label
<1>h. /\ loc[h] \in Local /\ LocalAt(pc[h], loc[h])
      /\ \A t \in Task : Knows(loc[h], t) => status[t] # "absent"
  BY LocIsLocal, LocIsKnown DEF TypeOK
<1>1. CASE LoadAgent(h)
  <2>1. LET l == [loc[h] EXCEPT !.runtime = binding[loc[h].agent]]
        IN  /\ l \in Local /\ LocalAt("insert", l)
            /\ \A t \in Task : Knows(l, t) => status[t] # "absent"
    BY <1>1, <1>h DEF LoadAgent, Local, LocalAt, Knows, TypeOK, AgentTypes
  <2>2. /\ loc[h].then \in {"idle", "stale", "cancelIssue"}
        /\ LocalAt("stale", loc[h]) /\ LocalAt("cancelIssue", loc[h])
    BY <1>h DEF Local, LocalAt
  <2> QED
    BY <1>1, <1>h, <1>l, <2>1, <2>2, ReadingKeepsTypes DEF LoadAgent
<1>2. CASE InsertNew(h)
  <2>1. NewRow(h) \in Row /\ NewRow(h).agent \in Agent
    BY <1>2, <1>h DEF InsertNew, NewRow, Row, Local, LocalAt
  <2>2. TaskTypes' /\ RowsNameAgents' /\ TasksStay
    BY <1>2, <2>1, InsertKeepsTypes DEF InsertNew, TypeOK
  <2>3. /\ loc[h].then \in {"idle", "stale", "cancelIssue"}
        /\ LocalAt("stale", loc[h]) /\ LocalAt("cancelIssue", loc[h])
    BY <1>h DEF Local, LocalAt
  <2> QED
    BY <1>2, <1>h, <1>l, <2>2, <2>3, WritingTasksKeepsTypes DEF InsertNew
<1>3. CASE InsertRejected(h)
  <2>1. /\ loc[h].then \in {"idle", "stale", "cancelIssue"}
        /\ LocalAt("stale", loc[h]) /\ LocalAt("cancelIssue", loc[h])
    BY <1>h DEF Local, LocalAt
  <2> QED
    BY <1>3, <1>h, <1>l, <2>1, ReadingKeepsTypes DEF InsertRejected
<1>t. ASSUME NEW agents \in SUBSET Agent
      PROVE  LET l == [NoLoc EXCEPT !.runtime = loc[h].runtime, !.agents = agents]
             IN  l \in Local /\ LocalAt("count", l) /\ \A t \in Task : ~Knows(l, t)
  BY <1>h, StoreAssumption DEF NoLoc, Local, LocalAt, Knows
<1>a. loc[h].agents \in SUBSET Agent
  BY <1>h DEF Local
<1>4. CASE CheckCapacity(h)
  <2>1. PICK a \in loc[h].agents :
          \/ TryNextAgent(h, loc[h].agents \ {a})
          \/ Goto(h, "snapshot", [loc[h] EXCEPT !.agent = a, !.agents = loc[h].agents \ {a}])
    BY <1>4 DEF CheckCapacity
  <2>2. loc[h].agents \ {a} \in SUBSET Agent
    BY <1>a
  <2>3. LET l == [loc[h] EXCEPT !.agent = a, !.agents = loc[h].agents \ {a}]
        IN  /\ l \in Local /\ LocalAt("snapshot", l)
            /\ \A t \in Task : Knows(l, t) => status[t] # "absent"
    BY <1>h DEF Local, LocalAt, Knows
  <2> QED
    BY <1>4, <1>h, <1>l, <1>t, <2>1, <2>2, <2>3, ReadingKeepsTypes DEF CheckCapacity, TryNextAgent
<1>5. CASE SnapshotQueue(h)
  <2> DEFINE found == Claimable(loc[h].agent)
             l == [loc[h] EXCEPT !.tasks = found]
  <2>1. \A t \in found : t \in Task /\ status[t] # "absent"
    BY DEF Claimable, TasksIn
  <2>2. /\ l \in Local /\ LocalAt("lock", l)
        /\ \A t \in Task : Knows(l, t) => status[t] # "absent"
    <3> HIDE DEF found
    <3> QED
      BY <2>1, <1>h DEF Local, LocalAt, Knows
  <2>3. TryNextAgent(h, loc[h].agents) \/ Goto(h, "lock", l)
    BY <1>5 DEF SnapshotQueue
  <2> HIDE DEF l
  <2> QED
    BY <1>5, <1>h, <1>l, <1>t, <1>a, <2>2, <2>3, ReadingKeepsTypes DEF SnapshotQueue, TryNextAgent
<1>6. CASE LockTask(h)
  <2>1. PICK t \in Task : /\ ClaimAgentTask(t, loc[h].tasks)
                          /\ Goto(h, "deliver", [loc[h] EXCEPT !.task = t, !.tasks = {}])
    BY <1>6 DEF LockTask
  <2>2. TaskTypes' /\ RowsNameAgents' /\ TasksStay
    BY <2>1, <1>h, StatementsKeepTypes DEF TypeOK, Local
  <2>3. LET l == [loc[h] EXCEPT !.task = t, !.tasks = {}]
        IN  /\ l \in Local /\ LocalAt("deliver", l)
            /\ \A u \in Task : Knows(l, u) => status[u] # "absent"
    BY <1>h, <2>1 DEF Local, LocalAt, Knows, ClaimAgentTask
  <2> QED
    BY <1>6, <1>h, <1>l, <2>1, <2>2, <2>3, WritingTasksKeepsTypes DEF LockTask
<1>7. CASE LockNothing(h)
  BY <1>7, <1>h, <1>l, <1>t, <1>a, ReadingKeepsTypes DEF LockNothing, TryNextAgent
<1>8. CASE Deliver(h)
  <2>1. TasksStay /\ TaskTypes' /\ RowsNameAgents' /\ status' = status
    BY <1>8, NoTaskChanges DEF Deliver, taskVars
  <2>2. LocalTypes' /\ KnownTasks'
    BY <1>8, <2>1, <1>h, <1>l, <1>t, <1>a, GotoKeepsLocals DEF Deliver, TryNextAgent, TypeOK
  <2>3. AgentTypes'
    BY <1>8 DEF Deliver, UpdateAgentStatus, TypeOK, AgentTypes
  <2>4. holder' \in [Task -> Runtime \cup {None}]
    BY <1>8, <1>h DEF Deliver, TypeOK, Local
  <2> QED
    BY <1>8, <2>1, <2>2, <2>3, <2>4 DEF Deliver, TypeOK, RuntimeTypes, IssueTypes, LoopTypes,
       runtimeVars, issueVars, loopVars
<1>9. CASE DetectLoop(h)
  <2>1. TasksStay /\ TaskTypes' /\ RowsNameAgents' /\ status' = status
    BY <1>9, NoTaskChanges DEF DetectLoop, taskVars
  <2>2. LoopTypes'
    <3>1. \A i \in Issue, a \in Agent : NextFailures(i, a) \in 0..EscalateAt
      BY DEF NextFailures, EscalateAt, TypeOK, LoopTypes
    <3> QED
      BY <1>9, <3>1 DEF DetectLoop, UpsertLoopDetection, TypeOK, LoopTypes
  <2>3. LocalAt("continue", loc[h]) /\ LocalAt("reconcile", loc[h])
    BY <1>9, <1>h DEF DetectLoop, LocalAt
  <2>4. Goto(h, "continue", loc[h]) \/ Goto(h, "reconcile", loc[h])
    BY <1>9 DEF DetectLoop
  <2>5. LocalTypes' /\ KnownTasks'
    <3>1. \A label \in {"continue", "reconcile"} :
            Goto(h, label, loc[h]) => LocalTypes' /\ KnownTasks'
      BY <2>1, <2>3, <1>h, <1>l, GotoKeepsLocals DEF TypeOK
    <3> QED
      BY <3>1, <2>4
  <2> QED
    BY <1>9, <2>1, <2>2, <2>5 DEF DetectLoop, TypeOK, AgentTypes, RuntimeTypes, IssueTypes,
       agentVars, runtimeVars, issueVars
<1>10. CASE ContinueTask(h)
  <2>1. loc[h].task \in Task /\ status[loc[h].task] # "absent" /\ LocalAt("reconcile", loc[h])
    BY <1>10, <1>h DEF ContinueTask, LocalAt, Knows
  <2>2. ContinuationRow(loc[h].task) \in Row /\ ContinuationRow(loc[h].task).agent \in Agent
    <3> DEFINE t == loc[h].task
    <3>1. t \in Task /\ row[t] \in Row /\ row[t].agent \in Agent
      BY <2>1 DEF TypeOK, TaskTypes, RowsNameAgents
    <3>2. row[t].index + 1 \in Nat
      BY <3>1 DEF Row
    <3> HIDE DEF t
    <3>3. ContinuationRow(t) \in Row /\ ContinuationRow(t).agent = row[t].agent
      BY <3>1, <3>2 DEF ContinuationRow, Row
    <3> QED
      BY <3>1, <3>3 DEF t
  <2>3. TaskTypes' /\ RowsNameAgents' /\ TasksStay
    BY <1>10, <2>2, InsertKeepsTypes DEF ContinueTask, TypeOK
  <2> QED
    BY <1>10, <1>h, <1>l, <2>1, <2>3, WritingTasksKeepsTypes DEF ContinueTask
<1>11. CASE ContinuationRejected(h)
  <2>1. LocalAt("reconcile", loc[h])
    BY <1>11, <1>h DEF ContinuationRejected, LocalAt
  <2> QED
    BY <1>11, <1>h, <1>l, <2>1, ReadingKeepsTypes DEF ContinuationRejected
<1>12. CASE Reconcile(h)
  <2>1. PICK a \in loc[h].agents :
          Goto(h, "setStatus", [loc[h] EXCEPT !.agent = a,
                 !.status = IF CountRunning(a) > 0 THEN "working" ELSE "idle"])
    BY <1>12 DEF Reconcile
  <2>2. LET l == [loc[h] EXCEPT !.agent = a,
                   !.status = IF CountRunning(a) > 0 THEN "working" ELSE "idle"]
        IN  /\ l \in Local /\ LocalAt("setStatus", l)
            /\ \A t \in Task : Knows(l, t) => status[t] # "absent"
    <3> DEFINE s == IF CountRunning(a) > 0 THEN "working" ELSE "idle"
               l == [loc[h] EXCEPT !.agent = a, !.status = s]
    <3>1. s \in {"working", "idle"}
      OBVIOUS
    <3> HIDE DEF s
    <3>2. a \in Agent
      BY <1>h DEF Local
    <3>3. l \in Local /\ l.agent = a /\ l.status = s /\ l.task = loc[h].task /\ l.tasks = loc[h].tasks
      BY <1>h, <3>1, <3>2 DEF Local
    <3> QED
      BY <1>h, <3>1, <3>3 DEF LocalAt, Knows, s
  <2> QED
    BY <1>12, <1>h, <1>l, <2>1, <2>2, ReadingKeepsTypes DEF Reconcile
<1>13. CASE SetAgentStatus(h)
  <2>1. TasksStay /\ TaskTypes' /\ RowsNameAgents' /\ status' = status
    BY <1>13, NoTaskChanges DEF SetAgentStatus, taskVars
  <2>2. AgentTypes'
    BY <1>13, <1>h DEF SetAgentStatus, UpdateAgentStatus, TypeOK, AgentTypes, LocalAt
  <2>3. loc[h].then \in {"idle", "stale", "cancelIssue"}
    BY <1>h DEF Local
  <2>4. /\ NoLoc \in Local /\ LocalAt("stale", NoLoc) /\ LocalAt("cancelIssue", NoLoc)
        /\ \A t \in Task : ~Knows(NoLoc, t)
    BY NoLocIsLocal DEF LocalAt
  <2>5. LET l == [NoLoc EXCEPT !.agents = loc[h].agents \ {loc[h].agent}, !.then = loc[h].then]
        IN  l \in Local /\ LocalAt("reconcile", l) /\ \A t \in Task : ~Knows(l, t)
    BY <1>h, StoreAssumption DEF NoLoc, Local, LocalAt, Knows
  <2>6. LocalTypes' /\ KnownTasks'
    BY <1>13, <2>1, <2>3, <2>4, <2>5, <1>h, <1>l, GotoKeepsLocals
    DEF SetAgentStatus, ReconcileThen, TypeOK
  <2> QED
    BY <1>13, <2>1, <2>2, <2>6 DEF SetAgentStatus, TypeOK, RuntimeTypes, IssueTypes, LoopTypes,
       runtimeVars, issueVars, loopVars
<1>14. CASE WriteIssue(h)
  <2>1. TasksStay /\ TaskTypes' /\ RowsNameAgents' /\ status' = status
    BY <1>14, NoTaskChanges DEF WriteIssue, taskVars
  <2>2. IssueTypes'
    BY <1>14, <1>h DEF WriteIssue, TypeOK, IssueTypes, Local, LocalAt
  <2>3. /\ "reassigned" \in loc[h].marks => LocalAt("reassign", loc[h])
        /\ LocalAt("cancelIssue", loc[h])
    BY <1>14, <1>h DEF WriteIssue, LocalAt
  <2>4. \/ "reassigned" \in loc[h].marks /\ Goto(h, "reassign", loc[h])
        \/ Goto(h, "cancelIssue", loc[h])
        \/ Goto(h, "idle", loc[h])
    BY <1>14 DEF WriteIssue
  <2>5. LocalTypes' /\ KnownTasks'
    BY <2>1, <2>3, <2>4, <1>h, <1>l, GotoKeepsLocals DEF TypeOK
  <2> QED
    BY <1>14, <2>1, <2>2, <2>5 DEF WriteIssue, TypeOK, AgentTypes, RuntimeTypes, LoopTypes,
       agentVars, runtimeVars, loopVars
<1>15. CASE CancelOnReassign(h)
  <2>1. TaskTypes' /\ RowsNameAgents' /\ TasksStay
    BY <1>15, <1>h, StatementsKeepTypes DEF CancelOnReassign, TypeOK, Local, Target
  <2>2. LET l == [loc[h] EXCEPT !.then = IF "cancelled" \in loc[h].marks THEN "cancelIssue" ELSE "idle"]
        IN  /\ l \in Local /\ LocalAt("load", l)
            /\ \A t \in Task : Knows(l, t) => status[t] # "absent"
    BY <1>15, <1>h DEF CancelOnReassign, Local, LocalAt, Knows
  <2> QED
    BY <1>15, <1>h, <1>l, <2>1, <2>2, WritingTasksKeepsTypes DEF CancelOnReassign
<1>16. CASE CancelOnStatus(h)
  <2>1. TaskTypes' /\ RowsNameAgents' /\ TasksStay
    BY <1>16, <1>h, StatementsKeepTypes DEF CancelOnStatus, TypeOK, Local, Target
  <2> QED
    BY <1>16, <1>l, <2>1, WritingTasksKeepsTypes DEF CancelOnStatus
<1>17. CASE CancelOnArchive(h)
  <2>1. TaskTypes' /\ RowsNameAgents' /\ TasksStay
    BY <1>17, <1>h, StatementsKeepTypes DEF CancelOnArchive, TypeOK, Local
  <2> QED
    BY <1>17, <1>l, <2>1, WritingTasksKeepsTypes DEF CancelOnArchive
<1>18. CASE SkipIssue(h)
  <2>1. TasksStay /\ TaskTypes' /\ RowsNameAgents' /\ status' = status
    BY <1>18, NoTaskChanges DEF SkipIssue, taskVars
  <2>2. LocalTypes' /\ KnownTasks'
    BY <1>18, <2>1, <1>l, GotoKeepsLocals DEF SkipIssue, TypeOK
  <2>3. IssueTypes'
    BY <1>18 DEF SkipIssue, UpdateIssueStatus, IssueStatus, TypeOK, IssueTypes
  <2> QED
    BY <1>18, <2>1, <2>2, <2>3 DEF SkipIssue, TypeOK, AgentTypes, RuntimeTypes, LoopTypes,
       agentVars, runtimeVars, loopVars
<1>19. CASE MigrateAgents(h)
  <2>1. TasksStay /\ TaskTypes' /\ RowsNameAgents' /\ status' = status
    BY <1>19, NoTaskChanges DEF MigrateAgents, taskVars
  <2>2. LocalAt("migrateTasks", loc[h]) /\ loc[h].runtime \in Runtime
    BY <1>19, <1>h DEF MigrateAgents, LocalAt
  <2>3. LocalTypes' /\ KnownTasks'
    BY <1>19, <2>1, <2>2, <1>h, <1>l, GotoKeepsLocals DEF MigrateAgents, TypeOK
  <2>4. AgentTypes'
    BY <1>19, <2>2 DEF MigrateAgents, MigrateAgentsToRuntime, TypeOK, AgentTypes
  <2> QED
    BY <1>19, <2>1, <2>3, <2>4 DEF MigrateAgents, TypeOK, IssueTypes, RuntimeTypes, LoopTypes,
       issueVars, runtimeVars, loopVars
<1>20. CASE MigrateTasks(h)
  <2>1. TaskTypes' /\ RowsNameAgents' /\ TasksStay
    BY <1>20, <1>h, StatementsKeepTypes DEF MigrateTasks, TypeOK, LocalAt
  <2> QED
    BY <1>20, <1>l, <2>1, WritingTasksKeepsTypes DEF MigrateTasks
<1> QED
  BY <1>1, <1>2, <1>3, <1>4, <1>5, <1>6, <1>7, <1>8, <1>9, <1>10, <1>11, <1>12, <1>13, <1>14,
     <1>15, <1>16, <1>17, <1>18, <1>19, <1>20 DEF Serve

LEMMA BroadcastTypes ==
    ASSUME TypeOK, TaskTypes', RowsNameAgents', TasksStay,
           UNCHANGED <<agentVars, runtimeVars, issueVars, loopVars, holder, crashes>>,
           NEW failed \in SUBSET TasksIn(Underway), NEW then \in {"idle", "stale"},
           Broadcast(failed, then)
    PROVE  TypeOK'
<1> DEFINE l == [NoLoc EXCEPT !.tasks = failed, !.then = then,
                              !.agents = {row[t].agent : t \in failed}]
<1>1. /\ failed \in SUBSET Task /\ \A t \in failed : status[t] # "absent"
      /\ {row[t].agent : t \in failed} \in SUBSET Agent
  BY DEF TasksIn, Underway, TypeOK, RowsNameAgents
<1>2. /\ l \in Local /\ LocalAt("item", l)
      /\ \A t \in Task : Knows(l, t) => status[t] # "absent"
  BY <1>1, StoreAssumption DEF NoLoc, Local, LocalAt, Knows
<1>3. /\ NoLoc \in Local /\ LocalAt("stale", NoLoc)
      /\ \A t \in Task : ~Knows(NoLoc, t)
  BY NoLocIsLocal DEF LocalAt
<1>4. Goto(Sweeper, then, NoLoc) \/ Goto(Sweeper, "item", l)
  BY DEF Broadcast
<1>5. Sweeper \in Process /\ {"idle", "stale", "item"} \subseteq Label
  BY DEF Process, Label
<1> HIDE DEF l
<1> QED
  BY <1>2, <1>3, <1>4, <1>5, WritingTasksKeepsTypes

LEMMA SweepTypes ==
    ASSUME TypeOK, Sweep
    PROVE  TypeOK'
<1> USE DEF At
<1>s. Sweeper \in Process
  BY DEF Process
<1>l. {"idle", "stale", "offline", "item", "hasActive", "reset", "reconcile"} \subseteq Label
  BY DEF Label
<1>h. /\ loc[Sweeper] \in Local
      /\ \A t \in Task : Knows(loc[Sweeper], t) => status[t] # "absent"
  BY <1>s, LocIsLocal, LocIsKnown DEF TypeOK
\* NextItem ends in a well-formed record whatever well-formed one it starts from.
<1>n. ASSUME NEW l \in Local, \A t \in Task : Knows(l, t) => status[t] # "absent", NextItem(l)
      PROVE  \E label \in {"reconcile", "item"}, m \in Local :
                /\ Goto(Sweeper, label, m) /\ LocalAt(label, m)
                /\ \A t \in Task : Knows(m, t) => status[t] # "absent"
  <2> DEFINE m == [l EXCEPT !.target = None]
  <2>1. /\ m \in Local /\ LocalAt("reconcile", m) /\ LocalAt("item", m)
        /\ \A t \in Task : Knows(m, t) => status[t] # "absent"
    BY <1>n DEF Local, LocalAt, Knows
  <2>2. Goto(Sweeper, "reconcile", m) \/ Goto(Sweeper, "item", m)
    BY <1>n DEF NextItem
  <2> HIDE DEF m
  <2> QED
    BY <2>1, <2>2
<1>1. CASE SweepRuntimes
  <2>1. TasksStay /\ TaskTypes' /\ RowsNameAgents' /\ status' = status
    BY <1>1, NoTaskChanges DEF SweepRuntimes, taskVars
  <2>2. /\ NoLoc \in Local /\ LocalAt("stale", NoLoc) /\ LocalAt("offline", NoLoc)
        /\ \A t \in Task : ~Knows(NoLoc, t)
    BY NoLocIsLocal DEF LocalAt
  <2>3. LocalTypes' /\ KnownTasks'
    BY <1>1, <2>1, <2>2, <1>s, <1>l, GotoKeepsLocals DEF SweepRuntimes, TypeOK
  <2> QED
    BY <1>1, <2>1, <2>3 DEF SweepRuntimes, MarkStaleRuntimesOffline, TypeOK, AgentTypes,
       RuntimeTypes, IssueTypes, LoopTypes, agentVars, issueVars, loopVars
<1>2. CASE FailOffline
  <2>1. TaskTypes' /\ RowsNameAgents' /\ TasksStay
    BY <1>2, StatementsKeepTypes DEF FailOffline, TypeOK
  <2> QED
    BY <1>2, <2>1, BroadcastTypes DEF FailOffline, OrphanedTasks
<1>3. CASE FailStale
  <2>1. TaskTypes' /\ RowsNameAgents' /\ TasksStay
    BY <1>3, StatementsKeepTypes DEF FailStale, TypeOK
  <2> QED
    BY <1>3, <2>1, BroadcastTypes DEF FailStale, StaleTasks
<1>4. CASE ReadItem
  <2>1. PICK t \in loc[Sweeper].tasks :
          LET i    == row[t].target
              rest == [loc[Sweeper] EXCEPT !.tasks = loc[Sweeper].tasks \ {t}]
          IN  \/ /\ i \in Issue
                 /\ Goto(Sweeper, "hasActive", [rest EXCEPT !.target = i, !.seen = rest.seen \cup {i}])
              \/ NextItem(rest)
    BY <1>4 DEF ReadItem
  <2> DEFINE i    == row[t].target
             rest == [loc[Sweeper] EXCEPT !.tasks = loc[Sweeper].tasks \ {t}]
             l    == [rest EXCEPT !.target = i, !.seen = rest.seen \cup {i}]
  <2>2. rest \in Local /\ \A u \in Task : Knows(rest, u) => status[u] # "absent"
    BY <1>h DEF Local, Knows
  <2>3. CASE i \in Issue /\ Goto(Sweeper, "hasActive", l)
    <3>1. /\ l \in Local /\ LocalAt("hasActive", l)
          /\ \A u \in Task : Knows(l, u) => status[u] # "absent"
      <4> HIDE DEF rest, i
      <4> QED
        BY <2>2, <2>3 DEF Local, LocalAt, Knows, Target
    <3> HIDE DEF l
    <3> QED
      BY <1>4, <2>3, <3>1, <1>s, <1>l, ReadingKeepsTypes DEF ReadItem
  <2>4. CASE NextItem(rest)
    <3> HIDE DEF rest
    <3> QED
      BY <1>4, <1>n, <2>2, <2>4, <1>s, <1>l, ReadingKeepsTypes DEF ReadItem
  <2> QED
    BY <2>1, <2>3, <2>4
<1>5. CASE CheckActive
  <2>1. LocalAt("reset", loc[Sweeper])
    BY DEF LocalAt
  <2>2. NextItem(loc[Sweeper]) \/ Goto(Sweeper, "reset", loc[Sweeper])
    BY <1>5 DEF CheckActive
  <2> QED
    BY <1>5, <2>1, <2>2, <1>h, <1>n, <1>s, <1>l, ReadingKeepsTypes DEF CheckActive
<1>6. CASE ResetIssue
  <2>1. TasksStay /\ TaskTypes' /\ RowsNameAgents' /\ status' = status
    BY <1>6, NoTaskChanges DEF ResetIssue, taskVars
  <2>2. PICK label \in {"reconcile", "item"}, m \in Local :
                /\ Goto(Sweeper, label, m) /\ LocalAt(label, m)
                /\ \A t \in Task : Knows(m, t) => status[t] # "absent"
    BY <1>6, <1>h, <1>n DEF ResetIssue
  <2>3. LocalTypes' /\ KnownTasks'
    BY <2>1, <2>2, <1>s, <1>l, GotoKeepsLocals DEF TypeOK
  <2>4. IssueTypes'
    BY <1>6 DEF ResetIssue, UpdateIssueStatus, IssueStatus, TypeOK, IssueTypes
  <2> QED
    BY <1>6, <2>1, <2>3, <2>4 DEF ResetIssue, TypeOK, AgentTypes, RuntimeTypes, LoopTypes,
       agentVars, runtimeVars, loopVars
<1>7. CASE Reconcile(Sweeper) \/ SetAgentStatus(Sweeper)
  BY <1>7, <1>s, ServeTypes DEF Serve
<1> QED
  BY <1>1, <1>2, <1>3, <1>4, <1>5, <1>6, <1>7 DEF Sweep

LEMMA EnvironmentTypes ==
    ASSUME TypeOK, Environment
    PROVE  TypeOK'
<1> USE DEF Single
<1>f. ASSUME UNCHANGED <<pc, loc>>, TasksStay
      PROVE  LocalTypes' /\ KnownTasks'
  BY <1>f DEF TypeOK, LocalTypes, KnownTasks, TasksStay
<1>1. ASSUME NEW t \in Task, StartTask(t) PROVE TypeOK'
  <2>1. TaskTypes' /\ RowsNameAgents' /\ TasksStay
    BY <1>1, StatementsKeepTypes DEF StartTask, TypeOK
  <2> QED
    BY <1>1, <2>1, <1>f, OnlyTasksChange DEF StartTask
<1>2. ASSUME NEW t \in Task, Age(t) PROVE TypeOK'
  <2>1. TaskTypes' /\ RowsNameAgents' /\ TasksStay
    BY <1>2 DEF Age, TypeOK, TaskTypes, RowsNameAgents, TasksStay
  <2> QED
    BY <1>2, <2>1, <1>f, OnlyTasksChange DEF Age
<1>3. ASSUME NEW a \in Agent,
             RestoreAgent(a) \/ (\E r \in Runtime : BindAgent(a, r))
      PROVE  TypeOK'
  <2>1. TasksStay /\ TaskTypes' /\ RowsNameAgents'
    BY <1>3, NoTaskChanges DEF RestoreAgent, BindAgent, taskVars
  <2>2. AgentTypes'
    BY <1>3 DEF RestoreAgent, BindAgent, TypeOK, AgentTypes
  <2> QED
    BY <1>3, <2>1, <2>2, <1>f DEF RestoreAgent, BindAgent, TypeOK, RuntimeTypes, IssueTypes,
       LoopTypes, runtimeVars, issueVars, loopVars
<1>4. ASSUME NEW r \in Runtime, DaemonDeregister(r) \/ DaemonHeartbeat(r) \/ Expire(r)
      PROVE  TypeOK'
  <2>1. TasksStay /\ TaskTypes' /\ RowsNameAgents'
    BY <1>4, NoTaskChanges DEF DaemonDeregister, DaemonHeartbeat, Expire, taskVars
  <2>2. RuntimeTypes'
    BY <1>4 DEF DaemonDeregister, DaemonHeartbeat, Expire, SeenOnline, SetAgentRuntimeOffline,
       TypeOK, RuntimeTypes
  <2> QED
    BY <1>4, <2>1, <2>2, <1>f DEF DaemonDeregister, DaemonHeartbeat, Expire, TypeOK, AgentTypes,
       IssueTypes, LoopTypes, agentVars, issueVars, loopVars
<1>5. CASE Crash
  <2>1. TasksStay /\ TaskTypes' /\ RowsNameAgents'
    BY <1>5, NoTaskChanges DEF Crash, storeVars, taskVars
  <2>2. LocalTypes' /\ KnownTasks'
    BY <1>5, NoLocIsLocal DEF Crash, LocalTypes, KnownTasks, LocalAt, Label
  <2>3. crashes' \in 0..MaxCrashes
    BY <1>5, QueueAssumption DEF Crash, TypeOK
  <2> QED
    BY <1>5, <2>1, <2>2, <2>3 DEF Crash, TypeOK, AgentTypes, RuntimeTypes, IssueTypes, LoopTypes,
       storeVars, agentVars, runtimeVars, issueVars, loopVars
<1> QED
  BY <1>1, <1>2, <1>3, <1>4, <1>5 DEF Environment

LEMMA InitTypes == Init => TypeOK
<1> SUFFICES ASSUME Init PROVE TypeOK
  OBVIOUS
<1>1. TaskTypes
  BY DEF Init, StoreInit, TaskTypes, Status, Row, NoRow, Target
<1>2. AgentTypes /\ RuntimeTypes /\ IssueTypes
  BY DEF Init, StoreInit, AgentTypes, RuntimeTypes, IssueTypes, IssueStatus
<1>3. LoopTypes
  BY DEF Init, StoreInit, LoopTypes, EscalateAt
<1>4. LocalTypes /\ KnownTasks
  BY NoLocIsLocal DEF Init, LocalTypes, KnownTasks, LocalAt, Label
<1>5. RowsNameAgents
  BY DEF Init, StoreInit, RowsNameAgents
<1>6. holder \in [Task -> Runtime \cup {None}] /\ crashes \in 0..MaxCrashes
  BY QueueAssumption DEF Init
<1> QED
  BY <1>1, <1>2, <1>3, <1>4, <1>5, <1>6 DEF TypeOK

LEMMA NextTypes == TypeOK /\ [Next]_vars => TypeOK'
<1> SUFFICES ASSUME TypeOK, [Next]_vars PROVE TypeOK'
  OBVIOUS
<1>1. ASSUME NEW h \in Handler, Arrive(h) \/ Serve(h) PROVE TypeOK'
  BY <1>1, ArriveTypes, ServeTypes DEF Process
<1>2. CASE UNCHANGED vars
  <2>1. UNCHANGED <<storeVars, holder, crashes>> /\ UNCHANGED <<pc, loc, status>>
    BY <1>2 DEF vars, storeVars, taskVars
  <2>2. LocalTypes' /\ KnownTasks'
    BY <2>1 DEF TypeOK, LocalTypes, KnownTasks
  <2> QED
    BY <2>1, <2>2, NoTableChanges
<1> QED
  BY <1>1, <1>2, SweepTypes, EnvironmentTypes DEF Next

\* In every state the columns respect their CHECK constraints and foreign keys,
\* and every goroutine has the values that its next statement needs.
THEOREM TypeCorrect == Spec => []TypeOK
BY InitTypes, NextTypes, PTL DEF Spec

-----------------------------------------------------------------------------
(* What a step may do to the tasks, and to the snapshots of claims *)

\* A row that is inserted is new, or continues the task its goroutine has failed.
Originates(new) ==
    \E h \in Handler :
        \/ InsertNew(h) /\ new = NewRow(h)
        \/ ContinueTask(h) /\ new = ContinuationRow(loc[h].task)

TaskStep ==
    \/ UNCHANGED <<status, row>>
    \/ \E t \in Task, new \in Row : InsertTask(t, new) /\ Originates(new)
    \/ \E h \in Handler : LockTask(h)
    \/ \E t \in Task : StartAgentTask(t) \/ CompleteAgentTask(t)
    \/ \E S \in SUBSET TasksIn(Underway) : SetStatus(S, "failed")
    \/ \E S \in SUBSET TasksIn(Live) : SetStatus(S, "cancelled")
    \/ \E r \in Runtime : MigrateQueuedTasksToRuntime(r)

LEMMA SweepingIsTaskStep ==
    ASSUME FailStaleTasks \/ FailTasksForOfflineRuntimes
    PROVE  TaskStep
BY DEF FailStaleTasks, FailTasksForOfflineRuntimes, StaleTasks, OrphanedTasks, TaskStep, TasksIn

LEMMA CancellingIsTaskStep ==
    ASSUME NEW x, CancelAgentTasksByIssue(x) \/ CancelAgentTasksByAgent(x)
    PROVE  TaskStep
BY DEF CancelAgentTasksByIssue, CancelAgentTasksByAgent, TaskStep, TasksIn, About, Of

LEMMA StoppingIsTaskStep ==
    ASSUME NEW t \in Task, FailAgentTask(t) \/ CancelAgentTask(t)
    PROVE  TaskStep
<1>1. CASE FailAgentTask(t)
  <2>1. {t} \in SUBSET TasksIn(Underway) /\ SetStatus({t}, "failed")
    BY <1>1 DEF FailAgentTask, TasksIn
  <2> QED
    BY <2>1 DEF TaskStep
<1>2. CASE CancelAgentTask(t)
  <2>1. {t} \in SUBSET TasksIn(Live) /\ SetStatus({t}, "cancelled")
    BY <1>2 DEF CancelAgentTask, TasksIn
  <2> QED
    BY <2>1 DEF TaskStep
<1> QED
  BY <1>1, <1>2

LEMMA EveryStepIsTaskStep ==
    ASSUME TypeOK, [Next]_vars
    PROVE  TaskStep
<1>u. ASSUME UNCHANGED taskVars PROVE TaskStep
  BY <1>u DEF taskVars, TaskStep
<1>1. ASSUME NEW h \in Handler, Arrive(h) PROVE TaskStep
  <2>1. ASSUME NEW t \in Task,
               \/ CompleteTask(h, t) \/ CancelTask(h, t)
               \/ \E reason \in Reason : FailTask(h, t, reason)
        PROVE  TaskStep
    <3>1. CASE CompleteTask(h, t)
      BY <3>1 DEF CompleteTask, TaskStep
    <3>2. CASE CancelTask(h, t)
      BY <3>2, StoppingIsTaskStep DEF CancelTask
    <3>3. CASE \E reason \in Reason : FailTask(h, t, reason)
      BY <3>3, StoppingIsTaskStep DEF FailTask
    <3> QED
      BY <2>1, <3>1, <3>2, <3>3
  <2>2. ASSUME \/ \E i \in Issue : Comment(h, i) \/ UpdateIssue(h, i)
               \/ \E i \in Issue, a \in Agent : Mention(h, i, a) \/ ResolveLoop(h, i, a)
               \/ \E c \in Chat : SendChatMessage(h, c)
               \/ \E r \in Runtime : ClaimTaskForRuntime(h, r) \/ DaemonRegister(h, r)
               \/ \E a \in Agent : ArchiveAgent(h, a)
        PROVE  UNCHANGED taskVars
    BY <2>2 DEF Comment, UpdateIssue, Mention, ResolveLoop, SendChatMessage,
       ClaimTaskForRuntime, DaemonRegister, ArchiveAgent, storeVars
  <2> QED
    BY <1>1, <1>u, <2>1, <2>2 DEF Arrive
<1>2. ASSUME NEW h \in Handler, Serve(h) PROVE TaskStep
  <2>p. h \in Process
    BY DEF Process
  <2>h. loc[h] \in Local /\ LocalAt(pc[h], loc[h])
    BY <2>p, LocIsLocal DEF TypeOK
  <2>1. CASE InsertNew(h)
    <3>1. NewRow(h) \in Row
      BY <2>h, StoreAssumption DEF NewRow, Row, Local
    <3>2. Originates(NewRow(h))
      BY <2>1 DEF Originates
    <3> QED
      BY <2>1, <3>1, <3>2 DEF InsertNew, TaskStep
  <2>2. CASE ContinueTask(h)
    <3> DEFINE t == loc[h].task
    <3>1. t \in Task /\ row[t] \in Row
      BY <2>2, <2>h DEF ContinueTask, At, LocalAt, TypeOK, TaskTypes
    <3>2. row[t].index + 1 \in Nat
      BY <3>1 DEF Row
    <3> HIDE DEF t
    <3>3. ContinuationRow(t) \in Row
      BY <3>1, <3>2 DEF ContinuationRow, Row
    <3>4. Originates(ContinuationRow(t))
      BY <2>2 DEF Originates, t
    <3> QED
      BY <2>2, <3>3, <3>4 DEF ContinueTask, TaskStep, t
  <2>3. CASE LockTask(h)
    BY <2>3 DEF TaskStep
  <2>4. CASE CancelOnReassign(h) \/ CancelOnStatus(h) \/ CancelOnArchive(h)
    BY <2>4, CancellingIsTaskStep DEF CancelOnReassign, CancelOnStatus, CancelOnArchive
  <2>5. CASE MigrateTasks(h)
    BY <2>5, <2>h DEF MigrateTasks, At, LocalAt, TaskStep
  <2>6. ASSUME \/ LoadAgent(h) \/ InsertRejected(h) \/ CheckCapacity(h) \/ SnapshotQueue(h)
               \/ LockNothing(h) \/ Deliver(h) \/ DetectLoop(h) \/ ContinuationRejected(h)
               \/ Reconcile(h) \/ SetAgentStatus(h) \/ WriteIssue(h) \/ SkipIssue(h)
               \/ MigrateAgents(h)
        PROVE  UNCHANGED taskVars
    BY <2>6 DEF LoadAgent, InsertRejected, CheckCapacity, SnapshotQueue, LockNothing, Deliver,
       DetectLoop, ContinuationRejected, Reconcile, SetAgentStatus, WriteIssue, SkipIssue,
       MigrateAgents, storeVars
  <2> QED
    BY <1>2, <1>u, <2>1, <2>2, <2>3, <2>4, <2>5, <2>6 DEF Serve
<1>3. CASE Sweep
  <2>1. CASE FailOffline \/ FailStale
    BY <2>1, SweepingIsTaskStep DEF FailOffline, FailStale
  <2>2. ASSUME SweepRuntimes \/ ReadItem \/ CheckActive \/ ResetIssue
               \/ Reconcile(Sweeper) \/ SetAgentStatus(Sweeper)
        PROVE  UNCHANGED taskVars
    BY <2>2 DEF SweepRuntimes, ReadItem, CheckActive, ResetIssue, Reconcile, SetAgentStatus,
       storeVars
  <2> QED
    BY <1>3, <1>u, <2>1, <2>2 DEF Sweep
<1>4. CASE Environment
  <2>1. ASSUME NEW t \in Task, StartTask(t) PROVE TaskStep
    BY <2>1 DEF StartTask, TaskStep
  <2>2. ASSUME NEW t \in Task, Age(t) PROVE TaskStep
    BY <2>2 DEF Age, TaskStep
  <2>3. ASSUME \/ \E a \in Agent : RestoreAgent(a)
               \/ \E a \in Agent, r \in Runtime : BindAgent(a, r)
               \/ \E r \in Runtime : DaemonDeregister(r) \/ DaemonHeartbeat(r) \/ Expire(r)
               \/ Crash
        PROVE  UNCHANGED taskVars
    BY <2>3 DEF RestoreAgent, BindAgent, DaemonDeregister, DaemonHeartbeat, Expire, Crash, storeVars
  <2> QED
    BY <1>4, <1>u, <2>1, <2>2, <2>3 DEF Environment
<1>5. CASE UNCHANGED vars
  BY <1>5, <1>u DEF vars, storeVars
<1> QED
  BY <1>1, <1>2, <1>3, <1>4, <1>5 DEF Next, Process

LEMMA GotoElsewhere ==
    ASSUME LocalTypes, NEW p \in Process, NEW q \in Process,
           NEW label \in Label \ {"lock"}, NEW l, Goto(q, label, l), pc'[p] = "lock"
    PROVE  pc[p] = "lock" /\ loc'[p] = loc[p]
BY DEF LocalTypes, Goto

SnapshotKept(p) == pc[p] = "lock" /\ loc'[p] = loc[p]

\* A goroutine at "lock" has just taken its snapshot, or had it before.
LEMMA SnapshotsAreOldOrFresh ==
    ASSUME TypeOK, [Next]_vars, NEW p \in Process, pc'[p] = "lock"
    PROVE  \/ SnapshotKept(p)
           \/ UNCHANGED <<status, row>> /\ loc'[p].tasks = Claimable(loc[p].agent)
<1> USE DEF SnapshotKept
<1>l. Label \ {"lock"} = {"idle", "load", "insert", "count", "snapshot", "deliver",
        "loop", "continue", "reconcile", "setStatus", "writeIssue", "reassign", "cancelIssue",
        "cancelAgent", "skip", "migrateAgents", "migrateTasks",
        "offline", "item", "hasActive", "reset", "stale"}
  BY DEF Label
<1>t. LocalTypes
  BY DEF TypeOK
<1>u. ASSUME UNCHANGED <<pc, loc>> PROVE SnapshotKept(p)
  BY <1>u
<1>1. ASSUME NEW h \in Handler, Arrive(h) PROVE SnapshotKept(p)
  <2>h. h \in Process
    BY DEF Process
  <2>1. CASE \/ \E i \in Issue : Comment(h, i) \/ UpdateIssue(h, i)
             \/ \E i \in Issue, a \in Agent : Mention(h, i, a)
             \/ \E c \in Chat : SendChatMessage(h, c)
    BY <2>1, <2>h, <1>l, <1>t, GotoElsewhere DEF Comment, UpdateIssue, Mention, SendChatMessage, Enqueue
  <2>2. CASE \E i \in Issue, a \in Agent : ResolveLoop(h, i, a)
    BY <2>2, <2>h, <1>l, <1>t, GotoElsewhere DEF ResolveLoop, Enqueue
  <2>3. CASE \E r \in Runtime : ClaimTaskForRuntime(h, r) \/ DaemonRegister(h, r)
    BY <2>3, <2>h, <1>l, <1>t, GotoElsewhere DEF ClaimTaskForRuntime, DaemonRegister
  <2>4. CASE \E t \in Task : CompleteTask(h, t) \/ CancelTask(h, t)
    BY <2>4, <2>h, <1>l, <1>t, GotoElsewhere DEF CompleteTask, CancelTask, ReconcileThen
  <2>5. CASE \E t \in Task, reason \in Reason : FailTask(h, t, reason)
    BY <2>5, <2>h, <1>l, <1>t, GotoElsewhere DEF FailTask
  <2>6. CASE \E a \in Agent : ArchiveAgent(h, a)
    BY <2>6, <2>h, <1>l, <1>t, GotoElsewhere DEF ArchiveAgent
  <2> QED
    BY <1>1, <2>1, <2>2, <2>3, <2>4, <2>5, <2>6 DEF Arrive
<1>2. ASSUME NEW h \in Process, Serve(h), ~SnapshotKept(p)
      PROVE  UNCHANGED <<status, row>> /\ loc'[p].tasks = Claimable(loc[p].agent)
  <2>t. loc[h].then \in {"idle", "stale", "cancelIssue"}
    BY LocIsLocal, <1>t DEF Local
  <2>1. CASE LoadAgent(h) \/ InsertNew(h) \/ InsertRejected(h)
    BY <2>1, <2>t, <1>2, <1>l, <1>t, GotoElsewhere DEF LoadAgent, InsertNew, InsertRejected
  <2>2. CASE CheckCapacity(h) \/ LockNothing(h) \/ LockTask(h) \/ Deliver(h)
    BY <2>2, <1>2, <1>l, <1>t, GotoElsewhere
    DEF CheckCapacity, LockNothing, LockTask, Deliver, TryNextAgent
  <2>3. CASE SnapshotQueue(h)
    <3>1. UNCHANGED <<status, row>>
      BY <2>3 DEF SnapshotQueue, storeVars, taskVars
    <3>2. CASE TryNextAgent(h, loc[h].agents)
      BY <3>2, <1>2, <1>l, <1>t, GotoElsewhere DEF TryNextAgent
    <3>3. CASE Goto(h, "lock", [loc[h] EXCEPT !.tasks = Claimable(loc[h].agent)])
      <4>1. CASE p = h
        <5>1. loc[h] \in Local
          BY LocIsLocal, <1>t, <1>2
        <5>2. loc'[h] = [loc[h] EXCEPT !.tasks = Claimable(loc[h].agent)]
          BY <3>3, <1>2, <1>t DEF Goto, LocalTypes
        <5> QED
          BY <4>1, <5>1, <5>2, <3>1 DEF Local
      <4>2. CASE p # h
        BY <4>2, <3>3, <1>2, <1>t DEF Goto, LocalTypes
      <4> QED
        BY <4>1, <4>2
    <3> QED
      BY <2>3, <3>2, <3>3 DEF SnapshotQueue
  <2>4. CASE DetectLoop(h) \/ ContinueTask(h) \/ ContinuationRejected(h)
    BY <2>4, <1>2, <1>l, <1>t, GotoElsewhere DEF DetectLoop, ContinueTask, ContinuationRejected
  <2>5. CASE Reconcile(h) \/ SetAgentStatus(h)
    BY <2>5, <2>t, <1>2, <1>l, <1>t, GotoElsewhere DEF Reconcile, SetAgentStatus, ReconcileThen
  <2>6. CASE WriteIssue(h) \/ CancelOnReassign(h) \/ CancelOnStatus(h)
    BY <2>6, <1>2, <1>l, <1>t, GotoElsewhere DEF WriteIssue, CancelOnReassign, CancelOnStatus
  <2>7. CASE CancelOnArchive(h) \/ SkipIssue(h) \/ MigrateAgents(h) \/ MigrateTasks(h)
    BY <2>7, <1>2, <1>l, <1>t, GotoElsewhere DEF CancelOnArchive, SkipIssue, MigrateAgents, MigrateTasks
  <2> QED
    BY <1>2, <2>1, <2>2, <2>3, <2>4, <2>5, <2>6, <2>7 DEF Serve
<1>3. CASE Sweep
  <2>s. Sweeper \in Process
    BY DEF Process
  <2>1. CASE SweepRuntimes \/ FailOffline \/ FailStale
    BY <2>1, <2>s, <1>l, <1>t, GotoElsewhere DEF SweepRuntimes, FailOffline, FailStale, Broadcast
  <2>2. CASE ReadItem \/ CheckActive \/ ResetIssue
    BY <2>2, <2>s, <1>l, <1>t, GotoElsewhere DEF ReadItem, CheckActive, ResetIssue, NextItem
  <2>3. CASE Reconcile(Sweeper) \/ SetAgentStatus(Sweeper)
    BY <2>3, <2>s, <1>2 DEF Serve
  <2> QED
    BY <1>3, <2>1, <2>2, <2>3 DEF Sweep
<1>4. CASE Environment
  <2>1. CASE Crash
    BY <2>1 DEF Crash
  <2>2. CASE ~Crash
    BY <1>4, <2>2, <1>u DEF Environment, StartTask, Age, RestoreAgent, BindAgent, DaemonDeregister,
       DaemonHeartbeat, Expire, Single
  <2> QED
    BY <2>1, <2>2
<1>5. CASE UNCHANGED vars
  BY <1>5, <1>u DEF vars
<1> QED
  BY <1>1, <1>2, <1>3, <1>4, <1>5 DEF Next, Process

-----------------------------------------------------------------------------
(* Serialization per (issue, agent) *)

\* A step that starts no work and takes no snapshot keeps the invariant.
Forward ==
    \A t \in Task : /\ row'[t].target = row[t].target /\ row'[t].agent = row[t].agent
                    /\ status'[t] \in Pending  => status[t] \in Pending
                    /\ status'[t] \in Underway => status[t] \in Underway
                    /\ status'[t] = "queued"   => status[t] = "queued"

LEMMA ForwardKeepsPairs ==
    ASSUME OnePendingPerIssueAgent, OneUnderwayPerIssueAgent, Forward
    PROVE  OnePendingPerIssueAgent' /\ OneUnderwayPerIssueAgent'
BY DEF OnePendingPerIssueAgent, OneUnderwayPerIssueAgent, Forward, SameIssueWork

LEMMA TaskStepIsForward ==
    ASSUME TypeOK, TaskStep
    PROVE  \/ Forward
           \/ \E t \in Task, new \in Row : InsertTask(t, new)
           \/ \E h \in Handler : LockTask(h)
<1> USE DEF Pending, Underway, Live, Status, TypeOK, TaskTypes
<1>1. CASE UNCHANGED <<status, row>>
  BY <1>1 DEF Forward
<1>2. CASE \E t \in Task : StartAgentTask(t) \/ CompleteAgentTask(t)
  BY <1>2 DEF Forward, StartAgentTask, CompleteAgentTask, SetStatus
<1>3. CASE \E S \in SUBSET TasksIn(Underway) : SetStatus(S, "failed")
  BY <1>3 DEF Forward, SetStatus
<1>4. CASE \E S \in SUBSET TasksIn(Live) : SetStatus(S, "cancelled")
  BY <1>4 DEF Forward, SetStatus
<1>5. CASE \E r \in Runtime : MigrateQueuedTasksToRuntime(r)
  BY <1>5 DEF Forward, MigrateQueuedTasksToRuntime, Row
<1> QED
  BY <1>1, <1>2, <1>3, <1>4, <1>5 DEF TaskStep

\* What SnapshotStillAlone says of one row.
Alone(t) == \A u \in Task : SameIssueWork(t, u) => status[u] \notin Underway

LEMMA ClaimableIsAlone ==
    ASSUME NEW a, NEW t \in Claimable(a)
    PROVE  Alone(t)
BY DEF Claimable, Alone, SameIssueWork, Of, About, TasksIn

LEMMA ForwardKeepsSerialization ==
    ASSUME TypeOK, SerializationInv, [Next]_vars, Forward
    PROVE  SerializationInv'
<1>1. OnePendingPerIssueAgent' /\ OneUnderwayPerIssueAgent'
  BY ForwardKeepsPairs DEF SerializationInv
<1>2. SnapshotStillAlone'
  <2> SUFFICES ASSUME NEW p \in Process, NEW t \in loc'[p].tasks,
                      pc'[p] = "lock", status'[t] = "queued",
                      NEW u \in Task, SameIssueWork(t, u)'
               PROVE  status'[u] \notin Underway
    BY DEF SnapshotStillAlone
  <2>1. t \in Task
    BY NextTypes DEF TypeOK, LocalTypes, Local
  <2>2. status[t] = "queued" /\ SameIssueWork(t, u)
    BY <2>1 DEF Forward, SameIssueWork
  <2>3. Alone(t)
    <3>1. CASE SnapshotKept(p)
      BY <3>1, <2>2 DEF SnapshotKept, SerializationInv, SnapshotStillAlone, Alone
    <3>2. CASE loc'[p].tasks = Claimable(loc[p].agent)
      BY <3>2, ClaimableIsAlone
    <3> QED
      BY <3>1, <3>2, SnapshotsAreOldOrFresh
  <2> QED
    BY <2>2, <2>3 DEF Alone, Forward
<1> QED
  BY <1>1, <1>2 DEF SerializationInv

\* An insert or a claim changes a status, so snapshots are older than it.
LEMMA SnapshotsAreOld ==
    ASSUME TypeOK, [Next]_vars, status' # status, NEW p \in Process, pc'[p] = "lock",
           NEW t \in loc'[p].tasks
    PROVE  pc[p] = "lock" /\ t \in loc[p].tasks /\ t \in Task /\ status[t] # "absent"
<1>1. SnapshotKept(p)
  BY SnapshotsAreOldOrFresh
<1>2. pc[p] = "lock" /\ t \in loc[p].tasks /\ loc[p] \in Local
  BY <1>1, LocIsLocal DEF SnapshotKept, TypeOK
<1> QED
  BY <1>2, LocIsKnown DEF Local, Knows, TypeOK

LEMMA InsertKeepsSerialization ==
    ASSUME TypeOK, SerializationInv, [Next]_vars, NEW n \in Task, NEW new \in Row, InsertTask(n, new)
    PROVE  SerializationInv'
<1>1. /\ status[n] = "absent" /\ status'[n] = "queued" /\ row'[n] = new
      /\ \A t \in Task \ {n} : status'[t] = status[t] /\ row'[t] = row[t]
  BY DEF InsertTask, TypeOK, TaskTypes
<1>2. ~ViolatesUniqueIndex(new)
  BY DEF InsertTask
<1>3. OnePendingPerIssueAgent'
  <2> SUFFICES ASSUME NEW t \in Task, NEW u \in Task, SameIssueWork(t, u)',
                      status'[t] \in Pending, status'[u] \in Pending
               PROVE  FALSE
    BY DEF OnePendingPerIssueAgent
  <2>1. CASE n \notin {t, u}
    BY <2>1, <1>1 DEF SerializationInv, OnePendingPerIssueAgent, SameIssueWork
  <2>2. CASE n \in {t, u}
    <3>1. PICK v \in {t, u} : v # n
      BY <2>2 DEF SameIssueWork
    <3>2. /\ status[v] \in Pending /\ row[v].target = new.target /\ row[v].agent = new.agent
          /\ new.target \in Issue
      BY <2>2, <3>1, <1>1 DEF SameIssueWork
    <3>3. v \in About(new.target) \cap Of(new.agent) \cap TasksIn(Pending)
      BY <3>2, <3>1 DEF About, Of, TasksIn
    <3> QED
      BY <3>2, <3>3, <1>2 DEF ViolatesUniqueIndex, HasPending
  <2> QED
    BY <2>1, <2>2
<1>4. OneUnderwayPerIssueAgent'
  BY <1>1 DEF SerializationInv, OneUnderwayPerIssueAgent, SameIssueWork, Underway
<1>5. SnapshotStillAlone'
  <2> SUFFICES ASSUME NEW p \in Process, NEW t \in loc'[p].tasks,
                      pc'[p] = "lock", status'[t] = "queued",
                      NEW u \in Task, SameIssueWork(t, u)'
               PROVE  status'[u] \notin Underway
    BY DEF SnapshotStillAlone
  <2>1. pc[p] = "lock" /\ t \in loc[p].tasks /\ t \in Task /\ status[t] # "absent"
    BY <1>1, SnapshotsAreOld
  <2>2. CASE u = n
    BY <2>2, <1>1 DEF Underway
  <2>3. CASE u # n
    BY <2>1, <2>3, <1>1 DEF SerializationInv, SnapshotStillAlone, SameIssueWork
  <2> QED
    BY <2>2, <2>3
<1> QED
  BY <1>3, <1>4, <1>5 DEF SerializationInv

LEMMA LockingKeepsSerialization ==
    ASSUME TypeOK, SerializationInv, [Next]_vars, NEW h \in Handler, LockTask(h)
    PROVE  SerializationInv'
<1>h. h \in Process
  BY DEF Process
<1>1. PICK c \in Task : ClaimAgentTask(c, loc[h].tasks) /\ pc[h] = "lock"
  BY DEF LockTask, At
<1>2. /\ status[c] = "queued" /\ status'[c] = "dispatched" /\ row' = row
      /\ \A t \in Task \ {c} : status'[t] = status[t]
  BY <1>1 DEF ClaimAgentTask, SetStatus, TypeOK, TaskTypes
<1>3. Alone(c)
  BY <1>h, <1>1, <1>2 DEF ClaimAgentTask, SerializationInv, SnapshotStillAlone, Alone
<1>4. OnePendingPerIssueAgent'
  BY <1>2 DEF SerializationInv, OnePendingPerIssueAgent, SameIssueWork, Pending
<1>5. OneUnderwayPerIssueAgent'
  <2> SUFFICES ASSUME NEW t \in Task, NEW u \in Task, SameIssueWork(t, u),
                      status'[t] \in Underway, status'[u] \in Underway
               PROVE  FALSE
    BY <1>2 DEF OneUnderwayPerIssueAgent, SameIssueWork
  <2>1. CASE c \notin {t, u}
    BY <2>1, <1>2 DEF SerializationInv, OneUnderwayPerIssueAgent
  <2>2. CASE c \in {t, u}
    BY <2>2, <1>2, <1>3 DEF Alone, SameIssueWork
  <2> QED
    BY <2>1, <2>2
<1>6. SnapshotStillAlone'
  <2> SUFFICES ASSUME NEW p \in Process, NEW t \in loc'[p].tasks,
                      pc'[p] = "lock", status'[t] = "queued",
                      NEW u \in Task, SameIssueWork(t, u)
               PROVE  status'[u] \notin Underway
    BY <1>2 DEF SnapshotStillAlone, SameIssueWork
  <2>1. pc[p] = "lock" /\ t \in loc[p].tasks /\ t \in Task
    BY <1>2, SnapshotsAreOld
  <2>2. status[t] = "queued"
    BY <2>1, <1>2
  <2>3. CASE u = c
    BY <2>1, <2>2, <2>3, <1>2 DEF SerializationInv, OnePendingPerIssueAgent, Pending
  <2>4. CASE u # c
    BY <2>1, <2>2, <2>4, <1>2 DEF SerializationInv, SnapshotStillAlone
  <2> QED
    BY <2>3, <2>4
<1> QED
  BY <1>4, <1>5, <1>6 DEF SerializationInv

LEMMA NextSerialization == TypeOK /\ SerializationInv /\ [Next]_vars => SerializationInv'
BY EveryStepIsTaskStep, TaskStepIsForward, ForwardKeepsSerialization, InsertKeepsSerialization,
   LockingKeepsSerialization

LEMMA InitSerialization == Init => SerializationInv
BY DEF Init, StoreInit, SerializationInv, OnePendingPerIssueAgent, OneUnderwayPerIssueAgent,
   SnapshotStillAlone, Pending, Underway

\* The unique index and ClaimAgentTask's test in an old snapshot together keep
\* the tasks of an (issue, agent) apart, for any number of goroutines.
THEOREM Serialized == Spec => []SerializationInv
<1>1. Init => TypeOK /\ SerializationInv
  BY InitTypes, InitSerialization
<1>2. (TypeOK /\ SerializationInv) /\ [Next]_vars => (TypeOK /\ SerializationInv)'
  BY NextTypes, NextSerialization
<1> QED
  BY <1>1, <1>2, PTL DEF Spec

\* No agent runs two tasks of one issue at a time.
THEOREM NoDuplicateRuns == Spec => []OneUnderwayPerIssueAgent
<1>1. SerializationInv => OneUnderwayPerIssueAgent
  BY DEF SerializationInv
<1> QED
  BY <1>1, Serialized, PTL

-----------------------------------------------------------------------------
(* The task queue implements the abstract life cycle of tasks *)

\* The refinement mapping for `work`.
WorkMap == [t \in Task |-> WorkOf(t)]

SameWork == WorkMap' = WorkMap

\* Two tasks that are serialized on the same work are an (issue, agent)'s.
LEMMA EqualWork ==
    ASSUME NEW t \in Task, NEW u \in Task, t # u, WorkMap[t] # None, WorkMap[t] = WorkMap[u]
    PROVE  SameIssueWork(t, u)
<1>1. row[t].target \in Issue /\ row[u].target \in Issue
  BY DEF WorkMap, WorkOf
<1>2. <<row[t].agent, row[t].target>> = <<row[u].agent, row[u].target>>
  BY <1>1 DEF WorkMap, WorkOf
<1> QED
  BY <1>1, <1>2 DEF SameIssueWork

LEMMA RowsKeepWork ==
    ASSUME \A t \in Task : row'[t].agent = row[t].agent /\ row'[t].target = row[t].target
    PROVE  SameWork
BY DEF SameWork, WorkMap, WorkOf

\* The unique index rejects what Create forbids.
LEMMA InsertIsCreate ==
    ASSUME TypeOK, TypeOK', NEW t \in Task, NEW new \in Row, InsertTask(t, new)
    PROVE  \E w \in (Agent \X Issue) \cup {None} : Lifecycle!Create(t, w)
<1> DEFINE w == IF new.target \in Issue THEN <<new.agent, new.target>> ELSE None
<1>1. /\ status[t] = "absent"
      /\ status' = [status EXCEPT ![t] = "queued"]
      /\ row' = [row EXCEPT ![t] = new]
      /\ row'[t] = new
      /\ \A u \in Task \ {t} : row'[u] = row[u]
  BY DEF InsertTask, TypeOK, TaskTypes
<1>2. new.agent \in Agent
  <2>1. status'[t] # "absent"
    BY <1>1 DEF TypeOK, TaskTypes
  <2> QED
    BY <1>1, <2>1 DEF TypeOK, RowsNameAgents
<1>3. w \in (Agent \X Issue) \cup {None}
  BY <1>2
<1>4. WorkMap' = [WorkMap EXCEPT ![t] = w]
  <2>1. WorkOf(t)' = w
    BY <1>1 DEF WorkOf
  <2>2. \A u \in Task \ {t} : WorkOf(u)' = WorkOf(u)
    BY <1>1 DEF WorkOf
  <2> HIDE DEF w
  <2> QED
    BY <2>1, <2>2 DEF WorkMap
<1>5. Lifecycle!Alone(w, Pending)
  <2> SUFFICES ASSUME w # None, NEW u \in Task, WorkMap[u] = w PROVE status[u] \notin Pending
    BY DEF Lifecycle!Alone, WorkMap
  <2>1. new.target \in Issue /\ row[u].target \in Issue
    BY DEF WorkMap, WorkOf
  <2>2. row[u].target = new.target /\ row[u].agent = new.agent
    BY <2>1 DEF WorkMap, WorkOf
  <2>3. ~HasPending(new.target, new.agent)
    BY <2>1 DEF InsertTask, ViolatesUniqueIndex
  <2> QED
    BY <2>2, <2>3 DEF HasPending, About, Of, TasksIn
<1> HIDE DEF w
<1>6. Lifecycle!Create(t, w)
  BY <1>1, <1>4, <1>5 DEF Lifecycle!Create, Lifecycle!Waiting, Pending, WorkMap
<1> QED
  BY <1>3, <1>6

\* What an old snapshot still allows to be locked is what Claim allows.
LEMMA LockingIsClaim ==
    ASSUME TypeOK, SerializationInv, NEW h \in Handler, LockTask(h)
    PROVE  \E t \in Task : Lifecycle!Claim(t)
<1>h. h \in Process
  BY DEF Process
<1>1. PICK c \in Task : ClaimAgentTask(c, loc[h].tasks) /\ pc[h] = "lock"
  BY DEF LockTask, At
<1>2. /\ status[c] = "queued" /\ c \in loc[h].tasks /\ row' = row
      /\ status' = [status EXCEPT ![c] = "dispatched"]
  BY <1>1 DEF ClaimAgentTask, SetStatus, TypeOK, TaskTypes
<1>3. SameWork
  BY <1>2, RowsKeepWork
<1>4. Lifecycle!Alone(WorkMap[c], Underway)
  <2> SUFFICES ASSUME WorkMap[c] # None, NEW u \in Task, WorkMap[u] = WorkMap[c]
               PROVE  status[u] \notin Underway
    BY DEF Lifecycle!Alone, WorkMap
  <2>1. CASE u = c
    BY <2>1, <1>2 DEF Underway
  <2>2. CASE u # c
    BY <2>2, <1>h, <1>1, <1>2, EqualWork DEF SerializationInv, SnapshotStillAlone
  <2> QED
    BY <2>1, <2>2
<1> QED
  BY <1>2, <1>3, <1>4 DEF Lifecycle!Claim, Lifecycle!Underway, Underway, SameWork, WorkMap

LEMMA StartIsStart ==
    ASSUME TypeOK, NEW t \in Task, StartAgentTask(t)
    PROVE  Lifecycle!Start(t)
<1>1. SameWork
  BY RowsKeepWork DEF StartAgentTask, SetStatus
<1> QED
  BY <1>1 DEF StartAgentTask, SetStatus, TypeOK, TaskTypes, Lifecycle!Start, SameWork, WorkMap

LEMMA CompleteIsComplete ==
    ASSUME TypeOK, NEW t \in Task, CompleteAgentTask(t)
    PROVE  Lifecycle!Complete(t)
<1>1. SameWork
  BY RowsKeepWork DEF CompleteAgentTask, SetStatus
<1> QED
  BY <1>1 DEF CompleteAgentTask, SetStatus, TypeOK, TaskTypes, Lifecycle!Complete, SameWork, WorkMap

\* A bulk statement that finds no row changes nothing.
LEMMA StoppingIsStop ==
    ASSUME TypeOK, NEW from, NEW S \in SUBSET TasksIn(from), NEW outcome, SetStatus(S, outcome)
    PROVE  Lifecycle!Stop(S, from, outcome) \/ (UNCHANGED status /\ SameWork)
<1>1. SameWork
  BY RowsKeepWork DEF SetStatus
<1>2. CASE S = {}
  BY <1>1, <1>2 DEF SetStatus, TypeOK, TaskTypes
<1>3. CASE S # {}
  BY <1>1, <1>3 DEF SetStatus, TasksIn, Lifecycle!Stop, SameWork, WorkMap
<1> QED
  BY <1>2, <1>3

LEMMA InitMaps == Init => Lifecycle!Init
<1> SUFFICES ASSUME Init PROVE Lifecycle!Init
  OBVIOUS
<1>1. status = [t \in Task |-> "absent"] /\ \A t \in Task : row[t].target = None
  BY DEF Init, StoreInit, NoRow
<1>2. \A t \in Task : WorkOf(t) = None
  BY <1>1, StoreAssumption DEF WorkOf
<1> QED
  BY <1>1, <1>2 DEF Lifecycle!Init

LEMMA StepMaps ==
    ASSUME TypeOK, TypeOK', SerializationInv, [Next]_vars
    PROVE  Lifecycle!Next \/ UNCHANGED <<status, WorkMap>>
<1>1. CASE UNCHANGED <<status, row>>
  BY <1>1, RowsKeepWork DEF SameWork
<1>2. ASSUME NEW t \in Task, NEW new \in Row, InsertTask(t, new) PROVE Lifecycle!Next
  BY <1>2, InsertIsCreate DEF Lifecycle!Next
<1>3. ASSUME NEW h \in Handler, LockTask(h) PROVE Lifecycle!Next
  BY <1>3, LockingIsClaim DEF Lifecycle!Next
<1>4. ASSUME NEW t \in Task, StartAgentTask(t) \/ CompleteAgentTask(t) PROVE Lifecycle!Next
  BY <1>4, StartIsStart, CompleteIsComplete DEF Lifecycle!Next
<1>5. ASSUME NEW S \in SUBSET TasksIn(Underway), SetStatus(S, "failed")
      PROVE  Lifecycle!Next \/ UNCHANGED <<status, WorkMap>>
  <2>1. S \in SUBSET Task
    BY DEF TasksIn
  <2>2. Lifecycle!Stop(S, Underway, "failed") => Lifecycle!Fail(S)
    BY DEF Lifecycle!Fail, Lifecycle!Underway, Underway
  <2> QED
    BY <2>1, <2>2, <1>5, StoppingIsStop DEF Lifecycle!Next, SameWork
<1>6. ASSUME NEW S \in SUBSET TasksIn(Live), SetStatus(S, "cancelled")
      PROVE  Lifecycle!Next \/ UNCHANGED <<status, WorkMap>>
  <2>1. S \in SUBSET Task
    BY DEF TasksIn
  <2>2. Lifecycle!Stop(S, Live, "cancelled") => Lifecycle!Cancel(S)
    BY DEF Lifecycle!Cancel, Lifecycle!Live, Lifecycle!Waiting, Lifecycle!Underway,
       Live, Pending, Underway
  <2> QED
    BY <2>1, <2>2, <1>6, StoppingIsStop DEF Lifecycle!Next, SameWork
<1>7. ASSUME NEW r \in Runtime, MigrateQueuedTasksToRuntime(r) PROVE UNCHANGED <<status, WorkMap>>
  <2>1. \A t \in Task : row'[t].agent = row[t].agent /\ row'[t].target = row[t].target
    BY <1>7 DEF MigrateQueuedTasksToRuntime, TypeOK, TaskTypes, Row
  <2> QED
    BY <2>1, <1>7, RowsKeepWork DEF MigrateQueuedTasksToRuntime, SameWork
<1> QED
  BY <1>1, <1>2, <1>3, <1>4, <1>5, <1>6, <1>7, EveryStepIsTaskStep DEF TaskStep

\* Whatever the goroutines interleave, every step of the task queue is one
\* atomic operation of the life cycle, or leaves it alone.
THEOREM Refines == Spec => ImplementsLifecycle
<1>1. TypeOK /\ TypeOK' /\ SerializationInv /\ [Next]_vars
        => [Lifecycle!Next]_(Lifecycle!lifecycleVars)
  BY StepMaps DEF Lifecycle!lifecycleVars, WorkMap
<1> QED
  BY <1>1, InitMaps, TypeCorrect, Serialized, PTL DEF Spec, ImplementsLifecycle, Lifecycle!Spec
=============================================================================
