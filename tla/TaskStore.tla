------------------------------ MODULE TaskStore ------------------------------
(****************************************************************************)
(* The tables the task queue lives in and the SQL statements that change    *)
(* them, one action per statement. PostgreSQL runs each of them atomically  *)
(* (READ COMMITTED, no handler opens a transaction); TaskQueue.tla composes *)
(* them into the handlers and the sweeper.                                  *)
(*                                                                          *)
(* All runtimes belong to one (workspace, provider, owner), the only ones   *)
(* that MigrateAgentsToRuntime lets exchange work.                          *)
(*                                                                          *)
(* A definition named X_Fault... is X with a plausible bug. No specification*)
(* uses it; replacing X by it shows that a property can fail.               *)
(****************************************************************************)
EXTENDS Integers, FiniteSets

CONSTANTS
    Task,               \* ids of agent_task_queue; their number bounds the inserts
    Agent, Runtime,
    Issue, Chat,        \* what a task is about: an issue or a chat session
    ChatAgent,          \* [Chat -> Agent], chat_session.agent_id
    MaxConcurrentTasks, \* [Agent -> 1..], agent.max_concurrent_tasks
    MaxContinuations,   \* agent_task_queue.max_continuations
    None                \* NULL

ASSUME StoreAssumption ==
    /\ ChatAgent \in [Chat -> Agent]
    /\ MaxConcurrentTasks \in [Agent -> Nat \ {0}]
    /\ MaxContinuations \in Nat
    /\ None \notin Agent \cup Runtime \cup Issue \cup Chat \cup Task
    /\ Issue \cap Chat = {}

VARIABLES
    \* agent_task_queue
    status,      \* [Task -> Status]; "absent" is an id not inserted yet
    row,         \* [Task -> Row], the other columns the queue reads
    aged,        \* tasks whose dispatched_at / started_at is past its timeout
    \* agent
    binding,     \* agent.runtime_id
    archived,    \* agents with archived_at set
    agentStatus, \* agent.status
    \* agent_runtime
    online,      \* runtimes with status 'online'
    expired,     \* runtimes whose last_seen_at is past the stale threshold
    \* issue
    assignee, issueStatus,
    \* loop_detection
    failures,    \* consecutive_failures, saturated at EscalateAt
    escalation   \* escalation_status

taskVars    == <<status, row, aged>>
agentVars   == <<binding, archived, agentStatus>>
runtimeVars == <<online, expired>>
issueVars   == <<assignee, issueStatus>>
loopVars    == <<failures, escalation>>

-----------------------------------------------------------------------------
Pending  == {"queued", "dispatched"}
Underway == {"dispatched", "running"}
Live     == Pending \cup Underway
Outcome  == {"completed", "failed", "cancelled"}
Status   == {"absent"} \cup Live \cup Outcome

IssueStatus == {"backlog", "todo", "in_progress", "in_review", "done", "cancelled"}

Target == Issue \cup Chat
Row    == [agent : Agent \cup {None}, target : Target \cup {None},
           runtime : Runtime \cup {None}, parent : Task \cup {None}, index : Nat]
NoRow  == [agent |-> None, target |-> None, runtime |-> None, parent |-> None, index |-> 0]

EscalateAt == 3

TasksIn(states) == {t \in Task : status[t] \in states}
Of(a)           == {t \in Task : row[t].agent = a}
About(x)        == {t \in Task : row[t].target = x}

StoreInit ==
    /\ status = [t \in Task |-> "absent"]
    /\ row = [t \in Task |-> NoRow]
    /\ aged = {}
    /\ binding \in [Agent -> Runtime]
    /\ archived = {}
    /\ agentStatus = [a \in Agent |-> "idle"]
    /\ online = Runtime
    /\ expired = {}
    /\ assignee \in [Issue -> Agent \cup {None}]
    /\ issueStatus = [i \in Issue |-> "in_progress"]
    /\ failures = [i \in Issue |-> [a \in Agent |-> 0]]
    /\ escalation = [i \in Issue |-> [a \in Agent |-> "none"]]

-----------------------------------------------------------------------------
(* agent_task_queue: reads *)

HasPending(i, a) == About(i) \cap Of(a) \cap TasksIn(Pending) # {}
HasActive(i)     == About(i) \cap TasksIn(Live) # {}

CountRunning_FaultStartedOnly(a) == Cardinality(Of(a) \cap TasksIn({"running"}))

CountRunning(a) == Cardinality(Of(a) \cap TasksIn(Underway))

\* ListPendingTasksByRuntime, for what its caller reads of it: the agents.
AgentsPendingAt(r) ==
    {row[t].agent : t \in {u \in TasksIn(Pending) : row[u].runtime = r}}

Claimable_FaultIgnoresRunning(a) ==
    {t \in Of(a) \cap TasksIn({"queued"}) :
        Of(a) \cap About(row[t].target) \cap TasksIn({"dispatched"}) = {}}

\* The rows that the inner SELECT of ClaimAgentTask finds in its snapshot.
Claimable(a) ==
    {t \in Of(a) \cap TasksIn({"queued"}) :
        Of(a) \cap About(row[t].target) \cap TasksIn(Underway) = {}}

(* agent_task_queue: writes *)

SetStatus(S, s) ==
    /\ status' = [t \in Task |-> IF t \in S THEN s ELSE status[t]]
    /\ UNCHANGED row

\* The partial unique index on (issue_id, agent_id); a NULL issue_id, which is
\* that of a chat task, conflicts with nothing.
ViolatesUniqueIndex(new) == new.target \in Issue /\ HasPending(new.target, new.agent)

InsertTask(t, new) ==
    /\ status[t] = "absent"
    /\ ~ViolatesUniqueIndex(new)
    /\ status' = [status EXCEPT ![t] = "queued"]
    /\ row' = [row EXCEPT ![t] = new]
    /\ UNCHANGED aged

ContinuationRow(t) ==
    [row[t] EXCEPT !.parent = t, !.index = row[t].index + 1]

ClaimAgentTask_FaultNoRecheck(t, snapshot) ==
    /\ t \in snapshot
    /\ status[t] \in Pending
    /\ SetStatus({t}, "dispatched")
    /\ aged' = aged \ {t}

\* The UPDATE of ClaimAgentTask: it locks a row of its snapshot that is still
\* queued. NOT EXISTS is not evaluated again, and SKIP LOCKED passes over rows
\* that a concurrent claim holds.
ClaimAgentTask(t, snapshot) ==
    /\ t \in snapshot
    /\ status[t] = "queued"
    /\ SetStatus({t}, "dispatched")
    /\ aged' = aged \ {t}

StartAgentTask(t) ==
    /\ status[t] = "dispatched"
    /\ SetStatus({t}, "running")
    /\ aged' = aged \ {t}

CompleteAgentTask_FaultStatus(t) ==
    /\ status[t] = "running"
    /\ SetStatus({t}, "done")
    /\ UNCHANGED aged

CompleteAgentTask(t) ==
    /\ status[t] = "running"
    /\ SetStatus({t}, "completed")
    /\ UNCHANGED aged

FailAgentTask_FaultAnyStatus(t) ==
    /\ status[t] # "absent"
    /\ SetStatus({t}, "failed")
    /\ UNCHANGED aged

FailAgentTask(t) ==
    /\ status[t] \in Underway
    /\ SetStatus({t}, "failed")
    /\ UNCHANGED aged

CancelAgentTask(t) ==
    /\ status[t] \in Live
    /\ SetStatus({t}, "cancelled")
    /\ UNCHANGED aged

CancelAgentTasksByIssue_FaultPending(i) ==
    SetStatus(About(i) \cap TasksIn(Pending), "cancelled") /\ UNCHANGED aged

CancelAgentTasksByIssue(i) ==
    SetStatus(About(i) \cap TasksIn(Live), "cancelled") /\ UNCHANGED aged

CancelAgentTasksByAgent_FaultUnderway(a) ==
    SetStatus(Of(a) \cap TasksIn(Underway), "cancelled") /\ UNCHANGED aged

CancelAgentTasksByAgent(a) ==
    SetStatus(Of(a) \cap TasksIn(Live), "cancelled") /\ UNCHANGED aged

StaleTasks_FaultRunningOnly == TasksIn({"running"}) \cap aged

StaleTasks == TasksIn(Underway) \cap aged

FailStaleTasks == SetStatus(StaleTasks, "failed") /\ UNCHANGED aged

OrphanedTasks == {t \in TasksIn(Underway) : row[t].runtime \notin online}

FailTasksForOfflineRuntimes == SetStatus(OrphanedTasks, "failed") /\ UNCHANGED aged

MigrateQueuedTasksToRuntime_FaultLive(r) ==
    /\ row' = [t \in Task |->
                 IF status[t] \in Live /\ row[t].runtime \notin online \cup {r}
                 THEN [row[t] EXCEPT !.runtime = r] ELSE row[t]]
    /\ UNCHANGED <<status, aged>>

MigrateQueuedTasksToRuntime(r) ==
    /\ row' = [t \in Task |->
                 IF status[t] = "queued" /\ row[t].runtime \notin online \cup {r}
                 THEN [row[t] EXCEPT !.runtime = r] ELSE row[t]]
    /\ UNCHANGED <<status, aged>>

-----------------------------------------------------------------------------
(* agent, agent_runtime, issue *)

UpdateAgentStatus(a, s) ==
    /\ agentStatus' = [agentStatus EXCEPT ![a] = s]
    /\ UNCHANGED <<binding, archived>>

MigrateAgentsToRuntime(r) ==
    /\ binding' = [a \in Agent |->
                     IF binding[a] \notin online \cup {r} THEN r ELSE binding[a]]
    /\ UNCHANGED <<archived, agentStatus>>

\* UpsertAgentRuntime and UpdateAgentRuntimeHeartbeat both end here.
SeenOnline(r) ==
    /\ online' = online \cup {r}
    /\ expired' = expired \ {r}

SetAgentRuntimeOffline(r) ==
    /\ online' = online \ {r}
    /\ UNCHANGED expired

MarkStaleRuntimesOffline ==
    /\ online' = online \ expired
    /\ UNCHANGED expired

UpdateIssueStatus(i, s) ==
    /\ issueStatus' = [issueStatus EXCEPT ![i] = s]
    /\ UNCHANGED assignee

-----------------------------------------------------------------------------
(* loop_detection *)

NextFailures(i, a) ==
    IF failures[i][a] < EscalateAt THEN failures[i][a] + 1 ELSE EscalateAt

Escalates_FaultOldCount(i, a) == failures[i][a] >= EscalateAt

Escalates(i, a) == NextFailures(i, a) >= EscalateAt

UpsertLoopDetection(i, a) ==
    /\ failures' = [failures EXCEPT ![i][a] = NextFailures(i, a)]
    /\ escalation' = [escalation EXCEPT ![i][a] =
                        IF Escalates(i, a) THEN "escalated" ELSE "none"]

ResolveLoopDetection(i, a) ==
    /\ failures' = [failures EXCEPT ![i][a] = 0]
    /\ escalation' = [escalation EXCEPT ![i][a] = "resolved"]
=============================================================================
