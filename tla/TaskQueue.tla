------------------------------ MODULE TaskQueue ------------------------------
(****************************************************************************)
(* The task queue of the server: the HTTP handlers that enqueue, claim,     *)
(* report on, cancel and migrate tasks, and the sweeper goroutine, each a   *)
(* process that runs one SQL statement per step and keeps what it has read  *)
(* in local variables.                                                      *)
(*                                                                          *)
(* A request is an action of an idle process of Handler (a goroutine of the *)
(* HTTP server) that runs its first statement; the steps after it are       *)
(* labelled by pc. Daemons and users are the environment: Inputs names the  *)
(* requests and events they may produce in an instance.                     *)
(****************************************************************************)
EXTENDS TaskStore

CONSTANTS
    Handler,        \* HTTP goroutines: how many requests may be in flight
    Sweeper,        \* the sweeper goroutine
    Inputs,         \* the kinds of requests and events of an instance
    Reason,         \* error strings that a daemon reports
    StatusRequest,  \* issue statuses that a client may ask for
    MaxCrashes      \* bound on server crashes

ASSUME QueueAssumption ==
    /\ Sweeper \notin Handler
    /\ MaxCrashes \in Nat
    /\ StatusRequest \subseteq IssueStatus

VARIABLES
    pc,       \* [Process -> Label]
    loc,      \* [Process -> Local], the local variables of the goroutine
    holder,   \* [Task -> Runtime \cup {None}], whose daemon received the task
    crashes   \* server crashes so far

storeVars == <<taskVars, agentVars, runtimeVars, issueVars, loopVars>>
vars      == <<storeVars, pc, loc, holder, crashes>>

Process == Handler \cup {Sweeper}
Label   == {"idle", "load", "insert", "count", "snapshot", "lock", "deliver",
            "loop", "continue", "reconcile", "setStatus", "writeIssue",
            "reassign", "cancelIssue", "cancelAgent", "skip",
            "migrateAgents", "migrateTasks",
            "offline", "item", "hasActive", "reset", "stale"}
Local   == [agent   : Agent \cup {None},
            target  : Target \cup {None},
            runtime : Runtime \cup {None},
            task    : Task \cup {None},
            tasks   : SUBSET Task,   \* claim: the snapshot; sweep: failed tasks left
            agents  : SUBSET Agent,  \* claim: agents left to try; else: to reconcile
            seen    : SUBSET Issue,  \* processedIssues
            status  : IssueStatus \cup {"keep", "idle", "working"},
            marks   : SUBSET {"reassigned", "cancelled", "retry"},
            then    : {"idle", "stale", "cancelIssue"}]
NoLoc   == [agent |-> None, target |-> None, runtime |-> None, task |-> None,
            tasks |-> {}, agents |-> {}, seen |-> {}, status |-> "keep",
            marks |-> {}, then |-> "idle"]

Retriable == {"timeout", "max_turns"}

Init ==
    /\ StoreInit
    /\ pc = [p \in Process |-> "idle"]
    /\ loc = [p \in Process |-> NoLoc]
    /\ holder = [t \in Task |-> None]
    /\ crashes = 0

-----------------------------------------------------------------------------
(* Control *)

Goto(p, label, l) ==
    /\ pc' = [pc EXCEPT ![p] = label]
    /\ loc' = [loc EXCEPT ![p] = IF label = "idle" THEN NoLoc ELSE l]

At(p, label) == pc[p] = label /\ UNCHANGED crashes

Request(h, kind) == h \in Handler /\ kind \in Inputs /\ At(h, "idle")

\* An event or a request that is a single statement.
Single(kind) == kind \in Inputs /\ UNCHANGED <<pc, loc, crashes>>

ReconcileThen(p, agents, then) ==
    Goto(p, "reconcile", [NoLoc EXCEPT !.agents = agents, !.then = then])

-----------------------------------------------------------------------------
(* EnqueueTaskForIssue, EnqueueTaskForMention, EnqueueChatTask: who decides *)
(* to enqueue goes to "load" with the agent and what the task is about.     *)

Enqueue(h, a, x) == Goto(h, "load", [NoLoc EXCEPT !.agent = a, !.target = x])

\* CreateComment of a member, and shouldEnqueueOnComment.
Comment(h, i) ==
    /\ Request(h, "comment")
    /\ issueStatus[i] \notin {"done", "cancelled"}
    /\ assignee[i] \in Agent \ archived
    /\ ~HasPending(i, assignee[i])
    /\ Enqueue(h, assignee[i], i)
    /\ UNCHANGED <<storeVars, holder>>

\* One agent of enqueueMentionedAgentTasks.
Mention(h, i, a) ==
    /\ Request(h, "mention")
    /\ a \notin archived
    /\ ~HasPending(i, a)
    /\ Enqueue(h, a, i)
    /\ UNCHANGED <<storeVars, holder>>

SendChatMessage(h, c) ==
    /\ Request(h, "chat")
    /\ Enqueue(h, ChatAgent[c], c)
    /\ UNCHANGED <<storeVars, holder>>

\* GetAgent: an archived agent gets no task; its runtime is read here.
LoadAgent(h) ==
    /\ At(h, "load")
    /\ IF loc[h].agent \in archived
       THEN Goto(h, loc[h].then, loc[h])
       ELSE Goto(h, "insert", [loc[h] EXCEPT !.runtime = binding[loc[h].agent]])
    /\ UNCHANGED <<storeVars, holder>>

NewRow(h) == [agent |-> loc[h].agent, target |-> loc[h].target,
              runtime |-> loc[h].runtime, parent |-> None, index |-> 0]

InsertNew(h) ==
    /\ At(h, "insert")
    /\ \E t \in Task : InsertTask(t, NewRow(h))
    /\ Goto(h, loc[h].then, loc[h])
    /\ UNCHANGED <<agentVars, runtimeVars, issueVars, loopVars, holder>>

\* The unique index, or any other error (here: no id left), rejects the row.
InsertRejected(h) ==
    /\ At(h, "insert")
    /\ ViolatesUniqueIndex(NewRow(h)) \/ TasksIn({"absent"}) = {}
    /\ Goto(h, loc[h].then, loc[h])
    /\ UNCHANGED <<storeVars, holder>>

-----------------------------------------------------------------------------
(* ClaimTaskForRuntime, with ClaimTask for each agent it tries *)

TryNextAgent(h, agents) ==
    IF agents = {} THEN Goto(h, "idle", NoLoc)
    ELSE Goto(h, "count", [NoLoc EXCEPT !.runtime = loc[h].runtime, !.agents = agents])

ClaimTaskForRuntime(h, r) ==
    /\ Request(h, "claim")
    /\ AgentsPendingAt(r) # {}
    /\ Goto(h, "count", [NoLoc EXCEPT !.runtime = r, !.agents = AgentsPendingAt(r)])
    /\ UNCHANGED <<storeVars, holder>>

HasCapacity_FaultOffByOne(a) == CountRunning(a) <= MaxConcurrentTasks[a]

HasCapacity(a) == CountRunning(a) < MaxConcurrentTasks[a]

CheckCapacity(h) ==
    /\ At(h, "count")
    /\ \E a \in loc[h].agents :
         LET rest == loc[h].agents \ {a}
         IN  IF HasCapacity(a)
             THEN Goto(h, "snapshot", [loc[h] EXCEPT !.agent = a, !.agents = rest])
             ELSE TryNextAgent(h, rest)
    /\ UNCHANGED <<storeVars, holder>>

SnapshotQueue(h) ==
    /\ At(h, "snapshot")
    /\ LET found == Claimable(loc[h].agent)
       IN  IF found = {} THEN TryNextAgent(h, loc[h].agents)
           ELSE Goto(h, "lock", [loc[h] EXCEPT !.tasks = found])
    /\ UNCHANGED <<storeVars, holder>>

LockTask(h) ==
    /\ At(h, "lock")
    /\ \E t \in Task :
         /\ ClaimAgentTask(t, loc[h].tasks)
         /\ Goto(h, "deliver", [loc[h] EXCEPT !.task = t, !.tasks = {}])
    /\ UNCHANGED <<agentVars, runtimeVars, issueVars, loopVars, holder>>

LockNothing(h) ==
    /\ At(h, "lock")
    /\ loc[h].tasks \cap TasksIn({"queued"}) = {}
    /\ TryNextAgent(h, loc[h].agents)
    /\ UNCHANGED <<storeVars, holder>>

\* updateAgentStatus; a task of the asking runtime is the response, which the
\* daemon may not receive, and a task of another runtime is passed over.
Deliver(h) ==
    /\ At(h, "deliver")
    /\ UpdateAgentStatus(loc[h].agent, "working")
    /\ IF row[loc[h].task].runtime = loc[h].runtime
       THEN /\ Goto(h, "idle", NoLoc)
            /\ \/ holder' = [holder EXCEPT ![loc[h].task] = loc[h].runtime]
               \/ "lostResponse" \in Inputs /\ UNCHANGED holder
       ELSE /\ TryNextAgent(h, loc[h].agents)
            /\ UNCHANGED holder
    /\ UNCHANGED <<taskVars, runtimeVars, issueVars, loopVars>>

-----------------------------------------------------------------------------
(* What a daemon reports of a task that it holds *)

Held(t) == holder[t] # None

StartTask(t) ==
    /\ Single("start")
    /\ Held(t)
    /\ StartAgentTask(t)
    /\ UNCHANGED <<agentVars, runtimeVars, issueVars, loopVars, holder>>

CompleteTask(h, t) ==
    /\ Request(h, "complete")
    /\ Held(t)
    /\ CompleteAgentTask(t)
    /\ ReconcileThen(h, {row[t].agent}, "idle")
    /\ UNCHANGED <<agentVars, runtimeVars, issueVars, loopVars, holder>>

MayContinue_FaultOffByOne(t, reason) ==
    reason \in Retriable /\ row[t].index <= MaxContinuations

MayContinue(t, reason) == reason \in Retriable /\ row[t].index < MaxContinuations

FailTask(h, t, reason) ==
    /\ Request(h, "fail")
    /\ Held(t)
    /\ FailAgentTask(t)
    /\ LET l == [NoLoc EXCEPT !.task = t, !.agents = {row[t].agent},
                   !.marks = IF MayContinue(t, reason) THEN {"retry"} ELSE {}]
       IN  IF row[t].target \in Issue THEN Goto(h, "loop", l)
           ELSE IF l.marks # {} THEN Goto(h, "continue", l)
           ELSE Goto(h, "reconcile", l)
    /\ UNCHANGED <<agentVars, runtimeVars, issueVars, loopVars, holder>>

\* Loop detection of FailTask: an escalated (issue, agent) gets no continuation.
DetectLoop(h) ==
    LET r == row[loc[h].task]
    IN  /\ At(h, "loop")
        /\ UpsertLoopDetection(r.target, r.agent)
        /\ Goto(h, IF "retry" \in loc[h].marks /\ ~Escalates(r.target, r.agent)
                   THEN "continue" ELSE "reconcile", loc[h])
        /\ UNCHANGED <<taskVars, agentVars, runtimeVars, issueVars, holder>>

ContinueTask(h) ==
    /\ At(h, "continue")
    /\ \E t \in Task : InsertTask(t, ContinuationRow(loc[h].task))
    /\ Goto(h, "reconcile", loc[h])
    /\ UNCHANGED <<agentVars, runtimeVars, issueVars, loopVars, holder>>

ContinuationRejected(h) ==
    /\ At(h, "continue")
    /\ ViolatesUniqueIndex(ContinuationRow(loc[h].task)) \/ TasksIn({"absent"}) = {}
    /\ Goto(h, "reconcile", loc[h])
    /\ UNCHANGED <<storeVars, holder>>

CancelTask(h, t) ==
    /\ Request(h, "cancel")
    /\ CancelAgentTask(t)
    /\ ReconcileThen(h, {row[t].agent}, "idle")
    /\ UNCHANGED <<agentVars, runtimeVars, issueVars, loopVars, holder>>

\* ReconcileAgentStatus: the count and the update are two statements.
Reconcile(p) ==
    /\ At(p, "reconcile")
    /\ \E a \in loc[p].agents :
         Goto(p, "setStatus", [loc[p] EXCEPT !.agent = a,
                !.status = IF CountRunning(a) > 0 THEN "working" ELSE "idle"])
    /\ UNCHANGED <<storeVars, holder>>

SetAgentStatus(p) ==
    /\ At(p, "setStatus")
    /\ UpdateAgentStatus(loc[p].agent, loc[p].status)
    /\ LET rest == loc[p].agents \ {loc[p].agent}
       IN  IF rest = {} THEN Goto(p, loc[p].then, NoLoc)
           ELSE ReconcileThen(p, rest, loc[p].then)
    /\ UNCHANGED <<taskVars, runtimeVars, issueVars, loopVars, holder>>

-----------------------------------------------------------------------------
(* UpdateIssue: read the issue, write it, then reconcile the queue with it. *)
(* The update rewrites assignee_id with the value read if the request does  *)
(* not name one, and only a request that names one counts as a reassignment.*)

UpdateIssue(h, i) ==
    /\ Request(h, "update")
    /\ \E s \in StatusRequest \cup {"keep"},
          a \in Agent \cup {None}, asks \in {"nothing", "assign", "unassign"} :
         /\ asks = "nothing"  => a = assignee[i]
         /\ asks = "assign"   => a \in Agent \ archived
         /\ asks = "unassign" => a = None
         /\ Goto(h, "writeIssue", [NoLoc EXCEPT
              !.target = i, !.agent = a, !.status = s,
              !.marks = (IF asks = "assign" /\ a # assignee[i] THEN {"reassigned"} ELSE {})
                   \cup (IF s = "cancelled" /\ issueStatus[i] # s THEN {"cancelled"} ELSE {})])
    /\ UNCHANGED <<storeVars, holder>>

WriteIssue(h) ==
    LET l == loc[h]
    IN  /\ At(h, "writeIssue")
        /\ assignee' = [assignee EXCEPT ![l.target] = l.agent]
        /\ issueStatus' = [issueStatus EXCEPT ![l.target] = IF l.status = "keep" THEN @ ELSE l.status]
        /\ Goto(h, IF "reassigned" \in l.marks THEN "reassign"
                   ELSE IF "cancelled" \in l.marks THEN "cancelIssue"
                   ELSE "idle", l)
        /\ UNCHANGED <<taskVars, agentVars, runtimeVars, loopVars, holder>>

\* CancelTasksForIssue for a new assignee, then EnqueueTaskForIssue.
CancelOnReassign(h) ==
    /\ At(h, "reassign")
    /\ CancelAgentTasksByIssue(loc[h].target)
    /\ Goto(h, "load", [loc[h] EXCEPT !.then =
              IF "cancelled" \in loc[h].marks THEN "cancelIssue" ELSE "idle"])
    /\ UNCHANGED <<agentVars, runtimeVars, issueVars, loopVars, holder>>

CancelOnStatus(h) ==
    /\ At(h, "cancelIssue")
    /\ CancelAgentTasksByIssue(loc[h].target)
    /\ Goto(h, "idle", NoLoc)
    /\ UNCHANGED <<agentVars, runtimeVars, issueVars, loopVars, holder>>

-----------------------------------------------------------------------------
(* The other requests that touch agents, loop detection and runtimes *)

ArchiveAgent(h, a) ==
    /\ Request(h, "archive")
    /\ a \notin archived
    /\ archived' = archived \cup {a}
    /\ Goto(h, "cancelAgent", [NoLoc EXCEPT !.agent = a])
    /\ UNCHANGED <<binding, agentStatus, taskVars, runtimeVars, issueVars, loopVars, holder>>

CancelOnArchive(h) ==
    /\ At(h, "cancelAgent")
    /\ CancelAgentTasksByAgent(loc[h].agent)
    /\ Goto(h, "idle", NoLoc)
    /\ UNCHANGED <<agentVars, runtimeVars, issueVars, loopVars, holder>>

RestoreAgent(a) ==
    /\ Single("restore")
    /\ a \in archived
    /\ archived' = archived \ {a}
    /\ UNCHANGED <<binding, agentStatus, taskVars, runtimeVars, issueVars, loopVars, holder>>

\* UpdateAgent with a runtime_id: the tasks already queued stay where they are.
BindAgent(a, r) ==
    /\ Single("bind")
    /\ binding[a] # r
    /\ binding' = [binding EXCEPT ![a] = r]
    /\ UNCHANGED <<archived, agentStatus, taskVars, runtimeVars, issueVars, loopVars, holder>>

ResolveLoop(h, i, a) ==
    /\ Request(h, "resolve")
    /\ failures[i][a] > 0 \/ escalation[i][a] # "none"
    /\ ResolveLoopDetection(i, a)
    /\ \/ assignee[i] # None /\ Enqueue(h, assignee[i], i)                  \* retry_different
       \/ Goto(h, "skip", [NoLoc EXCEPT !.target = i])                      \* skip
       \/ UNCHANGED <<pc, loc>>                                             \* stop
    /\ UNCHANGED <<taskVars, agentVars, runtimeVars, issueVars, holder>>

SkipIssue(h) ==
    /\ At(h, "skip")
    /\ UpdateIssueStatus(loc[h].target, "backlog")
    /\ Goto(h, "idle", NoLoc)
    /\ UNCHANGED <<taskVars, agentVars, runtimeVars, loopVars, holder>>

DaemonRegister(h, r) ==
    /\ Request(h, "register")
    /\ SeenOnline(r)
    /\ Goto(h, "migrateAgents", [NoLoc EXCEPT !.runtime = r])
    /\ UNCHANGED <<taskVars, agentVars, issueVars, loopVars, holder>>

MigrateAgents(h) ==
    /\ At(h, "migrateAgents")
    /\ MigrateAgentsToRuntime(loc[h].runtime)
    /\ Goto(h, "migrateTasks", loc[h])
    /\ UNCHANGED <<taskVars, runtimeVars, issueVars, loopVars, holder>>

MigrateTasks(h) ==
    /\ At(h, "migrateTasks")
    /\ MigrateQueuedTasksToRuntime(loc[h].runtime)
    /\ Goto(h, "idle", NoLoc)
    /\ UNCHANGED <<agentVars, runtimeVars, issueVars, loopVars, holder>>

DaemonDeregister(r) ==
    /\ Single("deregister")
    /\ SetAgentRuntimeOffline(r)
    /\ UNCHANGED <<taskVars, agentVars, issueVars, loopVars, holder>>

DaemonHeartbeat(r) ==
    /\ Single("heartbeat")
    /\ SeenOnline(r)
    /\ UNCHANGED <<taskVars, agentVars, issueVars, loopVars, holder>>

-----------------------------------------------------------------------------
(* The sweeper: one tick is sweepStaleRuntimes, then sweepStaleTasks *)

\* Without a runtime that just went stale the first sweep returns at once.
SweepRuntimes ==
    /\ "sweep" \in Inputs
    /\ At(Sweeper, "idle")
    /\ MarkStaleRuntimesOffline
    /\ Goto(Sweeper, IF online \cap expired = {} THEN "stale" ELSE "offline", NoLoc)
    /\ UNCHANGED <<taskVars, agentVars, issueVars, loopVars, holder>>

\* broadcastFailedTasks for the rows an UPDATE returned, if there are any.
Broadcast(failed, then) ==
    IF failed = {} THEN Goto(Sweeper, then, NoLoc)
    ELSE Goto(Sweeper, "item", [NoLoc EXCEPT !.tasks = failed, !.then = then,
                                !.agents = {row[t].agent : t \in failed}])

FailOffline ==
    /\ At(Sweeper, "offline")
    /\ FailTasksForOfflineRuntimes
    /\ Broadcast(OrphanedTasks, "stale")
    /\ UNCHANGED <<agentVars, runtimeVars, issueVars, loopVars, holder>>

FailStale_FaultNoBroadcast ==
    /\ At(Sweeper, "stale")
    /\ FailStaleTasks
    /\ Goto(Sweeper, "idle", NoLoc)
    /\ UNCHANGED <<agentVars, runtimeVars, issueVars, loopVars, holder>>

FailStale ==
    /\ At(Sweeper, "stale")
    /\ FailStaleTasks
    /\ Broadcast(StaleTasks, "idle")
    /\ UNCHANGED <<agentVars, runtimeVars, issueVars, loopVars, holder>>

\* After the last failed task the affected agents are reconciled.
NextItem(l) ==
    Goto(Sweeper, IF l.tasks = {} THEN "reconcile" ELSE "item", [l EXCEPT !.target = None])

ReadItem ==
    /\ At(Sweeper, "item")
    /\ \E t \in loc[Sweeper].tasks :
         LET i    == row[t].target
             rest == [loc[Sweeper] EXCEPT !.tasks = @ \ {t}]
         IN  IF i \in Issue \ rest.seen /\ issueStatus[i] = "in_progress"
             THEN Goto(Sweeper, "hasActive", [rest EXCEPT !.target = i, !.seen = @ \cup {i}])
             ELSE NextItem(rest)
    /\ UNCHANGED <<storeVars, holder>>

CheckActive ==
    /\ At(Sweeper, "hasActive")
    /\ IF HasActive(loc[Sweeper].target)
       THEN NextItem(loc[Sweeper])
       ELSE Goto(Sweeper, "reset", loc[Sweeper])
    /\ UNCHANGED <<storeVars, holder>>

ResetIssue ==
    /\ At(Sweeper, "reset")
    /\ UpdateIssueStatus(loc[Sweeper].target, "todo")
    /\ NextItem(loc[Sweeper])
    /\ UNCHANGED <<taskVars, agentVars, runtimeVars, loopVars, holder>>

-----------------------------------------------------------------------------
(* Time and failure *)

\* A runtime is not heard of for staleThresholdSeconds.
Expire(r) ==
    /\ Single("expire")
    /\ r \notin expired
    /\ expired' = expired \cup {r}
    /\ UNCHANGED <<online, taskVars, agentVars, issueVars, loopVars, holder>>

\* dispatchTimeoutSeconds or runningTimeoutSeconds pass for a task.
Age(t) ==
    /\ Single("age")
    /\ t \in TasksIn(Underway) \ aged
    /\ aged' = aged \cup {t}
    /\ UNCHANGED <<status, row, agentVars, runtimeVars, issueVars, loopVars, holder>>

\* The server process dies: every goroutine is gone, the tables stay.
Crash ==
    /\ crashes < MaxCrashes
    /\ crashes' = crashes + 1
    /\ pc' = [p \in Process |-> "idle"]
    /\ loc' = [p \in Process |-> NoLoc]
    /\ UNCHANGED <<storeVars, holder>>

-----------------------------------------------------------------------------
Arrive(h) ==
    \/ \E i \in Issue : Comment(h, i) \/ UpdateIssue(h, i)
    \/ \E i \in Issue, a \in Agent : Mention(h, i, a) \/ ResolveLoop(h, i, a)
    \/ \E c \in Chat : SendChatMessage(h, c)
    \/ \E r \in Runtime : ClaimTaskForRuntime(h, r) \/ DaemonRegister(h, r)
    \/ \E t \in Task : CompleteTask(h, t) \/ CancelTask(h, t)
    \/ \E t \in Task, reason \in Reason : FailTask(h, t, reason)
    \/ \E a \in Agent : ArchiveAgent(h, a)

Serve(h) ==
    \/ LoadAgent(h) \/ InsertNew(h) \/ InsertRejected(h)
    \/ CheckCapacity(h) \/ SnapshotQueue(h) \/ LockTask(h) \/ LockNothing(h) \/ Deliver(h)
    \/ DetectLoop(h) \/ ContinueTask(h) \/ ContinuationRejected(h)
    \/ Reconcile(h) \/ SetAgentStatus(h)
    \/ WriteIssue(h) \/ CancelOnReassign(h) \/ CancelOnStatus(h)
    \/ CancelOnArchive(h) \/ SkipIssue(h) \/ MigrateAgents(h) \/ MigrateTasks(h)

Sweep ==
    \/ SweepRuntimes \/ FailOffline \/ FailStale
    \/ ReadItem \/ CheckActive \/ ResetIssue
    \/ Reconcile(Sweeper) \/ SetAgentStatus(Sweeper)

Environment ==
    \/ \E t \in Task : StartTask(t) \/ Age(t)
    \/ \E a \in Agent : RestoreAgent(a)
    \/ \E a \in Agent, r \in Runtime : BindAgent(a, r)
    \/ \E r \in Runtime : DaemonDeregister(r) \/ DaemonHeartbeat(r) \/ Expire(r)
    \/ Crash

Next == (\E h \in Handler : Arrive(h) \/ Serve(h)) \/ Sweep \/ Environment

Spec == Init /\ [][Next]_vars

\* A goroutine that is not blocked runs on, the ticker fires, and time passes.
Fairness ==
    /\ \A h \in Handler : WF_vars(Serve(h))
    /\ WF_vars(Sweep)
    /\ \A t \in Task : WF_vars(Age(t))

FairSpec == Spec /\ Fairness
=============================================================================
