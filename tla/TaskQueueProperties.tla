------------------------- MODULE TaskQueueProperties -------------------------
(****************************************************************************)
(* What the task queue promises, and what the repository says it promises.  *)
(****************************************************************************)
EXTENDS TaskQueue

\* What the next statement of a goroutine needs of its local variables.
LocalAt(label, l) ==
    /\ label \in {"load", "insert", "reassign"} => l.agent \in Agent
    /\ label \in {"migrateAgents", "migrateTasks"} => l.runtime \in Runtime
    /\ label \in {"loop", "continue", "deliver"} => l.task \in Task
    /\ label = "setStatus" => l.status \in {"idle", "working"}
    /\ label = "writeIssue" => /\ l.status \in IssueStatus \cup {"keep"}
                               /\ "reassigned" \in l.marks => l.agent \in Agent

TaskTypes    == /\ status \in [Task -> Status]
                /\ row \in [Task -> Row]
                /\ aged \subseteq Task
AgentTypes   == /\ binding \in [Agent -> Runtime]
                /\ archived \subseteq Agent
                /\ agentStatus \in [Agent -> {"idle", "working"}]
RuntimeTypes == /\ online \subseteq Runtime
                /\ expired \subseteq Runtime
IssueTypes   == /\ assignee \in [Issue -> Agent \cup {None}]
                /\ issueStatus \in [Issue -> IssueStatus]
LoopTypes    == /\ failures \in [Issue -> [Agent -> 0..EscalateAt]]
                /\ escalation \in [Issue -> [Agent -> {"none", "escalated", "resolved"}]]
LocalTypes   == /\ pc \in [Process -> Label]
                /\ loc \in [Process -> Local]
                /\ \A p \in Process : LocalAt(pc[p], loc[p])

\* The columns of a task that was inserted, and the tasks a goroutine knows.
RowsNameAgents == \A t \in Task : status[t] # "absent" => row[t].agent \in Agent
Knows(l, t)    == t = l.task \/ t \in l.tasks
KnownTasks     == \A p \in Process, t \in Task : Knows(loc[p], t) => status[t] # "absent"

\* Every variable has its type: a column its CHECK constraint or foreign key, a
\* goroutine one of its labels and, at the label, the values its next statement
\* needs. This is inductive.
TypeOK ==
    /\ TaskTypes /\ AgentTypes /\ RuntimeTypes /\ IssueTypes /\ LoopTypes /\ LocalTypes
    /\ RowsNameAgents /\ KnownTasks
    /\ holder \in [Task -> Runtime \cup {None}]
    /\ crashes \in 0..MaxCrashes

\* No request and no sweep is in flight.
AtRest == \A p \in Process : pc[p] = "idle"

\* Two tasks of one agent on one issue.
SameIssueWork(t, u) ==
    /\ t # u
    /\ row[t].target \in Issue
    /\ row[t].target = row[u].target
    /\ row[t].agent = row[u].agent

-----------------------------------------------------------------------------
(* Serialization *)

\* The unique index: at most one task of an (issue, agent) is pending.
OnePendingPerIssueAgent ==
    \A t, u \in Task : SameIssueWork(t, u) => ~({status[t], status[u]} \subseteq Pending)

\* ClaimAgentTask never hands out a second task of an (issue, agent) while one
\* is dispatched or running, although it tests that in a snapshot that may be
\* old when it locks its row.
OneUnderwayPerIssueAgent ==
    \A t, u \in Task : SameIssueWork(t, u) => ~({status[t], status[u]} \subseteq Underway)

\* What makes the old snapshot harmless: a row of it that is still queued has
\* kept the (issue, agent) for itself.
SnapshotStillAlone ==
    \A p \in Process : \A t \in loc[p].tasks :
        (pc[p] = "lock" /\ status[t] = "queued") =>
            \A u \in Task : SameIssueWork(t, u) => status[u] \notin Underway

\* The inductive invariant behind OneUnderwayPerIssueAgent.
SerializationInv ==
    OnePendingPerIssueAgent /\ OneUnderwayPerIssueAgent /\ SnapshotStillAlone

\* The queue implements the abstract life cycle: what its statements do, in
\* whatever order the goroutines run them, is one atomic operation on tasks
\* that are serialized per (issue, agent), or nothing.
WorkOf(t) == IF row[t].target \in Issue THEN <<row[t].agent, row[t].target>> ELSE None

Lifecycle == INSTANCE TaskLifecycle
    WITH work <- [t \in Task |-> WorkOf(t)], Work <- Agent \X Issue, Free <- None

ImplementsLifecycle == Lifecycle!Spec

-----------------------------------------------------------------------------
(* Capacity *)

\* ClaimTask counts the running tasks before it claims (task.go:180), so claims
\* that count together exceed max_concurrent_tasks, but by no more than the
\* other claims in flight.
OvercommitBounded ==
    \A a \in Agent : CountRunning(a) < MaxConcurrentTasks[a] + Cardinality(Handler)

-----------------------------------------------------------------------------
(* Delivery *)

\* A task is underway at the runtime whose daemon received it, so that the
\* sweeper fails it when that runtime goes offline and not when another does,
\* whatever the agents and the queue were migrated to.
HeldByItsRuntime == \A t \in Task : holder[t] \in {None, row[t].runtime}

\* A claim that is about to respond with a task is the only one, and nobody has
\* received the task before: whatever the snapshots of concurrent claims, the
\* order of their statements and the responses that are lost, a task is not
\* received twice.
Delivering(h, t) == pc[h] = "deliver" /\ loc[h].task = t

ReceivedOnce ==
    \A h \in Process, t \in Task : Delivering(h, t) =>
        /\ holder[t] = None
        /\ \A g \in Process : Delivering(g, t) => g = h

\* What is still queued was not received, nor is it about to be.
QueuedIsNew ==
    \A t \in Task : status[t] \in {"absent", "queued"} =>
        holder[t] = None /\ \A h \in Process : ~Delivering(h, t)

\* The inductive invariant behind HeldByItsRuntime and ReceivedOnce.
DeliveryInv == HeldByItsRuntime /\ ReceivedOnce /\ QueuedIsNew

-----------------------------------------------------------------------------
(* Continuations and loop detection *)

\* A continuation succeeds a failed task of the same agent on the same target,
\* one step further in the chain and within its limit, and no failure is
\* continued twice.
ContinuationSound ==
    \A t \in Task : row[t].parent # None =>
        LET p == row[t].parent
        IN  /\ status[p] = "failed"
            /\ row[t].agent = row[p].agent /\ row[t].target = row[p].target
            /\ row[t].index = row[p].index + 1 /\ row[t].index <= MaxContinuations
            /\ \A u \in Task : row[u].parent = p => u = t

\* As long as nobody resolves an escalation, a chain of continuations on an
\* issue ends at the third failure, whatever max_continuations allows.
EscalationEndsChain ==
    \A t \in Task : row[t].target \in Issue => row[t].index < EscalateAt

-----------------------------------------------------------------------------
(* The queue and what it serves *)

\* "sets agent status accordingly" (task.go:471): where requests come one at a
\* time, the badge of an agent says "working" exactly while it has a task
\* underway, unless a bulk cancellation has passed the agent by: after one it
\* may go on saying so.
BadgeIsRight(a) == agentStatus[a] = "working" <=> Of(a) \cap TasksIn(Underway) # {}

AgentStatusReconciled ==
    AtRest => \A a \in Agent :
        \/ BadgeIsRight(a)
        \/ agentStatus[a] = "working" /\ Of(a) \cap TasksIn({"cancelled"}) # {}

\* "Cancel all pending/active tasks for this agent" (agent.go:437): an archived
\* agent has no live task once its archiving is done.
ArchivedAgentHasNoTask ==
    AtRest => \A a \in archived : Of(a) \cap TasksIn(Live) = {}

\* "Reconcile task queue when assignee changes" (issue.go:1128): with requests
\* other than mentions, the live tasks of an assigned issue are its assignee's.
QueueFollowsAssignee ==
    AtRest => \A t \in TasksIn(Live) :
        (row[t].target \in Issue /\ assignee[row[t].target] # None)
            => row[t].agent = assignee[row[t].target]

-----------------------------------------------------------------------------
(* The sweeper *)

\* Where daemons report nothing, the sweeper alone ends tasks; then an issue
\* that lost its last task has left in_progress, "so the daemon can pick it up
\* again" (runtime_sweeper.go:181), unless the server crashed in a sweep.
SweptIssuesReset ==
    (pc[Sweeper] = "idle" /\ crashes = 0) => \A i \in Issue :
        (About(i) \cap TasksIn({"failed"}) # {} /\ ~HasActive(i))
            => issueStatus[i] # "in_progress"

\* Whatever a daemon does not report, a task does not stay dispatched or
\* running: its timeout passes and the sweeper fails it.
UnderwayEnds ==
    \A t \in Task : status[t] \in Underway ~> status[t] \in Outcome
=============================================================================
