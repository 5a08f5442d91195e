------------------------- MODULE TaskHandlingProofs --------------------------
(****************************************************************************)
(* Theorems about the handling of tasks, for every value of the constants   *)
(* of the task queue: who receives a task, how many tasks an agent is       *)
(* given, how tasks continue one another after a failure, what becomes of   *)
(* the issues that a sweep resets, and, where requests come one at a time,  *)
(* which tasks archived agents, assigned issues and the status of an agent  *)
(* go with.                                                                 *)
(****************************************************************************)
EXTENDS TaskQueueProofs, FiniteSetTheorems

-----------------------------------------------------------------------------
(* Only a lock starts a delivery, and only a delivery changes the holder *)

DeliveryKept(p) == pc'[p] = "deliver" => pc[p] = "deliver" /\ loc'[p] = loc[p]

Quiet == UNCHANGED holder /\ \A p \in Process : DeliveryKept(p)

LEMMA GotoIsQuiet ==
    ASSUME LocalTypes, UNCHANGED holder, NEW q \in Process,
           NEW label \in Label \ {"deliver"}, NEW l, Goto(q, label, l)
    PROVE  Quiet
BY DEF LocalTypes, Goto, Quiet, DeliveryKept

LEMMA StepIsQuiet ==
    ASSUME TypeOK, [Next]_vars, ~\E h \in Process : LockTask(h) \/ Deliver(h)
    PROVE  Quiet
<1>l. Label \ {"deliver"} = {"idle", "load", "insert", "count", "snapshot", "lock",
        "loop", "continue", "reconcile", "setStatus", "writeIssue", "reassign", "cancelIssue",
        "cancelAgent", "skip", "migrateAgents", "migrateTasks",
        "offline", "item", "hasActive", "reset", "stale"}
  BY DEF Label
<1>t. LocalTypes
  BY DEF TypeOK
<1>u. ASSUME UNCHANGED <<pc, loc, holder>> PROVE Quiet
  BY <1>u DEF Quiet, DeliveryKept
<1>1. ASSUME NEW h \in Handler, Arrive(h) PROVE Quiet
  <2>h. h \in Process
    BY DEF Process
  <2>1. CASE \/ \E i \in Issue : Comment(h, i) \/ UpdateIssue(h, i)
             \/ \E i \in Issue, a \in Agent : Mention(h, i, a)
             \/ \E c \in Chat : SendChatMessage(h, c)
    BY <2>1, <2>h, <1>l, <1>t, GotoIsQuiet DEF Comment, UpdateIssue, Mention, SendChatMessage, Enqueue
  <2>2. CASE \E i \in Issue, a \in Agent : ResolveLoop(h, i, a)
    BY <2>2, <2>h, <1>l, <1>t, <1>u, GotoIsQuiet DEF ResolveLoop, Enqueue
  <2>3. CASE \E r \in Runtime : ClaimTaskForRuntime(h, r) \/ DaemonRegister(h, r)
    BY <2>3, <2>h, <1>l, <1>t, GotoIsQuiet DEF ClaimTaskForRuntime, DaemonRegister
  <2>4. CASE \E t \in Task : CompleteTask(h, t) \/ CancelTask(h, t)
    BY <2>4, <2>h, <1>l, <1>t, GotoIsQuiet DEF CompleteTask, CancelTask, ReconcileThen
  <2>5. CASE \E t \in Task, reason \in Reason : FailTask(h, t, reason)
    BY <2>5, <2>h, <1>l, <1>t, GotoIsQuiet DEF FailTask
  <2>6. CASE \E a \in Agent : ArchiveAgent(h, a)
    BY <2>6, <2>h, <1>l, <1>t, GotoIsQuiet DEF ArchiveAgent
  <2> QED
    BY <1>1, <2>1, <2>2, <2>3, <2>4, <2>5, <2>6 DEF Arrive
<1>2. ASSUME NEW h \in Process, Serve(h) PROVE Quiet
  <2>t. loc[h].then \in {"idle", "stale", "cancelIssue"}
    BY LocIsLocal, <1>t DEF Local
  <2>0. ~LockTask(h) /\ ~Deliver(h)
    BY <1>2
  <2>1. CASE LoadAgent(h) \/ InsertNew(h) \/ InsertRejected(h)
    BY <2>1, <2>t, <1>2, <1>l, <1>t, GotoIsQuiet DEF LoadAgent, InsertNew, InsertRejected
  <2>2. CASE CheckCapacity(h) \/ LockNothing(h) \/ SnapshotQueue(h)
    BY <2>2, <1>2, <1>l, <1>t, GotoIsQuiet DEF CheckCapacity, LockNothing, SnapshotQueue, TryNextAgent
  <2>4. CASE DetectLoop(h) \/ ContinueTask(h) \/ ContinuationRejected(h)
    BY <2>4, <1>2, <1>l, <1>t, GotoIsQuiet DEF DetectLoop, ContinueTask, ContinuationRejected
  <2>5. CASE Reconcile(h) \/ SetAgentStatus(h)
    BY <2>5, <2>t, <1>2, <1>l, <1>t, GotoIsQuiet DEF Reconcile, SetAgentStatus, ReconcileThen
  <2>6. CASE WriteIssue(h) \/ CancelOnReassign(h) \/ CancelOnStatus(h)
    BY <2>6, <1>2, <1>l, <1>t, GotoIsQuiet DEF WriteIssue, CancelOnReassign, CancelOnStatus
  <2>7. CASE CancelOnArchive(h) \/ SkipIssue(h) \/ MigrateAgents(h) \/ MigrateTasks(h)
    BY <2>7, <1>2, <1>l, <1>t, GotoIsQuiet DEF CancelOnArchive, SkipIssue, MigrateAgents, MigrateTasks
  <2> QED
    BY <1>2, <2>0, <2>1, <2>2, <2>4, <2>5, <2>6, <2>7 DEF Serve
<1>3. CASE Sweep
  <2>s. Sweeper \in Process
    BY DEF Process
  <2>1. CASE SweepRuntimes \/ FailOffline \/ FailStale
    BY <2>1, <2>s, <1>l, <1>t, GotoIsQuiet DEF SweepRuntimes, FailOffline, FailStale, Broadcast
  <2>2. CASE ReadItem \/ CheckActive \/ ResetIssue
    BY <2>2, <2>s, <1>l, <1>t, GotoIsQuiet DEF ReadItem, CheckActive, ResetIssue, NextItem
  <2>3. CASE Reconcile(Sweeper) \/ SetAgentStatus(Sweeper)
    BY <2>3, <2>s, <1>2 DEF Serve
  <2> QED
    BY <1>3, <2>1, <2>2, <2>3 DEF Sweep
<1>4. CASE Environment
  <2>1. CASE Crash
    BY <2>1 DEF Crash, Quiet, DeliveryKept
  <2>2. CASE ~Crash
    BY <1>4, <2>2, <1>u DEF Environment, StartTask, Age, RestoreAgent, BindAgent, DaemonDeregister,
       DaemonHeartbeat, Expire, Single
  <2> QED
    BY <2>1, <2>2
<1>5. CASE UNCHANGED vars
  BY <1>5, <1>u DEF vars
<1> QED
  BY <1>1, <1>2, <1>3, <1>4, <1>5 DEF Next, Process

-----------------------------------------------------------------------------
(* The three kinds of steps *)

\* A task that is new was new before, and one that was not new keeps its runtime.
Untouched ==
    \A t \in Task : /\ status'[t] \in {"absent", "queued"} => status[t] \in {"absent", "queued"}
                    /\ status[t] \notin {"absent", "queued"} => row'[t].runtime = row[t].runtime

LEMMA EveryStepIsUntouched == ASSUME TypeOK, [Next]_vars PROVE Untouched
<1> USE DEF Underway, Live, Pending, TypeOK, TaskTypes, Untouched
<1>1. CASE UNCHANGED <<status, row>>
  BY <1>1
<1>2. CASE \E t \in Task, new \in Row : InsertTask(t, new)
  BY <1>2 DEF InsertTask
<1>3. CASE \E h \in Handler : LockTask(h)
  BY <1>3 DEF LockTask, ClaimAgentTask, SetStatus
<1>4. CASE \E t \in Task : StartAgentTask(t) \/ CompleteAgentTask(t)
  BY <1>4 DEF StartAgentTask, CompleteAgentTask, SetStatus
<1>5. CASE \E S \in SUBSET TasksIn(Underway) : SetStatus(S, "failed")
  BY <1>5 DEF SetStatus
<1>6. CASE \E S \in SUBSET TasksIn(Live) : SetStatus(S, "cancelled")
  BY <1>6 DEF SetStatus
<1>7. CASE \E r \in Runtime : MigrateQueuedTasksToRuntime(r)
  BY <1>7 DEF MigrateQueuedTasksToRuntime
<1> QED
  BY <1>1, <1>2, <1>3, <1>4, <1>5, <1>6, <1>7, EveryStepIsTaskStep DEF TaskStep

LEMMA QuietKeepsDelivery ==
    ASSUME TypeOK, DeliveryInv, Quiet, Untouched
    PROVE  DeliveryInv'
<1>d. \A h \in Process, t \in Task : Delivering(h, t)' => Delivering(h, t)
  BY DEF Quiet, DeliveryKept, Delivering
<1>1. HeldByItsRuntime'
  BY DEF DeliveryInv, HeldByItsRuntime, QueuedIsNew, Quiet, Untouched
<1>2. ReceivedOnce'
  BY <1>d DEF DeliveryInv, ReceivedOnce, Quiet
<1>3. QueuedIsNew'
  BY <1>d DEF DeliveryInv, QueuedIsNew, Quiet, Untouched
<1> QED
  BY <1>1, <1>2, <1>3 DEF DeliveryInv

\* A task that is locked is queued: nobody has it or is about to get it.
LEMMA LockKeepsDelivery ==
    ASSUME TypeOK, DeliveryInv, Untouched, NEW h \in Process, LockTask(h)
    PROVE  DeliveryInv'
<1>1. PICK c \in Task : /\ status[c] = "queued" /\ status'[c] = "dispatched"
                        /\ Goto(h, "deliver", [loc[h] EXCEPT !.task = c, !.tasks = {}])
  BY DEF LockTask, ClaimAgentTask, SetStatus
<1>2. holder' = holder
  BY DEF LockTask
<1>3. /\ loc'[h].task = c
      /\ \A g \in Process \ {h} : pc'[g] = pc[g] /\ loc'[g] = loc[g]
  <2>1. loc[h] \in Local
    BY LocIsLocal DEF TypeOK
  <2> QED
    BY <1>1, <2>1 DEF Goto, TypeOK, LocalTypes, Local
<1>4. holder[c] = None /\ \A g \in Process : ~Delivering(g, c)
  BY <1>1 DEF DeliveryInv, QueuedIsNew
<1>5. \A g \in Process, t \in Task : Delivering(g, t)' => (g = h /\ t = c) \/ (g # h /\ Delivering(g, t))
  BY <1>3 DEF Delivering
<1>6. HeldByItsRuntime'
  BY <1>2 DEF DeliveryInv, HeldByItsRuntime, QueuedIsNew, Untouched
<1>7. ReceivedOnce'
  BY <1>2, <1>4, <1>5 DEF DeliveryInv, ReceivedOnce
<1>8. QueuedIsNew'
  BY <1>1, <1>2, <1>5 DEF DeliveryInv, QueuedIsNew, Untouched
<1> QED
  BY <1>6, <1>7, <1>8 DEF DeliveryInv

\* A delivery gives the task to the runtime in its row, and it is no longer new.
LEMMA DeliverKeepsDelivery ==
    ASSUME TypeOK, DeliveryInv, NEW h \in Process, Deliver(h)
    PROVE  DeliveryInv'
<1> DEFINE d == loc[h].task
<1>1. d \in Task /\ Delivering(h, d)
  BY LocIsLocal DEF Deliver, At, Delivering, TypeOK, LocalAt
<1>2. UNCHANGED <<status, row>>
  BY DEF Deliver, taskVars
<1>3. \/ UNCHANGED holder
      \/ holder' = [holder EXCEPT ![d] = loc[h].runtime] /\ row[d].runtime = loc[h].runtime
  BY DEF Deliver
<1>4. \A g \in Process, t \in Task : Delivering(g, t)' => g # h /\ Delivering(g, t)
  BY DEF Deliver, TryNextAgent, Goto, Delivering, TypeOK, LocalTypes
<1>5. status[d] \notin {"absent", "queued"} /\ \A g \in Process : Delivering(g, d) => g = h
  BY <1>1 DEF DeliveryInv, ReceivedOnce, QueuedIsNew
<1>6. holder \in [Task -> Runtime \cup {None}]
  BY DEF TypeOK
<1> HIDE DEF d
<1>7. HeldByItsRuntime'
  BY <1>1, <1>2, <1>3, <1>6 DEF DeliveryInv, HeldByItsRuntime
<1>8. ReceivedOnce'
  BY <1>1, <1>3, <1>4, <1>5, <1>6 DEF DeliveryInv, ReceivedOnce
<1>9. QueuedIsNew'
  BY <1>1, <1>2, <1>3, <1>4, <1>5, <1>6 DEF DeliveryInv, QueuedIsNew
<1> QED
  BY <1>7, <1>8, <1>9 DEF DeliveryInv

-----------------------------------------------------------------------------
LEMMA InitDelivery == Init => DeliveryInv
BY DEF Init, DeliveryInv, HeldByItsRuntime, ReceivedOnce, QueuedIsNew, Delivering

LEMMA NextDelivery == TypeOK /\ DeliveryInv /\ [Next]_vars => DeliveryInv'
BY StepIsQuiet, EveryStepIsUntouched, QuietKeepsDelivery, LockKeepsDelivery, DeliverKeepsDelivery

\* What a claim locks was queued, and what was queued nobody has: this keeps
\* deliveries apart, and migration away from tasks that were delivered.
THEOREM Delivered == Spec => []DeliveryInv
<1>1. Init => TypeOK /\ DeliveryInv
  BY InitTypes, InitDelivery
<1>2. (TypeOK /\ DeliveryInv) /\ [Next]_vars => (TypeOK /\ DeliveryInv)'
  BY NextTypes, NextDelivery
<1> QED
  BY <1>1, <1>2, PTL DEF Spec

\* A task stays with the runtime whose daemon received it, whatever migrates.
THEOREM HoldersKept == Spec => []HeldByItsRuntime
<1>1. DeliveryInv => HeldByItsRuntime
  BY DEF DeliveryInv
<1> QED
  BY <1>1, Delivered, PTL

\* No task is received by two daemons, or twice by one.
THEOREM NoSecondDelivery == Spec => []ReceivedOnce
<1>1. DeliveryInv => ReceivedOnce
  BY DEF DeliveryInv
<1> QED
  BY <1>1, Delivered, PTL
-----------------------------------------------------------------------------
(* Capacity: who has counted the tasks of an agent and may still lock one *)

MayLock(h, a) == pc[h] \in {"snapshot", "lock"} /\ loc[h].agent = a
Claimers(a)   == {h \in Handler : MayLock(h, a)}
Running(a)    == Of(a) \cap TasksIn(Underway)

\* A snapshot holds tasks of the agent that it was taken for.
SnapshotIsOwn ==
    \A p \in Process : pc[p] = "lock" => \A t \in loc[p].tasks : row[t].agent = loc[p].agent

\* The inductive invariant behind OvercommitBounded: each task beyond the
\* limit, and each claim that may still take one, is of a different goroutine.
CapacityInv ==
    /\ SnapshotIsOwn
    /\ \A a \in Agent :
         /\ IsFiniteSet(Running(a))
         /\ Cardinality(Running(a)) + Cardinality(Claimers(a))
              < MaxConcurrentTasks[a] + Cardinality(Handler)

Lasting(p) ==
    pc'[p] \in {"snapshot", "lock"} =>
        pc[p] \in {"snapshot", "lock"} /\ loc'[p].agent = loc[p].agent

NoNewClaimer == \A p \in Process : Lasting(p)

LEMMA GotoIsNoClaimer ==
    ASSUME LocalTypes, NEW q \in Process,
           NEW label \in Label \ {"snapshot", "lock"}, NEW l, Goto(q, label, l)
    PROVE  NoNewClaimer
BY DEF LocalTypes, Goto, NoNewClaimer, Lasting

LEMMA StepHasNoNewClaimer ==
    ASSUME TypeOK, [Next]_vars, ~\E h \in Handler : CheckCapacity(h)
    PROVE  NoNewClaimer
<1>l. Label \ {"snapshot", "lock"} = {"idle", "load", "insert", "count", "deliver",
        "loop", "continue", "reconcile", "setStatus", "writeIssue", "reassign", "cancelIssue",
        "cancelAgent", "skip", "migrateAgents", "migrateTasks",
        "offline", "item", "hasActive", "reset", "stale"}
  BY DEF Label
<1>t. LocalTypes
  BY DEF TypeOK
<1>u. ASSUME UNCHANGED <<pc, loc>> PROVE NoNewClaimer
  BY <1>u DEF NoNewClaimer, Lasting
<1>r. ASSUME NEW p \in Process, Reconcile(p) \/ SetAgentStatus(p) PROVE NoNewClaimer
  <2>t. loc[p].then \in {"idle", "stale", "cancelIssue"}
    BY LocIsLocal, <1>t DEF Local
  <2> QED
    BY <2>t, <1>r, <1>l, <1>t, GotoIsNoClaimer DEF Reconcile, SetAgentStatus, ReconcileThen
<1>1. ASSUME NEW h \in Handler, Arrive(h) PROVE NoNewClaimer
  <2>h. h \in Process
    BY DEF Process
  <2>1. CASE \/ \E i \in Issue : Comment(h, i) \/ UpdateIssue(h, i)
             \/ \E i \in Issue, a \in Agent : Mention(h, i, a)
             \/ \E c \in Chat : SendChatMessage(h, c)
    BY <2>1, <2>h, <1>l, <1>t, GotoIsNoClaimer DEF Comment, UpdateIssue, Mention, SendChatMessage, Enqueue
  <2>2. CASE \E i \in Issue, a \in Agent : ResolveLoop(h, i, a)
    BY <2>2, <2>h, <1>l, <1>t, <1>u, GotoIsNoClaimer DEF ResolveLoop, Enqueue
  <2>3. CASE \E r \in Runtime : ClaimTaskForRuntime(h, r) \/ DaemonRegister(h, r)
    BY <2>3, <2>h, <1>l, <1>t, GotoIsNoClaimer DEF ClaimTaskForRuntime, DaemonRegister
  <2>4. CASE \E t \in Task : CompleteTask(h, t) \/ CancelTask(h, t)
    BY <2>4, <2>h, <1>l, <1>t, GotoIsNoClaimer DEF CompleteTask, CancelTask, ReconcileThen
  <2>5. CASE \E t \in Task, reason \in Reason : FailTask(h, t, reason)
    BY <2>5, <2>h, <1>l, <1>t, GotoIsNoClaimer DEF FailTask
  <2>6. CASE \E a \in Agent : ArchiveAgent(h, a)
    BY <2>6, <2>h, <1>l, <1>t, GotoIsNoClaimer DEF ArchiveAgent
  <2> QED
    BY <1>1, <2>1, <2>2, <2>3, <2>4, <2>5, <2>6 DEF Arrive
<1>2. ASSUME NEW h \in Handler, Serve(h) PROVE NoNewClaimer
  <2>h. h \in Process
    BY DEF Process
  <2>t. loc[h].then \in {"idle", "stale", "cancelIssue"}
    BY LocIsLocal, <2>h, <1>t DEF Local
  <2>1. CASE LoadAgent(h) \/ InsertNew(h) \/ InsertRejected(h)
    BY <2>1, <2>t, <2>h, <1>l, <1>t, GotoIsNoClaimer DEF LoadAgent, InsertNew, InsertRejected
  <2>2. CASE LockNothing(h) \/ LockTask(h) \/ Deliver(h)
    BY <2>2, <2>h, <1>l, <1>t, GotoIsNoClaimer DEF LockNothing, LockTask, Deliver, TryNextAgent
  <2>3. CASE SnapshotQueue(h)
    <3>1. CASE TryNextAgent(h, loc[h].agents)
      BY <3>1, <2>h, <1>l, <1>t, GotoIsNoClaimer DEF TryNextAgent
    <3>2. CASE Goto(h, "lock", [loc[h] EXCEPT !.tasks = Claimable(loc[h].agent)])
      <4>1. loc[h] \in Local /\ pc[h] = "snapshot"
        BY <2>3, <2>h, <1>t, LocIsLocal DEF SnapshotQueue, At
      <4>2. loc'[h].agent = loc[h].agent
        BY <3>2, <4>1, <2>h, <1>t DEF Goto, LocalTypes, Local
      <4> QED
        BY <3>2, <4>1, <4>2, <2>h, <1>t DEF Goto, LocalTypes, NoNewClaimer, Lasting
    <3> QED
      BY <2>3, <3>1, <3>2 DEF SnapshotQueue
  <2>4. CASE DetectLoop(h) \/ ContinueTask(h) \/ ContinuationRejected(h)
    BY <2>4, <2>h, <1>l, <1>t, GotoIsNoClaimer DEF DetectLoop, ContinueTask, ContinuationRejected
  <2>5. CASE Reconcile(h) \/ SetAgentStatus(h)
    BY <2>5, <2>h, <1>r
  <2>6. CASE WriteIssue(h) \/ CancelOnReassign(h) \/ CancelOnStatus(h)
    BY <2>6, <2>h, <1>l, <1>t, GotoIsNoClaimer DEF WriteIssue, CancelOnReassign, CancelOnStatus
  <2>7. CASE CancelOnArchive(h) \/ SkipIssue(h) \/ MigrateAgents(h) \/ MigrateTasks(h)
    BY <2>7, <2>h, <1>l, <1>t, GotoIsNoClaimer DEF CancelOnArchive, SkipIssue, MigrateAgents, MigrateTasks
  <2> QED
    BY <1>2, <2>1, <2>2, <2>3, <2>4, <2>5, <2>6, <2>7 DEF Serve
<1>3. CASE Sweep
  <2>s. Sweeper \in Process
    BY DEF Process
  <2>1. CASE SweepRuntimes \/ FailOffline \/ FailStale
    BY <2>1, <2>s, <1>l, <1>t, GotoIsNoClaimer DEF SweepRuntimes, FailOffline, FailStale, Broadcast
  <2>2. CASE ReadItem \/ CheckActive \/ ResetIssue
    BY <2>2, <2>s, <1>l, <1>t, GotoIsNoClaimer DEF ReadItem, CheckActive, ResetIssue, NextItem
  <2> QED
    BY <1>3, <1>r, <2>s, <2>1, <2>2 DEF Sweep
<1>4. CASE Environment
  <2>1. CASE Crash
    BY <2>1 DEF Crash, NoNewClaimer, Lasting
  <2>2. CASE ~Crash
    BY <1>4, <2>2, <1>u DEF Environment, StartTask, Age, RestoreAgent, BindAgent, DaemonDeregister,
       DaemonHeartbeat, Expire, Single
  <2> QED
    BY <2>1, <2>2
<1>5. CASE UNCHANGED vars
  BY <1>5, <1>u DEF vars
<1> QED
  BY <1>1, <1>2, <1>3, <1>4, <1>5 DEF Next

-----------------------------------------------------------------------------
(* Capacity: what a step does to the two counts *)

\* The agent of a row is written once, by the INSERT.
RowsKeepAgent == \A t \in Task : status[t] # "absent" => row'[t].agent = row[t].agent

LEMMA StepStartsNothing ==
    ASSUME TypeOK, [Next]_vars, ~\E h \in Handler : LockTask(h)
    PROVE  \A a : Running(a)' \subseteq Running(a)
<1> USE DEF Running, Of, TasksIn, Underway
<1>1. CASE Forward
  BY <1>1 DEF Forward
<1>2. CASE \E t \in Task, new \in Row : InsertTask(t, new)
  BY <1>2 DEF InsertTask, TypeOK, TaskTypes
<1> QED
  BY <1>1, <1>2, EveryStepIsTaskStep, TaskStepIsForward

LEMMA StepKeepsAgents == ASSUME TypeOK, [Next]_vars PROVE RowsKeepAgent
<1>1. CASE Forward
  BY <1>1 DEF Forward, RowsKeepAgent
<1>2. CASE \E t \in Task, new \in Row : InsertTask(t, new)
  BY <1>2 DEF InsertTask, TypeOK, TaskTypes, RowsKeepAgent
<1>3. CASE \E h \in Handler : LockTask(h)
  BY <1>3 DEF LockTask, ClaimAgentTask, SetStatus, RowsKeepAgent
<1> QED
  BY <1>1, <1>2, <1>3, EveryStepIsTaskStep, TaskStepIsForward

LEMMA StepKeepsSnapshotOwn ==
    ASSUME TypeOK, SnapshotIsOwn, [Next]_vars
    PROVE  SnapshotIsOwn'
<1> SUFFICES ASSUME NEW p \in Process, pc'[p] = "lock", NEW t \in loc'[p].tasks
             PROVE  row'[t].agent = loc'[p].agent
  BY DEF SnapshotIsOwn
<1>1. CASE SnapshotKept(p)
  <2>1. t \in loc[p].tasks /\ t \in Task /\ status[t] # "absent"
    BY <1>1, LocIsLocal, LocIsKnown DEF SnapshotKept, TypeOK, Local, Knows
  <2> QED
    BY <1>1, <2>1, StepKeepsAgents DEF SnapshotKept, SnapshotIsOwn, RowsKeepAgent
<1>2. CASE ~SnapshotKept(p) /\ UNCHANGED <<status, row>> /\ loc'[p].tasks = Claimable(loc[p].agent)
  <2>1. row'[t].agent = loc[p].agent
    BY <1>2 DEF Claimable, Of
  <2>2. CASE \E h \in Handler : CheckCapacity(h)
    <3>1. PICK h \in Handler : CheckCapacity(h)
      BY <2>2
    <3>2. loc'[p] = loc[p] /\ pc'[p] = pc[p]
      BY <3>1 DEF CheckCapacity, TryNextAgent, Goto, TypeOK, LocalTypes, Process
    <3> QED
      BY <3>2, <1>2 DEF SnapshotKept
  <2>3. CASE ~\E h \in Handler : CheckCapacity(h)
    BY <2>1, <2>3, StepHasNoNewClaimer DEF NoNewClaimer, Lasting
  <2> QED
    BY <2>2, <2>3
<1> QED
  BY <1>1, <1>2, SnapshotsAreOldOrFresh

LEMMA ClaimersAreFinite ==
    ASSUME IsFiniteSet(Handler), NEW S \in SUBSET Handler
    PROVE  IsFiniteSet(S) /\ Cardinality(S) \in Nat /\ Cardinality(S) <= Cardinality(Handler)
           /\ Cardinality(Handler) \in Nat
BY FS_Subset, FS_CardinalityType

LEMMA RestStays ==
    ASSUME IsFiniteSet(Handler), NEW a \in Agent, CapacityInv,
           Claimers(a)' \subseteq Claimers(a), Running(a)' \subseteq Running(a)
    PROVE  /\ IsFiniteSet(Running(a)')
           /\ Cardinality(Running(a)') + Cardinality(Claimers(a)')
                < MaxConcurrentTasks[a] + Cardinality(Handler)
<1>1. /\ IsFiniteSet(Running(a))
      /\ Cardinality(Running(a)) + Cardinality(Claimers(a))
           < MaxConcurrentTasks[a] + Cardinality(Handler)
  BY DEF CapacityInv
<1>2. /\ IsFiniteSet(Running(a)') /\ Cardinality(Running(a)') <= Cardinality(Running(a))
      /\ Cardinality(Running(a)') \in Nat /\ Cardinality(Running(a)) \in Nat
  BY <1>1, FS_Subset, FS_CardinalityType
<1>3. Claimers(a) \in SUBSET Handler
  BY DEF Claimers
<1>4. /\ Cardinality(Claimers(a)') <= Cardinality(Claimers(a))
      /\ Cardinality(Claimers(a)') \in Nat /\ Cardinality(Claimers(a)) \in Nat
      /\ Cardinality(Handler) \in Nat
  BY <1>3, ClaimersAreFinite, FS_Subset, FS_CardinalityType
<1>5. MaxConcurrentTasks[a] \in Nat
  BY StoreAssumption
<1> QED
  BY <1>1, <1>2, <1>4, <1>5

\* A goroutine that counts adds itself, with room for all of its kind.
LEMMA CountingKeepsCapacity ==
    ASSUME IsFiniteSet(Handler), TypeOK, CapacityInv, NEW h \in Handler, CheckCapacity(h),
           NEW a \in Agent
    PROVE  /\ IsFiniteSet(Running(a)')
           /\ Cardinality(Running(a)') + Cardinality(Claimers(a)')
                < MaxConcurrentTasks[a] + Cardinality(Handler)
<1>h. h \in Process /\ loc[h] \in Local /\ pc[h] = "count"
  BY LocIsLocal DEF Process, TypeOK, CheckCapacity, At
<1>1. Running(a)' = Running(a)
  BY DEF CheckCapacity, storeVars, taskVars, Running, Of, TasksIn
<1>2. CASE HasCapacity(a)
  <2>1. Claimers(a)' \in SUBSET Handler
    BY DEF Claimers
  <2>2. /\ Cardinality(Claimers(a)') <= Cardinality(Handler)
        /\ Cardinality(Claimers(a)') \in Nat /\ Cardinality(Handler) \in Nat
    BY <2>1, ClaimersAreFinite
  <2>3. IsFiniteSet(Running(a)) /\ Cardinality(Running(a)) \in Nat
    BY FS_CardinalityType DEF CapacityInv
  <2>4. Cardinality(Running(a)) < MaxConcurrentTasks[a] /\ MaxConcurrentTasks[a] \in Nat
    BY <1>2, StoreAssumption DEF HasCapacity, CountRunning, Running
  <2> QED
    BY <1>1, <2>2, <2>3, <2>4
<1>3. CASE ~HasCapacity(a)
  <2>1. PICK b \in loc[h].agents :
          IF HasCapacity(b)
          THEN Goto(h, "snapshot", [loc[h] EXCEPT !.agent = b, !.agents = loc[h].agents \ {b}])
          ELSE TryNextAgent(h, loc[h].agents \ {b})
    BY DEF CheckCapacity
  <2>2. \A g \in Handler \ {h} : pc'[g] = pc[g] /\ loc'[g] = loc[g]
    BY <2>1, <1>h DEF TryNextAgent, Goto, TypeOK, LocalTypes, Process
  <2>3. ~MayLock(h, a)'
    <3>1. CASE HasCapacity(b)
      <4>1. loc'[h] = [loc[h] EXCEPT !.agent = b, !.agents = loc[h].agents \ {b}]
        BY <2>1, <3>1, <1>h DEF Goto, TypeOK, LocalTypes
      <4>2. loc'[h].agent = b
        BY <4>1, <1>h DEF Local
      <4> QED
        BY <4>2, <3>1, <1>3 DEF MayLock
    <3>2. CASE ~HasCapacity(b)
      BY <2>1, <3>2, <1>h DEF TryNextAgent, Goto, TypeOK, LocalTypes, MayLock
    <3> QED
      BY <3>1, <3>2
  <2>4. Claimers(a)' \subseteq Claimers(a)
    BY <2>2, <2>3 DEF Claimers, MayLock
  <2> QED
    BY <1>1, <2>4, RestStays
<1> QED
  BY <1>2, <1>3

\* A lock turns one claimer of its agent into one task underway.
LEMMA LockingKeepsCapacity ==
    ASSUME IsFiniteSet(Handler), TypeOK, CapacityInv, [Next]_vars, NEW h \in Handler, LockTask(h),
           NEW a \in Agent
    PROVE  /\ IsFiniteSet(Running(a)')
           /\ Cardinality(Running(a)') + Cardinality(Claimers(a)')
                < MaxConcurrentTasks[a] + Cardinality(Handler)
<1>h. h \in Process /\ loc[h] \in Local /\ pc[h] = "lock"
  BY LocIsLocal DEF Process, TypeOK, LockTask, At
<1>1. PICK c \in Task : /\ ClaimAgentTask(c, loc[h].tasks)
                        /\ Goto(h, "deliver", [loc[h] EXCEPT !.task = c, !.tasks = {}])
  BY DEF LockTask
<1>2. /\ status[c] = "queued" /\ status'[c] = "dispatched" /\ row' = row
      /\ \A t \in Task \ {c} : status'[t] = status[t]
      /\ row[c].agent = loc[h].agent
  BY <1>1, <1>h DEF ClaimAgentTask, SetStatus, CapacityInv, SnapshotIsOwn
<1>3. /\ pc'[h] = "deliver"
      /\ \A g \in Handler \ {h} : pc'[g] = pc[g] /\ loc'[g] = loc[g]
  BY <1>1, <1>h DEF Goto, TypeOK, LocalTypes, Process
<1>4. Claimers(a)' = Claimers(a) \ {h}
  BY <1>3 DEF Claimers, MayLock
<1>5. CASE a # loc[h].agent
  <2>1. Running(a)' = Running(a)
    BY <1>2, <1>5 DEF Running, Of, TasksIn
  <2> QED
    BY <1>4, <2>1, RestStays
<1>6. CASE a = loc[h].agent
  <2>1. Running(a)' = Running(a) \cup {c}
    BY <1>2, <1>6 DEF Running, Of, TasksIn, Underway
  <2>2. h \in Claimers(a)
    BY <1>h, <1>6 DEF Claimers, MayLock
  <2>3. /\ IsFiniteSet(Running(a))
        /\ Cardinality(Running(a)) + Cardinality(Claimers(a))
             < MaxConcurrentTasks[a] + Cardinality(Handler)
    BY DEF CapacityInv
  <2>4. /\ IsFiniteSet(Running(a)') /\ Cardinality(Running(a)) \in Nat
        /\ Cardinality(Running(a)') \in Nat /\ Cardinality(Running(a)') <= Cardinality(Running(a)) + 1
    <3>1. /\ IsFiniteSet(Running(a) \cup {c})
          /\ Cardinality(Running(a) \cup {c})
               = IF c \in Running(a) THEN Cardinality(Running(a)) ELSE Cardinality(Running(a)) + 1
      BY <2>3, FS_AddElement
    <3>2. Cardinality(Running(a)) \in Nat
      BY <2>3, FS_CardinalityType
    <3> QED
      BY <2>1, <3>1, <3>2
  <2>5. IsFiniteSet(Claimers(a)) /\ Cardinality(Claimers(a)) \in Nat /\ Cardinality(Handler) \in Nat
    BY ClaimersAreFinite DEF Claimers
  <2>6. Cardinality(Claimers(a)') = Cardinality(Claimers(a)) - 1
    BY <1>4, <2>2, <2>5, FS_RemoveElement
  <2>7. MaxConcurrentTasks[a] \in Nat
    BY StoreAssumption
  <2> QED
    BY <2>3, <2>4, <2>5, <2>6, <2>7
<1> QED
  BY <1>5, <1>6

LEMMA NextCapacity ==
    ASSUME IsFiniteSet(Handler), TypeOK, CapacityInv, [Next]_vars
    PROVE  CapacityInv'
<1>1. SnapshotIsOwn'
  BY StepKeepsSnapshotOwn DEF CapacityInv
<1>2. ASSUME NEW a \in Agent
      PROVE  /\ IsFiniteSet(Running(a)')
             /\ Cardinality(Running(a)') + Cardinality(Claimers(a)')
                  < MaxConcurrentTasks[a] + Cardinality(Handler)
  <2>1. CASE ~\E h \in Handler : CheckCapacity(h) \/ LockTask(h)
    <3>1. Running(a)' \subseteq Running(a)
      BY <2>1, StepStartsNothing
    <3>2. Claimers(a)' \subseteq Claimers(a)
      BY <2>1, StepHasNoNewClaimer DEF NoNewClaimer, Lasting, Claimers, MayLock, Process
    <3> QED
      BY <3>1, <3>2, RestStays
  <2> QED
    BY <2>1, CountingKeepsCapacity, LockingKeepsCapacity
<1> QED
  BY <1>1, <1>2 DEF CapacityInv

LEMMA InitCapacity == ASSUME IsFiniteSet(Handler), Init PROVE CapacityInv
<1>1. SnapshotIsOwn
  BY DEF Init, SnapshotIsOwn
<1>2. ASSUME NEW a \in Agent PROVE Running(a) = {} /\ Claimers(a) = {}
  BY DEF Init, StoreInit, Running, Of, TasksIn, Underway, Claimers, MayLock, Process
<1>3. Cardinality({}) = 0 /\ IsFiniteSet({}) /\ Cardinality(Handler) \in Nat
  BY FS_EmptySet, FS_CardinalityType
<1>4. \A a \in Agent : MaxConcurrentTasks[a] \in Nat \ {0}
  BY StoreAssumption
<1> QED
  BY <1>1, <1>2, <1>3, <1>4 DEF CapacityInv

\* Claims that count together exceed max_concurrent_tasks, but by less than the
\* number of goroutines that serve requests, for any number of them.
THEOREM Overcommit == ASSUME IsFiniteSet(Handler) PROVE Spec => []OvercommitBounded
<1>1. Init => TypeOK /\ CapacityInv
  BY InitTypes, InitCapacity
<1>2. (TypeOK /\ CapacityInv) /\ [Next]_vars => (TypeOK /\ CapacityInv)'
  BY NextTypes, NextCapacity
<1>3. CapacityInv => OvercommitBounded
  <2> SUFFICES ASSUME CapacityInv, NEW a \in Agent
               PROVE  CountRunning(a) < MaxConcurrentTasks[a] + Cardinality(Handler)
    BY DEF OvercommitBounded
  <2>1. /\ Cardinality(Running(a)) + Cardinality(Claimers(a))
             < MaxConcurrentTasks[a] + Cardinality(Handler)
        /\ Cardinality(Running(a)) \in Nat
    BY FS_CardinalityType DEF CapacityInv
  <2>2. Cardinality(Claimers(a)) \in Nat /\ Cardinality(Handler) \in Nat
    BY ClaimersAreFinite DEF Claimers
  <2>3. MaxConcurrentTasks[a] \in Nat
    BY StoreAssumption
  <2> QED
    BY <2>1, <2>2, <2>3 DEF CountRunning, Running
<1> QED
  BY <1>1, <1>2, <1>3, PTL DEF Spec

-----------------------------------------------------------------------------
(* Chains of continuations *)


\* The goroutine handles the failure of the task.
Failing(p, t) == pc[p] \in {"loop", "continue"} /\ loc[p].task = t

\* No continuation of it is inserted yet, and nobody else inserts one.
FailingOnce ==
    \A p \in Process, t \in Task : Failing(p, t) =>
        /\ status[t] = "failed"
        /\ \A u \in Task : row[u].parent # t
        /\ \A q \in Process : Failing(q, t) => q = p
        /\ "retry" \in loc[p].marks => row[t].index < MaxContinuations
        /\ pc[p] = "continue" => "retry" \in loc[p].marks

AbsentFresh == \A t \in Task : status[t] = "absent" => row[t].parent = None /\ row[t].index = 0

\* The inductive invariant behind ContinuationSound.
ChainInv == ContinuationSound /\ AbsentFresh /\ FailingOnce

-----------------------------------------------------------------------------
(* Goroutines that handle a failure *)

FailingKept(p) ==
    pc'[p] \in {"loop", "continue"} => pc[p] \in {"loop", "continue"} /\ pc'[p] = pc[p] /\ loc'[p] = loc[p]

Calm == /\ \A p \in Process : FailingKept(p)
        /\ UNCHANGED loopVars \/ "resolve" \in Inputs

LEMMA GotoIsCalm ==
    ASSUME LocalTypes, UNCHANGED loopVars, NEW q \in Process,
           NEW label \in Label \ {"loop", "continue"}, NEW l, Goto(q, label, l)
    PROVE  Calm
BY DEF LocalTypes, Goto, Calm, FailingKept

LEMMA StepIsCalm ==
    ASSUME TypeOK, [Next]_vars,
           ~\E h \in Process : DetectLoop(h) \/ \E t \in Task, reason \in Reason : FailTask(h, t, reason)
    PROVE  Calm
<1>l. Label \ {"loop", "continue"} = {"idle", "load", "insert", "count", "snapshot", "lock",
        "deliver", "reconcile", "setStatus", "writeIssue", "reassign", "cancelIssue",
        "cancelAgent", "skip", "migrateAgents", "migrateTasks",
        "offline", "item", "hasActive", "reset", "stale"}
  BY DEF Label
<1>t. LocalTypes
  BY DEF TypeOK
<1>u. ASSUME UNCHANGED <<pc, loc, loopVars>> PROVE Calm
  BY <1>u DEF Calm, FailingKept
<1>1. ASSUME NEW h \in Handler, Arrive(h) PROVE Calm
  <2>h. h \in Process
    BY DEF Process
  <2>1. CASE \/ \E i \in Issue : Comment(h, i) \/ UpdateIssue(h, i)
             \/ \E i \in Issue, a \in Agent : Mention(h, i, a)
             \/ \E c \in Chat : SendChatMessage(h, c)
    BY <2>1, <2>h, <1>l, <1>t, GotoIsCalm DEF Comment, UpdateIssue, Mention, SendChatMessage, Enqueue, storeVars
  <2>2. CASE \E i \in Issue, a \in Agent : ResolveLoop(h, i, a)
    <3>1. \/ \E l : Goto(h, "load", l) \/ Goto(h, "skip", l)
          \/ UNCHANGED <<pc, loc>>
      BY <2>2 DEF ResolveLoop, Enqueue
    <3>2. "resolve" \in Inputs
      BY <2>2 DEF ResolveLoop, Request
    <3> QED
      BY <3>1, <3>2, <2>h, <1>t DEF Calm, FailingKept, Goto, LocalTypes
  <2>3. CASE \E r \in Runtime : ClaimTaskForRuntime(h, r) \/ DaemonRegister(h, r)
    BY <2>3, <2>h, <1>l, <1>t, GotoIsCalm DEF ClaimTaskForRuntime, DaemonRegister, storeVars
  <2>4. CASE \E t \in Task : CompleteTask(h, t) \/ CancelTask(h, t)
    BY <2>4, <2>h, <1>l, <1>t, GotoIsCalm DEF CompleteTask, CancelTask, ReconcileThen
  <2>6. CASE \E a \in Agent : ArchiveAgent(h, a)
    BY <2>6, <2>h, <1>l, <1>t, GotoIsCalm DEF ArchiveAgent
  <2> QED
    BY <1>1, <2>h, <2>1, <2>2, <2>3, <2>4, <2>6 DEF Arrive
<1>2. ASSUME NEW h \in Process, Serve(h) PROVE Calm
  <2>t. loc[h].then \in {"idle", "stale", "cancelIssue"}
    BY LocIsLocal, <1>t DEF Local
  <2>1. CASE LoadAgent(h) \/ InsertNew(h) \/ InsertRejected(h)
    BY <2>1, <2>t, <1>2, <1>l, <1>t, GotoIsCalm DEF LoadAgent, InsertNew, InsertRejected, storeVars
  <2>2. CASE CheckCapacity(h) \/ LockNothing(h) \/ SnapshotQueue(h) \/ LockTask(h) \/ Deliver(h)
    BY <2>2, <1>2, <1>l, <1>t, GotoIsCalm
    DEF CheckCapacity, LockNothing, SnapshotQueue, LockTask, Deliver, TryNextAgent, storeVars
  <2>3. CASE ContinueTask(h) \/ ContinuationRejected(h)
    BY <2>3, <1>2, <1>l, <1>t, GotoIsCalm DEF ContinueTask, ContinuationRejected, storeVars
  <2>5. CASE Reconcile(h) \/ SetAgentStatus(h)
    BY <2>5, <2>t, <1>2, <1>l, <1>t, GotoIsCalm DEF Reconcile, SetAgentStatus, ReconcileThen, storeVars
  <2>6. CASE WriteIssue(h) \/ CancelOnReassign(h) \/ CancelOnStatus(h)
    BY <2>6, <1>2, <1>l, <1>t, GotoIsCalm DEF WriteIssue, CancelOnReassign, CancelOnStatus
  <2>7. CASE CancelOnArchive(h) \/ SkipIssue(h) \/ MigrateAgents(h) \/ MigrateTasks(h)
    BY <2>7, <1>2, <1>l, <1>t, GotoIsCalm DEF CancelOnArchive, SkipIssue, MigrateAgents, MigrateTasks
  <2> QED
    BY <1>2, <2>1, <2>2, <2>3, <2>5, <2>6, <2>7 DEF Serve
<1>3. CASE Sweep
  <2>s. Sweeper \in Process
    BY DEF Process
  <2>1. CASE SweepRuntimes \/ FailOffline \/ FailStale
    BY <2>1, <2>s, <1>l, <1>t, GotoIsCalm DEF SweepRuntimes, FailOffline, FailStale, Broadcast
  <2>2. CASE ReadItem \/ CheckActive \/ ResetIssue
    BY <2>2, <2>s, <1>l, <1>t, GotoIsCalm DEF ReadItem, CheckActive, ResetIssue, NextItem, storeVars
  <2>3. CASE Reconcile(Sweeper) \/ SetAgentStatus(Sweeper)
    BY <2>3, <2>s, <1>2 DEF Serve
  <2> QED
    BY <1>3, <2>1, <2>2, <2>3 DEF Sweep
<1>4. CASE Environment
  <2>1. CASE Crash
    BY <2>1 DEF Crash, Calm, FailingKept, storeVars
  <2>2. CASE ~Crash
    BY <1>4, <2>2, <1>u DEF Environment, StartTask, Age, RestoreAgent, BindAgent, DaemonDeregister,
       DaemonHeartbeat, Expire, Single
  <2> QED
    BY <2>1, <2>2
<1>5. CASE UNCHANGED vars
  BY <1>5, <1>u DEF vars, storeVars
<1> QED
  BY <1>1, <1>2, <1>3, <1>4, <1>5 DEF Next, Process

-----------------------------------------------------------------------------
(* What a step may do to the rows *)

\* The columns of a chain, and that a failure is final.
SameChains ==
    \A t \in Task : /\ row'[t].agent = row[t].agent /\ row'[t].target = row[t].target
                    /\ row'[t].parent = row[t].parent /\ row'[t].index = row[t].index
                    /\ status'[t] = "absent" <=> status[t] = "absent"
                    /\ status[t] = "failed" => status'[t] = "failed"

Inserted(n, new) ==
    /\ status[n] = "absent" /\ status'[n] = "queued" /\ row'[n] = new
    /\ \A t \in Task \ {n} : status'[t] = status[t] /\ row'[t] = row[t]

LEMMA EveryStepOnRows ==
    ASSUME TypeOK, [Next]_vars
    PROVE  SameChains \/ \E n \in Task, new \in Row : Inserted(n, new) /\ Originates(new)
<1> USE DEF Underway, Live, Pending, TypeOK, TaskTypes, SameChains
<1>1. CASE UNCHANGED <<status, row>>
  BY <1>1
<1>2. ASSUME NEW t \in Task, NEW new \in Row, InsertTask(t, new) PROVE Inserted(t, new)
  BY <1>2 DEF InsertTask, Inserted
<1>3. CASE \E h \in Handler : LockTask(h)
  BY <1>3 DEF LockTask, ClaimAgentTask, SetStatus
<1>4. CASE \E t \in Task : StartAgentTask(t) \/ CompleteAgentTask(t)
  BY <1>4 DEF StartAgentTask, CompleteAgentTask, SetStatus
<1>5. CASE \E S \in SUBSET TasksIn(Underway) : SetStatus(S, "failed")
  BY <1>5 DEF SetStatus, TasksIn
<1>6. CASE \E S \in SUBSET TasksIn(Live) : SetStatus(S, "cancelled")
  BY <1>6 DEF SetStatus, TasksIn
<1>7. CASE \E r \in Runtime : MigrateQueuedTasksToRuntime(r)
  BY <1>7 DEF MigrateQueuedTasksToRuntime, Row
<1> QED
  BY <1>1, <1>2, <1>3, <1>4, <1>5, <1>6, <1>7, EveryStepIsTaskStep DEF TaskStep

LEMMA ParentIsTask ==
    ASSUME TypeOK, NEW t \in Task
    PROVE  row[t].parent \in Task \cup {None} /\ row[t].index \in Nat
BY DEF TypeOK, TaskTypes, Row

LEMMA SameChainsKeepSound ==
    ASSUME TypeOK, ContinuationSound, AbsentFresh, SameChains
    PROVE  ContinuationSound' /\ AbsentFresh'
<1>1. ContinuationSound'
  <2> SUFFICES ASSUME NEW t \in Task, row[t].parent # None
               PROVE  LET p == row[t].parent
                      IN  /\ status'[p] = "failed"
                          /\ row'[t].agent = row'[p].agent /\ row'[t].target = row'[p].target
                          /\ row'[t].index = row'[p].index + 1 /\ row'[t].index <= MaxContinuations
                          /\ \A u \in Task : row'[u].parent = p => u = t
    BY DEF ContinuationSound, SameChains
  <2>1. row[t].parent \in Task
    BY ParentIsTask
  <2> QED
    BY <2>1 DEF ContinuationSound, SameChains
<1>2. AbsentFresh'
  BY DEF AbsentFresh, SameChains
<1> QED
  BY <1>1, <1>2

LEMMA CalmKeepsFailing ==
    ASSUME ChainInv, Calm, SameChains
    PROVE  FailingOnce'
<1>1. \A p \in Process, t \in Task : Failing(p, t)' => Failing(p, t) /\ loc'[p] = loc[p] /\ pc'[p] = pc[p]
  BY DEF Calm, FailingKept, Failing
<1> QED
  BY <1>1 DEF ChainInv, FailingOnce, SameChains

\* A new row without a parent is in no chain.
LEMMA InsertKeepsChains ==
    ASSUME TypeOK, ChainInv, Calm, NEW n \in Task, NEW new \in Row, Inserted(n, new),
           new.parent = None, new.index = 0
    PROVE  ChainInv'
<1>1. \A u \in Task \ {n} : row'[u] = row[u] /\ status'[u] = status[u]
  BY DEF Inserted
<1>2. \A u \in Task : row'[u].parent = row[u].parent /\ row'[u].index = row[u].index
  BY <1>1 DEF Inserted, ChainInv, AbsentFresh
<1>3. \A u \in Task : row[u].parent # n
  BY StoreAssumption DEF Inserted, ChainInv, ContinuationSound
<1>4. AbsentFresh'
  BY <1>1, <1>2 DEF Inserted, ChainInv, AbsentFresh
<1>5. ContinuationSound'
  <2> SUFFICES ASSUME NEW t \in Task, row'[t].parent # None
               PROVE  LET p == row'[t].parent
                      IN  /\ status'[p] = "failed"
                          /\ row'[t].agent = row'[p].agent /\ row'[t].target = row'[p].target
                          /\ row'[t].index = row'[p].index + 1 /\ row'[t].index <= MaxContinuations
                          /\ \A u \in Task : row'[u].parent = p => u = t
    BY DEF ContinuationSound
  <2> DEFINE p == row[t].parent
  <2>1. t # n /\ p \in Task \ {n} /\ p = row'[t].parent
    BY <1>2, <1>3, ParentIsTask DEF Inserted
  <2>2. /\ status[p] = "failed"
        /\ row[t].agent = row[p].agent /\ row[t].target = row[p].target
        /\ row[t].index = row[p].index + 1 /\ row[t].index <= MaxContinuations
        /\ \A u \in Task : row[u].parent = p => u = t
    BY <2>1, <1>2 DEF ChainInv, ContinuationSound
  <2> HIDE DEF p
  <2> QED
    BY <1>1, <1>2, <2>1, <2>2
<1>6. FailingOnce'
  <2>1. \A p \in Process, t \in Task : Failing(p, t)' => Failing(p, t) /\ loc'[p] = loc[p] /\ pc'[p] = pc[p]
    BY DEF Calm, FailingKept, Failing
  <2>2. \A p \in Process, t \in Task : Failing(p, t) => t # n
    BY DEF ChainInv, FailingOnce, Inserted
  <2> QED
    BY <1>1, <1>2, <2>1, <2>2 DEF ChainInv, FailingOnce
<1> QED
  BY <1>4, <1>5, <1>6 DEF ChainInv

\* The first continuation of a failed task, and the last: who inserts it is
\* done with the task.
LEMMA ContinueKeepsChains ==
    ASSUME TypeOK, ChainInv, Calm, NEW n \in Task, NEW new \in Row, Inserted(n, new),
           NEW h \in Process, ContinueTask(h), new = ContinuationRow(loc[h].task)
    PROVE  ChainInv'
<1> DEFINE f == loc[h].task
<1>1. pc[h] = "continue" /\ f \in Task
  BY LocIsLocal DEF ContinueTask, At, TypeOK, LocalAt
<1>2. Failing(h, f)
  BY <1>1 DEF Failing
<1>3. /\ status[f] = "failed" /\ \A u \in Task : row[u].parent # f
      /\ row[f].index < MaxContinuations /\ row[f].index \in Nat /\ MaxContinuations \in Nat
  BY <1>1, <1>2, ParentIsTask, StoreAssumption DEF ChainInv, FailingOnce
<1>4. row[f] \in Row
  BY <1>1 DEF TypeOK, TaskTypes
<1>5. /\ row'[n].parent = f /\ row'[n].index = row[f].index + 1
      /\ row'[n].agent = row[f].agent /\ row'[n].target = row[f].target
  BY <1>4 DEF Inserted, ContinuationRow, Row
<1>6. n # f /\ status[n] = "absent" /\ status'[n] = "queued"
      /\ \A u \in Task \ {n} : row'[u] = row[u] /\ status'[u] = status[u]
  BY <1>3 DEF Inserted
<1>7. \A u \in Task : row[u].parent # n
  BY <1>6, StoreAssumption DEF ChainInv, ContinuationSound
<1> HIDE DEF f
<1>8. AbsentFresh'
  BY <1>6 DEF ChainInv, AbsentFresh
<1>9. ContinuationSound'
  <2> SUFFICES ASSUME NEW t \in Task, row'[t].parent # None
               PROVE  LET p == row'[t].parent
                      IN  /\ status'[p] = "failed"
                          /\ row'[t].agent = row'[p].agent /\ row'[t].target = row'[p].target
                          /\ row'[t].index = row'[p].index + 1 /\ row'[t].index <= MaxContinuations
                          /\ \A u \in Task : row'[u].parent = p => u = t
    BY DEF ContinuationSound
  <2>1. CASE t = n
    BY <1>1, <1>3, <1>5, <1>6, <2>1
  <2>2. CASE t # n
    <3> DEFINE p == row[t].parent
    <3>1. p \in Task \ {n} /\ p = row'[t].parent /\ p # f
      BY <1>3, <1>6, <1>7, <2>2, ParentIsTask
    <3>2. /\ status[p] = "failed"
          /\ row[t].agent = row[p].agent /\ row[t].target = row[p].target
          /\ row[t].index = row[p].index + 1 /\ row[t].index <= MaxContinuations
          /\ \A u \in Task : row[u].parent = p => u = t
      BY <3>1, StoreAssumption DEF ChainInv, ContinuationSound
    <3> HIDE DEF p
    <3> QED
      BY <1>5, <1>6, <2>2, <3>1, <3>2
  <2> QED
    BY <2>1, <2>2
<1>10. FailingOnce'
  <2>1. \A p \in Process, t \in Task : Failing(p, t)' => Failing(p, t) /\ loc'[p] = loc[p] /\ pc'[p] = pc[p]
    BY DEF Calm, FailingKept, Failing
  <2>2. \A p \in Process, t \in Task : Failing(p, t) => t # n
    BY <1>6 DEF ChainInv, FailingOnce
  <2>3. pc'[h] = "reconcile"
    BY DEF ContinueTask, Goto, TypeOK, LocalTypes
  <2>4. \A p \in Process, t \in Task : Failing(p, t)' => t # f
    BY <1>1, <1>2, <2>1, <2>3 DEF ChainInv, FailingOnce, Failing
  <2> QED
    BY <1>5, <1>6, <2>1, <2>2, <2>4 DEF ChainInv, FailingOnce
<1> QED
  BY <1>8, <1>9, <1>10 DEF ChainInv

\* Who fails a task is the only one, and nothing continues it yet.
LEMMA FailKeepsChains ==
    ASSUME TypeOK, ChainInv, NEW h \in Process, NEW t \in Task, NEW reason \in Reason, FailTask(h, t, reason)
    PROVE  ChainInv'
<1> DEFINE l == [NoLoc EXCEPT !.task = t, !.agents = {row[t].agent},
                   !.marks = IF MayContinue(t, reason) THEN {"retry"} ELSE {}]
<1>1. status[t] \in Underway /\ SetStatus({t}, "failed")
  BY DEF FailTask, FailAgentTask
<1>2. SameChains
  BY <1>1 DEF SetStatus, SameChains, Underway, TypeOK, TaskTypes
<1>3. ContinuationSound' /\ AbsentFresh'
  BY <1>2, SameChainsKeepSound DEF ChainInv
<1>4. /\ status'[t] = "failed"
      /\ \A u \in Task : row[u].parent # t
      /\ \A p \in Process : ~Failing(p, t)
  BY <1>1, StoreAssumption DEF SetStatus, Underway, ChainInv, ContinuationSound, FailingOnce
<1>5. /\ l.task = t
      /\ "retry" \in l.marks => row[t].index < MaxContinuations
      /\ l.marks # {} => "retry" \in l.marks
  BY DEF NoLoc, MayContinue
<1>6. \E label \in {"loop", "continue", "reconcile"} :
          Goto(h, label, l) /\ (label = "continue" => l.marks # {})
  BY DEF FailTask
<1> HIDE DEF l
<1>7. /\ \A p \in Process \ {h} : pc'[p] = pc[p] /\ loc'[p] = loc[p]
      /\ loc'[h] = l /\ (pc'[h] = "continue" => "retry" \in l.marks)
  BY <1>5, <1>6 DEF Goto, TypeOK, LocalTypes
<1>8. \A p \in Process, u \in Task : Failing(p, u)' =>
          IF p = h THEN u = t ELSE u # t /\ Failing(p, u)
  BY <1>4, <1>5, <1>7 DEF Failing
<1>9. FailingOnce'
  BY <1>2, <1>4, <1>5, <1>7, <1>8 DEF ChainInv, FailingOnce, SameChains
<1> QED
  BY <1>3, <1>9 DEF ChainInv

LEMMA DetectLoopSteps ==
    ASSUME TypeOK, NEW h \in Process, DetectLoop(h)
    PROVE  /\ UNCHANGED taskVars /\ SameChains /\ pc[h] = "loop" /\ loc[h].task \in Task
           /\ loc'[h] = loc[h] /\ pc'[h] \in {"continue", "reconcile"}
           /\ pc'[h] = "continue" => "retry" \in loc[h].marks
                                     /\ ~Escalates(row[loc[h].task].target, row[loc[h].task].agent)
           /\ \A p \in Process \ {h} : pc'[p] = pc[p] /\ loc'[p] = loc[p]
<1>1. UNCHANGED taskVars /\ SameChains
  BY DEF DetectLoop, taskVars, SameChains
<1>2. pc[h] = "loop" /\ loc[h].task \in Task
  BY LocIsLocal DEF DetectLoop, At, TypeOK, LocalAt
<1>3. pc \in [Process -> Label] /\ loc \in [Process -> Local]
  BY DEF TypeOK, LocalTypes
<1> DEFINE label == IF "retry" \in loc[h].marks /\ ~Escalates(row[loc[h].task].target, row[loc[h].task].agent)
                    THEN "continue" ELSE "reconcile"
<1>4. Goto(h, label, loc[h])
  BY DEF DetectLoop
<1>5. label \in {"continue", "reconcile"}
  OBVIOUS
<1>6. pc'[h] = label /\ loc'[h] = loc[h] /\ \A p \in Process \ {h} : pc'[p] = pc[p] /\ loc'[p] = loc[p]
  <2> HIDE DEF label
  <2> QED
    BY <1>3, <1>4, <1>5 DEF Goto
<1> QED
  BY <1>1, <1>2, <1>6

LEMMA DetectLoopKeepsChains ==
    ASSUME TypeOK, ChainInv, NEW h \in Process, DetectLoop(h)
    PROVE  ChainInv'
<1>1. ContinuationSound' /\ AbsentFresh'
  BY DetectLoopSteps, SameChainsKeepSound DEF ChainInv
<1>2. \A p \in Process, t \in Task : Failing(p, t)' => Failing(p, t) /\ loc'[p] = loc[p]
  BY DetectLoopSteps DEF Failing
<1>3. \A p \in Process : pc'[p] = "continue" => pc[p] = "continue" \/ "retry" \in loc[p].marks
  BY DetectLoopSteps
<1>4. FailingOnce'
  BY <1>2, <1>3, DetectLoopSteps DEF ChainInv, FailingOnce, SameChains
<1> QED
  BY <1>1, <1>4 DEF ChainInv

-----------------------------------------------------------------------------
LEMMA InitChains == Init => ChainInv
BY StoreAssumption DEF Init, StoreInit, ChainInv, ContinuationSound, AbsentFresh, FailingOnce, Failing, NoRow

LEMMA NextChains == TypeOK /\ ChainInv /\ [Next]_vars => ChainInv'
<1> SUFFICES ASSUME TypeOK, ChainInv, [Next]_vars PROVE ChainInv'
  OBVIOUS
<1>1. CASE \E h \in Process, t \in Task, reason \in Reason : FailTask(h, t, reason)
  BY <1>1, FailKeepsChains
<1>2. CASE \E h \in Process : DetectLoop(h)
  BY <1>2, DetectLoopKeepsChains
<1>3. CASE ~\E h \in Process : DetectLoop(h) \/ \E t \in Task, reason \in Reason : FailTask(h, t, reason)
  <2>1. Calm
    BY <1>3, StepIsCalm
  <2>2. CASE SameChains
    BY <2>1, <2>2, SameChainsKeepSound, CalmKeepsFailing DEF ChainInv
  <2>3. ASSUME NEW n \in Task, NEW new \in Row, Inserted(n, new), Originates(new) PROVE ChainInv'
    BY <2>1, <2>3, InsertKeepsChains, ContinueKeepsChains DEF Originates, NewRow, Process
  <2> QED
    BY <2>2, <2>3, EveryStepOnRows
<1> QED
  BY <1>1, <1>2, <1>3

\* A failed task is continued once at most, by the same agent on the same
\* target, one step further in the chain and within its limit, whatever
\* failures, claims and crashes interleave.
THEOREM ContinuedOnce == Spec => []ContinuationSound
<1>1. Init => TypeOK /\ ChainInv
  BY InitTypes, InitChains
<1>2. (TypeOK /\ ChainInv) /\ [Next]_vars => (TypeOK /\ ChainInv)'
  BY NextTypes, NextChains
<1>3. ChainInv => ContinuationSound
  BY DEF ChainInv
<1> QED
  BY <1>1, <1>2, <1>3, PTL DEF Spec

-----------------------------------------------------------------------------
(* Escalation *)

\* As many failures of its (issue, agent) are counted, and it is no escalation.
Counted(t, n) ==
    row[t].target \in Issue => n < EscalateAt /\ n <= failures[row[t].target][row[t].agent]

\* The index of a task is the number of failures before it; who is about to
\* continue a task has counted its failure too.
CountedInv ==
    /\ \A t \in Task : status[t] # "absent" => Counted(t, row[t].index)
    /\ \A p \in Process, t \in Task :
           pc[p] = "continue" /\ loc[p].task = t => Counted(t, row[t].index + 1)

\* Without "resolve", no counter goes back.
CountsGrow ==
    \A i \in Issue, a \in Agent : failures[i][a] \in Nat /\ failures'[i][a] \in Nat /\ failures'[i][a] >= failures[i][a]

LEMMA SameCountsGrow == ASSUME TypeOK, UNCHANGED loopVars PROVE CountsGrow
BY DEF TypeOK, LoopTypes, loopVars, CountsGrow, EscalateAt

LEMMA CountedStays ==
    ASSUME TypeOK, CountsGrow, NEW t \in Task, row[t].agent \in Agent, NEW n \in Nat, Counted(t, n),
           row'[t].agent = row[t].agent, row'[t].target = row[t].target
    PROVE  Counted(t, n)'
<1>1. CASE row[t].target \in Issue
  <2>1. /\ n < EscalateAt /\ n <= failures[row[t].target][row[t].agent]
        /\ failures[row[t].target][row[t].agent] \in Nat
        /\ failures'[row[t].target][row[t].agent] \in Nat
        /\ failures'[row[t].target][row[t].agent] >= failures[row[t].target][row[t].agent]
    BY <1>1 DEF Counted, CountsGrow
  <2> QED
    BY <2>1 DEF Counted
<1>2. CASE row[t].target \notin Issue
  BY <1>2 DEF Counted
<1> QED
  BY <1>1, <1>2

LEMMA RowTypes ==
    ASSUME TypeOK, NEW t \in Task, status[t] # "absent"
    PROVE  row[t].agent \in Agent /\ row[t].index \in Nat /\ row[t].index + 1 \in Nat
BY DEF TypeOK, TaskTypes, RowsNameAgents, Row

LEMMA CountedIndexStays ==
    ASSUME TypeOK, CountsGrow, NEW t \in Task, status[t] # "absent", NEW d \in {0, 1},
           row'[t].agent = row[t].agent, row'[t].target = row[t].target, row'[t].index = row[t].index,
           Counted(t, row[t].index + d)
    PROVE  Counted(t, row[t].index + d)'
<1>1. PICK n \in Nat : n = row[t].index + d
  BY RowTypes
<1>2. Counted(t, n)'
  BY <1>1, RowTypes, CountedStays
<1>3. row'[t].index + d = n
  BY <1>1
<1> QED
  BY <1>2, <1>3 DEF Counted

LEMMA KeptCounts ==
    ASSUME TypeOK, CountedInv, CountsGrow, SameChains,
           \A p \in Process, t \in Task : pc'[p] = "continue" /\ loc'[p].task = t =>
               (pc[p] = "continue" /\ loc[p].task = t) \/ Counted(t, row[t].index + 1)'
    PROVE  CountedInv'
<1>1. ASSUME NEW t \in Task, status'[t] # "absent" PROVE Counted(t, row[t].index)'
  <2>1. status[t] # "absent" /\ row'[t].index \in Nat /\ row[t].index \in Nat
    BY <1>1, RowTypes DEF SameChains
  <2>2. Counted(t, row[t].index + 0)
    BY <2>1 DEF CountedInv
  <2>3. Counted(t, row[t].index + 0)'
    BY <2>1, <2>2, CountedIndexStays DEF SameChains
  <2> QED
    BY <2>1, <2>3 DEF Counted
<1>2. ASSUME NEW p \in Process, NEW t \in Task, pc'[p] = "continue", loc'[p].task = t
      PROVE  Counted(t, row[t].index + 1)'
  <2>1. CASE pc[p] = "continue" /\ loc[p].task = t
    <3>1. status[t] # "absent" /\ Counted(t, row[t].index + 1)
      BY <2>1, LocIsKnown DEF CountedInv, TypeOK, Knows
    <3> QED
      BY <3>1, CountedIndexStays DEF SameChains
  <2> QED
    BY <1>2, <2>1
<1> QED
  BY <1>1, <1>2 DEF CountedInv

\* What is inserted is the first of a chain, or one further than a task whose
\* failure was counted.
LEMMA InsertCounts ==
    ASSUME TypeOK, TypeOK', CountedInv, Calm, UNCHANGED loopVars,
           NEW n \in Task, NEW new \in Row, Inserted(n, new), Originates(new)
    PROVE  CountedInv'
<1>1. \A t \in Task \ {n} : row'[t] = row[t] /\ status'[t] = status[t]
  BY DEF Inserted
<1>2. row'[n] = new /\ status[n] = "absent" /\ new.agent \in Agent /\ failures' = failures
  <2>1. status'[n] # "absent" /\ row'[n] = new
    BY DEF Inserted
  <2> QED
    BY <2>1 DEF Inserted, TypeOK, RowsNameAgents, loopVars
<1>3. \A t \in Task \ {n}, k \in Nat : Counted(t, k) => Counted(t, k)'
  BY <1>1, <1>2 DEF Counted
<1>4. ASSUME NEW t \in Task, status'[t] # "absent" PROVE Counted(t, row[t].index)'
  <2>1. CASE t # n
    <3>1. status[t] # "absent" /\ Counted(t, row[t].index) /\ row'[t] = row[t]
      BY <1>1, <1>4, <2>1 DEF CountedInv
    <3> QED
      BY <1>2, <3>1 DEF Counted
  <2>2. CASE t = n /\ \E h \in Handler : new = NewRow(h)
    <3>1. new.target \in Issue => failures[new.target][new.agent] \in 0..EscalateAt
      BY <1>2 DEF TypeOK, LoopTypes
    <3> QED
      BY <1>2, <2>2, <3>1 DEF Counted, EscalateAt, NewRow
  <2>3. CASE t = n /\ \E h \in Process : ContinueTask(h) /\ new = ContinuationRow(loc[h].task)
    <3>1. PICK h \in Process : ContinueTask(h) /\ new = ContinuationRow(loc[h].task)
      BY <2>3
    <3> DEFINE f == loc[h].task
    <3>2. f \in Task /\ Counted(f, row[f].index + 1)
      BY <3>1, LocIsLocal DEF ContinueTask, At, TypeOK, LocalAt, CountedInv
    <3>3. new.agent = row[f].agent /\ new.target = row[f].target /\ new.index = row[f].index + 1
      BY <3>1, <3>2 DEF ContinuationRow, TypeOK, TaskTypes, Row
    <3> HIDE DEF f
    <3> QED
      BY <1>2, <2>3, <3>2, <3>3 DEF Counted
  <2> QED
    BY <2>1, <2>2, <2>3 DEF Originates, Process
<1>5. ASSUME NEW p \in Process, NEW t \in Task, pc'[p] = "continue", loc'[p].task = t
      PROVE  Counted(t, row[t].index + 1)'
  <2>1. pc[p] = "continue" /\ loc[p].task = t
    BY <1>5 DEF Calm, FailingKept
  <2>2. t # n /\ Counted(t, row[t].index + 1)
    BY <1>2, <2>1, LocIsKnown DEF CountedInv, TypeOK, Knows
  <2> QED
    BY <1>1, <1>2, <2>2 DEF Counted
<1> QED
  BY <1>4, <1>5 DEF CountedInv

\* A failure of a task of an issue is counted before it is continued.
LEMMA FailCounts ==
    ASSUME TypeOK, CountedInv, NEW h \in Process, NEW t \in Task, NEW reason \in Reason, FailTask(h, t, reason)
    PROVE  CountedInv'
<1> DEFINE l == [NoLoc EXCEPT !.task = t, !.agents = {row[t].agent},
                   !.marks = IF MayContinue(t, reason) THEN {"retry"} ELSE {}]
<1>1. SameChains /\ CountsGrow
  BY SameCountsGrow DEF FailTask, FailAgentTask, SetStatus, SameChains, Underway, TypeOK, TaskTypes
<1>2. l.task = t /\ \E label \in {"loop", "continue", "reconcile"} :
          Goto(h, label, l) /\ (label = "continue" => row[t].target \notin Issue)
  BY DEF FailTask, NoLoc
<1> HIDE DEF l
<1>3. /\ \A p \in Process \ {h} : pc'[p] = pc[p] /\ loc'[p] = loc[p]
      /\ loc'[h].task = t /\ (pc'[h] = "continue" => row[t].target \notin Issue)
  BY <1>2 DEF Goto, TypeOK, LocalTypes
<1>4. row[t].target \notin Issue => Counted(t, row[t].index + 1)'
  BY <1>1 DEF Counted, SameChains
<1> QED
  BY <1>1, <1>3, <1>4, KeptCounts

LEMMA DetectLoopCounts ==
    ASSUME TypeOK, CountedInv, NEW h \in Process, DetectLoop(h)
    PROVE  CountedInv'
<1>0. PICK t \in Task : t = loc[h].task
  BY DetectLoopSteps
<1> DEFINE i == row[t].target
           a == row[t].agent
<1>1. status[t] # "absent" /\ a \in Agent /\ row[t].index \in Nat /\ UNCHANGED row
  BY <1>0, DetectLoopSteps, LocIsKnown, RowTypes DEF TypeOK, Knows, taskVars
<1>2. failures' = [failures EXCEPT ![i][a] = NextFailures(i, a)]
  BY <1>0 DEF DetectLoop, UpsertLoopDetection
<1>3. failures \in [Issue -> [Agent -> 0..EscalateAt]]
  BY DEF TypeOK, LoopTypes
<1>4. Counted(t, row[t].index)
  BY <1>1 DEF CountedInv
<1> HIDE DEF i, a
<1>5. i \in Issue => /\ failures[i][a] \in 0..EscalateAt /\ failures'[i][a] = NextFailures(i, a)
                     /\ NextFailures(i, a) \in 0..EscalateAt /\ NextFailures(i, a) >= failures[i][a]
  BY <1>1, <1>2, <1>3 DEF NextFailures, EscalateAt
<1>6. CountsGrow
  <2>1. ASSUME NEW j \in Issue, NEW b \in Agent
        PROVE  failures[j][b] \in Nat /\ failures'[j][b] \in Nat /\ failures'[j][b] >= failures[j][b]
    <3>1. CASE j = i /\ b = a
      BY <1>5, <3>1 DEF EscalateAt
    <3>2. CASE ~(j = i /\ b = a)
      <4>1. failures'[j][b] = failures[j][b]
        BY <1>1, <1>2, <1>3, <3>2
      <4> QED
        BY <4>1, <1>3 DEF EscalateAt
    <3> QED
      BY <3>1, <3>2
  <2> QED
    BY <2>1 DEF CountsGrow
<1>7. ASSUME pc'[h] = "continue" PROVE Counted(t, row[t].index + 1)'
  <2>1. ~Escalates(i, a)
    BY <1>0, <1>7, DetectLoopSteps DEF i, a
  <2>2. CASE i \in Issue
    <3>1. failures[i][a] < EscalateAt /\ NextFailures(i, a) = failures[i][a] + 1 /\ NextFailures(i, a) < EscalateAt
      BY <1>5, <2>1, <2>2 DEF Escalates, NextFailures, EscalateAt
    <3>2. row[t].index <= failures[i][a]
      BY <1>4, <2>2 DEF Counted, i, a
    <3>3. row[t].index + 1 <= failures'[i][a] /\ row[t].index + 1 < EscalateAt
      BY <1>1, <1>5, <2>2, <3>1, <3>2 DEF EscalateAt
    <3> QED
      BY <1>1, <3>3 DEF Counted, i, a
  <2>3. CASE i \notin Issue
    BY <1>1, <2>3 DEF Counted, i
  <2> QED
    BY <2>2, <2>3
<1>8. SameChains /\ loc'[h].task = t /\ \A p \in Process \ {h} : pc'[p] = pc[p] /\ loc'[p] = loc[p]
  BY <1>0, DetectLoopSteps
<1> QED
  BY <1>6, <1>7, <1>8, KeptCounts

LEMMA InitCounted == Init => CountedInv
BY DEF Init, StoreInit, CountedInv

LEMMA NextCounted ==
    ASSUME TypeOK, TypeOK', CountedInv, [Next]_vars, "resolve" \notin Inputs
    PROVE  CountedInv'
<1>1. CASE \E h \in Process, t \in Task, reason \in Reason : FailTask(h, t, reason)
  BY <1>1, FailCounts
<1>2. CASE \E h \in Process : DetectLoop(h)
  BY <1>2, DetectLoopCounts
<1>3. CASE ~\E h \in Process : DetectLoop(h) \/ \E t \in Task, reason \in Reason : FailTask(h, t, reason)
  <2>1. Calm /\ UNCHANGED loopVars
    BY <1>3, StepIsCalm DEF Calm
  <2>2. CASE SameChains
    <3>1. CountsGrow
      BY <2>1, SameCountsGrow
    <3> QED
      BY <2>1, <2>2, <3>1, KeptCounts DEF Calm, FailingKept
  <2>3. ASSUME NEW n \in Task, NEW new \in Row, Inserted(n, new), Originates(new) PROVE CountedInv'
    BY <2>1, <2>3, InsertCounts
  <2> QED
    BY <2>2, <2>3, EveryStepOnRows
<1> QED
  BY <1>1, <1>2, <1>3

\* As long as nobody resolves an escalation, which puts the counter back, a
\* chain of continuations on an issue ends at the third failure, however many
\* tasks of the agent fail at the same time.
THEOREM EscalationEnds ==
    ASSUME "resolve" \notin Inputs
    PROVE  Spec => []EscalationEndsChain
<1>1. Init => TypeOK /\ CountedInv /\ AbsentFresh
  BY InitTypes, InitCounted, InitChains DEF ChainInv
<1>2. TypeOK /\ TypeOK' /\ CountedInv /\ [Next]_vars => CountedInv'
  BY NextCounted
<1>3. TypeOK /\ [Next]_vars => TypeOK'
  BY NextTypes
<1>4. TypeOK /\ CountedInv /\ ChainInv => EscalationEndsChain
  BY DEF ChainInv, AbsentFresh, CountedInv, Counted, EscalationEndsChain, EscalateAt
<1>5. Init => ChainInv
  BY InitChains
<1>6. TypeOK /\ ChainInv /\ [Next]_vars => ChainInv'
  BY NextChains
<1>7. Init => TypeOK /\ CountedInv
  BY <1>1
<1> QED
  BY <1>2, <1>3, <1>4, <1>5, <1>6, <1>7, PTL DEF Spec

-----------------------------------------------------------------------------
(* Where a goroutine is when it takes a step, and where the step leads *)

Stays(p) == pc'[p] = pc[p] /\ loc'[p] = loc[p]

LEMMA GotoMoves ==
    ASSUME LocalTypes, NEW p \in Process, NEW label, NEW l, Goto(p, label, l)
    PROVE  /\ pc'[p] = label
           /\ loc'[p] = IF label = "idle" THEN NoLoc ELSE l
           /\ \A q \in Process \ {p} : Stays(q)
BY DEF LocalTypes, Goto, Stays

\* The label of a request's first statement.
FirstLabel == {"idle", "load", "writeIssue", "skip", "count", "reconcile", "loop", "continue",
               "cancelAgent", "migrateAgents"}

LEMMA ArriveFlow ==
    ASSUME TypeOK, NEW h \in Handler, Arrive(h)
    PROVE  /\ pc[h] = "idle" /\ pc'[h] \in FirstLabel
           /\ \A q \in Process \ {h} : Stays(q)
           /\ crashes' = crashes
<1> USE DEF Request, At
<1>t. LocalTypes /\ h \in Process
  BY DEF TypeOK, Process
<1>g. ASSUME NEW label \in FirstLabel, NEW l, Goto(h, label, l)
      PROVE  pc'[h] \in FirstLabel /\ \A q \in Process \ {h} : Stays(q)
  BY <1>t, <1>g, GotoMoves
<1>l. FirstLabel = {"idle", "load", "writeIssue", "skip", "count", "reconcile", "loop", "continue",
               "cancelAgent", "migrateAgents"}
  BY DEF FirstLabel
<1>1. CASE \/ \E i \in Issue : Comment(h, i) \/ UpdateIssue(h, i)
           \/ \E i \in Issue, a \in Agent : Mention(h, i, a)
           \/ \E c \in Chat : SendChatMessage(h, c)
  BY <1>1, <1>g, <1>l DEF Comment, UpdateIssue, Mention, SendChatMessage, Enqueue
<1>2. CASE \E i \in Issue, a \in Agent : ResolveLoop(h, i, a)
  <2>1. pc[h] = "idle" /\ crashes' = crashes
    BY <1>2 DEF ResolveLoop
  <2>2. CASE UNCHANGED <<pc, loc>>
    BY <2>1, <2>2, <1>l DEF Stays
  <2>3. CASE \E l : Goto(h, "load", l) \/ Goto(h, "skip", l)
    BY <2>1, <2>3, <1>g, <1>l
  <2> QED
    BY <1>2, <2>2, <2>3 DEF ResolveLoop, Enqueue
<1>3. CASE \E r \in Runtime : ClaimTaskForRuntime(h, r) \/ DaemonRegister(h, r)
  BY <1>3, <1>g, <1>l DEF ClaimTaskForRuntime, DaemonRegister
<1>4. CASE \E t \in Task : CompleteTask(h, t) \/ CancelTask(h, t)
  BY <1>4, <1>g, <1>l DEF CompleteTask, CancelTask, ReconcileThen
<1>5. CASE \E t \in Task, reason \in Reason : FailTask(h, t, reason)
  BY <1>5, <1>g, <1>l DEF FailTask
<1>6. CASE \E a \in Agent : ArchiveAgent(h, a)
  BY <1>6, <1>g, <1>l DEF ArchiveAgent
<1> QED
  BY <1>1, <1>2, <1>3, <1>4, <1>5, <1>6 DEF Arrive

\* The action that serves a request at its label.
ServedBy(h) ==
    /\ pc[h] = "load"          => LoadAgent(h)     /\ pc'[h] \in {"insert", loc[h].then}
    /\ pc[h] = "insert"        => (InsertNew(h) \/ InsertRejected(h)) /\ pc'[h] = loc[h].then
    /\ pc[h] = "count"         => CheckCapacity(h) /\ pc'[h] \in {"snapshot", "count", "idle"}
    /\ pc[h] = "snapshot"      => SnapshotQueue(h) /\ pc'[h] \in {"lock", "count", "idle"}
    /\ pc[h] = "lock"          => (LockTask(h) \/ LockNothing(h)) /\ pc'[h] \in {"deliver", "count", "idle"}
    /\ pc[h] = "deliver"       => Deliver(h)       /\ pc'[h] \in {"count", "idle"}
    /\ pc[h] = "loop"          => DetectLoop(h)    /\ pc'[h] \in {"continue", "reconcile"}
    /\ pc[h] = "continue"      => (ContinueTask(h) \/ ContinuationRejected(h)) /\ pc'[h] = "reconcile"
    /\ pc[h] = "reconcile"     => Reconcile(h)     /\ pc'[h] = "setStatus"
    /\ pc[h] = "setStatus"     => SetAgentStatus(h) /\ pc'[h] \in {"reconcile", loc[h].then}
    /\ pc[h] = "writeIssue"    => WriteIssue(h)    /\ pc'[h] \in {"reassign", "cancelIssue", "idle"}
    /\ pc[h] = "reassign"      => CancelOnReassign(h) /\ pc'[h] = "load"
    /\ pc[h] = "cancelIssue"   => CancelOnStatus(h)  /\ pc'[h] = "idle"
    /\ pc[h] = "cancelAgent"   => CancelOnArchive(h) /\ pc'[h] = "idle"
    /\ pc[h] = "skip"          => SkipIssue(h)     /\ pc'[h] = "idle"
    /\ pc[h] = "migrateAgents" => MigrateAgents(h) /\ pc'[h] = "migrateTasks"
    /\ pc[h] = "migrateTasks"  => MigrateTasks(h)  /\ pc'[h] = "idle"

ServedLabel == {"load", "insert", "count", "snapshot", "lock", "deliver", "loop", "continue",
                "reconcile", "setStatus", "writeIssue", "reassign", "cancelIssue", "cancelAgent",
                "skip", "migrateAgents", "migrateTasks"}

LEMMA ServeFlow ==
    ASSUME TypeOK, NEW h \in Process, Serve(h)
    PROVE  /\ ServedBy(h) /\ pc[h] \in ServedLabel
           /\ \A q \in Process \ {h} : Stays(q)
           /\ crashes' = crashes
<1> USE DEF At, ServedLabel
<1>t. LocalTypes
  BY DEF TypeOK
<1>g. ASSUME NEW label, NEW l, Goto(h, label, l)
      PROVE  pc'[h] = label /\ \A q \in Process \ {h} : Stays(q)
  BY <1>t, <1>g, GotoMoves
<1>1. CASE LoadAgent(h)
  BY <1>1, <1>g DEF LoadAgent, ServedBy
<1>2. CASE InsertNew(h)
  BY <1>2, <1>g DEF InsertNew, ServedBy
<1>3. CASE InsertRejected(h)
  BY <1>3, <1>g DEF InsertRejected, ServedBy
<1>4. CASE CheckCapacity(h)
  BY <1>4, <1>g DEF CheckCapacity, TryNextAgent, ServedBy
<1>5. CASE SnapshotQueue(h)
  BY <1>5, <1>g DEF SnapshotQueue, TryNextAgent, ServedBy
<1>6. CASE LockTask(h)
  BY <1>6, <1>g DEF LockTask, ServedBy
<1>7. CASE LockNothing(h)
  BY <1>7, <1>g DEF LockNothing, TryNextAgent, ServedBy
<1>8. CASE Deliver(h)
  BY <1>8, <1>g DEF Deliver, TryNextAgent, ServedBy
<1>9. CASE DetectLoop(h)
  BY <1>9, <1>g DEF DetectLoop, ServedBy
<1>10. CASE ContinueTask(h)
  BY <1>10, <1>g DEF ContinueTask, ServedBy
<1>11. CASE ContinuationRejected(h)
  BY <1>11, <1>g DEF ContinuationRejected, ServedBy
<1>12. CASE Reconcile(h)
  BY <1>12, <1>g DEF Reconcile, ServedBy
<1>13. CASE SetAgentStatus(h)
  BY <1>13, <1>g DEF SetAgentStatus, ReconcileThen, ServedBy
<1>14. CASE WriteIssue(h)
  BY <1>14, <1>g DEF WriteIssue, ServedBy
<1>15. CASE CancelOnReassign(h)
  BY <1>15, <1>g DEF CancelOnReassign, ServedBy
<1>16. CASE CancelOnStatus(h)
  BY <1>16, <1>g DEF CancelOnStatus, ServedBy
<1>17. CASE CancelOnArchive(h)
  BY <1>17, <1>g DEF CancelOnArchive, ServedBy
<1>18. CASE SkipIssue(h)
  BY <1>18, <1>g DEF SkipIssue, ServedBy
<1>19. CASE MigrateAgents(h)
  BY <1>19, <1>g DEF MigrateAgents, ServedBy
<1>20. CASE MigrateTasks(h)
  BY <1>20, <1>g DEF MigrateTasks, ServedBy
<1> QED
  BY <1>1, <1>2, <1>3, <1>4, <1>5, <1>6, <1>7, <1>8, <1>9, <1>10, <1>11, <1>12, <1>13, <1>14,
     <1>15, <1>16, <1>17, <1>18, <1>19, <1>20 DEF Serve

\* The sweeper likewise.
SweptBy ==
    /\ pc[Sweeper] = "idle"      => SweepRuntimes /\ pc'[Sweeper] \in {"stale", "offline"}
    /\ pc[Sweeper] = "offline"   => FailOffline   /\ pc'[Sweeper] \in {"item", "stale"}
    /\ pc[Sweeper] = "stale"     => FailStale     /\ pc'[Sweeper] \in {"item", "idle"}
    /\ pc[Sweeper] = "item"      => ReadItem      /\ pc'[Sweeper] \in {"hasActive", "item", "reconcile"}
    /\ pc[Sweeper] = "hasActive" => CheckActive   /\ pc'[Sweeper] \in {"reset", "item", "reconcile"}
    /\ pc[Sweeper] = "reset"     => ResetIssue    /\ pc'[Sweeper] \in {"item", "reconcile"}
    /\ pc[Sweeper] = "reconcile" => Reconcile(Sweeper)      /\ pc'[Sweeper] = "setStatus"
    /\ pc[Sweeper] = "setStatus" => SetAgentStatus(Sweeper) /\ pc'[Sweeper] \in {"reconcile", loc[Sweeper].then}

SweptLabel == {"idle", "offline", "stale", "item", "hasActive", "reset", "reconcile", "setStatus"}

LEMMA SweepFlow ==
    ASSUME TypeOK, Sweep
    PROVE  /\ SweptBy /\ pc[Sweeper] \in SweptLabel
           /\ \A q \in Process \ {Sweeper} : Stays(q)
           /\ crashes' = crashes
<1> USE DEF At, SweptLabel
<1>t. LocalTypes /\ Sweeper \in Process
  BY DEF TypeOK, Process
<1>g. ASSUME NEW label, NEW l, Goto(Sweeper, label, l)
      PROVE  pc'[Sweeper] = label /\ \A q \in Process \ {Sweeper} : Stays(q)
  BY <1>t, <1>g, GotoMoves
<1>1. CASE SweepRuntimes
  BY <1>1, <1>g DEF SweepRuntimes, SweptBy
<1>2. CASE FailOffline
  BY <1>2, <1>g DEF FailOffline, Broadcast, SweptBy
<1>3. CASE FailStale
  BY <1>3, <1>g DEF FailStale, Broadcast, SweptBy
<1>4. CASE ReadItem
  BY <1>4, <1>g DEF ReadItem, NextItem, SweptBy
<1>5. CASE CheckActive
  BY <1>5, <1>g DEF CheckActive, NextItem, SweptBy
<1>6. CASE ResetIssue
  BY <1>6, <1>g DEF ResetIssue, NextItem, SweptBy
<1>7. CASE Reconcile(Sweeper)
  BY <1>7, <1>g DEF Reconcile, SweptBy
<1>8. CASE SetAgentStatus(Sweeper)
  BY <1>8, <1>g DEF SetAgentStatus, ReconcileThen, SweptBy
<1> QED
  BY <1>1, <1>2, <1>3, <1>4, <1>5, <1>6, <1>7, <1>8 DEF Sweep

\* A goroutine moves by a step of its own, or dies in a crash.
LEMMA WhoMoves ==
    ASSUME TypeOK, [Next]_vars, crashes' = crashes, NEW p \in Process, ~Stays(p)
    PROVE  \/ p \in Handler /\ (Arrive(p) \/ Serve(p))
           \/ p = Sweeper /\ Sweep
<1>1. ASSUME NEW h \in Handler, Arrive(h) \/ Serve(h) PROVE p = h
  BY <1>1, ArriveFlow, ServeFlow DEF Process
<1>2. CASE Sweep
  BY <1>2, SweepFlow
<1>3. CASE Environment
  <2>1. ~Crash
    BY DEF Crash, TypeOK
  <2>2. UNCHANGED <<pc, loc>>
    BY <1>3, <2>1 DEF Environment, StartTask, Age, RestoreAgent, BindAgent, DaemonDeregister,
       DaemonHeartbeat, Expire, Single
  <2> QED
    BY <2>2 DEF Stays
<1>4. CASE UNCHANGED vars
  BY <1>4 DEF vars, Stays
<1> QED
  BY <1>1, <1>2, <1>3, <1>4 DEF Next

LEMMA OnlyCrash == ASSUME TypeOK, [Next]_vars, crashes' # crashes PROVE Crash
BY ArriveFlow, ServeFlow, SweepFlow DEF Next, Environment, StartTask, Age, RestoreAgent, BindAgent,
   DaemonDeregister, DaemonHeartbeat, Expire, Single, vars, Process

-----------------------------------------------------------------------------
(* Where nobody updates issues or archives agents, no task is cancelled in bulk *)

NoCancelling ==
    \A h \in Handler : /\ pc[h] \notin {"writeIssue", "reassign", "cancelIssue", "cancelAgent"}
                       /\ loc[h].then # "cancelIssue"

LEMMA ArriveThen ==
    ASSUME TypeOK, NEW h \in Handler, Arrive(h)
    PROVE  Stays(h) \/ loc'[h].then = "idle"
<1>t. LocalTypes /\ h \in Process
  BY DEF TypeOK, Process
<1>n. NoLoc.then = "idle"
  BY DEF NoLoc
<1>g. ASSUME NEW label, NEW l, Goto(h, label, l), l.then = "idle" PROVE loc'[h].then = "idle"
  BY <1>t, <1>n, <1>g, GotoMoves
<1>0. CASE UNCHANGED <<pc, loc>>
  BY <1>0 DEF Stays
<1>1. CASE \/ \E i \in Issue : Comment(h, i)
           \/ \E i \in Issue, a \in Agent : Mention(h, i, a)
           \/ \E c \in Chat : SendChatMessage(h, c)
  BY <1>1, <1>g DEF Comment, Mention, SendChatMessage, Enqueue, NoLoc
<1>2. CASE \E i \in Issue : UpdateIssue(h, i)
  <2>1. PICK i \in Issue : UpdateIssue(h, i)
    BY <1>2
  <2>2. PICK s, a, asks :
          Goto(h, "writeIssue", [NoLoc EXCEPT
            !.target = i, !.agent = a, !.status = s,
            !.marks = (IF asks = "assign" /\ a # assignee[i] THEN {"reassigned"} ELSE {})
                 \cup (IF s = "cancelled" /\ issueStatus[i] # s THEN {"cancelled"} ELSE {})])
    BY <2>1 DEF UpdateIssue
  <2> DEFINE marks == (IF asks = "assign" /\ a # assignee[i] THEN {"reassigned"} ELSE {})
                      \cup (IF s = "cancelled" /\ issueStatus[i] # s THEN {"cancelled"} ELSE {})
             l == [NoLoc EXCEPT !.target = i, !.agent = a, !.status = s, !.marks = marks]
  <2>3. Goto(h, "writeIssue", l)
    BY <2>2
  <2> HIDE DEF marks
  <2>4. l.then = "idle"
    BY DEF NoLoc
  <2> HIDE DEF l
  <2> QED
    BY <2>3, <2>4, <1>g
<1>3. CASE \E i \in Issue, a \in Agent : ResolveLoop(h, i, a)
  BY <1>3, <1>0, <1>g DEF ResolveLoop, Enqueue, NoLoc
<1>4. CASE \E r \in Runtime : ClaimTaskForRuntime(h, r) \/ DaemonRegister(h, r)
  BY <1>4, <1>g DEF ClaimTaskForRuntime, DaemonRegister, NoLoc
<1>5. CASE \E t \in Task : CompleteTask(h, t) \/ CancelTask(h, t)
  BY <1>5, <1>g DEF CompleteTask, CancelTask, ReconcileThen, NoLoc
<1>6. CASE \E t \in Task, reason \in Reason : FailTask(h, t, reason)
  BY <1>6, <1>g DEF FailTask, NoLoc
<1>7. CASE \E a \in Agent : ArchiveAgent(h, a)
  BY <1>7, <1>g DEF ArchiveAgent, NoLoc
<1> QED
  BY <1>1, <1>2, <1>3, <1>4, <1>5, <1>6, <1>7 DEF Arrive

LEMMA ServeThen ==
    ASSUME TypeOK, NEW h \in Handler, Serve(h), pc[h] # "reassign"
    PROVE  loc'[h].then \in {"idle", loc[h].then}
<1>t. LocalTypes /\ h \in Process
  BY DEF TypeOK, Process
<1>l. loc[h] \in Local
  BY <1>t, LocIsLocal
<1>n. NoLoc.then = "idle"
  BY DEF NoLoc
<1>g. ASSUME NEW label, NEW l, Goto(h, label, l), l.then \in {"idle", loc[h].then}
      PROVE  loc'[h].then \in {"idle", loc[h].then}
  BY <1>t, <1>n, <1>g, GotoMoves
<1>1. CASE LoadAgent(h) \/ InsertNew(h) \/ InsertRejected(h)
  BY <1>1, <1>l, <1>g DEF LoadAgent, InsertNew, InsertRejected, Local
<1>2. CASE CheckCapacity(h) \/ LockNothing(h) \/ LockTask(h)
  BY <1>2, <1>l, <1>g, <1>n DEF CheckCapacity, LockNothing, LockTask, TryNextAgent, Local, NoLoc
<1>3. CASE SnapshotQueue(h) \/ Deliver(h)
  BY <1>3, <1>l, <1>g, <1>n DEF SnapshotQueue, Deliver, TryNextAgent, Local, NoLoc
<1>4. CASE DetectLoop(h) \/ ContinueTask(h) \/ ContinuationRejected(h)
  BY <1>4, <1>g DEF DetectLoop, ContinueTask, ContinuationRejected
<1>5. CASE Reconcile(h) \/ SetAgentStatus(h)
  BY <1>5, <1>l, <1>g, <1>n DEF Reconcile, SetAgentStatus, ReconcileThen, Local, NoLoc
<1>6. CASE WriteIssue(h) \/ CancelOnStatus(h) \/ CancelOnArchive(h) \/ SkipIssue(h)
  BY <1>6, <1>g, <1>n DEF WriteIssue, CancelOnStatus, CancelOnArchive, SkipIssue
<1>7. CASE MigrateAgents(h) \/ MigrateTasks(h)
  BY <1>7, <1>g, <1>n DEF MigrateAgents, MigrateTasks
<1>8. CASE CancelOnReassign(h)
  BY <1>8 DEF CancelOnReassign, At
<1> QED
  BY <1>1, <1>2, <1>3, <1>4, <1>5, <1>6, <1>7, <1>8 DEF Serve

LEMMA ArriveWithoutUpdates ==
    ASSUME TypeOK, Inputs \cap {"update", "archive"} = {}, NEW h \in Handler, Arrive(h)
    PROVE  pc'[h] \in FirstLabel \ {"writeIssue", "cancelAgent"}
<1>t. LocalTypes /\ h \in Process
  BY DEF TypeOK, Process
<1>l. FirstLabel \ {"writeIssue", "cancelAgent"}
        = {"idle", "load", "skip", "count", "reconcile", "loop", "continue", "migrateAgents"}
  BY DEF FirstLabel
<1>g. ASSUME NEW label \in FirstLabel \ {"writeIssue", "cancelAgent"}, NEW l, Goto(h, label, l)
      PROVE  pc'[h] \in FirstLabel \ {"writeIssue", "cancelAgent"}
  BY <1>t, <1>g, GotoMoves
<1>0. CASE UNCHANGED <<pc, loc>>
  BY <1>0, <1>l, ArriveFlow
<1>1. CASE \/ \E i \in Issue : Comment(h, i)
           \/ \E i \in Issue, a \in Agent : Mention(h, i, a)
           \/ \E c \in Chat : SendChatMessage(h, c)
  BY <1>1, <1>l, <1>g DEF Comment, Mention, SendChatMessage, Enqueue
<1>2. CASE \E i \in Issue : UpdateIssue(h, i)
  BY <1>2 DEF UpdateIssue, Request
<1>3. CASE \E i \in Issue, a \in Agent : ResolveLoop(h, i, a)
  BY <1>3, <1>0, <1>l, <1>g DEF ResolveLoop, Enqueue
<1>4. CASE \E r \in Runtime : ClaimTaskForRuntime(h, r) \/ DaemonRegister(h, r)
  BY <1>4, <1>l, <1>g DEF ClaimTaskForRuntime, DaemonRegister
<1>5. CASE \E t \in Task : CompleteTask(h, t) \/ CancelTask(h, t)
  BY <1>5, <1>l, <1>g DEF CompleteTask, CancelTask, ReconcileThen
<1>6. CASE \E t \in Task, reason \in Reason : FailTask(h, t, reason)
  BY <1>6, <1>l, <1>g DEF FailTask
<1>7. CASE \E a \in Agent : ArchiveAgent(h, a)
  BY <1>7 DEF ArchiveAgent, Request
<1> QED
  BY <1>1, <1>2, <1>3, <1>4, <1>5, <1>6, <1>7 DEF Arrive

LEMMA NextNoCancelling ==
    ASSUME TypeOK, [Next]_vars, NoCancelling, Inputs \cap {"update", "archive"} = {}
    PROVE  NoCancelling'
<1> SUFFICES ASSUME NEW h \in Handler
             PROVE  /\ pc'[h] \notin {"writeIssue", "reassign", "cancelIssue", "cancelAgent"}
                    /\ loc'[h].then # "cancelIssue"
  BY DEF NoCancelling
<1>h. h \in Process /\ loc[h].then \in {"idle", "stale"}
      /\ pc[h] \notin {"writeIssue", "reassign", "cancelIssue", "cancelAgent"}
  <2>1. h \in Process
    BY DEF Process
  <2>2. loc[h].then \in {"idle", "stale", "cancelIssue"}
    BY <2>1, LocIsLocal DEF TypeOK, Local
  <2> QED
    BY <2>1, <2>2 DEF NoCancelling
<1>1. CASE Stays(h)
  BY <1>1, <1>h DEF Stays
<1>2. CASE ~Stays(h) /\ crashes' = crashes
  <2>1. CASE Arrive(h)
    <3>1. pc'[h] \notin {"writeIssue", "reassign", "cancelIssue", "cancelAgent"}
      BY <2>1, ArriveWithoutUpdates DEF FirstLabel
    <3> QED
      BY <3>1, <2>1, <1>2, ArriveThen
  <2>2. CASE Serve(h)
    <3>1. ServedBy(h) /\ pc[h] \in ServedLabel
      BY <2>2, <1>h, ServeFlow
    <3>2. pc'[h] \notin {"writeIssue", "reassign", "cancelIssue", "cancelAgent"}
      BY <3>1, <1>h DEF ServedBy, ServedLabel
    <3> QED
      BY <3>2, <2>2, <1>h, ServeThen
  <2> QED
    BY <1>2, <1>h, <2>1, <2>2, WhoMoves, QueueAssumption
<1>3. CASE crashes' # crashes
  BY <1>3, <1>h, OnlyCrash DEF Crash, NoLoc
<1> QED
  BY <1>1, <1>2, <1>3

LEMMA InitNoCancelling == Init => NoCancelling
BY DEF Init, NoCancelling, NoLoc, Process

-----------------------------------------------------------------------------
(* Issues that lost their last task *)

\* The issue failed a task, has no other and has not left in_progress.
Owed(i) ==
    /\ About(i) \cap TasksIn({"failed"}) # {} /\ ~HasActive(i)
    /\ issueStatus[i] = "in_progress"

\* The sweeper is at the issue, or still has a failed task of it to look at.
Attended(i) ==
    \/ pc[Sweeper] \in {"hasActive", "reset"} /\ loc[Sweeper].target = i
    \/ /\ pc[Sweeper] \in {"item", "hasActive", "reset"}
       /\ i \notin loc[Sweeper].seen
       /\ \E t \in loc[Sweeper].tasks : row[t].target = i

\* The inductive invariant behind SweptIssuesReset: processedIssues skips no
\* issue that still needs the reset.
ResetInv == NoCancelling /\ (crashes = 0 => \A i \in Issue : Owed(i) => Attended(i))

\* No task ends, and none changes what it is about.
Lasts ==
    \A t \in Task : /\ status[t] \in Live => status'[t] \in Live
                    /\ status[t] \in Underway => status'[t] \in Underway
                    /\ status'[t] = "failed" => status[t] = "failed"
                    /\ status[t] # "absent" => row'[t].target = row[t].target

OnlySweeperEnds == Inputs \cap {"complete", "fail", "cancel", "update", "archive"} = {}

LEMMA NoRowLasts == ASSUME UNCHANGED <<status, row>> PROVE Lasts
BY DEF Lasts

LEMMA InsertLasts == ASSUME TypeOK, NEW n \in Task, NEW new, InsertTask(n, new) PROVE Lasts
BY DEF InsertTask, Lasts, TypeOK, TaskTypes, Live, Pending, Underway

\* A request that ends a task.
EndsTask(h, t) ==
    CompleteTask(h, t) \/ CancelTask(h, t) \/ \E reason \in Reason : FailTask(h, t, reason)

LEMMA TasksLast ==
    ASSUME TypeOK, NoCancelling, [Next]_vars, ~FailOffline, ~FailStale,
           \A h \in Handler, t \in Task : ~EndsTask(h, t)
    PROVE  Lasts
<1>1. ASSUME NEW h \in Handler, Arrive(h) PROVE Lasts
  <2>1. UNCHANGED <<status, row>>
    BY <1>1 DEF EndsTask, Arrive, Comment, UpdateIssue, Mention, ResolveLoop, SendChatMessage,
       ClaimTaskForRuntime, DaemonRegister, ArchiveAgent, storeVars, taskVars
  <2> QED
    BY <2>1, NoRowLasts
<1>2. ASSUME NEW h \in Handler, Serve(h) PROVE Lasts
  <2>1. CASE InsertNew(h) \/ ContinueTask(h)
    BY <2>1, InsertLasts DEF InsertNew, ContinueTask
  <2>2. CASE LockTask(h)
    BY <2>2 DEF LockTask, ClaimAgentTask, SetStatus, Lasts, TypeOK, TaskTypes, Live, Pending, Underway
  <2>3. CASE MigrateTasks(h)
    BY <2>3 DEF MigrateTasks, MigrateQueuedTasksToRuntime, Lasts, TypeOK, TaskTypes, Row
  <2>4. CASE CancelOnReassign(h) \/ CancelOnStatus(h) \/ CancelOnArchive(h)
    BY <2>4 DEF CancelOnReassign, CancelOnStatus, CancelOnArchive, At, NoCancelling
  <2>5. ASSUME \/ LoadAgent(h) \/ InsertRejected(h) \/ CheckCapacity(h) \/ SnapshotQueue(h)
               \/ LockNothing(h) \/ Deliver(h) \/ DetectLoop(h) \/ ContinuationRejected(h)
               \/ Reconcile(h) \/ SetAgentStatus(h) \/ WriteIssue(h) \/ SkipIssue(h)
               \/ MigrateAgents(h)
        PROVE  UNCHANGED <<status, row>>
    BY <2>5 DEF LoadAgent, InsertRejected, CheckCapacity, SnapshotQueue, LockNothing, Deliver,
       DetectLoop, ContinuationRejected, Reconcile, SetAgentStatus, WriteIssue, SkipIssue,
       MigrateAgents, storeVars, taskVars
  <2> QED
    BY <1>2, <2>1, <2>2, <2>3, <2>4, <2>5, NoRowLasts DEF Serve
<1>3. CASE Sweep
  <2>1. UNCHANGED <<status, row>>
    BY <1>3 DEF Sweep, SweepRuntimes, ReadItem, CheckActive, ResetIssue, Reconcile, SetAgentStatus,
       storeVars, taskVars
  <2> QED
    BY <2>1, NoRowLasts
<1>4. CASE Environment
  <2>1. ASSUME NEW t \in Task, StartTask(t) PROVE Lasts
    BY <2>1 DEF StartTask, StartAgentTask, SetStatus, Lasts, TypeOK, TaskTypes, Live, Pending, Underway
  <2>2. CASE ~\E t \in Task : StartTask(t)
    <3>1. UNCHANGED <<status, row>>
      BY <1>4, <2>2 DEF Environment, Age, RestoreAgent, BindAgent, DaemonDeregister,
         DaemonHeartbeat, Expire, Crash, storeVars, taskVars
    <3> QED
      BY <3>1, NoRowLasts
  <2> QED
    BY <2>1, <2>2
<1>5. CASE UNCHANGED vars
  BY <1>5, NoRowLasts DEF vars, storeVars, taskVars
<1> QED
  BY <1>1, <1>2, <1>3, <1>4, <1>5 DEF Next

LEMMA SweeperEndsTasks ==
    ASSUME TypeOK, NoCancelling, OnlySweeperEnds, [Next]_vars, ~FailOffline, ~FailStale
    PROVE  Lasts
<1>1. ASSUME NEW h \in Handler, NEW t \in Task, EndsTask(h, t) PROVE FALSE
  BY <1>1 DEF EndsTask, CompleteTask, CancelTask, FailTask, Request, OnlySweeperEnds
<1> QED
  BY <1>1, TasksLast

\* Nothing but an update puts an issue in progress.
LEMMA IssuesOnlyLeave ==
    ASSUME TypeOK, NoCancelling, OnlySweeperEnds, [Next]_vars, NEW i \in Issue, issueStatus'[i] = "in_progress"
    PROVE  issueStatus[i] = "in_progress"
<1>0. CASE UNCHANGED issueVars
  BY <1>0 DEF issueVars
<1>1. ASSUME NEW x, NEW s \in {"backlog", "todo"}, UpdateIssueStatus(x, s) PROVE issueStatus[i] = "in_progress"
  BY <1>1 DEF UpdateIssueStatus, TypeOK, IssueTypes
<1>2. ASSUME NEW h \in Handler, Arrive(h) PROVE UNCHANGED issueVars
  BY <1>2 DEF Arrive, Comment, UpdateIssue, Mention, ResolveLoop, SendChatMessage, CompleteTask, CancelTask,
     FailTask, ClaimTaskForRuntime, DaemonRegister, ArchiveAgent, storeVars
<1>3. ASSUME NEW h \in Handler, Serve(h) PROVE issueStatus[i] = "in_progress"
  <2>1. CASE SkipIssue(h)
    BY <2>1, <1>1 DEF SkipIssue
  <2>2. CASE WriteIssue(h)
    BY <2>2 DEF WriteIssue, At, NoCancelling
  <2>3. CASE ~SkipIssue(h) /\ ~WriteIssue(h)
    BY <1>3, <2>3, <1>0 DEF Serve, LoadAgent, InsertNew, InsertRejected, CheckCapacity, SnapshotQueue,
       LockTask, LockNothing, Deliver, DetectLoop, ContinueTask, ContinuationRejected, Reconcile,
       SetAgentStatus, CancelOnReassign, CancelOnStatus, CancelOnArchive, MigrateAgents, MigrateTasks, storeVars
  <2> QED
    BY <2>1, <2>2, <2>3
<1>4. CASE Sweep
  BY <1>4, <1>0, <1>1 DEF Sweep, SweepRuntimes, FailOffline, FailStale, ReadItem, CheckActive, ResetIssue,
     Reconcile, SetAgentStatus, storeVars
<1>5. CASE Environment
  BY <1>5, <1>0 DEF Environment, StartTask, Age, RestoreAgent, BindAgent, DaemonDeregister,
     DaemonHeartbeat, Expire, Crash, storeVars
<1>6. CASE UNCHANGED vars
  BY <1>6, <1>0 DEF vars, storeVars
<1> QED
  BY <1>0, <1>2, <1>3, <1>4, <1>5, <1>6 DEF Next

LEMMA SweptFlow ==
    ASSUME TypeOK, [Next]_vars, crashes' = crashes, ~Stays(Sweeper)
    PROVE  Sweep /\ SweptBy
BY WhoMoves, SweepFlow, QueueAssumption DEF Process

LEMMA SweeperGoto ==
    ASSUME TypeOK, NEW label, NEW l, Goto(Sweeper, label, l), label # "idle"
    PROVE  pc'[Sweeper] = label /\ loc'[Sweeper] = l
BY GotoMoves DEF Process, TypeOK

\* The sweeper leaves an issue only when it is reset or has other work.
LEMMA SweeperAttends ==
    ASSUME TypeOK, NEW i \in Issue, Owed(i), Owed(i)', Attended(i),
           ReadItem \/ CheckActive \/ ResetIssue
    PROVE  Attended(i)'
<1> DEFINE l == loc[Sweeper]
<1>l. l \in Local
  BY LocIsLocal DEF Process, TypeOK
<1>n. ASSUME NEW k \in Local, NextItem(k), i \notin k.seen, NEW u \in k.tasks, row'[u].target = i
      PROVE  Attended(i)'
  <2>1. Goto(Sweeper, "item", [k EXCEPT !.target = None])
    BY <1>n DEF NextItem
  <2>2. pc'[Sweeper] = "item" /\ loc'[Sweeper] = [k EXCEPT !.target = None]
    BY <2>1, SweeperGoto
  <2>3. loc'[Sweeper].seen = k.seen /\ loc'[Sweeper].tasks = k.tasks
    BY <2>2 DEF Local
  <2> QED
    BY <1>n, <2>2, <2>3 DEF Attended
<1>1. CASE ReadItem
  <2>1. pc[Sweeper] = "item" /\ UNCHANGED <<row, issueStatus>>
    BY <1>1 DEF ReadItem, At, storeVars, taskVars, issueVars
  <2>2. PICK u \in l.tasks : i \notin l.seen /\ row[u].target = i
    BY <2>1 DEF Attended
  <2>3. PICK t \in l.tasks :
          LET j == row[t].target
              rest == [l EXCEPT !.tasks = @ \ {t}]
          IN  IF j \in Issue \ rest.seen /\ issueStatus[j] = "in_progress"
              THEN Goto(Sweeper, "hasActive", [rest EXCEPT !.target = j, !.seen = @ \cup {j}])
              ELSE NextItem(rest)
    BY <1>1 DEF ReadItem
  <2> DEFINE j == row[t].target
             rest == [l EXCEPT !.tasks = @ \ {t}]
  <2>4. rest \in Local /\ rest.seen = l.seen /\ rest.tasks = l.tasks \ {t}
    BY <1>l DEF Local
  <2>5. CASE j \in Issue \ rest.seen /\ issueStatus[j] = "in_progress"
    <3> DEFINE k == [rest EXCEPT !.target = j, !.seen = @ \cup {j}]
    <3>1. k.target = j /\ k.seen = l.seen \cup {j} /\ k.tasks = l.tasks \ {t}
      BY <2>4 DEF Local
    <3>2. pc'[Sweeper] = "hasActive" /\ loc'[Sweeper] = k
      BY <2>3, <2>5, SweeperGoto
    <3>3. CASE j = i
      BY <3>1, <3>2, <3>3 DEF Attended
    <3>4. CASE j # i
      <4>1. u \in k.tasks /\ i \notin k.seen /\ row'[u].target = i
        BY <2>1, <2>2, <3>1, <3>4
      <4> QED
        BY <3>2, <4>1 DEF Attended
    <3> QED
      BY <3>3, <3>4
  <2>6. CASE ~(j \in Issue \ rest.seen /\ issueStatus[j] = "in_progress")
    <3>1. NextItem(rest)
      BY <2>3, <2>6
    <3>2. j # i
      BY <2>2, <2>4, <2>6 DEF Owed
    <3>3. u \in rest.tasks /\ i \notin rest.seen /\ row'[u].target = i
      BY <2>1, <2>2, <2>4, <3>2
    <3> QED
      BY <1>n, <2>4, <3>1, <3>3
  <2> QED
    BY <2>5, <2>6
<1>2. CASE CheckActive
  <2>1. pc[Sweeper] = "hasActive" /\ UNCHANGED row
    BY <1>2 DEF CheckActive, At, storeVars, taskVars
  <2>2. CASE HasActive(l.target)
    <3>1. NextItem(l) /\ l.target # i
      BY <1>2, <2>2 DEF CheckActive, Owed
    <3>2. PICK u \in l.tasks : i \notin l.seen /\ row[u].target = i
      BY <2>1, <3>1 DEF Attended
    <3> QED
      BY <1>l, <1>n, <2>1, <3>1, <3>2
  <2>3. CASE ~HasActive(l.target)
    <3>1. pc'[Sweeper] = "reset" /\ loc'[Sweeper] = l
      BY <1>2, <2>3, SweeperGoto DEF CheckActive
    <3> QED
      BY <2>1, <3>1 DEF Attended
  <2> QED
    BY <2>2, <2>3
<1>3. CASE ResetIssue
  <2>1. pc[Sweeper] = "reset" /\ UNCHANGED row /\ NextItem(l)
        /\ issueStatus' = [issueStatus EXCEPT ![l.target] = "todo"]
    BY <1>3 DEF ResetIssue, At, taskVars, UpdateIssueStatus
  <2>2. l.target # i
    BY <2>1 DEF Owed, TypeOK, IssueTypes
  <2>3. PICK u \in l.tasks : i \notin l.seen /\ row[u].target = i
    BY <2>1, <2>2 DEF Attended
  <2> QED
    BY <1>l, <1>n, <2>1, <2>3
<1> QED
  BY <1>1, <1>2, <1>3

\* An issue whose last task the sweeper fails is on its list.
LEMMA FailedIsListed ==
    ASSUME TypeOK, NEW i \in Issue, ~Owed(i), Owed(i)', UNCHANGED issueVars,
           NEW S \in SUBSET Task, SetStatus(S, "failed"), NEW then, Broadcast(S, then)
    PROVE  Attended(i)'
<1>1. UNCHANGED <<row, issueStatus>> /\ \A t \in Task \ S : status'[t] = status[t]
  BY DEF SetStatus, issueVars
<1>2. PICK t \in S : row[t].target = i
  <2>1. PICK t \in Task : row[t].target = i /\ status'[t] = "failed"
    BY <1>1 DEF Owed, About, TasksIn
  <2>2. ASSUME NEW u \in Task, row[u].target = i, status[u] \in Live PROVE u \in S
    BY <1>1, <2>2 DEF Owed, HasActive, About, TasksIn
  <2>3. ASSUME HasActive(i) PROVE \E u \in Task : row[u].target = i /\ status[u] \in Live
    BY <2>3 DEF HasActive, About, TasksIn
  <2>4. ASSUME ~HasActive(i), t \notin S PROVE FALSE
    BY <1>1, <2>1, <2>4 DEF Owed, About, TasksIn
  <2> QED
    BY <2>1, <2>2, <2>3, <2>4
<1> DEFINE l == [NoLoc EXCEPT !.tasks = S, !.then = then, !.agents = {row[u].agent : u \in S}]
<1>3. Goto(Sweeper, "item", l)
  BY <1>2 DEF Broadcast
<1>4. pc'[Sweeper] = "item" /\ loc'[Sweeper] = l
  BY <1>3, SweeperGoto
<1>5. l.tasks = S /\ l.seen = {}
  BY DEF NoLoc
<1> QED
  BY <1>1, <1>2, <1>4, <1>5 DEF Attended

LEMMA NextReset ==
    ASSUME TypeOK, OnlySweeperEnds, ResetInv, [Next]_vars
    PROVE  ResetInv'
<1>n. NoCancelling
  BY DEF ResetInv
<1>1. NoCancelling'
  BY <1>n, NextNoCancelling DEF OnlySweeperEnds
<1> SUFFICES ASSUME crashes' = 0, NEW i \in Issue, Owed(i)' PROVE Attended(i)'
  BY <1>1 DEF ResetInv
<1>2. crashes' = crashes
  <2>1. ~Crash
    BY DEF Crash, TypeOK
  <2> QED
    BY <2>1, OnlyCrash
<1>3. issueStatus[i] = "in_progress"
  BY <1>n, IssuesOnlyLeave DEF Owed
<1>4. Owed(i) => Attended(i)
  BY <1>2 DEF ResetInv
<1>5. CASE ~FailOffline /\ ~FailStale
  <2>1. Lasts
    BY <1>n, <1>5, SweeperEndsTasks
  <2>2. Owed(i)
    <3>1. PICK t \in Task : row'[t].target = i /\ status'[t] = "failed"
      BY DEF Owed, About, TasksIn
    <3>2. status[t] = "failed" /\ row[t].target = i
      BY <2>1, <3>1 DEF Lasts
    <3>3. ASSUME NEW u \in Task, row[u].target = i, status[u] \in Live PROVE FALSE
      <4>1. status[u] # "absent"
        BY <3>3 DEF Live, Pending, Underway
      <4>2. row'[u].target = i /\ status'[u] \in Live
        BY <2>1, <3>3, <4>1 DEF Lasts
      <4> QED
        BY <4>2 DEF Owed, HasActive, About, TasksIn
    <3> QED
      BY <1>3, <3>2, <3>3 DEF Owed, HasActive, About, TasksIn
  <2>3. CASE Stays(Sweeper)
    <3>1. \A t \in loc[Sweeper].tasks : row'[t].target = row[t].target
      <4>1. Sweeper \in Process
        BY DEF Process
      <4>2. \A t \in loc[Sweeper].tasks : t \in Task /\ status[t] # "absent"
        BY <4>1, LocIsLocal, LocIsKnown DEF TypeOK, Local, Knows
      <4> QED
        BY <2>1, <4>2 DEF Lasts
    <3> QED
      BY <1>4, <2>2, <2>3, <3>1 DEF Attended, Stays
  <2>4. CASE ~Stays(Sweeper)
    <3>1. ReadItem \/ CheckActive \/ ResetIssue
      BY <1>2, <1>4, <2>2, <2>4, SweptFlow DEF SweptBy, Attended
    <3> QED
      BY <1>4, <2>2, <3>1, SweeperAttends
  <2> QED
    BY <2>3, <2>4
<1>6. CASE FailOffline
  <2>1. ~Owed(i)
    BY <1>4, <1>6 DEF FailOffline, At, Attended
  <2>2. OrphanedTasks \in SUBSET Task /\ SetStatus(OrphanedTasks, "failed")
        /\ Broadcast(OrphanedTasks, "stale") /\ UNCHANGED issueVars
    BY <1>6 DEF FailOffline, FailTasksForOfflineRuntimes, OrphanedTasks, TasksIn
  <2> QED
    BY <2>1, <2>2, FailedIsListed
<1>7. CASE FailStale
  <2>1. ~Owed(i)
    BY <1>4, <1>7 DEF FailStale, At, Attended
  <2>2. StaleTasks \in SUBSET Task /\ SetStatus(StaleTasks, "failed")
        /\ Broadcast(StaleTasks, "idle") /\ UNCHANGED issueVars
    BY <1>7 DEF FailStale, FailStaleTasks, StaleTasks, TasksIn
  <2> QED
    BY <2>1, <2>2, FailedIsListed
<1> QED
  BY <1>5, <1>6, <1>7

LEMMA InitReset == Init => ResetInv
<1> SUFFICES ASSUME Init PROVE ResetInv
  OBVIOUS
<1>1. \A i \in Issue : ~Owed(i)
  BY DEF Init, StoreInit, Owed, About, TasksIn
<1> QED
  BY <1>1, InitNoCancelling DEF ResetInv

\* Where only the sweeper ends tasks, an issue whose last task it failed has
\* left in_progress when the sweep is over: processedIssues skips no issue that
\* still needs the reset, whatever requests run between its statements.
THEOREM SweptReset ==
    ASSUME OnlySweeperEnds
    PROVE  Spec => []SweptIssuesReset
<1>1. Init => TypeOK /\ ResetInv
  BY InitTypes, InitReset
<1>2. TypeOK /\ ResetInv /\ [Next]_vars => TypeOK' /\ ResetInv'
  BY NextTypes, NextReset
<1>3. ResetInv => SweptIssuesReset
  BY DEF ResetInv, SweptIssuesReset, Owed, Attended
<1> QED
  BY <1>1, <1>2, <1>3, PTL DEF Spec

-----------------------------------------------------------------------------
(* Where requests come one at a time: archived agents *)

\* At most one request is in flight, whatever the sweeper does, and the server
\* has not crashed.
RequestsAlone ==
    crashes = 0 /\ \A g, h \in Handler : pc[g] # "idle" /\ pc[h] # "idle" => g = h

LEMMA LiveOrigin ==
    ASSUME TypeOK, [Next]_vars, NEW t \in Task, status'[t] \in Live
    PROVE  \/ status[t] \in Live /\ row'[t].agent = row[t].agent /\ row'[t].target = row[t].target
           \/ \E h \in Handler : \/ InsertNew(h) /\ row'[t] = NewRow(h)
                                 \/ ContinueTask(h) /\ row'[t] = ContinuationRow(loc[h].task)
<1> USE DEF Live, Pending, Underway
<1>t. TaskTypes
  BY DEF TypeOK
<1>1. CASE UNCHANGED <<status, row>>
  BY <1>1
<1>2. ASSUME NEW n \in Task, NEW new \in Row, InsertTask(n, new), Originates(new)
      PROVE  \/ status[t] \in Live /\ row'[t] = row[t]
             \/ row'[t] = new /\ Originates(new)
  BY <1>2, <1>t DEF InsertTask, TaskTypes
<1>3. CASE \E h \in Handler : LockTask(h)
  BY <1>3, <1>t DEF LockTask, ClaimAgentTask, SetStatus, TaskTypes
<1>4. CASE \E n \in Task : StartAgentTask(n) \/ CompleteAgentTask(n)
  BY <1>4, <1>t DEF StartAgentTask, CompleteAgentTask, SetStatus, TaskTypes
<1>5. CASE \E S \in SUBSET TasksIn(Underway) : SetStatus(S, "failed")
  BY <1>5, <1>t DEF SetStatus, TaskTypes
<1>6. CASE \E S \in SUBSET TasksIn(Live) : SetStatus(S, "cancelled")
  BY <1>6, <1>t DEF SetStatus, TaskTypes
<1>7. CASE \E r \in Runtime : MigrateQueuedTasksToRuntime(r)
  BY <1>7, <1>t DEF MigrateQueuedTasksToRuntime, TaskTypes, Row
<1> QED
  BY <1>1, <1>2, <1>3, <1>4, <1>5, <1>6, <1>7, EveryStepIsTaskStep DEF TaskStep, Originates

\* Who is about to continue a task failed it, or was about to before.
LEMMA FailingOrigin ==
    ASSUME TypeOK, [Next]_vars, NEW h \in Process, pc'[h] \in {"loop", "continue"}
    PROVE  \/ pc[h] \in {"loop", "continue"} /\ loc'[h] = loc[h]
           \/ \E t \in Task, reason \in Reason : FailTask(h, t, reason) /\ loc'[h].task = t
<1>t. LocalTypes
  BY DEF TypeOK
<1>1. CASE \E p \in Process : DetectLoop(p)
  BY <1>1, DetectLoopSteps
<1>2. ASSUME NEW p \in Process, NEW t \in Task, NEW reason \in Reason, FailTask(p, t, reason)
      PROVE  \/ pc[h] \in {"loop", "continue"} /\ loc'[h] = loc[h]
             \/ FailTask(h, t, reason) /\ loc'[h].task = t
  <2> DEFINE l == [NoLoc EXCEPT !.task = t, !.agents = {row[t].agent},
                   !.marks = IF MayContinue(t, reason) THEN {"retry"} ELSE {}]
  <2>1. PICK label \in {"loop", "continue", "reconcile"} : Goto(p, label, l)
    BY <1>2 DEF FailTask
  <2>2. pc'[p] = label /\ loc'[p] = l /\ \A q \in Process \ {p} : Stays(q)
    BY <1>t, <2>1, GotoMoves
  <2>3. l.task = t
    BY DEF NoLoc
  <2> QED
    BY <1>2, <2>2, <2>3 DEF Stays
<1>3. CASE ~\E p \in Process : DetectLoop(p) \/ \E t \in Task, reason \in Reason : FailTask(p, t, reason)
  BY <1>3, StepIsCalm DEF Calm, FailingKept
<1> QED
  BY <1>1, <1>2, <1>3

LEMMA FailedWasLive ==
    ASSUME NEW h \in Process, NEW t \in Task, NEW reason \in Reason, FailTask(h, t, reason)
    PROVE  h \in Handler /\ pc[h] = "idle" /\ t \in TasksIn(Live) /\ UNCHANGED <<row, agentVars, issueVars>>
BY DEF FailTask, Request, At, FailAgentTask, SetStatus, TasksIn, Live

\* Only an archive request archives an agent.
LEMMA ArchivedShrinks ==
    ASSUME TypeOK, [Next]_vars, ~\E h \in Handler, a \in Agent : ArchiveAgent(h, a)
    PROVE  archived' \subseteq archived
<1>1. ASSUME NEW h \in Handler, Arrive(h) PROVE UNCHANGED archived
  BY <1>1 DEF Arrive, Comment, UpdateIssue, Mention, ResolveLoop, SendChatMessage, CompleteTask, CancelTask,
     FailTask, ClaimTaskForRuntime, DaemonRegister, storeVars, agentVars
<1>2. ASSUME NEW h \in Process, Serve(h) PROVE UNCHANGED archived
  BY <1>2 DEF Serve, LoadAgent, InsertNew, InsertRejected, CheckCapacity, SnapshotQueue, LockTask, LockNothing,
     Deliver, DetectLoop, ContinueTask, ContinuationRejected, Reconcile, SetAgentStatus, WriteIssue,
     CancelOnReassign, CancelOnStatus, CancelOnArchive, SkipIssue, MigrateAgents, MigrateTasks, UpdateAgentStatus,
     MigrateAgentsToRuntime, storeVars, agentVars
<1>3. CASE Sweep
  BY <1>3 DEF Sweep, SweepRuntimes, FailOffline, FailStale, ReadItem, CheckActive, ResetIssue, Reconcile,
     SetAgentStatus, UpdateAgentStatus, storeVars, agentVars
<1>4. CASE Environment
  BY <1>4 DEF Environment, StartTask, Age, RestoreAgent, BindAgent, DaemonDeregister, DaemonHeartbeat, Expire,
     Crash, storeVars, agentVars
<1>5. CASE UNCHANGED vars
  BY <1>5 DEF vars, storeVars, agentVars
<1> QED
  BY <1>1, <1>2, <1>3, <1>4, <1>5 DEF Next, Process

\* The request that archived the agent is about to cancel its tasks.
BeingArchived(a) == \E h \in Handler : pc[h] = "cancelAgent" /\ loc[h].agent = a

\* The inductive invariant behind ArchivedAgentHasNoTask.
ArchiveInv ==
    /\ \A t \in TasksIn(Live) : row[t].agent \in archived => BeingArchived(row[t].agent)
    /\ \A h \in Handler : /\ pc[h] = "insert" => loc[h].agent \notin archived
                          /\ pc[h] \in {"loop", "continue"} => row[loc[h].task].agent \notin archived

LEMMA ArchivingKeepsArchive ==
    ASSUME TypeOK, RequestsAlone', ArchiveInv, NEW g \in Handler, NEW a \in Agent, ArchiveAgent(g, a)
    PROVE  ArchiveInv'
<1>1. /\ pc'[g] = "cancelAgent" /\ loc'[g].agent = a /\ pc[g] = "idle"
      /\ \A q \in Process \ {g} : Stays(q)
  <2> DEFINE l == [NoLoc EXCEPT !.agent = a]
  <2>1. Goto(g, "cancelAgent", l) /\ pc[g] = "idle" /\ l.agent = a
    BY DEF ArchiveAgent, Request, At, NoLoc
  <2> HIDE DEF l
  <2>2. pc'[g] = "cancelAgent" /\ loc'[g] = l /\ \A q \in Process \ {g} : Stays(q)
    BY <2>1, GotoMoves DEF TypeOK, Process
  <2> QED
    BY <2>1, <2>2
<1>2. archived' = archived \cup {a} /\ UNCHANGED <<status, row>>
  BY DEF ArchiveAgent, taskVars
<1>3. ASSUME NEW b, BeingArchived(b) PROVE BeingArchived(b)'
  BY <1>1, <1>3 DEF BeingArchived, Process, Stays
<1>4. BeingArchived(a)'
  BY <1>1 DEF BeingArchived
<1>5. \A h \in Handler : pc'[h] \in {"insert", "loop", "continue"} => FALSE
  BY <1>1 DEF RequestsAlone
<1> QED
  BY <1>2, <1>3, <1>4, <1>5 DEF ArchiveInv, TasksIn

LEMMA NextArchive ==
    ASSUME TypeOK, RequestsAlone, RequestsAlone', ArchiveInv, [Next]_vars
    PROVE  ArchiveInv'
<1>c. crashes' = crashes
  BY DEF RequestsAlone
<1>p. \A h \in Handler : h \in Process /\ h # Sweeper
  BY QueueAssumption DEF Process
<1>1. CASE \E h \in Handler, a \in Agent : ArchiveAgent(h, a)
  BY <1>1, ArchivingKeepsArchive
<1>2. CASE ~\E h \in Handler, a \in Agent : ArchiveAgent(h, a)
  <2>1. archived' \subseteq archived
    BY <1>2, ArchivedShrinks
  <2>2. ASSUME NEW t \in Task, status'[t] \in Live, row'[t].agent \in archived'
        PROVE  BeingArchived(row[t].agent)' /\ row'[t].agent = row[t].agent
    <3>1. ASSUME NEW h \in Handler, InsertNew(h), row'[t] = NewRow(h) PROVE FALSE
      BY <2>1, <2>2, <3>1 DEF ArchiveInv, InsertNew, At, NewRow
    <3>2. ASSUME NEW h \in Handler, ContinueTask(h), row'[t] = ContinuationRow(loc[h].task) PROVE FALSE
      <4>1. pc[h] = "continue" /\ row'[t].agent = row[loc[h].task].agent
        <5>1. pc[h] = "continue" /\ loc[h].task \in Task
          BY <1>p, <3>2, LocIsLocal DEF ContinueTask, At, TypeOK, LocalAt
        <5> QED
          BY <3>2, <5>1 DEF ContinuationRow, TypeOK, TaskTypes, Row
      <4> QED
        BY <2>1, <2>2, <4>1 DEF ArchiveInv
    <3>3. status[t] \in Live /\ row'[t].agent = row[t].agent
      BY <2>2, <3>1, <3>2, LiveOrigin
    <3>4. PICK h \in Handler : pc[h] = "cancelAgent" /\ loc[h].agent = row[t].agent
      BY <2>1, <2>2, <3>3 DEF ArchiveInv, BeingArchived, TasksIn
    <3>5. CASE Stays(h)
      BY <3>3, <3>4, <3>5 DEF Stays, BeingArchived
    <3>6. CASE ~Stays(h)
      <4>1. CancelOnArchive(h)
        BY <1>c, <1>p, <3>4, <3>6, WhoMoves, ArriveFlow, ServeFlow DEF ServedBy
      <4>2. status'[t] = "cancelled"
        BY <3>3, <3>4, <4>1 DEF CancelOnArchive, CancelAgentTasksByAgent, SetStatus, Of, TasksIn
      <4> QED
        BY <2>2, <4>2 DEF Live, Pending, Underway
    <3> QED
      BY <3>3, <3>5, <3>6
  <2>3. ASSUME NEW h \in Handler, pc'[h] = "insert" PROVE loc'[h].agent \notin archived'
    <3>1. CASE Stays(h)
      BY <2>1, <2>3, <3>1 DEF Stays, ArchiveInv
    <3>2. CASE ~Stays(h)
      <4>1. ServedBy(h) /\ pc[h] \in ServedLabel
        BY <1>c, <1>p, <2>3, <3>2, WhoMoves, ArriveFlow, ServeFlow DEF FirstLabel
      <4>2. loc[h] \in Local
        BY <1>p, LocIsLocal DEF TypeOK
      <4>3. loc[h].then \in {"idle", "stale", "cancelIssue"}
        BY <4>2 DEF Local
      <4>4. LoadAgent(h)
        BY <2>3, <4>1, <4>3 DEF ServedBy, ServedLabel
      <4>5. loc[h].agent \notin archived /\ Goto(h, "insert", [loc[h] EXCEPT !.runtime = binding[loc[h].agent]])
        <5>1. loc[h].agent \in archived => Goto(h, loc[h].then, loc[h])
          BY <4>4 DEF LoadAgent
        <5>2. loc[h].agent \in archived => pc'[h] = loc[h].then
          BY <1>p, <5>1, GotoMoves DEF TypeOK
        <5> QED
          BY <2>3, <4>3, <4>4, <5>2 DEF LoadAgent
      <4>6. loc'[h] = [loc[h] EXCEPT !.runtime = binding[loc[h].agent]]
        BY <1>p, <4>5, GotoMoves DEF TypeOK
      <4> QED
        BY <2>1, <4>2, <4>5, <4>6 DEF Local
    <3> QED
      BY <3>1, <3>2
  <2>4. ASSUME NEW h \in Handler, pc'[h] \in {"loop", "continue"} PROVE row'[loc'[h].task].agent \notin archived'
    <3>1. CASE pc[h] \in {"loop", "continue"} /\ loc'[h] = loc[h]
      <4>1. loc[h].task \in Task /\ status[loc[h].task] # "absent"
        BY <1>p, <3>1, LocIsLocal, LocIsKnown DEF TypeOK, LocalAt, Knows
      <4>2. row'[loc[h].task].agent = row[loc[h].task].agent
        BY <4>1, StepKeepsAgents DEF RowsKeepAgent
      <4> QED
        BY <2>1, <3>1, <4>2 DEF ArchiveInv
    <3>2. ASSUME NEW t \in Task, NEW reason \in Reason, FailTask(h, t, reason), loc'[h].task = t
          PROVE  row'[t].agent \notin archived'
      <4>1. pc[h] = "idle" /\ t \in TasksIn(Live) /\ row'[t] = row[t]
        BY <1>p, <3>2, FailedWasLive
      <4>2. \A q \in Process \ {h} : Stays(q)
        BY <3>2, ArriveFlow DEF Arrive
      <4>3. ~BeingArchived(row[t].agent)
        BY <1>p, <2>4, <4>1, <4>2 DEF BeingArchived, Stays, RequestsAlone
      <4> QED
        BY <2>1, <4>1, <4>3 DEF ArchiveInv
    <3> QED
      BY <1>p, <2>4, <3>1, <3>2, FailingOrigin
  <2> QED
    BY <2>2, <2>3, <2>4 DEF ArchiveInv, TasksIn
<1> QED
  BY <1>1, <1>2

LEMMA InitArchive == Init => ArchiveInv
BY DEF Init, StoreInit, ArchiveInv, Process

\* Where requests come one at a time, no live task survives the archiving of
\* its agent: none is inserted for an agent that is archived, and the one that
\* archives it cancels the others before it ends.
THEOREM ArchivedIdle == Spec /\ []RequestsAlone => []ArchivedAgentHasNoTask
<1>1. Init => TypeOK /\ ArchiveInv
  BY InitTypes, InitArchive
<1>2. TypeOK /\ ArchiveInv /\ RequestsAlone /\ RequestsAlone' /\ [Next]_vars => TypeOK' /\ ArchiveInv'
  BY NextTypes, NextArchive
<1>3. ArchiveInv => ArchivedAgentHasNoTask
  BY DEF ArchiveInv, BeingArchived, ArchivedAgentHasNoTask, AtRest, Process, Of, TasksIn
<1> QED
  BY <1>1, <1>2, <1>3, PTL DEF Spec

-----------------------------------------------------------------------------
(* Where requests come one at a time: assigned issues *)

Assigned(a, x) == x \in Issue => a = assignee[x]

\* The task is its issue's assignee's, if the issue has one.
Follows(t) ==
    row[t].target \in Issue /\ assignee[row[t].target] # None => row[t].agent = assignee[row[t].target]

\* The request that reassigned the issue is about to cancel its tasks.
BeingReassigned(x) == \E h \in Handler : pc[h] = "reassign" /\ loc[h].target = x

FollowsAt(h) ==
    /\ pc[h] \in {"load", "insert"} => Assigned(loc[h].agent, loc[h].target)
    /\ pc[h] \in {"loop", "continue"} => Follows(loc[h].task)
    /\ pc[h] = "writeIssue" => /\ loc[h].target \in Issue
                               /\ \/ "reassigned" \in loc[h].marks
                                  \/ loc[h].agent \in {None, assignee[loc[h].target]}
    /\ pc[h] = "reassign" => loc[h].target \in Issue /\ loc[h].agent = assignee[loc[h].target]

\* The inductive invariant behind QueueFollowsAssignee.
AssigneeInv ==
    /\ \A t \in TasksIn(Live) : Follows(t) \/ BeingReassigned(row[t].target)
    /\ \A h \in Handler : FollowsAt(h)

LEMMA AssigneeKept ==
    ASSUME TypeOK, [Next]_vars, ~\E h \in Handler : WriteIssue(h)
    PROVE  UNCHANGED assignee
<1>1. ASSUME NEW h \in Handler, Arrive(h) PROVE UNCHANGED assignee
  BY <1>1 DEF Arrive, Comment, UpdateIssue, Mention, ResolveLoop, SendChatMessage, CompleteTask, CancelTask,
     FailTask, ClaimTaskForRuntime, DaemonRegister, ArchiveAgent, storeVars, issueVars
<1>2. ASSUME NEW h \in Handler, Serve(h) PROVE UNCHANGED assignee
  BY <1>2 DEF Serve, LoadAgent, InsertNew, InsertRejected, CheckCapacity, SnapshotQueue, LockTask, LockNothing,
     Deliver, DetectLoop, ContinueTask, ContinuationRejected, Reconcile, SetAgentStatus,
     CancelOnReassign, CancelOnStatus, CancelOnArchive, SkipIssue, MigrateAgents, MigrateTasks,
     UpdateIssueStatus, storeVars, issueVars
<1>3. CASE Sweep
  BY <1>3 DEF Sweep, SweepRuntimes, FailOffline, FailStale, ReadItem, CheckActive, ResetIssue, Reconcile,
     SetAgentStatus, UpdateIssueStatus, storeVars, issueVars
<1>4. CASE Environment
  BY <1>4 DEF Environment, StartTask, Age, RestoreAgent, BindAgent, DaemonDeregister, DaemonHeartbeat, Expire,
     Crash, storeVars, issueVars
<1>5. CASE UNCHANGED vars
  BY <1>5 DEF vars, storeVars, issueVars
<1> QED
  BY <1>1, <1>2, <1>3, <1>4, <1>5 DEF Next

\* What a request that enqueues or updates has read.
LEMMA ArriveAssigned ==
    ASSUME TypeOK, "mention" \notin Inputs, NEW h \in Handler, Arrive(h)
    PROVE  /\ pc'[h] = "load" => Assigned(loc'[h].agent, loc'[h].target)
           /\ pc'[h] = "writeIssue" => /\ loc'[h].target \in Issue
                                       /\ \/ "reassigned" \in loc'[h].marks
                                          \/ loc'[h].agent \in {None, assignee[loc'[h].target]}
<1> DEFINE Right == /\ pc'[h] = "load" => Assigned(loc'[h].agent, loc'[h].target)
                    /\ pc'[h] = "writeIssue" => /\ loc'[h].target \in Issue
                                                /\ \/ "reassigned" \in loc'[h].marks
                                                   \/ loc'[h].agent \in {None, assignee[loc'[h].target]}
<1>t. LocalTypes /\ h \in Process
  BY DEF TypeOK, Process
<1>e. ASSUME NEW a, NEW x, Enqueue(h, a, x), Assigned(a, x) PROVE Right
  <2> DEFINE l == [NoLoc EXCEPT !.agent = a, !.target = x]
  <2>1. Goto(h, "load", l) /\ l.agent = a /\ l.target = x
    BY <1>e DEF Enqueue, NoLoc
  <2> HIDE DEF l
  <2>2. pc'[h] = "load" /\ loc'[h] = l
    BY <1>t, <2>1, GotoMoves
  <2> QED
    BY <1>e, <2>1, <2>2
<1>o. ASSUME NEW label, NEW l, Goto(h, label, l), label \notin {"load", "writeIssue"} PROVE Right
  BY <1>t, <1>o, GotoMoves
<1>1. CASE \E i \in Issue : Comment(h, i)
  BY <1>1, <1>e DEF Comment, Assigned
<1>2. ASSUME NEW i \in Issue, UpdateIssue(h, i) PROVE Right
  <2>1. PICK s \in StatusRequest \cup {"keep"}, a \in Agent \cup {None}, asks \in {"nothing", "assign", "unassign"} :
          /\ asks = "nothing"  => a = assignee[i]
          /\ asks = "unassign" => a = None
          /\ Goto(h, "writeIssue", [NoLoc EXCEPT
               !.target = i, !.agent = a, !.status = s,
               !.marks = (IF asks = "assign" /\ a # assignee[i] THEN {"reassigned"} ELSE {})
                    \cup (IF s = "cancelled" /\ issueStatus[i] # s THEN {"cancelled"} ELSE {})])
    BY <1>2 DEF UpdateIssue
  <2> DEFINE l == [NoLoc EXCEPT
               !.target = i, !.agent = a, !.status = s,
               !.marks = (IF asks = "assign" /\ a # assignee[i] THEN {"reassigned"} ELSE {})
                    \cup (IF s = "cancelled" /\ issueStatus[i] # s THEN {"cancelled"} ELSE {})]
  <2>2. l.target = i /\ l.agent = a /\ (asks = "assign" /\ a # assignee[i] => "reassigned" \in l.marks)
    BY DEF NoLoc
  <2>3. Goto(h, "writeIssue", l)
    BY <2>1
  <2> HIDE DEF l
  <2>4. pc'[h] = "writeIssue" /\ loc'[h] = l
    BY <1>t, <2>3, GotoMoves
  <2> QED
    BY <2>1, <2>2, <2>4
<1>3. CASE \E i \in Issue, a \in Agent : Mention(h, i, a)
  BY <1>3 DEF Mention, Request
<1>4. CASE \E i \in Issue, a \in Agent : ResolveLoop(h, i, a)
  <2>0. CASE UNCHANGED <<pc, loc>>
    <3>1. pc'[h] = "idle"
      BY <1>4, <2>0 DEF ResolveLoop, Request, At
    <3> QED
      BY <3>1
  <2> QED
    BY <1>4, <2>0, <1>e, <1>o DEF ResolveLoop, Assigned
<1>5. CASE \E c \in Chat : SendChatMessage(h, c)
  BY <1>5, <1>e, StoreAssumption DEF SendChatMessage, Assigned
<1>6. CASE \E r \in Runtime : ClaimTaskForRuntime(h, r) \/ DaemonRegister(h, r)
  BY <1>6, <1>o DEF ClaimTaskForRuntime, DaemonRegister
<1>7. CASE \E t \in Task : CompleteTask(h, t) \/ CancelTask(h, t)
  BY <1>7, <1>o DEF CompleteTask, CancelTask, ReconcileThen
<1>8. CASE \E t \in Task, reason \in Reason : FailTask(h, t, reason)
  BY <1>8, <1>o DEF FailTask
<1>9. CASE \E a \in Agent : ArchiveAgent(h, a)
  BY <1>9, <1>o DEF ArchiveAgent
<1> QED
  BY <1>1, <1>2, <1>3, <1>4, <1>5, <1>6, <1>7, <1>8, <1>9 DEF Arrive

\* The write of an update: the issue's tasks follow, or the update goes on to
\* cancel them.
LEMMA WritingKeepsAssignee ==
    ASSUME TypeOK, RequestsAlone, AssigneeInv, NEW h \in Handler, WriteIssue(h)
    PROVE  AssigneeInv'
<1> DEFINE l == loc[h]
           x == loc[h].target
<1>p. h \in Process /\ LocalTypes
  BY DEF Process, TypeOK
<1>0. pc[h] = "writeIssue" /\ UNCHANGED <<status, row>> /\ l \in Local /\ crashes' = crashes
      /\ assignee' = [assignee EXCEPT ![x] = l.agent]
  BY <1>p, LocIsLocal DEF WriteIssue, At, taskVars
<1>1. /\ x \in Issue /\ assignee'[x] = l.agent
      /\ \A y \in Issue \ {x} : assignee'[y] = assignee[y]
      /\ "reassigned" \in l.marks \/ l.agent \in {None, assignee[x]}
  BY <1>0 DEF AssigneeInv, FollowsAt, TypeOK, IssueTypes
<1>2. /\ pc'[h] = IF "reassigned" \in l.marks THEN "reassign"
                  ELSE IF "cancelled" \in l.marks THEN "cancelIssue" ELSE "idle"
      /\ pc'[h] # "idle" => loc'[h] = l
      /\ \A q \in Process \ {h} : Stays(q)
  <2>1. Goto(h, IF "reassigned" \in l.marks THEN "reassign"
                ELSE IF "cancelled" \in l.marks THEN "cancelIssue" ELSE "idle", l)
    BY DEF WriteIssue
  <2> QED
    BY <1>p, <2>1, GotoMoves
<1>3. \A g \in Handler \ {h} : pc[g] = "idle" /\ pc'[g] = "idle"
  BY <1>0, <1>2 DEF RequestsAlone, Process, Stays
<1>4. \A g \in Handler : FollowsAt(g)'
  <2>1. \A g \in Handler \ {h} : FollowsAt(g)'
    BY <1>3 DEF FollowsAt
  <2>2. FollowsAt(h)'
    BY <1>1, <1>2 DEF FollowsAt
  <2> QED
    BY <2>1, <2>2
<1>5. ASSUME NEW t \in Task, status'[t] \in Live PROVE (Follows(t) \/ BeingReassigned(row[t].target))'
  <2>1. Follows(t)
    <3>1. ~BeingReassigned(row[t].target)
      BY <1>0, <1>3 DEF BeingReassigned
    <3> QED
      BY <1>0, <1>5, <3>1 DEF AssigneeInv, TasksIn
  <2>2. CASE row[t].target # x
    BY <1>0, <1>1, <2>1, <2>2 DEF Follows
  <2>3. CASE row[t].target = x /\ "reassigned" \in l.marks
    <3>1. pc'[h] = "reassign" /\ loc'[h].target = row'[t].target
      BY <1>0, <1>2, <2>3
    <3> QED
      BY <3>1 DEF BeingReassigned
  <2>4. CASE row[t].target = x /\ "reassigned" \notin l.marks
    BY <1>0, <1>1, <2>1, <2>4 DEF Follows
  <2> QED
    BY <2>2, <2>3, <2>4
<1> QED
  BY <1>4, <1>5 DEF AssigneeInv, TasksIn

LEMMA NextAssignee ==
    ASSUME TypeOK, "mention" \notin Inputs, RequestsAlone, RequestsAlone', AssigneeInv, [Next]_vars
    PROVE  AssigneeInv'
<1>c. crashes' = crashes
  BY DEF RequestsAlone
<1>p. \A h \in Handler : h \in Process /\ h # Sweeper
  BY QueueAssumption DEF Process
<1>1. CASE \E h \in Handler : WriteIssue(h)
  BY <1>1, WritingKeepsAssignee
<1>2. CASE ~\E h \in Handler : WriteIssue(h)
  <2>0. UNCHANGED assignee
    BY <1>2, AssigneeKept
  <2>k. ASSUME NEW t \in Task, Follows(t), row'[t].agent = row[t].agent, row'[t].target = row[t].target
        PROVE  Follows(t)'
    BY <2>0, <2>k DEF Follows
  <2>r. ASSUME NEW t \in Task, NEW u \in Task, Follows(t), row'[u].agent = row[t].agent, row'[u].target = row[t].target
        PROVE  Follows(u)'
    BY <2>0, <2>r DEF Follows
  <2>1. ASSUME NEW t \in Task, status'[t] \in Live PROVE (Follows(t) \/ BeingReassigned(row[t].target))'
    <3>1. ASSUME NEW h \in Handler, InsertNew(h), row'[t] = NewRow(h) PROVE Follows(t)'
      <4>1. Assigned(loc[h].agent, loc[h].target)
        BY <3>1 DEF InsertNew, At, AssigneeInv, FollowsAt
      <4>2. row'[t].agent = loc[h].agent /\ row'[t].target = loc[h].target
        BY <3>1 DEF NewRow
      <4> QED
        BY <2>0, <4>1, <4>2 DEF Follows, Assigned
    <3>2. ASSUME NEW h \in Handler, ContinueTask(h), row'[t] = ContinuationRow(loc[h].task) PROVE Follows(t)'
      <4>1. pc[h] = "continue" /\ loc[h].task \in Task
        BY <1>p, <3>2, LocIsLocal DEF ContinueTask, At, TypeOK, LocalAt
      <4>2. Follows(loc[h].task)
        BY <4>1 DEF AssigneeInv, FollowsAt
      <4>3. row'[t].agent = row[loc[h].task].agent /\ row'[t].target = row[loc[h].task].target
        BY <3>2, <4>1 DEF ContinuationRow, TypeOK, TaskTypes, Row
      <4> QED
        BY <2>r, <4>1, <4>2, <4>3
    <3>3. CASE status[t] \in Live /\ row'[t].agent = row[t].agent /\ row'[t].target = row[t].target
      <4>1. CASE Follows(t)
        BY <2>k, <3>3, <4>1
      <4>2. ASSUME NEW h \in Handler, pc[h] = "reassign", loc[h].target = row[t].target
            PROVE  BeingReassigned(row[t].target)'
        <5>1. CASE Stays(h)
          BY <3>3, <4>2, <5>1 DEF Stays, BeingReassigned
        <5>2. CASE ~Stays(h)
          <6>1. CancelOnReassign(h)
            BY <1>c, <1>p, <4>2, <5>2, WhoMoves, ArriveFlow, ServeFlow DEF ServedBy
          <6>2. status'[t] = "cancelled"
            BY <3>3, <4>2, <6>1 DEF CancelOnReassign, CancelAgentTasksByIssue, SetStatus, About, TasksIn
          <6> QED
            BY <2>1, <6>2 DEF Live, Pending, Underway
        <5> QED
          BY <5>1, <5>2
      <4> QED
        BY <3>3, <4>1, <4>2 DEF AssigneeInv, BeingReassigned, TasksIn
    <3> QED
      BY <2>1, <3>1, <3>2, <3>3, LiveOrigin
  <2>2. ASSUME NEW h \in Handler PROVE FollowsAt(h)'
    <3>l. loc[h] \in Local /\ loc[h].then \in {"idle", "stale", "cancelIssue"}
      <4>1. loc[h] \in Local
        BY <1>p, LocIsLocal DEF TypeOK
      <4> QED
        BY <4>1 DEF Local
    <3>1. CASE pc'[h] \in {"loop", "continue"}
      <4>1. CASE pc[h] \in {"loop", "continue"} /\ loc'[h] = loc[h]
        <5>1. loc[h].task \in Task /\ status[loc[h].task] # "absent" /\ Follows(loc[h].task)
          BY <1>p, <4>1, LocIsLocal, LocIsKnown DEF TypeOK, LocalAt, Knows, AssigneeInv, FollowsAt
        <5>2. row'[loc[h].task].agent = row[loc[h].task].agent /\ row'[loc[h].task].target = row[loc[h].task].target
          <6>1. CASE SameChains
            BY <5>1, <6>1 DEF SameChains
          <6>2. CASE \E n \in Task, new \in Row : Inserted(n, new)
            BY <5>1, <6>2 DEF Inserted
          <6> QED
            BY <6>1, <6>2, EveryStepOnRows
        <5>3. Follows(loc[h].task)'
          BY <2>k, <4>1, <5>1, <5>2 DEF Follows
        <5> QED
          BY <3>1, <4>1, <5>3 DEF FollowsAt
      <4>2. ASSUME NEW t \in Task, NEW reason \in Reason, FailTask(h, t, reason), loc'[h].task = t
            PROVE  Follows(t)'
        <5>1. pc[h] = "idle" /\ t \in TasksIn(Live) /\ row'[t] = row[t]
          BY <1>p, <4>2, FailedWasLive
        <5>2. \A q \in Process \ {h} : Stays(q)
          BY <4>2, ArriveFlow DEF Arrive
        <5>3. ~BeingReassigned(row[t].target)
          BY <1>p, <3>1, <5>1, <5>2 DEF BeingReassigned, Stays, RequestsAlone
        <5> QED
          BY <2>k, <5>1, <5>3 DEF AssigneeInv
      <4> QED
        BY <1>p, <3>1, <4>1, <4>2, FailingOrigin DEF FollowsAt
    <3>2. CASE pc'[h] \notin {"loop", "continue"} /\ Stays(h)
      BY <2>0, <3>2 DEF Stays, FollowsAt, Assigned, AssigneeInv
    <3>3. CASE pc'[h] \notin {"loop", "continue"} /\ Arrive(h)
      <4>1. pc'[h] \notin {"insert", "reassign"}
        BY <3>3, ArriveFlow DEF FirstLabel
      <4>2. /\ pc'[h] = "load" => Assigned(loc'[h].agent, loc'[h].target)
            /\ pc'[h] = "writeIssue" => /\ loc'[h].target \in Issue
                                        /\ \/ "reassigned" \in loc'[h].marks
                                           \/ loc'[h].agent \in {None, assignee[loc'[h].target]}
        BY <3>3, ArriveAssigned
      <4> QED
        BY <2>0, <3>3, <4>1, <4>2 DEF FollowsAt, Assigned
    <3>4. CASE pc'[h] \notin {"loop", "continue"} /\ Serve(h)
      <4>1. ServedBy(h) /\ pc[h] \in ServedLabel
        BY <1>p, <3>4, ServeFlow
      <4>2. pc'[h] \notin {"writeIssue", "reassign"}
        BY <1>2, <3>l, <4>1 DEF ServedBy, ServedLabel
      <4>3. CASE pc'[h] = "insert"
        <5>1. LoadAgent(h) /\ pc[h] = "load"
          BY <3>l, <4>1, <4>3 DEF ServedBy, ServedLabel
        <5>2. loc'[h].agent = loc[h].agent /\ loc'[h].target = loc[h].target
          <6> DEFINE k == [loc[h] EXCEPT !.runtime = binding[loc[h].agent]]
          <6>1. Goto(h, loc[h].then, loc[h]) \/ Goto(h, "insert", k)
            BY <5>1 DEF LoadAgent
          <6>2. k.agent = loc[h].agent /\ k.target = loc[h].target
            BY <3>l DEF Local
          <6> HIDE DEF k
          <6>3. loc'[h] = k
            BY <1>p, <3>l, <4>3, <6>1, GotoMoves DEF TypeOK
          <6> QED
            BY <6>2, <6>3
        <5>3. Assigned(loc[h].agent, loc[h].target)
          BY <5>1 DEF AssigneeInv, FollowsAt
        <5> QED
          BY <2>0, <4>3, <5>2, <5>3 DEF FollowsAt, Assigned
      <4>4. CASE pc'[h] = "load"
        <5>1. CancelOnReassign(h) /\ pc[h] = "reassign"
          BY <3>l, <4>1, <4>4 DEF ServedBy, ServedLabel
        <5>2. loc'[h].agent = loc[h].agent /\ loc'[h].target = loc[h].target
          <6> DEFINE k == [loc[h] EXCEPT !.then = IF "cancelled" \in loc[h].marks THEN "cancelIssue" ELSE "idle"]
          <6>1. Goto(h, "load", k)
            BY <5>1 DEF CancelOnReassign
          <6>2. k.agent = loc[h].agent /\ k.target = loc[h].target
            BY <3>l DEF Local
          <6> HIDE DEF k
          <6>3. loc'[h] = k
            BY <1>p, <6>1, GotoMoves DEF TypeOK
          <6> QED
            BY <6>2, <6>3
        <5>3. loc[h].agent = assignee[loc[h].target]
          BY <5>1 DEF AssigneeInv, FollowsAt
        <5> QED
          BY <2>0, <4>4, <5>2, <5>3 DEF FollowsAt, Assigned
      <4>5. CASE pc'[h] \notin {"insert", "load"}
        BY <3>4, <4>2, <4>5 DEF FollowsAt
      <4> QED
        BY <4>3, <4>4, <4>5
    <3> QED
      BY <1>c, <1>p, <3>1, <3>2, <3>3, <3>4, WhoMoves
  <2> QED
    BY <2>1, <2>2 DEF AssigneeInv, TasksIn
<1> QED
  BY <1>1, <1>2

LEMMA InitAssignee == Init => AssigneeInv
BY DEF Init, StoreInit, AssigneeInv, FollowsAt, TasksIn, Live, Pending, Underway, Process

\* Where requests come one at a time and nobody is mentioned, the live tasks of
\* an assigned issue are its assignee's once the requests are done: an update
\* that reassigns it cancels the tasks of whoever had it before it enqueues, and
\* no failure continues a task that it has cancelled.
THEOREM AssigneeServed ==
    ASSUME "mention" \notin Inputs
    PROVE  Spec /\ []RequestsAlone => []QueueFollowsAssignee
<1>1. Init => TypeOK /\ AssigneeInv
  BY InitTypes, InitAssignee
<1>2. TypeOK /\ AssigneeInv /\ RequestsAlone /\ RequestsAlone' /\ [Next]_vars => TypeOK' /\ AssigneeInv'
  BY NextTypes, NextAssignee
<1>3. AssigneeInv => QueueFollowsAssignee
  BY DEF AssigneeInv, BeingReassigned, QueueFollowsAssignee, AtRest, Follows, Process
<1> QED
  BY <1>1, <1>2, <1>3, PTL DEF Spec

-----------------------------------------------------------------------------
(* Where nothing overlaps: the status of an agent *)

\* At most one goroutine is at work, and the server has not crashed.
OneAtATime == crashes = 0 /\ \A p, q \in Process : pc[p] # "idle" /\ pc[q] # "idle" => p = q

Right(a) == agentStatus[a] = "working" <=> Running(a) # {}

\* The goroutine writes the agent's status before it ends.
WillSet(p, a) ==
    \/ pc[p] = "deliver" /\ loc[p].agent = a
    \/ /\ pc[p] \in {"loop", "continue", "reconcile", "setStatus", "item", "hasActive", "reset"}
       /\ a \in loc[p].agents

\* What the goroutine writes there is still so.
StatusAt(p) ==
    /\ pc[p] = "deliver" => Running(loc[p].agent) # {}
    /\ pc[p] = "setStatus" => (loc[p].status = "working" <=> Running(loc[p].agent) # {})

\* The inductive invariant behind AgentStatusReconciled.
StatusInv ==
    /\ \A a \in Agent : Right(a) \/ \E p \in Process : WillSet(p, a)
    /\ \A p \in Process : StatusAt(p)

LEMMA OthersIdle ==
    ASSUME OneAtATime, OneAtATime', NEW p \in Process, pc[p] # "idle" \/ pc'[p] # "idle",
           \A q \in Process \ {p} : Stays(q)
    PROVE  \A q \in Process \ {p} : pc[q] = "idle" /\ pc'[q] = "idle"
BY DEF OneAtATime, Stays

\* The others have nothing to write, and nothing written is about to go wrong.
LEMMA OthersAreRight ==
    ASSUME StatusInv, NEW p \in Process, \A q \in Process \ {p} : pc[q] = "idle" /\ pc'[q] = "idle"
    PROVE  /\ \A a \in Agent : Right(a) \/ WillSet(p, a)
           /\ \A q \in Process \ {p} : StatusAt(q)'
BY DEF StatusInv, WillSet, StatusAt

LEMMA NobodySets ==
    ASSUME NEW p \in Process, \A q \in Process \ {p} : pc'[q] = "idle", pc'[p] \notin {"deliver", "setStatus"}
    PROVE  \A q \in Process : StatusAt(q)'
BY DEF StatusAt

LEMMA RunningKept ==
    ASSUME TypeOK, [Next]_vars, NoCancelling, ~FailOffline, ~FailStale,
           ~\E h \in Handler : LockTask(h), \A h \in Handler, t \in Task : ~EndsTask(h, t)
    PROVE  \A a : Running(a)' = Running(a)
<1>1. Lasts /\ RowsKeepAgent /\ \A a : Running(a)' \subseteq Running(a)
  BY TasksLast, StepKeepsAgents, StepStartsNothing
<1>2. ASSUME NEW a, NEW t \in Running(a) PROVE t \in Running(a)'
  BY <1>1, <1>2 DEF Running, Of, TasksIn, Lasts, RowsKeepAgent, Underway
<1> QED
  BY <1>1, <1>2

LEMMA StatusKept ==
    ASSUME TypeOK, [Next]_vars, ~\E p \in Process : Deliver(p) \/ SetAgentStatus(p)
    PROVE  UNCHANGED agentStatus
<1>1. ASSUME NEW h \in Handler, Arrive(h) PROVE UNCHANGED agentStatus
  BY <1>1 DEF Arrive, Comment, UpdateIssue, Mention, ResolveLoop, SendChatMessage, CompleteTask, CancelTask,
     FailTask, ClaimTaskForRuntime, DaemonRegister, ArchiveAgent, storeVars, agentVars
<1>2. ASSUME NEW h \in Handler, Serve(h) PROVE UNCHANGED agentStatus
  BY <1>2 DEF Process, Serve, LoadAgent, InsertNew, InsertRejected, CheckCapacity, SnapshotQueue, LockTask, LockNothing,
     DetectLoop, ContinueTask, ContinuationRejected, Reconcile, WriteIssue,
     CancelOnReassign, CancelOnStatus, CancelOnArchive, SkipIssue, MigrateAgents, MigrateTasks,
     MigrateAgentsToRuntime, storeVars, agentVars
<1>3. CASE Sweep
  BY <1>3 DEF Process, Sweep, SweepRuntimes, FailOffline, FailStale, ReadItem, CheckActive, ResetIssue, Reconcile,
     storeVars, agentVars
<1>4. CASE Environment
  BY <1>4 DEF Environment, StartTask, Age, RestoreAgent, BindAgent, DaemonDeregister, DaemonHeartbeat, Expire,
     Crash, storeVars, agentVars
<1>5. CASE UNCHANGED vars
  BY <1>5 DEF vars, storeVars, agentVars
<1> QED
  BY <1>1, <1>2, <1>3, <1>4, <1>5 DEF Next

\* A goroutine goes on with the agents it has to reconcile.
LEMMA WillSetKept ==
    ASSUME TypeOK, [Next]_vars, crashes' = crashes, NEW p \in Process, NEW a, WillSet(p, a),
           ~Deliver(p), ~SetAgentStatus(p)
    PROVE  WillSet(p, a)'
<1>t. LocalTypes /\ loc[p] \in Local
  BY LocIsLocal DEF TypeOK
<1>g. ASSUME NEW label \in {"continue", "reconcile", "setStatus", "item", "hasActive", "reset"}, NEW l,
             Goto(p, label, l), a \in l.agents
      PROVE  WillSet(p, a)'
  <2>1. pc'[p] = label /\ loc'[p] = l
    BY <1>t, <1>g, GotoMoves
  <2> QED
    BY <1>g, <2>1 DEF WillSet
<1>0. CASE Stays(p)
  BY <1>0 DEF Stays, WillSet
<1>1. CASE ~Stays(p)
  <2>1. \/ ServedBy(p) /\ pc[p] \in ServedLabel
        \/ p = Sweeper /\ SweptBy /\ pc[p] \in SweptLabel
    BY <1>1, WhoMoves, ArriveFlow, ServeFlow, SweepFlow DEF WillSet
  <2>2. a \in loc[p].agents
    BY <2>1 DEF WillSet, ServedBy, SweptLabel
  <2>3. CASE DetectLoop(p) \/ ContinueTask(p) \/ ContinuationRejected(p)
    BY <1>g, <2>2, <2>3 DEF DetectLoop, ContinueTask, ContinuationRejected
  <2>4. CASE Reconcile(p)
    <3>1. PICK b \in loc[p].agents : Goto(p, "setStatus", [loc[p] EXCEPT !.agent = b,
                !.status = IF CountRunning(b) > 0 THEN "working" ELSE "idle"])
      BY <2>4 DEF Reconcile
    <3> DEFINE l == [loc[p] EXCEPT !.agent = b,
                !.status = IF CountRunning(b) > 0 THEN "working" ELSE "idle"]
    <3>2. l.agents = loc[p].agents
      BY <1>t DEF Local
    <3>3. Goto(p, "setStatus", l)
      BY <3>1
    <3> QED
      BY <1>g, <2>2, <3>2, <3>3
  <2>5. CASE p = Sweeper /\ (ReadItem \/ CheckActive \/ ResetIssue)
    <3>n. ASSUME NEW l \in Local, NextItem(l), a \in l.agents PROVE WillSet(p, a)'
      <4> DEFINE k == [l EXCEPT !.target = None]
      <4>1. k.agents = l.agents
        BY DEF Local
      <4>2. Goto(p, "item", k) \/ Goto(p, "reconcile", k)
        BY <2>5, <3>n DEF NextItem
      <4> QED
        BY <1>g, <3>n, <4>1, <4>2
    <3>1. CASE ReadItem
      <4>1. PICK t \in loc[p].tasks :
              LET i    == row[t].target
                  rest == [loc[p] EXCEPT !.tasks = @ \ {t}]
              IN  \/ Goto(p, "hasActive", [rest EXCEPT !.target = i, !.seen = @ \cup {i}])
                  \/ NextItem(rest)
        BY <2>5, <3>1 DEF ReadItem
      <4> DEFINE i    == row[t].target
                 rest == [loc[p] EXCEPT !.tasks = @ \ {t}]
                 k    == [rest EXCEPT !.target = i, !.seen = @ \cup {i}]
      <4>2. rest \in Local /\ rest.agents = loc[p].agents /\ k.agents = loc[p].agents
        BY <1>t DEF Local
      <4>3. Goto(p, "hasActive", k) \/ NextItem(rest)
        BY <4>1
      <4> QED
        BY <1>g, <2>2, <3>n, <4>2, <4>3
    <3>2. CASE CheckActive \/ ResetIssue
      BY <1>g, <1>t, <2>2, <2>5, <3>2, <3>n DEF CheckActive, ResetIssue
    <3> QED
      BY <2>5, <3>1, <3>2
  <2> QED
    BY <2>1, <2>3, <2>4, <2>5 DEF WillSet, ServedBy, SweptBy, ServedLabel, SweptLabel
<1> QED
  BY <1>0, <1>1

-----------------------------------------------------------------------------
LEMMA LockingKeepsStatus ==
    ASSUME TypeOK, OneAtATime, OneAtATime', SnapshotIsOwn, StatusInv, NEW h \in Process, LockTask(h)
    PROVE  StatusInv'
<1>l. loc[h] \in Local /\ LocalTypes
  BY LocIsLocal DEF TypeOK
<1>1. PICK t \in Task : ClaimAgentTask(t, loc[h].tasks) /\ Goto(h, "deliver", [loc[h] EXCEPT !.task = t, !.tasks = {}])
  BY DEF LockTask
<1> DEFINE l == [loc[h] EXCEPT !.task = t, !.tasks = {}]
<1>2. l.agent = loc[h].agent /\ Goto(h, "deliver", l)
  BY <1>l, <1>1 DEF Local
<1> HIDE DEF l
<1>3. pc[h] = "lock" /\ pc'[h] = "deliver" /\ loc'[h].agent = loc[h].agent
      /\ \A q \in Process \ {h} : Stays(q)
  BY <1>l, <1>2, GotoMoves DEF LockTask, At
<1>4. \A q \in Process \ {h} : pc[q] = "idle" /\ pc'[q] = "idle"
  BY <1>3, OthersIdle
<1>5. row[t].agent = loc[h].agent /\ UNCHANGED row /\ status'[t] = "dispatched"
      /\ \A u \in Task \ {t} : status'[u] = status[u]
  BY <1>1, <1>3 DEF SnapshotIsOwn, ClaimAgentTask, SetStatus
<1>6. StatusAt(h)'
  BY <1>3, <1>5 DEF StatusAt, Running, Of, TasksIn, Underway
<1>7. ASSUME NEW a \in Agent PROVE Right(a)' \/ WillSet(h, a)'
  <2>1. CASE a = loc[h].agent
    BY <1>3, <2>1 DEF WillSet
  <2>2. CASE a # loc[h].agent
    <3>1. Right(a)
      BY <1>3, <1>4, OthersAreRight DEF WillSet
    <3>2. Running(a)' = Running(a)
      BY <1>5, <2>2 DEF Running, Of, TasksIn
    <3>3. UNCHANGED agentStatus
      BY DEF LockTask, agentVars
    <3> QED
      BY <3>1, <3>2, <3>3 DEF Right
  <2> QED
    BY <2>1, <2>2
<1> QED
  BY <1>4, <1>6, <1>7, OthersAreRight DEF StatusInv

\* A request that ends a task reconciles its agent.
LEMMA EndingGoes ==
    ASSUME TypeOK, NEW h \in Handler, NEW t \in Task, EndsTask(h, t)
    PROVE  /\ pc[h] = "idle" /\ pc'[h] \in {"loop", "continue", "reconcile"} /\ loc'[h].agents = {row[t].agent}
           /\ \A q \in Process \ {h} : Stays(q)
           /\ UNCHANGED <<row, agentStatus>>
           /\ \A u \in Task \ {t} : status'[u] = status[u]
<1>t. LocalTypes /\ h \in Process
  BY DEF TypeOK, Process
<1>g. ASSUME NEW label \in {"loop", "continue", "reconcile"}, NEW l, Goto(h, label, l), l.agents = {row[t].agent}
      PROVE  pc'[h] \in {"loop", "continue", "reconcile"} /\ loc'[h].agents = {row[t].agent}
             /\ \A q \in Process \ {h} : Stays(q)
  BY <1>t, <1>g, GotoMoves
<1>s. ASSUME NEW outcome, SetStatus({t}, outcome)
      PROVE  UNCHANGED row /\ \A u \in Task \ {t} : status'[u] = status[u]
  BY <1>s DEF SetStatus
<1>1. CASE CompleteTask(h, t) \/ CancelTask(h, t)
  <2> DEFINE l == [NoLoc EXCEPT !.agents = {row[t].agent}, !.then = "idle"]
  <2>1. Goto(h, "reconcile", l) /\ l.agents = {row[t].agent}
    BY <1>1 DEF CompleteTask, CancelTask, ReconcileThen, NoLoc
  <2> HIDE DEF l
  <2>2. pc'[h] \in {"loop", "continue", "reconcile"} /\ loc'[h].agents = {row[t].agent}
        /\ \A q \in Process \ {h} : Stays(q)
    BY <1>g, <2>1
  <2>3. pc[h] = "idle" /\ UNCHANGED agentStatus /\ \E outcome : SetStatus({t}, outcome)
    BY <1>1 DEF CompleteTask, CancelTask, Request, At, CompleteAgentTask, CancelAgentTask, agentVars
  <2> QED
    BY <1>s, <2>2, <2>3
<1>2. ASSUME NEW reason \in Reason, FailTask(h, t, reason)
      PROVE  /\ pc[h] = "idle" /\ pc'[h] \in {"loop", "continue", "reconcile"} /\ loc'[h].agents = {row[t].agent}
             /\ \A q \in Process \ {h} : Stays(q)
             /\ UNCHANGED <<row, agentStatus>>
             /\ \A u \in Task \ {t} : status'[u] = status[u]
  <2> DEFINE l == [NoLoc EXCEPT !.task = t, !.agents = {row[t].agent},
                   !.marks = IF MayContinue(t, reason) THEN {"retry"} ELSE {}]
  <2>1. Goto(h, "loop", l) \/ Goto(h, "continue", l) \/ Goto(h, "reconcile", l)
    BY <1>2 DEF FailTask
  <2>2. l.agents = {row[t].agent}
    BY DEF NoLoc
  <2> HIDE DEF l
  <2>3. pc'[h] \in {"loop", "continue", "reconcile"} /\ loc'[h].agents = {row[t].agent}
        /\ \A q \in Process \ {h} : Stays(q)
    BY <1>g, <2>1, <2>2
  <2>4. pc[h] = "idle" /\ UNCHANGED agentStatus /\ \E outcome : SetStatus({t}, outcome)
    BY <1>2 DEF FailTask, Request, At, FailAgentTask, agentVars
  <2> QED
    BY <1>s, <2>3, <2>4
<1> QED
  BY <1>1, <1>2 DEF EndsTask

LEMMA EndingKeepsStatus ==
    ASSUME TypeOK, OneAtATime, OneAtATime', StatusInv, NEW h \in Handler, NEW t \in Task, EndsTask(h, t)
    PROVE  StatusInv'
<1>h. h \in Process
  BY DEF Process
<1>1. \A q \in Process \ {h} : pc[q] = "idle" /\ pc'[q] = "idle"
  BY <1>h, EndingGoes, OthersIdle
<1>2. ASSUME NEW a \in Agent PROVE Right(a)' \/ WillSet(h, a)'
  <2>1. CASE a = row[t].agent
    BY <2>1, EndingGoes DEF WillSet
  <2>2. CASE a # row[t].agent
    <3>1. Right(a)
      BY <1>1, <1>h, EndingGoes, OthersAreRight DEF WillSet
    <3>2. Running(a)' = Running(a)
      BY <2>2, EndingGoes DEF Running, Of, TasksIn
    <3> QED
      BY <3>1, <3>2, EndingGoes DEF Right
  <2> QED
    BY <2>1, <2>2
<1>3. \A q \in Process : StatusAt(q)'
  BY <1>1, <1>h, EndingGoes, NobodySets
<1> QED
  BY <1>2, <1>3, <1>h DEF StatusInv

\* The sweeper reconciles the agents of the tasks that it fails.
LEMMA FailingKeepsStatus ==
    ASSUME TypeOK, OneAtATime, OneAtATime', StatusInv, FailOffline \/ FailStale
    PROVE  StatusInv'
<1>p. Sweeper \in Process /\ LocalTypes
  BY DEF Process, TypeOK
<1>1. PICK S \in SUBSET Task, then \in {"idle", "stale"} : SetStatus(S, "failed") /\ Broadcast(S, then)
  BY DEF FailOffline, FailStale, FailTasksForOfflineRuntimes, FailStaleTasks, OrphanedTasks, StaleTasks, TasksIn
<1>2. pc[Sweeper] \in {"offline", "stale"} /\ UNCHANGED <<row, agentStatus>> /\ \A u \in Task \ S : status'[u] = status[u]
  BY <1>1 DEF FailOffline, FailStale, At, SetStatus, agentVars
<1> DEFINE l == [NoLoc EXCEPT !.tasks = S, !.then = then, !.agents = {row[t].agent : t \in S}]
<1>3. /\ S = {} => Goto(Sweeper, then, NoLoc)
      /\ S # {} => Goto(Sweeper, "item", l)
  BY <1>1 DEF Broadcast
<1>4. l.agents = {row[t].agent : t \in S}
  BY DEF NoLoc
<1> HIDE DEF l
<1>5. /\ S = {} => pc'[Sweeper] = then
      /\ S # {} => pc'[Sweeper] = "item" /\ loc'[Sweeper] = l
      /\ \A q \in Process \ {Sweeper} : Stays(q)
  BY <1>p, <1>3, GotoMoves
<1>6. \A q \in Process \ {Sweeper} : pc[q] = "idle" /\ pc'[q] = "idle"
  BY <1>2, <1>5, <1>p, OthersIdle
<1>7. ASSUME NEW a \in Agent PROVE Right(a)' \/ WillSet(Sweeper, a)'
  <2>1. CASE \E t \in S : row[t].agent = a
    BY <1>4, <1>5, <2>1 DEF WillSet
  <2>2. CASE ~\E t \in S : row[t].agent = a
    <3>1. Right(a)
      BY <1>2, <1>6, <1>p, OthersAreRight DEF WillSet
    <3>2. Running(a)' = Running(a)
      BY <1>2, <2>2 DEF Running, Of, TasksIn
    <3> QED
      BY <1>2, <3>1, <3>2 DEF Right
  <2> QED
    BY <2>1, <2>2
<1>8. \A q \in Process : StatusAt(q)'
  BY <1>1, <1>5, <1>6, <1>p, NobodySets
<1> QED
  BY <1>7, <1>8, <1>p DEF StatusInv

LEMMA SettingKeepsStatus ==
    ASSUME TypeOK, OneAtATime, OneAtATime', StatusInv, NEW p \in Process, SetAgentStatus(p)
    PROVE  StatusInv'
<1>l. loc[p] \in Local /\ LocalTypes /\ loc[p].then \in {"idle", "stale", "cancelIssue"}
  <2>1. loc[p] \in Local /\ LocalTypes
    BY LocIsLocal DEF TypeOK
  <2> QED
    BY <2>1 DEF Local
<1> DEFINE rest == loc[p].agents \ {loc[p].agent}
           l == [NoLoc EXCEPT !.agents = rest, !.then = loc[p].then]
<1>1. /\ rest = {} => Goto(p, loc[p].then, NoLoc)
      /\ rest # {} => Goto(p, "reconcile", l)
  BY DEF SetAgentStatus, ReconcileThen
<1>2. l.agents = rest
  BY DEF NoLoc
<1>3. pc[p] = "setStatus" /\ UNCHANGED <<status, row>>
      /\ agentStatus' = [agentStatus EXCEPT ![loc[p].agent] = loc[p].status]
  BY DEF SetAgentStatus, At, UpdateAgentStatus, taskVars
<1> HIDE DEF l, rest
<1>4. /\ rest = {} => pc'[p] = loc[p].then
      /\ rest # {} => pc'[p] = "reconcile" /\ loc'[p] = l
      /\ \A q \in Process \ {p} : Stays(q)
  BY <1>l, <1>1, GotoMoves
<1>5. \A q \in Process \ {p} : pc[q] = "idle" /\ pc'[q] = "idle"
  BY <1>3, <1>4, OthersIdle
<1>6. \A a : Running(a)' = Running(a)
  BY <1>3 DEF Running, Of, TasksIn
<1>7. ASSUME NEW a \in Agent PROVE Right(a)' \/ WillSet(p, a)'
  <2>1. CASE a = loc[p].agent
    <3>1. loc[p].status = "working" <=> Running(a) # {}
      BY <1>3, <2>1 DEF StatusInv, StatusAt
    <3>2. agentStatus'[a] = loc[p].status
      BY <1>3, <2>1 DEF TypeOK, AgentTypes
    <3> QED
      BY <1>6, <3>1, <3>2 DEF Right
  <2>2. CASE a \in rest
    BY <1>2, <1>4, <2>2 DEF WillSet
  <2>3. CASE a # loc[p].agent /\ a \notin rest
    <3>1. Right(a)
      BY <1>3, <1>5, <2>3, OthersAreRight DEF WillSet, rest
    <3>2. agentStatus'[a] = agentStatus[a]
      BY <1>3, <2>3 DEF TypeOK, AgentTypes
    <3> QED
      BY <1>6, <3>1, <3>2 DEF Right
  <2> QED
    BY <2>1, <2>2, <2>3
<1>8. \A q \in Process : StatusAt(q)'
  <2>1. pc'[p] \notin {"deliver", "setStatus"}
    BY <1>l, <1>4
  <2> QED
    BY <1>5, <2>1, NobodySets
<1> QED
  BY <1>7, <1>8 DEF StatusInv

LEMMA DeliveringKeepsStatus ==
    ASSUME TypeOK, OneAtATime, OneAtATime', StatusInv, NEW h \in Process, Deliver(h)
    PROVE  StatusInv'
<1>1. pc[h] = "deliver" /\ UNCHANGED <<status, row>>
      /\ agentStatus' = [agentStatus EXCEPT ![loc[h].agent] = "working"]
  BY DEF Deliver, At, UpdateAgentStatus, taskVars
<1>2. pc'[h] \in {"count", "idle"} /\ \A q \in Process \ {h} : Stays(q)
  <2>1. Serve(h)
    BY DEF Serve
  <2> QED
    BY <1>1, <2>1, ServeFlow DEF ServedBy
<1>3. \A q \in Process \ {h} : pc[q] = "idle" /\ pc'[q] = "idle"
  BY <1>1, <1>2, OthersIdle
<1>4. \A a : Running(a)' = Running(a)
  BY <1>1 DEF Running, Of, TasksIn
<1>5. ASSUME NEW a \in Agent PROVE Right(a)'
  <2>1. CASE a = loc[h].agent
    <3>1. Running(a) # {}
      BY <1>1, <2>1 DEF StatusInv, StatusAt
    <3>2. agentStatus'[a] = "working"
      BY <1>1, <2>1 DEF TypeOK, AgentTypes
    <3> QED
      BY <1>4, <3>1, <3>2 DEF Right
  <2>2. CASE a # loc[h].agent
    <3>1. Right(a)
      BY <1>1, <1>3, <2>2, OthersAreRight DEF WillSet
    <3>2. agentStatus'[a] = agentStatus[a]
      BY <1>1, <2>2 DEF TypeOK, AgentTypes
    <3> QED
      BY <1>4, <3>1, <3>2 DEF Right
  <2> QED
    BY <2>1, <2>2
<1>6. \A q \in Process : StatusAt(q)'
  BY <1>2, <1>3, NobodySets
<1> QED
  BY <1>5, <1>6 DEF StatusInv

\* Any other step: what runs is what ran, and a reconciliation counts it.
LEMMA ReadingKeepsStatus ==
    ASSUME TypeOK, [Next]_vars, crashes' = crashes, NoCancelling, StatusInv, ~FailOffline, ~FailStale,
           ~\E p \in Process : LockTask(p) \/ Deliver(p) \/ SetAgentStatus(p),
           \A h \in Handler, t \in Task : ~EndsTask(h, t), \A a \in Agent : IsFiniteSet(Running(a))
    PROVE  StatusInv'
<1>1. UNCHANGED agentStatus /\ \A a : Running(a)' = Running(a)
  BY StatusKept, RunningKept DEF Process
<1>2. ASSUME NEW a \in Agent PROVE Right(a)' \/ \E p \in Process : WillSet(p, a)'
  <2>1. CASE Right(a)
    BY <1>1, <2>1 DEF Right
  <2>2. ASSUME NEW p \in Process, WillSet(p, a) PROVE WillSet(p, a)'
    BY <2>2, WillSetKept
  <2> QED
    BY <2>1, <2>2 DEF StatusInv
<1>3. ASSUME NEW p \in Process, pc'[p] = "deliver" PROVE Running(loc'[p].agent) # {}
  BY <1>3, StepIsQuiet DEF Quiet, DeliveryKept, StatusInv, StatusAt
<1>4. ASSUME NEW p \in Process, pc'[p] = "setStatus"
      PROVE  loc'[p].status = "working" <=> Running(loc'[p].agent) # {}
  <2>1. CASE Stays(p)
    BY <1>4, <2>1 DEF Stays, StatusInv, StatusAt
  <2>2. CASE ~Stays(p)
    <3>l. loc[p] \in Local /\ LocalTypes /\ loc[p].then # "setStatus" /\ loc[p].agents \subseteq Agent
      <4>1. loc[p] \in Local /\ LocalTypes
        BY LocIsLocal DEF TypeOK
      <4> QED
        BY <4>1 DEF Local
    <3>1. \/ ServedBy(p) /\ pc[p] \in ServedLabel
          \/ p = Sweeper /\ SweptBy /\ pc[p] \in SweptLabel
      BY <1>4, <2>2, WhoMoves, ArriveFlow, ServeFlow, SweepFlow DEF FirstLabel
    <3>2. Reconcile(p)
      BY <1>4, <3>1, <3>l DEF ServedBy, SweptBy, ServedLabel, SweptLabel
    <3>3. PICK b \in loc[p].agents : Goto(p, "setStatus", [loc[p] EXCEPT !.agent = b,
                !.status = IF CountRunning(b) > 0 THEN "working" ELSE "idle"])
      BY <3>2 DEF Reconcile
    <3> DEFINE l == [loc[p] EXCEPT !.agent = b,
                !.status = IF CountRunning(b) > 0 THEN "working" ELSE "idle"]
    <3>4. l.agent = b /\ l.status = IF CountRunning(b) > 0 THEN "working" ELSE "idle"
      BY <3>l DEF Local
    <3>5. Goto(p, "setStatus", l)
      BY <3>3
    <3> HIDE DEF l
    <3>6. loc'[p] = l
      BY <3>l, <3>5, GotoMoves
    <3>7. CountRunning(b) > 0 <=> Running(b) # {}
      <4>1. IsFiniteSet(Running(b)) /\ CountRunning(b) = Cardinality(Running(b))
        BY <3>l DEF CountRunning, Running
      <4>2. Cardinality(Running(b)) \in Nat /\ (Cardinality(Running(b)) = 0 <=> Running(b) = {})
        BY <4>1, FS_CardinalityType, FS_EmptySet
      <4> QED
        BY <4>1, <4>2
    <3> QED
      BY <3>4, <3>6, <3>7
  <2> QED
    BY <2>1, <2>2
<1>5. \A p \in Process : StatusAt(p)'
  BY <1>1, <1>3, <1>4 DEF StatusAt
<1> QED
  BY <1>2, <1>5 DEF StatusInv

LEMMA NextStatus ==
    ASSUME TypeOK, [Next]_vars, OneAtATime, OneAtATime', NoCancelling, SnapshotIsOwn,
           \A a \in Agent : IsFiniteSet(Running(a)), StatusInv
    PROVE  StatusInv'
<1>c. crashes' = crashes
  BY DEF OneAtATime
<1> QED
  BY <1>c, LockingKeepsStatus, EndingKeepsStatus, FailingKeepsStatus, SettingKeepsStatus,
     DeliveringKeepsStatus, ReadingKeepsStatus

LEMMA InitStatus == Init => StatusInv
BY DEF Init, StoreInit, StatusInv, StatusAt, Right, Running, Of, TasksIn, Underway

\* Where nothing overlaps and no update or archiving cancels tasks in bulk, an
\* agent's status is "working" exactly while it has a task underway, and there is
\* no need to except the agents of cancelled tasks: whatever starts or ends a
\* task writes the status of its agent before it ends.
THEOREM StatusReconciled ==
    ASSUME IsFiniteSet(Handler), Inputs \cap {"update", "archive"} = {}
    PROVE  Spec /\ []OneAtATime =>
               []AgentStatusReconciled /\ [](AtRest => \A a \in Agent : BadgeIsRight(a))
<1> DEFINE Inv == NoCancelling /\ CapacityInv /\ StatusInv
<1>1. Init => TypeOK /\ Inv
  BY InitTypes, InitNoCancelling, InitCapacity, InitStatus
<1>2. TypeOK /\ Inv /\ OneAtATime /\ OneAtATime' /\ [Next]_vars => TypeOK' /\ Inv'
  <2> SUFFICES ASSUME TypeOK, Inv, OneAtATime, OneAtATime', [Next]_vars PROVE TypeOK' /\ Inv'
    OBVIOUS
  <2>1. TypeOK' /\ NoCancelling' /\ CapacityInv'
    BY NextTypes, NextNoCancelling, NextCapacity
  <2>2. SnapshotIsOwn /\ \A a \in Agent : IsFiniteSet(Running(a))
    BY DEF CapacityInv
  <2> QED
    BY <2>1, <2>2, NextStatus
<1> DEFINE Badges == AtRest => \A a \in Agent : BadgeIsRight(a)
<1>3. Inv => Badges
  BY DEF StatusInv, BadgeIsRight, AtRest, Right, WillSet, Running
<1>4. Badges => AgentStatusReconciled
  BY DEF AgentStatusReconciled
<1> HIDE DEF Inv, Badges
<1>5. Spec /\ []OneAtATime => []AgentStatusReconciled /\ []Badges
  BY <1>1, <1>2, <1>3, <1>4, PTL DEF Spec
<1> QED
  BY <1>5 DEF Badges

-----------------------------------------------------------------------------
(* The instances that run satisfy what the last three theorems suppose *)

OneRequest == MaxCrashes = 0 /\ \A g, h \in Handler : g = h

\* A server with one request goroutine and no crash serves requests one at a time.
THEOREM OneRequestIsAlone == ASSUME OneRequest PROVE Spec => []RequestsAlone
<1>1. TypeOK => RequestsAlone
  BY DEF OneRequest, TypeOK, RequestsAlone
<1> QED
  BY <1>1, TypeCorrect, PTL

\* If the sweeper does not run either, nothing overlaps.
THEOREM WithoutSweepsNothingOverlaps ==
    ASSUME OneRequest, "sweep" \notin Inputs
    PROVE  Spec => []OneAtATime
<1> DEFINE Inv == pc[Sweeper] = "idle"
<1>p. Sweeper \in Process
  BY DEF Process
<1>1. Init => TypeOK /\ Inv
  BY <1>p, InitTypes DEF Init
<1>2. TypeOK /\ Inv /\ [Next]_vars => TypeOK' /\ Inv'
  <2> SUFFICES ASSUME TypeOK, Inv, [Next]_vars, ~Inv' PROVE FALSE
    BY NextTypes
  <2>1. CASE crashes' # crashes
    BY <2>1, <1>p, OnlyCrash DEF Crash
  <2>2. CASE crashes' = crashes
    <3>1. SweepRuntimes
      BY <2>2, SweptFlow DEF Stays, SweptBy
    <3> QED
      BY <3>1 DEF SweepRuntimes
  <2> QED
    BY <2>1, <2>2
<1>3. TypeOK /\ Inv => OneAtATime
  BY DEF OneRequest, TypeOK, OneAtATime, Process
<1> HIDE DEF Inv
<1> QED
  BY <1>1, <1>2, <1>3, PTL DEF Spec

=============================================================================
