------------------------------- MODULE Autopilot -------------------------------
(****************************************************************************)
(* An autopilot: schedule triggers and users start runs of it; a run        *)
(* creates a job, which is an issue (mode create_issue) or a task (mode     *)
(* run_only), and ends with the job. The processes are the HTTP goroutines  *)
(* that start a run (Caller), the scheduler goroutines of the servers       *)
(* (Scheduler) and the goroutines that publish that a job has ended and run *)
(* the listeners of the autopilot on the way (Reporter). A step is one SQL  *)
(* statement or one transaction.                                            *)
(*                                                                          *)
(* The autopilot is the active one of a fixed policy and mode: a paused one *)
(* starts nothing. A definition named X_Fault... is X with a plausible bug, *)
(* for showing that a property can fail.                                    *)
(****************************************************************************)
EXTENDS Integers, FiniteSets

CONSTANTS
    Run,       \* ids of autopilot_run; their number bounds the inserts
    Trigger,   \* schedule triggers
    Caller, Scheduler, Reporter,
    None,
    MaxTicks,  \* bound on how often a trigger comes due
    MaxCrashes,  \* bound on crashes of a server
    MaxFailures  \* bound on failed cancellations in a row

ASSUME AutopilotAssumption ==
    /\ Caller \cap Scheduler = {} /\ Reporter \cap (Caller \cup Scheduler) = {}
    /\ None \notin Run \cup Trigger
    /\ MaxTicks \in Nat /\ MaxCrashes \in Nat /\ MaxFailures \in Nat
    /\ IsFiniteSet(Run) /\ IsFiniteSet(Scheduler)

VARIABLES
    policy, mode,  \* autopilot.concurrency_policy, execution_mode
    nextRun,       \* [Trigger -> NextRun], next_run_at: NULL, later or past
    ticks,         \* [Trigger -> 0..MaxTicks], how often it came due
    runStatus,     \* [Run -> RunStatus]
    source,        \* [Run -> Trigger \cup {None}], trigger_id
    job,           \* [Run -> Job], the issue or task created for the run
    pc,            \* [Process -> Label]
    loc,           \* [Process -> Local]
    crashes,
    \* history: what failures have left behind
    uncancelled,   \* cancellations that failed since the last one that succeeded
    unarmed        \* triggers that a tick, or the crash of its server, left without
                   \* next_run_at

faultVars == <<uncancelled, unarmed>>
rowVars   == <<runStatus, source>>
fixedVars == <<policy, mode>>
vars      == <<fixedVars, nextRun, ticks, rowVars, job, pc, loc, crashes, faultVars>>

Dispatcher == Caller \cup Scheduler
Process    == Dispatcher \cup Reporter
NextRun    == {"null", "future", "due"}
Active     == {"pending", "issue_created", "running"}
RunStatus  == {"absent", "completed", "failed", "skipped"} \cup Active
\* "gone" is a job that was deleted, or cancelled in bulk, without an event.
Job        == {"none", "live", "ended", "gone"}
Label      == {"idle", "check", "skip", "create", "dispatch", "link", "fail",
               "advance", "read", "write"}
Local      == [run : Run \cup {None}, trigger : Trigger \cup {None},
               claimed : SUBSET Trigger]
NoLoc      == [run |-> None, trigger |-> None, claimed |-> {}]

RunsIn(states) == {r \in Run : runStatus[r] \in states}

Init ==
    /\ policy \in {"queue", "skip", "replace"}
    /\ mode \in {"create_issue", "run_only"}
    /\ nextRun = [t \in Trigger |-> "future"]
    /\ ticks = [t \in Trigger |-> 0]
    /\ runStatus = [r \in Run |-> "absent"]
    /\ source = [r \in Run |-> None]
    /\ job = [r \in Run |-> "none"]
    /\ pc = [p \in Process |-> "idle"]
    /\ loc = [p \in Process |-> NoLoc]
    /\ crashes = 0
    /\ uncancelled = 0
    /\ unarmed = {}

-----------------------------------------------------------------------------
At(p, label) == pc[p] = label /\ UNCHANGED <<fixedVars, crashes>>

Goto(p, label, l) ==
    /\ pc' = [pc EXCEPT ![p] = label]
    /\ loc' = [loc EXCEPT ![p] = IF label = "idle" THEN NoLoc ELSE l]

SetRuns(S, s) ==
    /\ runStatus' = [r \in Run |-> IF r \in S THEN s ELSE runStatus[r]]
    /\ UNCHANGED source

\* The next claimed trigger of a scheduler's tick.
NextTrigger(p, claimed) ==
    IF claimed = {} THEN Goto(p, "idle", NoLoc)
    ELSE \E t \in claimed :
           Goto(p, "check", [NoLoc EXCEPT !.trigger = t, !.claimed = claimed \ {t}])

\* DispatchAutopilot returns, with a run or with an error.
Return_FaultNoAdvanceAfterSkip(p) ==
    IF p \in Caller THEN Goto(p, "idle", NoLoc)
    ELSE IF pc[p] = "skip" THEN NextTrigger(p, loc[p].claimed)
    ELSE Goto(p, "advance", loc[p])

Return(p) ==
    IF p \in Caller THEN Goto(p, "idle", NoLoc) ELSE Goto(p, "advance", loc[p])

\* A goroutine ends where it is.
Stop(p) ==
    /\ pc[p] # "idle"
    /\ Goto(p, "idle", NoLoc)
    /\ UNCHANGED <<fixedVars, nextRun, ticks, rowVars, job, uncancelled>>

-----------------------------------------------------------------------------
(* Who starts a run *)

TriggerAutopilot(c) ==
    /\ At(c, "idle")
    /\ Goto(c, "check", NoLoc)
    /\ UNCHANGED <<nextRun, ticks, rowVars, job, faultVars>>

Due == {t \in Trigger : nextRun[t] = "due"}

ClaimDueScheduleTriggers_FaultNotCleared(s) ==
    /\ At(s, "idle")
    /\ Due # {}
    /\ NextTrigger(s, Due)
    /\ UNCHANGED <<nextRun, ticks, rowVars, job, faultVars>>

\* One UPDATE, so that two servers never claim the same tick.
ClaimDueScheduleTriggers(s) ==
    /\ At(s, "idle")
    /\ Due # {}
    /\ nextRun' = [t \in Trigger |-> IF t \in Due THEN "null" ELSE nextRun[t]]
    /\ unarmed' = unarmed \ Due
    /\ NextTrigger(s, Due)
    /\ UNCHANGED <<ticks, rowVars, job, uncancelled>>

\* A next_run_at that is computed is later than now.
AdvanceNextRun(s) ==
    /\ At(s, "advance")
    /\ nextRun' = [nextRun EXCEPT ![loc[s].trigger] = "future"]
    /\ unarmed' = unarmed \ {loc[s].trigger}
    /\ NextTrigger(s, loc[s].claimed)
    /\ UNCHANGED <<ticks, rowVars, job, uncancelled>>

\* GetAutopilot fails, next_run_at cannot be computed, or its UPDATE fails: the
\* tick goes on to its next trigger, and this one stays without next_run_at.
LeaveUnarmed(s) ==
    /\ pc[s] \in {"check", "advance"}
    /\ At(s, pc[s])
    /\ unarmed' = unarmed \cup {loc[s].trigger}
    /\ NextTrigger(s, loc[s].claimed)
    /\ UNCHANGED <<nextRun, ticks, rowVars, job, uncancelled>>

-----------------------------------------------------------------------------
(* DispatchAutopilot *)

ActiveRuns_FaultNotPending == RunsIn({"issue_created", "running"})

\* FindActiveAutopilotRun
ActiveRuns == RunsIn(Active)

CancelActiveAutopilotRuns == SetRuns(ActiveRuns, "failed")

CheckConcurrency(p) ==
    /\ At(p, "check")
    /\ IF policy = "replace" THEN CancelActiveAutopilotRuns /\ uncancelled' = 0
                             ELSE UNCHANGED <<rowVars, uncancelled>>
    /\ Goto(p, IF policy = "skip" /\ ActiveRuns # {} THEN "skip" ELSE "create", loc[p])
    /\ UNCHANGED <<nextRun, ticks, job, unarmed>>

\* The error of a cancellation is only logged, and the run allowed.
CancelFails(p) ==
    /\ At(p, "check")
    /\ policy = "replace"
    /\ uncancelled < MaxFailures
    /\ uncancelled' = uncancelled + 1
    /\ Goto(p, "create", loc[p])
    /\ UNCHANGED <<nextRun, ticks, rowVars, job, unarmed>>

\* Any fresh id will do.
CreateRun(p, r, s) ==
    /\ r \in RunsIn({"absent"})
    /\ r = CHOOSE x \in RunsIn({"absent"}) : TRUE
    /\ runStatus' = [runStatus EXCEPT ![r] = s]
    /\ source' = [source EXCEPT ![r] = loc[p].trigger]
    /\ UNCHANGED <<nextRun, ticks, job, faultVars>>

CreateSkippedRun(p, r) ==
    /\ At(p, "skip")
    /\ CreateRun(p, r, "skipped")
    /\ Return(p)

CreatePendingRun(p, r) ==
    /\ At(p, "create")
    /\ CreateRun(p, r, "pending")
    /\ Goto(p, "dispatch", [loc[p] EXCEPT !.run = r])

\* Another statement fails, or no id is left: the dispatch ends there, with the
\* rows as they are. The run whose job is not linked, or which is not recorded
\* as failed, stays pending.
StatementFails(p) ==
    /\ pc[p] \in {"skip", "create", "link", "fail"} \/ (pc[p] = "check" /\ policy = "skip")
    /\ At(p, pc[p])
    /\ Return(p)
    /\ UNCHANGED <<nextRun, ticks, rowVars, job, faultVars>>

\* The transaction of dispatchCreateIssue, or CreateAutopilotTask.
CreateJob(p) ==
    /\ At(p, "dispatch")
    /\ job' = [job EXCEPT ![loc[p].run] = "live"]
    /\ Goto(p, "link", loc[p])
    /\ UNCHANGED <<nextRun, ticks, rowVars, faultVars>>

\* The agent is archived or has no runtime, or the transaction fails.
CreateJobFails(p) ==
    /\ At(p, "dispatch")
    /\ Goto(p, "fail", loc[p])
    /\ UNCHANGED <<nextRun, ticks, rowVars, job, faultVars>>

\* UpdateAutopilotRunIssueCreated, UpdateAutopilotRunRunning: whatever the
\* status of the run has become.
LinkJob(p) ==
    /\ At(p, "link")
    /\ SetRuns({loc[p].run}, IF mode = "create_issue" THEN "issue_created" ELSE "running")
    /\ Return(p)
    /\ UNCHANGED <<nextRun, ticks, job, faultVars>>

FailRun(p) ==
    /\ At(p, "fail")
    /\ SetRuns({loc[p].run}, "failed")
    /\ Return(p)
    /\ UNCHANGED <<nextRun, ticks, job, faultVars>>

-----------------------------------------------------------------------------
(* The job ends: the goroutine that ends it publishes the event, and the    *)
(* listeners run in it (syncRunFromTaskEvent, SyncRunFromIssue).            *)

EndJob(e, r) ==
    /\ At(e, "idle")
    /\ job[r] = "live"
    /\ job' = [job EXCEPT ![r] = "ended"]
    /\ Goto(e, "read", [NoLoc EXCEPT !.run = r])
    /\ UNCHANGED <<nextRun, ticks, rowVars, faultVars>>

\* GetAutopilotRunByIssue finds the run of an issue while it is active and has
\* its issue_id; the run of a task is in the row of the task.
SyncFinds(r) == mode = "create_issue" => runStatus[r] = "issue_created"

ReadRun(e) ==
    /\ At(e, "read")
    /\ IF SyncFinds(loc[e].run) THEN Goto(e, "write", loc[e]) ELSE Goto(e, "idle", NoLoc)
    /\ UNCHANGED <<nextRun, ticks, rowVars, job, faultVars>>

\* UpdateAutopilotRunCompleted, UpdateAutopilotRunFailed
WriteRun(e) ==
    /\ At(e, "write")
    /\ SetRuns({loc[e].run}, "completed") \/ SetRuns({loc[e].run}, "failed")
    /\ Goto(e, "idle", NoLoc)
    /\ UNCHANGED <<nextRun, ticks, job, faultVars>>

\* A statement of the listener fails: nothing repeats the event.
SyncFails(e) == Stop(e) /\ UNCHANGED <<crashes, unarmed>>

\* The agent is archived (CancelAgentTasksByAgent), or the issue deleted.
LoseJob(r) ==
    /\ job[r] = "live"
    /\ job' = [job EXCEPT ![r] = "gone"]
    /\ UNCHANGED <<fixedVars, nextRun, ticks, rowVars, pc, loc, crashes, faultVars>>

-----------------------------------------------------------------------------
(* Configuration, time and failure *)

\* UpdateAutopilotTrigger always computes next_run_at afresh.
UpdateAutopilotTrigger(t) ==
    /\ nextRun[t] # "future"
    /\ nextRun' = [nextRun EXCEPT ![t] = "future"]
    /\ unarmed' = unarmed \ {t}
    /\ UNCHANGED <<fixedVars, ticks, rowVars, job, pc, loc, crashes, uncancelled>>

ComeDue(t) ==
    /\ nextRun[t] = "future"
    /\ ticks[t] < MaxTicks
    /\ nextRun' = [nextRun EXCEPT ![t] = "due"]
    /\ ticks' = [ticks EXCEPT ![t] = @ + 1]
    /\ UNCHANGED <<fixedVars, rowVars, job, pc, loc, crashes, faultVars>>

\* The context of the request is cancelled: every statement left of it fails,
\* those that would record the failure too.
Disconnect(c) == Stop(c) /\ UNCHANGED <<crashes, unarmed>>

\* The triggers that the tick of s has yet to go through.
InTick(s) == {t \in Trigger : t \in loc[s].claimed \/ t = loc[s].trigger}

\* A server stops under a goroutine; each is on a server of its own.
Crash(p) ==
    /\ crashes < MaxCrashes
    /\ crashes' = crashes + 1
    /\ unarmed' = unarmed \cup InTick(p)
    /\ Stop(p)

-----------------------------------------------------------------------------
Dispatch(p) ==
    \/ CheckConcurrency(p) \/ CancelFails(p) \/ StatementFails(p)
    \/ \E r \in Run : CreateSkippedRun(p, r) \/ CreatePendingRun(p, r)
    \/ CreateJob(p) \/ CreateJobFails(p) \/ LinkJob(p) \/ FailRun(p)

Next ==
    \/ \E c \in Caller : TriggerAutopilot(c) \/ Disconnect(c)
    \/ \E s \in Scheduler : ClaimDueScheduleTriggers(s) \/ AdvanceNextRun(s) \/ LeaveUnarmed(s)
    \/ \E p \in Dispatcher : Dispatch(p)
    \/ \E e \in Reporter : ReadRun(e) \/ WriteRun(e) \/ SyncFails(e) \/ \E r \in Run : EndJob(e, r)
    \/ \E r \in Run : LoseJob(r)
    \/ \E t \in Trigger : UpdateAutopilotTrigger(t) \/ ComeDue(t)
    \/ \E p \in Scheduler \cup Reporter : Crash(p)

Spec == Init /\ [][Next]_vars

-----------------------------------------------------------------------------
(* Properties *)

\* Every variable has its type, and a goroutine that works on a run or for a
\* trigger knows it.
TypeOK ==
    /\ policy \in {"queue", "skip", "replace"}
    /\ mode \in {"create_issue", "run_only"}
    /\ nextRun \in [Trigger -> NextRun]
    /\ ticks \in [Trigger -> 0..MaxTicks]
    /\ runStatus \in [Run -> RunStatus]
    /\ source \in [Run -> Trigger \cup {None}]
    /\ job \in [Run -> Job]
    /\ pc \in [Process -> Label]
    /\ loc \in [Process -> Local]
    /\ crashes \in 0..MaxCrashes
    /\ uncancelled \in 0..MaxFailures
    /\ unarmed \subseteq Trigger
    /\ \A p \in Process :
         /\ pc[p] \in {"dispatch", "link", "fail", "read", "write"} => loc[p].run \in Run
         /\ (p \in Scheduler /\ pc[p] # "idle") => loc[p].trigger \in Trigger

\* "Atomically claim all due schedule triggers to prevent concurrent execution"
\* (autopilot.sql:151): a trigger starts one run for each time it comes due at
\* most, with several servers, crashes and edits of the trigger in between.
OneRunPerTick ==
    \A t \in Trigger : Cardinality({r \in Run : source[r] = t}) <= ticks[t]

\* The check of the policy and the INSERT are two statements, and a run can
\* become active again when its job is linked late. Under "skip" and "replace"
\* the runs that are active or allowed are nevertheless no more than the
\* goroutines that dispatch and the cancellations that have failed since the
\* last that succeeded, whose errors checkConcurrency only logs.
Allowed == {p \in Dispatcher : pc[p] = "create"}

OverlapBounded ==
    policy # "queue" =>
        Cardinality(RunsIn(Active)) + Cardinality(Allowed) <= Cardinality(Dispatcher) + uncancelled

\* A trigger whose next_run_at was cleared by a claim is in the tick of a server
\* that has yet to arm it, whatever becomes of its run and of the triggers before
\* it, unless that server has crashed or a statement about the trigger itself
\* has failed (autopilot_scheduler.go:46, :71, :90), after which nothing but an
\* edit of the trigger arms it.
TriggerRearmed ==
    \A t \in Trigger :
        nextRun[t] = "null" => t \in unarmed \/ \E s \in Scheduler : t \in InTick(s)

=============================================================================
