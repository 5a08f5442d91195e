------------------------------ MODULE AgentDaemon ------------------------------
(****************************************************************************)
(* The agent daemon: its poll loop claims tasks as long as a slot is free   *)
(* and runs each of them in a goroutine, with a second one that watches for *)
(* a cancellation. It is composed with the server as TaskLifecycle promises *)
(* it, which is what the task queue implements: users and the sweeper end   *)
(* tasks behind the daemon's back, and a call may be lost on either way.    *)
(*                                                                          *)
(* A definition named X_Fault... is X with a plausible bug, for showing     *)
(* that a property can fail.                                                *)
(****************************************************************************)
EXTENDS Integers, FiniteSets

CONSTANTS
    Task, Runtime,
    RuntimeOf,          \* [Task -> Runtime], the runtime a task is queued for
    MaxConcurrentTasks, \* slots, cfg.MaxConcurrentTasks
    None,
    MaxRestarts         \* bound on starts of the daemon after the first

ASSUME DaemonAssumption ==
    /\ RuntimeOf \in [Task -> Runtime]
    /\ IsFiniteSet(Task)
    /\ MaxConcurrentTasks \in Nat \ {0}
    /\ MaxRestarts \in Nat

VARIABLES
    status,   \* [Task -> ...], the column of the server
    \* the daemon
    ctx,      \* "live" or "cancelled", the context of Run
    watched,  \* runtimes of the watched workspaces
    poll,     \* where pollLoop is
    left,     \* runtimes it has not tried in this round
    slots,    \* tokens in the semaphore
    job,      \* [Task -> Job], where handleTask is
    result,   \* [Task -> Result], what runTask returned
    watch,    \* [Task -> Watch], the goroutine that polls for cancellation
    restarts

daemonVars == <<ctx, watched, poll, left, slots, restarts>>
jobVars    == <<job, result, watch>>
vars       == <<status, daemonVars, jobVars>>

\* No two tasks here are serialized with each other.
Server == INSTANCE TaskLifecycle WITH Work <- {}, work <- [t \in Task |-> None], Free <- None

Busy   == {"pick", "start", "run", "ran", "status", "complete", "fail"}
Job    == Busy \cup {"none", "lost"} \* "lost" if the last call got no answer
Result == {"none", "completed", "blocked", "error"}
Watch  == {"off", "on", "interrupted", "closed"}
Poll   == {"top", "try", "claim", "sleep", "draining", "waiting", "stopped"}

Handled == {t \in Task : job[t] \in Busy}

Init ==
    /\ status = [t \in Task |-> "absent"]
    /\ ctx = "live"
    /\ watched \in (SUBSET Runtime) \ {{}}
    /\ poll = "top"
    /\ left = {}
    /\ slots = 0
    /\ job = [t \in Task |-> "none"]
    /\ result = [t \in Task |-> "none"]
    /\ watch = [t \in Task |-> "off"]
    /\ restarts = 0

-----------------------------------------------------------------------------
(* pollLoop *)

\* A round tries the runtimes in the order of allRuntimeIDs, which is any order.
BeginRound ==
    /\ poll = "top"
    /\ ctx = "live"
    /\ poll' = IF watched = {} THEN "sleep" ELSE "try"
    /\ left' = watched
    /\ UNCHANGED <<status, ctx, watched, slots, restarts, jobVars>>

AcquireSlot ==
    /\ poll = "try"
    /\ left # {}
    /\ IF slots < MaxConcurrentTasks
       THEN poll' = "claim" /\ slots' = slots + 1 /\ UNCHANGED left
       ELSE poll' = "sleep" /\ left' = {} /\ UNCHANGED slots
    /\ UNCHANGED <<status, ctx, watched, restarts, jobVars>>

\* The response has a task, and a goroutine takes over the slot.
Claim(t) ==
    /\ poll = "claim"
    /\ RuntimeOf[t] \in left
    /\ ctx = "live"
    /\ Server!Claim(t)
    /\ job' = [job EXCEPT ![t] = "pick"]
    /\ poll' = "top"
    /\ left' = {}
    /\ UNCHANGED <<ctx, watched, slots, restarts, result, watch>>

ReleaseSlot_FaultKept == UNCHANGED slots

ReleaseSlot == slots' = slots - 1

\* There is no task, or the call fails, be it after a task was dispatched.
ClaimNothing(r) ==
    /\ poll = "claim"
    /\ r \in left
    /\ left' = left \ {r}
    /\ poll' = "try"
    /\ ReleaseSlot
    /\ \/ UNCHANGED status
       \/ \E t \in Task : ctx = "live" /\ RuntimeOf[t] = r /\ Server!Claim(t)
    /\ UNCHANGED <<ctx, watched, restarts, jobVars>>

EndRound ==
    /\ poll = "try"
    /\ left = {}
    /\ poll' = "sleep"
    /\ UNCHANGED <<status, ctx, watched, left, slots, restarts, jobVars>>

\* The timer and the context may both be ready.
Wake ==
    /\ poll = "sleep"
    /\ \/ poll' = "top"
       \/ ctx = "cancelled" /\ poll' = "waiting"
    /\ left' = {}
    /\ UNCHANGED <<status, ctx, watched, slots, restarts, jobVars>>

Drain ==
    /\ poll = "top"
    /\ ctx = "cancelled"
    /\ poll' = "draining"
    /\ UNCHANGED <<status, ctx, watched, left, slots, restarts, jobVars>>

\* The process ends, and every goroutine with it.
Exit ==
    /\ poll' = "stopped"
    /\ left' = {}
    /\ slots' = 0
    /\ job' = [t \in Task |-> IF t \in Handled THEN "lost" ELSE job[t]]
    /\ result' = [t \in Task |-> "none"]
    /\ watch' = [t \in Task |-> "off"]
    /\ UNCHANGED <<status, watched, restarts>>

\* Only a loop that noticed the shutdown on its way round gives up after 30 s.
Stop ==
    /\ poll \in {"draining", "waiting"}
    /\ poll = "draining" \/ Handled = {}
    /\ Exit
    /\ UNCHANGED ctx

-----------------------------------------------------------------------------
(* handleTask *)

Move(t, where) ==
    job' = [job EXCEPT ![t] = where] /\ UNCHANGED daemonVars

Forget(t) ==
    /\ result' = [result EXCEPT ![t] = "none"]
    /\ watch' = [watch EXCEPT ![t] = "off"]

EndJob_FaultReleasesTwice(t, where) ==
    /\ job' = [job EXCEPT ![t] = where]
    /\ Forget(t)
    /\ slots' = slots - 2
    /\ UNCHANGED <<ctx, watched, poll, left, restarts>>

\* The deferred calls of the goroutine.
EndJob(t, where) ==
    /\ job' = [job EXCEPT ![t] = where]
    /\ Forget(t)
    /\ slots' = slots - 1
    /\ UNCHANGED <<ctx, watched, poll, left, restarts>>

\* A call that fails on the way there or back. With a cancelled context it is
\* not even sent.
Unanswered(effect) == (ctx = "live" /\ effect) \/ UNCHANGED status

\* A call that the server answers with an error, its statement having found no row.
Refused(t, states) == ctx = "live" /\ status[t] \notin states /\ UNCHANGED status

\* The provider of a runtime that is no longer watched is unknown.
PickTask(t) ==
    /\ job[t] = "pick"
    /\ Move(t, "start")
    /\ result' = [result EXCEPT ![t] = IF RuntimeOf[t] \in watched THEN "none" ELSE "error"]
    /\ UNCHANGED <<status, watch>>

StartTask(t) ==
    /\ job[t] = "start"
    /\ \/ /\ ctx = "live"
          /\ Server!Start(t)
          /\ Move(t, "run")
          /\ watch' = [watch EXCEPT ![t] = "on"]
       \/ /\ Refused(t, {"dispatched"}) \/ Unanswered(Server!Start(t))
          /\ Move(t, "fail")
          /\ UNCHANGED watch
    /\ UNCHANGED result

\* runTask returns: with "error" for a timeout, an empty output or what fails
\* before the agent starts, with "blocked" for any other failure of the agent.
RunEnds(t) ==
    /\ job[t] = "run"
    /\ \E res \in Result \ {"none"} :
         /\ result[t] = "error" => res = "error"
         /\ result' = [result EXCEPT ![t] = res]
    /\ Move(t, "ran")
    /\ UNCHANGED <<status, watch>>

Polling(t) == watch[t] = "on" /\ job[t] \in {"run", "ran"} /\ ctx = "live"

Notice_FaultWrongStatus(t) ==
    /\ Polling(t)
    /\ status[t] = "failed"
    /\ watch' = [watch EXCEPT ![t] = "interrupted"]
    /\ UNCHANGED <<status, daemonVars, job, result>>

\* GetTaskStatus says "cancelled": runCancel(). A call that fails is repeated.
Notice(t) ==
    /\ Polling(t)
    /\ status[t] = "cancelled"
    /\ watch' = [watch EXCEPT ![t] = "interrupted"]
    /\ UNCHANGED <<status, daemonVars, job, result>>

\* close(cancelledByPoll) comes after runCancel().
CloseWatch(t) ==
    /\ watch[t] = "interrupted" /\ job[t] \in {"run", "ran"}
    /\ watch' = [watch EXCEPT ![t] = "closed"]
    /\ UNCHANGED <<status, daemonVars, job, result>>

CheckWatch_FaultDropsError(t) ==
    /\ job[t] = "ran"
    /\ IF watch[t] = "closed" \/ result[t] = "error" THEN EndJob(t, "none")
       ELSE Move(t, "status") /\ UNCHANGED <<result, watch>>
    /\ UNCHANGED status

CheckWatch(t) ==
    /\ job[t] = "ran"
    /\ IF watch[t] = "closed" THEN EndJob(t, "none")
       ELSE /\ Move(t, IF result[t] = "error" THEN "fail" ELSE "status")
            /\ UNCHANGED <<result, watch>>
    /\ UNCHANGED status

Reporting_FaultAlwaysComplete(t) == "complete"

Reporting(t) == IF result[t] = "blocked" THEN "fail" ELSE "complete"

\* GetTaskStatus once more; if it fails the result is reported all the same.
CheckStatus(t) ==
    /\ job[t] = "status"
    /\ \/ ctx = "live" /\ status[t] = "cancelled" /\ EndJob(t, "none")
       \/ Move(t, Reporting(t)) /\ UNCHANGED <<result, watch>>
    /\ UNCHANGED status

\* A completion that fails falls back to a failure.
CompleteTask(t) ==
    /\ job[t] = "complete"
    /\ \/ ctx = "live" /\ Server!Complete(t) /\ EndJob(t, "none")
       \/ /\ Refused(t, {"running"}) \/ Unanswered(Server!Complete(t))
          /\ Move(t, "fail")
          /\ UNCHANGED <<result, watch>>

FailTask(t) ==
    /\ job[t] = "fail"
    /\ \/ ctx = "live" /\ Server!Fail({t}) /\ EndJob(t, "none")
       \/ Refused(t, Server!Underway) /\ EndJob(t, "none")
       \/ Unanswered(Server!Fail({t})) /\ EndJob(t, "lost")

-----------------------------------------------------------------------------
(* The environment *)

\* Users create and cancel tasks, the sweeper fails them.
ServerStep(t) ==
    /\ Server!Create(t, None) \/ Server!Cancel({t}) \/ Server!Fail({t})
    /\ UNCHANGED <<daemonVars, jobVars>>

\* reloadWorkspaces, after an edit of the configuration.
Reload(S) ==
    /\ poll # "stopped"
    /\ watched' = S
    /\ UNCHANGED <<status, ctx, poll, left, slots, restarts, jobVars>>

\* A signal, or the restart after an update.
Shutdown ==
    /\ ctx = "live"
    /\ ctx' = "cancelled"
    /\ UNCHANGED <<status, watched, poll, left, slots, restarts, jobVars>>

Crash ==
    /\ poll # "stopped"
    /\ Exit
    /\ ctx' = "cancelled"

Start ==
    /\ poll = "stopped"
    /\ restarts < MaxRestarts
    /\ restarts' = restarts + 1
    /\ ctx' = "live"
    /\ watched' \in (SUBSET Runtime) \ {{}}
    /\ poll' = "top"
    /\ UNCHANGED <<status, left, slots, jobVars>>

-----------------------------------------------------------------------------
PollStep ==
    \/ BeginRound \/ AcquireSlot \/ EndRound \/ Wake \/ Drain \/ Stop
    \/ \E t \in Task : Claim(t)
    \/ \E r \in Runtime : ClaimNothing(r)

\* What handleTask does on its own account.
JobStep(t) ==
    PickTask(t) \/ StartTask(t) \/ CheckWatch(t) \/ CheckStatus(t) \/ CompleteTask(t) \/ FailTask(t)

WatchStep(t) == Notice(t) \/ CloseWatch(t)

Next ==
    \/ PollStep
    \/ \E t \in Task : JobStep(t) \/ RunEnds(t) \/ WatchStep(t) \/ ServerStep(t)
    \/ \E S \in SUBSET Runtime : Reload(S)
    \/ Shutdown \/ Crash \/ Start

Spec == Init /\ [][Next]_vars

Interrupted_FaultNotShutdown(t) == watch[t] \in {"interrupted", "closed"}

\* Both cancellations end the context that runTask waits for.
Interrupted(t) == ctx = "cancelled" \/ watch[t] \in {"interrupted", "closed"}

\* Goroutines run on, every call returns, and runTask returns when its context
\* is cancelled. Nothing is assumed of an agent that is not interrupted.
Fairness ==
    /\ WF_vars(PollStep)
    /\ \A t \in Task : /\ WF_vars(JobStep(t))
                       /\ WF_vars(WatchStep(t))
                       /\ WF_vars(Interrupted(t) /\ RunEnds(t))

FairSpec == Spec /\ Fairness

-----------------------------------------------------------------------------
(* Properties *)

TypeOK ==
    /\ status \in [Task -> {"absent"} \cup Server!Live \cup Server!Outcome]
    /\ ctx \in {"live", "cancelled"}
    /\ watched \subseteq Runtime
    /\ poll \in Poll
    /\ left \subseteq Runtime
    /\ slots \in 0..MaxConcurrentTasks
    /\ job \in [Task -> Job]
    /\ result \in [Task -> Result]
    /\ watch \in [Task -> Watch]
    /\ restarts \in 0..MaxRestarts

\* The tokens in the semaphore are those of the tasks being handled and of a
\* claim in flight: no way out of a claim or a handler leaks one or returns it
\* twice, so that never more than max_concurrent_tasks agents run.
SlotsAccountedFor ==
    slots = Cardinality(Handled) + (IF poll = "claim" THEN 1 ELSE 0)

\* Whatever is lost, repeated as a failure or ended behind the daemon's back, a
\* task becomes completed on the server only once its agent has completed it.
CompletedByAgent ==
    [][\A t \in Task : status[t] # "completed" /\ status'[t] = "completed"
                        => result[t] = "completed"]_vars

\* "Poll for cancellation ... while the task is running" (daemon.go:935): the
\* agent of a task that is cancelled does not run on, however long it would.
CancelledAgentStops ==
    \A t \in Task : (job[t] = "run" /\ status[t] = "cancelled") ~> job[t] # "run"

\* The daemon does not sit on a task: unless its agent is running, a task that
\* it received ends on the server, or the call that was to say so got no answer,
\* or the daemon is on its way down.
NothingHeldBack ==
    \A t \in Task : job[t] \in Busy \ {"run"} ~>
        \/ job[t] \in {"run", "lost"}
        \/ status[t] \in Server!Outcome
        \/ ctx = "cancelled"

\* A daemon that is told to stop does, although the wait for its goroutines has
\* no limit in the second way out of pollLoop (daemon.go:892).
DaemonStops == ctx = "cancelled" ~> poll = "stopped"
=============================================================================
