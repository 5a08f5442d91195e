---------------------------- MODULE TaskLifecycle ----------------------------
(****************************************************************************)
(* What the task queue promises, with every operation atomic: a task is     *)
(* created once, moves only forward, reaches at most one outcome, and the   *)
(* tasks that serve the same piece of work never overlap.                   *)
(*                                                                          *)
(* The columns are those of agent_task_queue; `work` is what a task is      *)
(* serialized on, or Free (no member of Work) for a task that is serialized *)
(* on nothing.                                                              *)
(****************************************************************************)
CONSTANTS Task, Work, Free

VARIABLES status, work

lifecycleVars == <<status, work>>

Waiting  == {"queued", "dispatched"}        \* holds the slot of the unique index
Underway == {"dispatched", "running"}       \* handed to a daemon
Live     == Waiting \cup Underway
Outcome  == {"completed", "failed", "cancelled"}

Init == /\ status = [t \in Task |-> "absent"]
        /\ work = [t \in Task |-> Free]

\* No other task for the same piece of work is in one of the given states.
Alone(w, states) ==
    w # Free => \A u \in Task : work[u] = w => status[u] \notin states

Create(t, w) ==
    /\ status[t] = "absent"
    /\ Alone(w, Waiting)
    /\ status' = [status EXCEPT ![t] = "queued"]
    /\ work' = [work EXCEPT ![t] = w]

Claim(t) ==
    /\ status[t] = "queued"
    /\ Alone(work[t], Underway)
    /\ status' = [status EXCEPT ![t] = "dispatched"]
    /\ UNCHANGED work

Start(t) ==
    /\ status[t] = "dispatched"
    /\ status' = [status EXCEPT ![t] = "running"]
    /\ UNCHANGED work

Complete(t) ==
    /\ status[t] = "running"
    /\ status' = [status EXCEPT ![t] = "completed"]
    /\ UNCHANGED work

\* One statement may fail or cancel a whole set of tasks.
Stop(S, from, outcome) ==
    /\ S # {}
    /\ \A t \in S : status[t] \in from
    /\ status' = [t \in Task |-> IF t \in S THEN outcome ELSE status[t]]
    /\ UNCHANGED work

Fail(S)   == Stop(S, Underway, "failed")
Cancel(S) == Stop(S, Live, "cancelled")

Next ==
    \/ \E t \in Task, w \in Work \cup {Free} : Create(t, w)
    \/ \E t \in Task : Claim(t) \/ Start(t) \/ Complete(t)
    \/ \E S \in SUBSET Task : Fail(S) \/ Cancel(S)

Spec == Init /\ [][Next]_lifecycleVars
=============================================================================
