-------------------------- MODULE AgentDaemonProofs --------------------------
(****************************************************************************)
(* Theorems about the agent daemon, for every number of tasks, runtimes,    *)
(* slots and restarts.                                                      *)
(****************************************************************************)
EXTENDS AgentDaemon, FiniteSetTheorems, TLAPS

\* A handler knows what it is going to report.
ResultKnown ==
    \A t \in Task :
        /\ job[t] = "ran" => result[t] # "none"
        /\ job[t] = "status" => result[t] \in {"completed", "blocked"}
        /\ job[t] = "complete" => result[t] = "completed"

\* A task that is being handled cannot be claimed once more.
HandedOut == \A t \in Handled : status[t] \notin {"absent", "queued"}

IndInv == TypeOK /\ SlotsAccountedFor /\ ResultKnown /\ HandedOut

-----------------------------------------------------------------------------
(* Counting the handlers *)

LEMMA HandledFinite == IsFiniteSet(Handled) /\ Cardinality(Handled) \in Nat
  BY DaemonAssumption, FS_Subset, FS_CardinalityType DEF Handled

LEMMA HandlerStays ==
    ASSUME job \in [Task -> Job], NEW t \in Handled, NEW where \in Busy,
           job' = [job EXCEPT ![t] = where]
    PROVE  Handled' = Handled
  BY DEF Handled

LEMMA HandlerComes ==
    ASSUME job \in [Task -> Job], NEW t \in Task \ Handled, NEW where \in Busy,
           job' = [job EXCEPT ![t] = where]
    PROVE  Cardinality(Handled') = Cardinality(Handled) + 1
  <1>1. Handled' = Handled \cup {t}
    BY DEF Handled
  <1> QED
    BY <1>1, HandledFinite, FS_AddElement

LEMMA HandlerGoes ==
    ASSUME job \in [Task -> Job], NEW t \in Handled, NEW where \in Job \ Busy,
           job' = [job EXCEPT ![t] = where]
    PROVE  Cardinality(Handled') = Cardinality(Handled) - 1
  <1>1. Handled' = Handled \ {t}
    BY DEF Handled
  <1> QED
    BY <1>1, HandledFinite, FS_RemoveElement

-----------------------------------------------------------------------------
(* What the server does to a task *)

LEMMA ServerKeeps ==
    ASSUME TypeOK,
           \/ UNCHANGED status
           \/ \E t \in Task : \/ Server!Create(t, None) \/ Server!Claim(t)
                              \/ Server!Start(t) \/ Server!Complete(t)
                              \/ Server!Cancel({t}) \/ Server!Fail({t})
    PROVE  /\ status' \in [Task -> {"absent"} \cup Server!Live \cup Server!Outcome]
           /\ \A t \in Task : status[t] \notin {"absent", "queued"}
                                => status'[t] \notin {"absent", "queued"}
  BY DEF TypeOK, Server!Create, Server!Claim, Server!Start, Server!Complete, Server!Cancel,
         Server!Fail, Server!Stop, Server!Live, Server!Outcome, Server!Waiting, Server!Underway

\* The status of a task changes by the operations of the server only.
LEMMA StatusMoves ==
    ASSUME [Next]_vars
    PROVE  \/ UNCHANGED status
           \/ \E t \in Task : \/ Server!Create(t, None) \/ Server!Claim(t)
                              \/ Server!Start(t) \/ Server!Complete(t)
                              \/ Server!Cancel({t}) \/ Server!Fail({t})
  <1>1. CASE UNCHANGED vars
    BY <1>1 DEF vars
  <1>2. CASE PollStep
    BY <1>2 DEF PollStep, BeginRound, AcquireSlot, EndRound, Wake, Drain, Stop, Exit, Claim, ClaimNothing
  <1>3. ASSUME NEW t \in Task, JobStep(t) PROVE UNCHANGED status \/ Server!Start(t) \/ Server!Complete(t) \/ Server!Fail({t})
    BY <1>3 DEF JobStep, PickTask, StartTask, CheckWatch, CheckStatus, CompleteTask, FailTask,
                Unanswered, Refused
  <1>4. ASSUME NEW t \in Task, RunEnds(t) \/ WatchStep(t) PROVE UNCHANGED status
    BY <1>4 DEF RunEnds, WatchStep, Notice, CloseWatch
  <1>5. ASSUME NEW t \in Task, ServerStep(t)
        PROVE  Server!Create(t, None) \/ Server!Cancel({t}) \/ Server!Fail({t})
    BY <1>5 DEF ServerStep
  <1>6. CASE (\E S \in SUBSET Runtime : Reload(S)) \/ Shutdown \/ Crash \/ Start
    BY <1>6 DEF Reload, Shutdown, Crash, Exit, Start
  <1> QED
    BY <1>1, <1>2, <1>3, <1>4, <1>5, <1>6 DEF Next

-----------------------------------------------------------------------------
(* The inductive invariant *)

LEMMA InitInv == Init => IndInv
  <1> SUFFICES ASSUME Init PROVE IndInv
    OBVIOUS
  <1>1. Handled = {}
    BY DEF Init, Handled, Busy
  <1>2. TypeOK
    BY DaemonAssumption DEF Init, TypeOK, Server!Live, Server!Outcome, Poll, Job, Result, Watch
  <1>3. SlotsAccountedFor
    BY <1>1, FS_EmptySet DEF Init, SlotsAccountedFor
  <1>4. ResultKnown /\ HandedOut
    BY <1>1 DEF Init, ResultKnown, HandedOut
  <1> QED
    BY <1>2, <1>3, <1>4 DEF IndInv

\* The end of the process leaves no handler and no token.
LEMMA ExitKeeps ==
    ASSUME IndInv, Exit, ctx' \in {"live", "cancelled"}
    PROVE  IndInv'
  <1>1. \A t \in Task : job'[t] \in {"none", "lost"}
    BY DEF IndInv, TypeOK, Exit, Handled, Job, Busy
  <1>2. Handled' = {}
    BY <1>1 DEF Handled, Busy
  <1>3. TypeOK'
    BY DaemonAssumption, <1>1 DEF IndInv, TypeOK, Exit, Poll, Job, Result, Watch
  <1>4. SlotsAccountedFor'
    BY <1>2, FS_EmptySet DEF SlotsAccountedFor, Exit
  <1>5. ResultKnown' /\ HandedOut'
    BY <1>1, <1>2 DEF ResultKnown, HandedOut
  <1> QED
    BY <1>3, <1>4, <1>5 DEF IndInv

\* The loop.
LEMMA PollKeeps == ASSUME IndInv, PollStep PROVE IndInv'
  <1>t. TypeOK /\ SlotsAccountedFor /\ ResultKnown /\ HandedOut
    BY DEF IndInv
  <1>s. /\ status' \in [Task -> {"absent"} \cup Server!Live \cup Server!Outcome]
        /\ \A t \in Task : status[t] \notin {"absent", "queued"}
                             => status'[t] \notin {"absent", "queued"}
    BY <1>t, ServerKeeps, StatusMoves DEF Next
  <1>f. Cardinality(Handled) \in Nat /\ MaxConcurrentTasks \in Nat \ {0}
    BY HandledFinite, DaemonAssumption
  <1>1. ASSUME UNCHANGED <<ctx, watched, restarts, jobVars>>, left' \subseteq Runtime,
               poll' \in Poll, slots' \in 0..MaxConcurrentTasks,
               slots' - (IF poll' = "claim" THEN 1 ELSE 0) = slots - (IF poll = "claim" THEN 1 ELSE 0)
        PROVE  IndInv'
    <2>1. Handled' = Handled
      BY <1>1 DEF Handled, jobVars
    <2>2. TypeOK'
      BY <1>1, <1>t, <1>s DEF TypeOK, jobVars
    <2>3. SlotsAccountedFor'
      BY <1>1, <2>1, <1>t, <1>f DEF SlotsAccountedFor, TypeOK
    <2>4. ResultKnown' /\ HandedOut'
      BY <1>1, <2>1, <1>t, <1>s DEF ResultKnown, HandedOut, jobVars, Handled
    <2> QED
      BY <2>2, <2>3, <2>4 DEF IndInv
  <1>2. CASE BeginRound \/ EndRound \/ Wake \/ Drain
    BY <1>2, <1>1, <1>t DEF BeginRound, EndRound, Wake, Drain, TypeOK, Poll
  <1>3. CASE AcquireSlot
    BY <1>3, <1>1, <1>t, <1>f DEF AcquireSlot, TypeOK, Poll
  <1>4. ASSUME NEW r \in Runtime, ClaimNothing(r) PROVE IndInv'
    <2>1. slots >= 1
      BY <1>4, <1>t, <1>f DEF ClaimNothing, SlotsAccountedFor, TypeOK
    <2> QED
      BY <2>1, <1>4, <1>1, <1>t, <1>f DEF ClaimNothing, ReleaseSlot, TypeOK, Poll
  <1>5. ASSUME NEW t \in Task, Claim(t) PROVE IndInv'
    <2>1. t \notin Handled /\ status'[t] = "dispatched"
      BY <1>5, <1>t DEF Claim, Server!Claim, HandedOut, TypeOK
    <2>2. Cardinality(Handled') = Cardinality(Handled) + 1
      BY <1>5, <1>t, <2>1, HandlerComes DEF Claim, TypeOK, Busy
    <2>3. Handled' = Handled \cup {t}
      BY <1>5, <1>t DEF Claim, TypeOK, Handled, Busy
    <2>4. TypeOK'
      BY <1>5, <1>t, <1>s DEF Claim, TypeOK, Poll, Job, Busy
    <2>5. SlotsAccountedFor'
      BY <1>5, <1>t, <1>f, <2>2 DEF Claim, SlotsAccountedFor, TypeOK
    <2>6. ResultKnown'
      BY <1>5, <1>t DEF Claim, ResultKnown, TypeOK
    <2>7. HandedOut'
      BY <2>1, <2>3, <1>t, <1>s DEF HandedOut, Handled
    <2> QED
      BY <2>4, <2>5, <2>6, <2>7 DEF IndInv
  <1>6. CASE Stop
    BY <1>6, <1>t, ExitKeeps DEF Stop, IndInv, TypeOK
  <1> QED
    BY <1>2, <1>3, <1>4, <1>5, <1>6 DEF PollStep

\* A handler that goes on keeps its slot.
LEMMA MoveKeeps ==
    ASSUME IndInv, NEW t \in Handled, NEW where \in Busy, Move(t, where),
           NEW res \in Result, result' = [result EXCEPT ![t] = res],
           NEW w \in Watch, watch' = [watch EXCEPT ![t] = w],
           status' \in [Task -> {"absent"} \cup Server!Live \cup Server!Outcome],
           \A u \in Task : status[u] \notin {"absent", "queued"}
                             => status'[u] \notin {"absent", "queued"},
           where = "ran" => res # "none",
           where = "status" => res \in {"completed", "blocked"},
           where = "complete" => res = "completed"
    PROVE  IndInv'
  <1>t. TypeOK /\ SlotsAccountedFor /\ ResultKnown /\ HandedOut /\ t \in Task
    BY DEF IndInv, Handled
  <1>1. Handled' = Handled
    BY <1>t, HandlerStays DEF TypeOK, Move
  <1>2. TypeOK'
    BY <1>t DEF TypeOK, Move, daemonVars, Job
  <1>3. SlotsAccountedFor'
    BY <1>t, <1>1 DEF SlotsAccountedFor, Move, daemonVars
  <1>4. ResultKnown'
    BY <1>t DEF ResultKnown, Move, TypeOK
  <1>5. HandedOut'
    BY <1>t, <1>1 DEF HandedOut, Handled
  <1> QED
    BY <1>2, <1>3, <1>4, <1>5 DEF IndInv

\* A handler that ends returns its slot.
LEMMA EndKeeps ==
    ASSUME IndInv, NEW t \in Handled, NEW where \in {"none", "lost"}, EndJob(t, where),
           status' \in [Task -> {"absent"} \cup Server!Live \cup Server!Outcome],
           \A u \in Task : status[u] \notin {"absent", "queued"}
                             => status'[u] \notin {"absent", "queued"}
    PROVE  IndInv'
  <1>t. TypeOK /\ SlotsAccountedFor /\ ResultKnown /\ HandedOut /\ t \in Task
    BY DEF IndInv, Handled
  <1>f. Cardinality(Handled) \in Nat /\ MaxConcurrentTasks \in Nat \ {0}
    BY HandledFinite, DaemonAssumption
  <1>1. Cardinality(Handled') = Cardinality(Handled) - 1
    BY <1>t, HandlerGoes DEF TypeOK, EndJob, Job, Busy
  <1>2. Handled' \subseteq Handled
    BY <1>t DEF TypeOK, EndJob, Handled, Busy
  <1>3. Cardinality(Handled') \in Nat
    BY <1>2, HandledFinite, FS_Subset, FS_CardinalityType
  <1>4. SlotsAccountedFor'
    BY <1>t, <1>f, <1>1 DEF SlotsAccountedFor, EndJob, TypeOK
  <1>5. slots' \in 0..MaxConcurrentTasks
    <2>1. slots \in 0..MaxConcurrentTasks /\ slots' = slots - 1
      BY <1>t DEF TypeOK, EndJob
    <2>2. slots >= 1
      BY <1>t, <1>f, <1>1, <1>3, <2>1 DEF SlotsAccountedFor
    <2> QED
      BY <2>1, <2>2, <1>f
  <1>6. TypeOK'
    BY <1>t, <1>5 DEF TypeOK, EndJob, Forget, Job, Result, Watch
  <1>7. ResultKnown'
    BY <1>t DEF ResultKnown, EndJob, Forget, TypeOK
  <1>8. HandedOut'
    BY <1>t, <1>2 DEF HandedOut, Handled
  <1> QED
    BY <1>4, <1>6, <1>7, <1>8 DEF IndInv

LEMMA JobKeeps == ASSUME IndInv, NEW t \in Task, JobStep(t) \/ RunEnds(t) PROVE IndInv'
  <1>t. TypeOK /\ ResultKnown
    BY DEF IndInv
  <1>s. /\ status' \in [Task -> {"absent"} \cup Server!Live \cup Server!Outcome]
        /\ \A u \in Task : status[u] \notin {"absent", "queued"}
                             => status'[u] \notin {"absent", "queued"}
    BY <1>t, ServerKeeps, StatusMoves DEF Next
  <1>m. ASSUME t \in Handled, NEW where \in Busy, Move(t, where), UNCHANGED <<result, watch>>,
               where = "ran" => result[t] # "none",
               where = "status" => result[t] \in {"completed", "blocked"},
               where = "complete" => result[t] = "completed"
        PROVE  IndInv'
    <2>1. /\ result[t] \in Result /\ result' = [result EXCEPT ![t] = result[t]]
          /\ watch[t] \in Watch /\ watch' = [watch EXCEPT ![t] = watch[t]]
      BY <1>m, <1>t DEF TypeOK
    <2> QED
      BY <2>1, <1>m, <1>s, MoveKeeps
  <1>e. ASSUME t \in Handled, NEW where \in {"none", "lost"}, EndJob(t, where) PROVE IndInv'
    BY <1>e, <1>s, EndKeeps
  <1>1. CASE PickTask(t)
    <2>1. t \in Handled /\ "start" \in Busy /\ Move(t, "start")
      BY <1>1 DEF PickTask, Handled, Busy
    <2>2. PICK res \in {"none", "error"} : result' = [result EXCEPT ![t] = res]
      BY <1>1 DEF PickTask
    <2>3. res \in Result /\ watch[t] \in Watch /\ watch' = [watch EXCEPT ![t] = watch[t]]
      BY <1>1, <1>t DEF PickTask, TypeOK, Result
    <2> QED
      BY <2>1, <2>2, <2>3, <1>s, MoveKeeps
  <1>2. CASE StartTask(t)
    <2>1. t \in Handled /\ "run" \in Busy /\ "fail" \in Busy /\ UNCHANGED result
      BY <1>2 DEF StartTask, Handled, Busy
    <2>2. CASE Move(t, "run") /\ watch' = [watch EXCEPT ![t] = "on"]
      <3>1. result[t] \in Result /\ result' = [result EXCEPT ![t] = result[t]] /\ "on" \in Watch
        BY <2>1, <1>t DEF TypeOK, Watch
      <3> QED
        BY <2>1, <2>2, <3>1, <1>s, MoveKeeps
    <2>3. CASE Move(t, "fail") /\ UNCHANGED watch
      BY <2>1, <2>3, <1>m
    <2> QED
      BY <1>2, <2>2, <2>3 DEF StartTask
  <1>3. CASE RunEnds(t)
    <2>1. t \in Handled /\ "ran" \in Busy /\ Move(t, "ran")
      BY <1>3 DEF RunEnds, Handled, Busy
    <2>2. PICK res \in Result \ {"none"} : result' = [result EXCEPT ![t] = res]
      BY <1>3 DEF RunEnds
    <2>3. watch[t] \in Watch /\ watch' = [watch EXCEPT ![t] = watch[t]]
      BY <1>3, <1>t DEF RunEnds, TypeOK
    <2> QED
      BY <2>1, <2>2, <2>3, <1>s, MoveKeeps
  <1>4. CASE CheckWatch(t)
    <2>1. t \in Handled /\ "status" \in Busy /\ "fail" \in Busy
      BY <1>4 DEF CheckWatch, Handled, Busy
    <2>2. result[t] # "error" => result[t] \in {"completed", "blocked"}
      BY <1>4, <1>t DEF CheckWatch, ResultKnown, TypeOK, Result
    <2>3. \/ EndJob(t, "none")
          \/ result[t] = "error" /\ Move(t, "fail") /\ UNCHANGED <<result, watch>>
          \/ result[t] # "error" /\ Move(t, "status") /\ UNCHANGED <<result, watch>>
      BY <1>4 DEF CheckWatch
    <2> QED
      BY <2>1, <2>2, <2>3, <1>m, <1>e
  <1>5. CASE CheckStatus(t)
    <2>1. t \in Handled /\ Reporting(t) \in {"fail", "complete"} /\ {"fail", "complete"} \subseteq Busy
      BY <1>5 DEF CheckStatus, Handled, Busy, Reporting
    <2>2. Reporting(t) = "complete" => result[t] = "completed"
      BY <1>5, <1>t DEF CheckStatus, Reporting, ResultKnown
    <2>3. EndJob(t, "none") \/ (Move(t, Reporting(t)) /\ UNCHANGED <<result, watch>>)
      BY <1>5 DEF CheckStatus
    <2> QED
      BY <2>1, <2>2, <2>3, <1>m, <1>e
  <1>6. CASE CompleteTask(t)
    <2>1. t \in Handled /\ "fail" \in Busy
      BY <1>6 DEF CompleteTask, Handled, Busy
    <2>2. EndJob(t, "none") \/ (Move(t, "fail") /\ UNCHANGED <<result, watch>>)
      BY <1>6 DEF CompleteTask
    <2> QED
      BY <2>1, <2>2, <1>m, <1>e
  <1>7. CASE FailTask(t)
    <2>1. t \in Handled
      BY <1>7 DEF FailTask, Handled, Busy
    <2>2. EndJob(t, "none") \/ EndJob(t, "lost")
      BY <1>7 DEF FailTask
    <2> QED
      BY <2>1, <2>2, <1>e
  <1> QED
    BY <1>1, <1>2, <1>3, <1>4, <1>5, <1>6, <1>7 DEF JobStep

\* What leaves the loop and the handlers where they are.
LEMMA OthersKeep ==
    ASSUME IndInv,
           \/ \E t \in Task : WatchStep(t) \/ ServerStep(t)
           \/ \E S \in SUBSET Runtime : Reload(S)
           \/ Shutdown \/ Start \/ UNCHANGED vars
    PROVE  IndInv'
  <1>t. TypeOK /\ SlotsAccountedFor /\ ResultKnown /\ HandedOut
    BY DEF IndInv
  <1>s. /\ status' \in [Task -> {"absent"} \cup Server!Live \cup Server!Outcome]
        /\ \A t \in Task : status[t] \notin {"absent", "queued"}
                             => status'[t] \notin {"absent", "queued"}
    BY <1>t, ServerKeeps, StatusMoves DEF Next
  <1>1. /\ UNCHANGED <<slots, job, result>>
        /\ poll' = poll \/ (poll = "stopped" /\ poll' = "top")
        /\ left' = left /\ ctx' \in {"live", "cancelled"} /\ watched' \subseteq Runtime
        /\ restarts' \in 0..MaxRestarts /\ watch' \in [Task -> Watch]
    <2>1. ASSUME NEW t \in Task, WatchStep(t) PROVE <1>1!:
      BY <2>1, <1>t DEF TypeOK, WatchStep, Notice, CloseWatch, Polling, daemonVars, Watch
    <2>2. CASE (\E t \in Task : ServerStep(t)) \/ UNCHANGED vars
      BY <2>2, <1>t DEF TypeOK, ServerStep, vars, daemonVars, jobVars
    <2>3. CASE (\E S \in SUBSET Runtime : Reload(S)) \/ Shutdown
      BY <2>3, <1>t DEF TypeOK, Reload, Shutdown, jobVars
    <2>4. CASE Start
      BY <2>4, <1>t, DaemonAssumption DEF TypeOK, Start, jobVars
    <2> QED
      BY <2>1, <2>2, <2>3, <2>4
  <1>2. Handled' = Handled
    BY <1>1 DEF Handled
  <1>3. TypeOK'
    BY <1>1, <1>s, <1>t DEF TypeOK, Poll
  <1>4. SlotsAccountedFor'
    BY <1>1, <1>2, <1>t DEF SlotsAccountedFor
  <1>5. ResultKnown' /\ HandedOut'
    BY <1>1, <1>2, <1>s, <1>t DEF ResultKnown, HandedOut, Handled
  <1> QED
    BY <1>3, <1>4, <1>5 DEF IndInv

LEMMA NextInv == IndInv /\ [Next]_vars => IndInv'
  <1> SUFFICES ASSUME IndInv, [Next]_vars PROVE IndInv'
    OBVIOUS
  <1>1. CASE Crash
    BY <1>1, ExitKeeps DEF Crash
  <1> QED
    BY <1>1, PollKeeps, JobKeeps, OthersKeep DEF Next

LEMMA Invariance == Spec => []IndInv
  <1> QED
    BY InitInv, NextInv, PTL DEF Spec

-----------------------------------------------------------------------------
(* The theorems *)

\* Every variable of the daemon has its type; the number of tokens never leaves
\* 0..MaxConcurrentTasks, so that neither a send on the semaphore nor the
\* receive that returns a slot can block.
THEOREM TypeCorrect == Spec => []TypeOK
  BY Invariance, PTL DEF IndInv

\* No way out of a claim or of a handler leaks a slot or returns it twice,
\* through any number of crashes and restarts.
THEOREM SlotsKept == Spec => []SlotsAccountedFor
  BY Invariance, PTL DEF IndInv

\* A task is completed on the server only when its agent completed it: the
\* handler gets to CompleteTask with nothing else than a completed result.
THEOREM CompletionsAreTrue == Spec => CompletedByAgent
  <1>1. ASSUME IndInv, [Next]_vars, NEW t \in Task, status[t] # "completed", status'[t] = "completed"
        PROVE  result[t] = "completed"
    <2>t. TypeOK /\ ResultKnown
      BY <1>1 DEF IndInv
    <2>1. ASSUME NEW u \in Task, Server!Complete(u), u # t PROVE FALSE
      BY <2>1, <2>t, <1>1 DEF Server!Complete, TypeOK
    <2>2. Server!Complete(t)
      BY <2>1, <2>t, <1>1, StatusMoves DEF Server!Create, Server!Claim, Server!Start, Server!Cancel,
         Server!Fail, Server!Stop, TypeOK
    <2>3. CASE \E u \in Task : CompleteTask(u)
      <3>1. PICK u \in Task : CompleteTask(u)
        BY <2>3
      <3>2. Server!Complete(u)
        BY <3>1, <1>1 DEF CompleteTask, Unanswered, Refused
      <3> QED
        BY <3>1, <3>2, <2>1, <2>t DEF CompleteTask, ResultKnown
    <2>4. CASE ~\E u \in Task : CompleteTask(u)
      <3>1. \/ UNCHANGED status
            \/ \E u \in Task : \/ Server!Create(u, None) \/ Server!Claim(u) \/ Server!Start(u)
                               \/ Server!Cancel({u}) \/ Server!Fail({u})
        BY <2>4, <1>1 DEF Next, vars, PollStep, BeginRound, AcquireSlot, EndRound, Wake, Drain, Stop,
           Exit, Claim, ClaimNothing, JobStep, PickTask, StartTask, CheckWatch, CheckStatus, FailTask,
           Unanswered, Refused, RunEnds, WatchStep, Notice, CloseWatch, ServerStep, Reload,
           Shutdown, Crash, Start
      <3> QED
        BY <3>1, <2>t, <1>1 DEF Server!Create, Server!Claim, Server!Start, Server!Cancel,
           Server!Fail, Server!Stop, TypeOK
    <2> QED
      BY <2>3, <2>4
  <1>2. IndInv /\ [Next]_vars => [\A t \in Task : status[t] # "completed" /\ status'[t] = "completed"
                                    => result[t] = "completed"]_vars
    BY <1>1
  <1> QED
    BY <1>2, Invariance, PTL DEF Spec, CompletedByAgent

==============================================================================
