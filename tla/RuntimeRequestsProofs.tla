------------------------- MODULE RuntimeRequestsProofs -------------------------
(****************************************************************************)
(* Theorems about pings and updates, for any number of requests, runtimes   *)
(* and restarts.                                                            *)
(****************************************************************************)
EXTENDS RuntimeRequests, FiniteSetTheorems, TLAPS

\* The flag is set while an update is being carried out.
FlagSet == ~updating => \A u \in Update : work[u] # "working"

\* The inductive invariant: FlagSet is what makes the swap exclusive, and the
\* last part of TypeOK what makes a timeout of a ping final.
IndInv ==
    TypeOK /\ OneActiveUpdate /\ OneUpdateWorking /\ FlagSet /\ TimedOutPingUnheard

-----------------------------------------------------------------------------
(* The operations of the stores *)

LEMMA CountIsNat ==
    ASSUME NEW kind \in {Ping, Update}
    PROVE  Cardinality(kind \ Unused(kind)) \in Nat
BY RequestAssumption, FS_Difference, FS_CardinalityType

\* What a member of OneOf(S) is: at most one element of S.
LEMMA OneOfIsSmall ==
    ASSUME NEW S, NEW T \in OneOf(S)
    PROVE  T \subseteq S /\ \A x, y \in T : x = y
BY DEF OneOf

LEMMA CreateTypes ==
    ASSUME TypeOK, NEW kind \in {Ping, Update}, NEW q \in Request, NEW r \in Runtime,
           NEW stays, Create(kind, q, r, stays), polled' \subseteq Update
    PROVE  TypeOK'
<1>1. status' \in [Request -> Status] /\ of' \in [Request -> Runtime \cup {None}]
  BY DEF TypeOK, Create, Status, Active, Result
<1>2. born' \in [Request -> Nat]
  <2>1. PICK n \in Nat : born' = [born EXCEPT ![q] = 1 + n]
    BY CountIsNat DEF Create
  <2>2. 1 + n \in Nat
    OBVIOUS
  <2> QED
    BY <2>1, <2>2 DEF TypeOK
<1>3. \A x \in Request : status'[x] \in {"absent", "pending"} => work'[x] = "none"
  BY DEF TypeOK, Create, Unused
<1>4. UNCHANGED <<age, work, updating, managed, restarts>>
  BY DEF Create
<1> QED
  BY <1>1, <1>2, <1>3, <1>4 DEF TypeOK

LEMMA CreateKeepsRest ==
    ASSUME IndInv, NEW kind \in {Ping, Update}, NEW q \in Request, NEW r \in Runtime,
           NEW stays, Create(kind, q, r, stays)
    PROVE  OneUpdateWorking' /\ FlagSet' /\ TimedOutPingUnheard'
<1>1. \A p \in Ping : status'[p] = "timeout" => status[p] = "timeout"
  BY DEF Create, Request, IndInv, TypeOK
<1> QED
  BY <1>1 DEF IndInv, Create, OneUpdateWorking, FlagSet, TimedOutPingUnheard

LEMMA InitiatePingKeeps ==
    ASSUME IndInv, NEW p \in Ping, NEW r \in Runtime, InitiatePing(p, r)
    PROVE  IndInv'
<1>0. polled' \subseteq Update
  BY DEF InitiatePing, IndInv, TypeOK
<1>1. TypeOK' /\ OneUpdateWorking' /\ FlagSet' /\ TimedOutPingUnheard'
  BY <1>0, CreateTypes, CreateKeepsRest DEF InitiatePing, IndInv, Request
<1>2. \A u \in Update : status'[u] = status[u] /\ of'[u] = of[u]
  BY RequestAssumption DEF InitiatePing, Create, Request, IndInv, TypeOK, Unused
<1>3. OneActiveUpdate'
  BY <1>2 DEF IndInv, OneActiveUpdate
<1> QED
  BY <1>1, <1>3 DEF IndInv

\* The new update is the only one of its runtime: another one in progress was
\* either past its retention and is gone, or a reason to reject it.
LEMMA InitiateUpdateKeeps ==
    ASSUME IndInv, NEW w \in Update, NEW r \in Runtime, InitiateUpdate(w, r)
    PROVE  IndInv'
<1>0. polled' \subseteq Update
  BY DEF InitiateUpdate, IndInv, TypeOK
<1>1. TypeOK' /\ OneUpdateWorking' /\ FlagSet' /\ TimedOutPingUnheard'
  BY <1>0, CreateTypes, CreateKeepsRest DEF InitiateUpdate, IndInv, Request
<1>2. ASSUME NEW v \in Update, v # w, status'[v] \in Active
      PROVE  /\ status[v] = status'[v] /\ of'[v] = of[v]
             /\ v \in Update \cap Retained
  BY <1>2 DEF InitiateUpdate, Create, IndInv, TypeOK, Request, Active, InStore, Retained
<1>3. ASSUME NEW v \in Update, v # w, status'[v] \in Active
      PROVE  of'[v] # of'[w]
  <2>1. of'[w] = r
    BY DEF InitiateUpdate, Create, IndInv, TypeOK, Request
  <2> QED
    BY <1>2, <1>3, <2>1 DEF InitiateUpdate, UpdateInProgress
<1>4. OneActiveUpdate'
  <2> SUFFICES ASSUME NEW u \in Update, NEW v \in Update, of'[u] = of'[v],
                      status'[u] \in Active, status'[v] \in Active
               PROVE  u = v
    BY DEF OneActiveUpdate
  <2>1. CASE u = w \/ v = w
    BY <1>3, <2>1
  <2>2. CASE u # w /\ v # w
    BY <1>2, <2>2 DEF IndInv, OneActiveUpdate
  <2> QED
    BY <2>1, <2>2
<1> QED
  BY <1>1, <1>4 DEF IndInv

\* A step that activates nothing and tells the truth about pings.
LEMMA StatusStepKeeps ==
    ASSUME IndInv, status' \in [Request -> Status],
           \A q \in Request : status'[q] \in Active => status[q] \in Active,
           \A q \in Request : status'[q] \in {"absent", "pending"} => status'[q] = status[q],
           \A p \in Ping : status'[p] = "timeout" => work[p] = "none",
           polled' \subseteq Update,
           UNCHANGED <<of, born, age, work, updating, managed, restarts>>
    PROVE  IndInv'
<1>1. TypeOK'
  BY DEF IndInv, TypeOK
<1>2. OneActiveUpdate'
  BY DEF IndInv, OneActiveUpdate, Request
<1>3. OneUpdateWorking' /\ FlagSet' /\ TimedOutPingUnheard'
  BY DEF IndInv, OneUpdateWorking, FlagSet, TimedOutPingUnheard
<1> QED
  BY <1>1, <1>2, <1>3 DEF IndInv

LEMMA RejectUpdateKeeps ==
    ASSUME IndInv, NEW r \in Runtime, RejectUpdate(r)
    PROVE  IndInv'
<1>1. \A q \in Request : status'[q] \in {status[q], "gone"}
  BY DEF RejectUpdate
<1>2. status' \in [Request -> Status] /\ polled' \subseteq Update
  BY DEF RejectUpdate, IndInv, TypeOK, Status
<1> QED
  BY <1>1, <1>2, StatusStepKeeps
  DEF RejectUpdate, IndInv, TimedOutPingUnheard, Active, Request

LEMMA GetPingKeeps == ASSUME IndInv, NEW p \in Ping, GetPing(p) PROVE IndInv'
<1>1. work[p] = "none"
  BY DEF IndInv, TypeOK, GetPing, Request
<1> QED
  BY <1>1, StatusStepKeeps
  DEF GetPing, TimeOut, IndInv, TypeOK, TimedOutPingUnheard, Status, Active, Result, Request

LEMMA GetUpdateKeeps == ASSUME IndInv, NEW u \in Update, GetUpdate(u) PROVE IndInv'
<1>1. polled' \subseteq Update
  BY DEF GetUpdate, StopsAtResult, IndInv, TypeOK
<1> QED
  BY <1>1, StatusStepKeeps, RequestAssumption
  DEF GetUpdate, TimeOut, IndInv, TypeOK, TimedOutPingUnheard, Status, Active, Result, Request

LEMMA StopPollingKeeps == ASSUME IndInv, NEW u \in Update, StopPolling(u) PROVE IndInv'
BY DEF StopPolling, IndInv, TypeOK, OneActiveUpdate, OneUpdateWorking, FlagSet, TimedOutPingUnheard

LEMMA HeartbeatKeeps == ASSUME IndInv, NEW r \in Runtime, Heartbeat(r) PROVE IndInv'
<1>1. PICK ping \in OneOf(Oldest(Poppable(Ping, r))), update \in OneOf(Poppable(Update, r)) :
        /\ PopPending(ping \cup update)
        /\ \E got \in {ping \cup update, update, {}} :
             work' = [q \in Request |-> IF q \in got THEN "received" ELSE work[q]]
        /\ UNCHANGED <<of, born, age, updating, managed, polled, restarts>>
  BY DEF Heartbeat
<1> DEFINE popped == ping \cup update
<1>2. \A q \in popped : q \in Request /\ status[q] = "pending" /\ work[q] = "none"
  BY OneOfIsSmall DEF Oldest, Poppable, Request, IndInv, TypeOK
<1>3. PICK got \in SUBSET popped :
        work' = [q \in Request |-> IF q \in got THEN "received" ELSE work[q]]
  BY <1>1
<1>4. status' = [q \in Request |-> IF q \in popped THEN "running" ELSE status[q]]
  BY <1>1 DEF PopPending
<1>5. TypeOK'
  <2>1. status' \in [Request -> Status] /\ work' \in [Request -> Work]
    BY <1>3, <1>4 DEF IndInv, TypeOK, Status, Active, Work
  <2>2. \A q \in Request : status'[q] \in {"absent", "pending"} => work'[q] = "none"
    BY <1>3, <1>4 DEF IndInv, TypeOK
  <2> QED
    BY <1>1, <2>1, <2>2 DEF IndInv, TypeOK
<1>6. OneActiveUpdate'
  BY <1>1, <1>2, <1>4 DEF IndInv, TypeOK, OneActiveUpdate, Active, Request
<1>7. \A q \in Request : work'[q] = "working" => work[q] = "working"
  BY <1>3
<1>8. OneUpdateWorking' /\ FlagSet'
  BY <1>1, <1>7 DEF IndInv, OneUpdateWorking, FlagSet, Request
<1>9. TimedOutPingUnheard'
  BY <1>3, <1>4 DEF IndInv, TimedOutPingUnheard, Request
<1> QED
  BY <1>5, <1>6, <1>8, <1>9 DEF IndInv

-----------------------------------------------------------------------------
(* The steps of the daemon *)

LEMMA ReportIsResult ==
    ASSUME TypeOK, NEW q \in Request, NEW result \in {"completed", "failed"}, Report(q, result)
    PROVE  /\ status' \in [Request -> Status]
           /\ \A x \in Request : x # q => status'[x] = status[x]
           /\ status'[q] \in {status[q], result}
BY DEF Report, TypeOK, Status, Result

\* A goroutine that had the request reports, and no update starts.
LEMMA WorkStepKeeps ==
    ASSUME IndInv, NEW q \in Request, work[q] # "none", status' \in [Request -> Status],
           \A x \in Request : x # q => status'[x] = status[x],
           status'[q] \in {status[q], "completed", "failed"},
           work' \in [Request -> Work],
           \A x \in Request : work'[x] = "none" <=> work[x] = "none",
           \A u, v \in Update : (work'[u] = "working" /\ work'[v] = "working") => u = v,
           updating' \in BOOLEAN, FlagSet',
           UNCHANGED <<of, born, age, managed, polled, restarts>>
    PROVE  IndInv'
<1>1. TypeOK'
  BY DEF IndInv, TypeOK
<1>2. OneActiveUpdate'
  BY DEF IndInv, OneActiveUpdate, Active, Request
<1>3. TimedOutPingUnheard'
  BY DEF IndInv, TimedOutPingUnheard, Request
<1> QED
  BY <1>1, <1>2, <1>3 DEF IndInv, OneUpdateWorking

LEMMA EndPingKeeps == ASSUME IndInv, NEW p \in Ping, EndPing(p) PROVE IndInv'
<1>1. work' \in [Request -> Work] /\ \A u \in Update : work'[u] = work[u]
  BY RequestAssumption DEF EndPing, IndInv, TypeOK, Work, Request
<1>2. \A x \in Request : work'[x] = "none" <=> work[x] = "none"
  BY DEF EndPing, IndInv, TypeOK
<1>3. FlagSet' /\ updating' \in BOOLEAN
  BY <1>1 DEF EndPing, IndInv, FlagSet, TypeOK
<1>4. p \in Request /\ work[p] # "none" /\ TypeOK
  BY DEF EndPing, Request, IndInv
<1> QED
  BY <1>1, <1>2, <1>3, <1>4, ReportIsResult, WorkStepKeeps DEF EndPing, IndInv, OneUpdateWorking

LEMMA RefuseUpdateKeeps == ASSUME IndInv, NEW u \in Update, RefuseUpdate(u) PROVE IndInv'
<1>1. work' \in [Request -> Work] /\ \A v \in Update : work'[v] = "working" => work[v] = "working"
  BY DEF RefuseUpdate, IndInv, TypeOK, Work, Request
<1>2. \A x \in Request : work'[x] = "none" <=> work[x] = "none"
  BY DEF RefuseUpdate, IndInv, TypeOK
<1>3. FlagSet' /\ updating' \in BOOLEAN
  BY <1>1 DEF RefuseUpdate, IndInv, FlagSet, TypeOK
<1>4. u \in Request /\ work[u] # "none" /\ TypeOK
  BY DEF RefuseUpdate, Request, IndInv
<1> QED
  BY <1>1, <1>2, <1>3, <1>4, ReportIsResult, WorkStepKeeps DEF RefuseUpdate, IndInv, OneUpdateWorking

LEMMA IgnoreUpdateKeeps == ASSUME IndInv, NEW u \in Update, IgnoreUpdate(u) PROVE IndInv'
<1>1. work' \in [Request -> Work] /\ \A v \in Update : work'[v] = "working" => work[v] = "working"
  BY DEF IgnoreUpdate, IndInv, TypeOK, Work, Request
<1>2. \A x \in Request : work'[x] = "none" <=> work[x] = "none"
  BY DEF IgnoreUpdate, IndInv, TypeOK
<1>3. FlagSet' /\ updating' \in BOOLEAN
  BY <1>1 DEF IgnoreUpdate, IndInv, FlagSet, TypeOK
<1>4. u \in Request /\ work[u] # "none" /\ status' = status
  BY DEF IgnoreUpdate, Request
<1> QED
  BY <1>1, <1>2, <1>3, <1>4, WorkStepKeeps DEF IgnoreUpdate, IndInv, TypeOK, OneUpdateWorking

\* The swap succeeds only while nothing is being carried out.
LEMMA BeginUpdateKeeps == ASSUME IndInv, NEW u \in Update, BeginUpdate(u) PROVE IndInv'
<1>1. work' \in [Request -> Work] /\ \A x \in Request : work'[x] = "none" <=> work[x] = "none"
  BY DEF BeginUpdate, IndInv, TypeOK, Work
<1>2. \A v \in Update : work'[v] = "working" => v = u
  BY DEF BeginUpdate, IndInv, FlagSet, TypeOK, Request
<1>3. FlagSet' /\ updating' \in BOOLEAN
  BY DEF BeginUpdate, FlagSet
<1>4. u \in Request /\ work[u] # "none" /\ status' = status
  BY DEF BeginUpdate, Request
<1> QED
  BY <1>1, <1>2, <1>3, <1>4, WorkStepKeeps DEF BeginUpdate, IndInv, TypeOK

\* The end of the update that was being carried out leaves none.
LEMMA EndUpdateKeeps ==
    ASSUME IndInv, NEW u \in Update, FailUpdate(u) \/ CompleteUpdate(u)
    PROVE  IndInv'
<1>1. /\ work[u] = "working" /\ updating' = FALSE
      /\ work' = [work EXCEPT ![u] = "ended"] \/ work' = DropWork
      /\ Report(u, "failed") \/ Report(u, "completed")
      /\ UNCHANGED <<of, born, age, managed, polled, restarts>>
  BY DEF FailUpdate, CompleteUpdate
<1>2. work' \in [Request -> Work] /\ \A x \in Request : work'[x] = "none" <=> work[x] = "none"
  BY <1>1 DEF IndInv, TypeOK, Work, DropWork
<1>3. \A v \in Update : work'[v] # "working"
  BY <1>1 DEF IndInv, OneUpdateWorking, TypeOK, Request, DropWork
<1>4. FlagSet' /\ updating' \in BOOLEAN
  BY <1>1, <1>3 DEF FlagSet
<1>5. u \in Request /\ work[u] # "none" /\ TypeOK
  BY <1>1 DEF Request, IndInv
<1> QED
  BY <1>1, <1>2, <1>3, <1>4, <1>5, ReportIsResult, WorkStepKeeps

-----------------------------------------------------------------------------
(* Time and failure *)

LEMMA TickKeeps == ASSUME IndInv, NEW q \in Request, Tick(q) PROVE IndInv'
<1>1. age' \in [Request -> 0..2]
  BY DEF Tick, IndInv, TypeOK
<1> QED
  BY <1>1 DEF Tick, IndInv, TypeOK, OneActiveUpdate, OneUpdateWorking, FlagSet, TimedOutPingUnheard

LEMMA DaemonCrashKeeps == ASSUME IndInv, DaemonCrash PROVE IndInv'
<1>1. work' \in [Request -> Work] /\ \A x \in Request : work'[x] = "none" <=> work[x] = "none"
  BY DEF DaemonCrash, DropWork, IndInv, TypeOK, Work
<1>2. \A x \in Request : work'[x] # "working"
  BY DEF DaemonCrash, DropWork
<1>3. restarts' \in 0..MaxRestarts
  BY RequestAssumption DEF DaemonCrash, IndInv, TypeOK
<1>4. TypeOK'
  BY <1>1, <1>3 DEF DaemonCrash, IndInv, TypeOK
<1> QED
  BY <1>1, <1>2, <1>4
  DEF DaemonCrash, IndInv, OneActiveUpdate, OneUpdateWorking, FlagSet, TimedOutPingUnheard, Request

LEMMA ServerRestartKeeps == ASSUME IndInv, ServerRestart PROVE IndInv'
<1>1. status' \in [Request -> Status] /\ \A q \in Request : status'[q] \in {status[q], "gone"}
  BY DEF ServerRestart, IndInv, TypeOK, Status
<1>2. restarts' \in 0..MaxRestarts
  BY RequestAssumption DEF ServerRestart, IndInv, TypeOK
<1>3. TypeOK'
  BY <1>1, <1>2 DEF ServerRestart, IndInv, TypeOK
<1> QED
  BY <1>1, <1>3
  DEF ServerRestart, IndInv, OneActiveUpdate, OneUpdateWorking, FlagSet, TimedOutPingUnheard, Request, Active

-----------------------------------------------------------------------------
LEMMA InitIndInv == Init => IndInv
<1> SUFFICES ASSUME Init PROVE IndInv
  OBVIOUS
<1>1. status \in [Request -> Status] /\ work \in [Request -> Work]
  BY DEF Init, Status, Work
<1>0. of \in [Request -> Runtime \cup {None}] /\ born \in [Request -> Nat] /\ age \in [Request -> 0..2]
  BY DEF Init
<1>2. restarts \in 0..MaxRestarts
  BY RequestAssumption DEF Init
<1>3. TypeOK
  BY <1>1, <1>0, <1>2 DEF Init, TypeOK
<1>4. OneActiveUpdate /\ OneUpdateWorking /\ FlagSet /\ TimedOutPingUnheard
  BY DEF Init, OneActiveUpdate, OneUpdateWorking, FlagSet, TimedOutPingUnheard, Active, Request
<1> QED
  BY <1>3, <1>4 DEF IndInv

LEMMA NextIndInv == IndInv /\ [Next]_vars => IndInv'
<1> SUFFICES ASSUME IndInv, [Next]_vars PROVE IndInv'
  OBVIOUS
<1>1. CASE UNCHANGED vars
  BY <1>1 DEF vars, IndInv, TypeOK, OneActiveUpdate, OneUpdateWorking, FlagSet, TimedOutPingUnheard
<1>2. CASE \E p \in Ping : GetPing(p) \/ EndPing(p) \/ \E r \in Runtime : InitiatePing(p, r)
  BY <1>2, GetPingKeeps, EndPingKeeps, InitiatePingKeeps
<1>3. CASE \E r \in Runtime : Heartbeat(r) \/ RejectUpdate(r)
  BY <1>3, HeartbeatKeeps, RejectUpdateKeeps
<1>4. CASE \E u \in Update : \/ GetUpdate(u) \/ StopPolling(u) \/ RefuseUpdate(u)
                             \/ IgnoreUpdate(u) \/ BeginUpdate(u) \/ FailUpdate(u) \/ CompleteUpdate(u)
                             \/ \E r \in Runtime : InitiateUpdate(u, r)
  BY <1>4, GetUpdateKeeps, StopPollingKeeps, RefuseUpdateKeeps, IgnoreUpdateKeeps, BeginUpdateKeeps,
     EndUpdateKeeps, InitiateUpdateKeeps
<1>5. CASE \E q \in Request : Tick(q)
  BY <1>5, TickKeeps
<1>6. CASE DaemonCrash \/ ServerRestart
  BY <1>6, DaemonCrashKeeps, ServerRestartKeeps
<1> QED
  BY <1>1, <1>2, <1>3, <1>4, <1>5, <1>6 DEF Next

\* The whole inductive invariant, which the theorems below take parts of.
THEOREM Inductive == Spec => []IndInv
BY InitIndInv, NextIndInv, PTL DEF Spec

\* Every variable has its type, and a pending request is with no goroutine.
THEOREM TypeCorrect == Spec => []TypeOK
<1>1. IndInv => TypeOK
  BY DEF IndInv
<1> QED
  BY <1>1, Inductive, PTL

\* A runtime has one update in progress at most, for any number of requests.
THEOREM UpdatesExclusive == Spec => []OneActiveUpdate
<1>1. IndInv => OneActiveUpdate
  BY DEF IndInv
<1> QED
  BY <1>1, Inductive, PTL

\* The daemon never replaces its binary for two updates at a time.
THEOREM SwapExclusive == Spec => []OneUpdateWorking
<1>1. IndInv => OneUpdateWorking
  BY DEF IndInv
<1> QED
  BY <1>1, Inductive, PTL

\* The error text of a ping that timed out is true.
THEOREM TimeoutsAreTrue == Spec => []TimedOutPingUnheard
<1>1. IndInv => TimedOutPingUnheard
  BY DEF IndInv
<1> QED
  BY <1>1, Inductive, PTL

-----------------------------------------------------------------------------
(* A request is handed out once *)

\* What HandedOutOnce says of a step, for one request.
OnceStep(q) ==
    /\ status[q] \in Result => status'[q] \notin Active
    /\ work'[q] = "received" => work[q] \in {"none", "received"}

LEMMA HeartbeatOnce ==
    ASSUME IndInv, NEW r \in Runtime, Heartbeat(r), NEW q \in Request
    PROVE  OnceStep(q)
<1>1. PICK ping \in OneOf(Oldest(Poppable(Ping, r))), update \in OneOf(Poppable(Update, r)) :
        /\ PopPending(ping \cup update)
        /\ \E got \in {ping \cup update, update, {}} :
             work' = [x \in Request |-> IF x \in got THEN "received" ELSE work[x]]
  BY DEF Heartbeat
<1>2. \A x \in ping \cup update : status[x] = "pending" /\ work[x] = "none"
  BY OneOfIsSmall DEF Oldest, Poppable, Request, IndInv, TypeOK
<1>3. status[q] \in Result => status'[q] = status[q]
  BY <1>1, <1>2 DEF PopPending, Result
<1>4. work'[q] # work[q] => work[q] = "none"
  BY <1>1, <1>2
<1> QED
  BY <1>3, <1>4 DEF OnceStep, Result, Active

LEMMA OtherStepsOnce ==
    ASSUME IndInv, [Next]_vars, ~\E r \in Runtime : Heartbeat(r), NEW q \in Request
    PROVE  OnceStep(q)
<1>1. CASE UNCHANGED vars
  BY <1>1 DEF vars, OnceStep, Result, Active
<1>2. CASE \E kind \in {Ping, Update}, x \in Request, r \in Runtime : Create(kind, x, r, Retained)
  BY <1>2 DEF Create, Unused, OnceStep, Result, Active, IndInv, TypeOK
<1>3. CASE \E r \in Runtime : RejectUpdate(r)
  BY <1>3 DEF RejectUpdate, OnceStep, Result, Active
<1>4. CASE \E x \in Request : TimeOut(x)
  BY <1>4 DEF TimeOut, OnceStep, Result, Active, IndInv, TypeOK
<1>5. CASE \E p \in Ping : EndPing(p)
  BY <1>5 DEF EndPing, Report, OnceStep, Result, Active, IndInv, TypeOK
<1>6. CASE \E u \in Update : StopPolling(u) \/ RefuseUpdate(u) \/ IgnoreUpdate(u) \/ BeginUpdate(u)
  BY <1>6 DEF StopPolling, RefuseUpdate, IgnoreUpdate, BeginUpdate, Report, OnceStep, Result, Active, IndInv, TypeOK
<1>7. CASE \E u \in Update : FailUpdate(u) \/ CompleteUpdate(u)
  BY <1>7 DEF FailUpdate, CompleteUpdate, DropWork, Report, OnceStep, Result, Active, IndInv, TypeOK
<1>8. CASE (\E x \in Request : Tick(x)) \/ DaemonCrash \/ ServerRestart
  BY <1>8 DEF Tick, DaemonCrash, ServerRestart, DropWork, OnceStep, Result, Active, IndInv, TypeOK
<1> QED
  BY <1>1, <1>2, <1>3, <1>4, <1>5, <1>6, <1>7, <1>8
  DEF Next, InitiatePing, InitiateUpdate, GetPing, GetUpdate, Request

\* No request that has a result is in progress again, and the daemon receives
\* each at most once, whatever reports are late or lost.
THEOREM NeverTwice == Spec => HandedOutOnce
<1>1. IndInv /\ [Next]_vars => \A q \in Request : OnceStep(q)
  BY HeartbeatOnce, OtherStepsOnce
<1>2. (\A q \in Request : OnceStep(q)) =>
        [\A q \in Request :
           /\ status[q] \in Result => status'[q] \notin Active
           /\ work'[q] = "received" => work[q] \in {"none", "received"}]_vars
  BY DEF OnceStep
<1> QED
  BY <1>1, <1>2, Inductive, PTL DEF Spec, HandedOutOnce
=============================================================================
