---------------------------- MODULE RuntimeRequests ----------------------------
(****************************************************************************)
(* Pings and CLI updates: a browser asks the server for one, the daemon     *)
(* finds it in the response to a heartbeat of the runtime, works on it in a *)
(* goroutine and reports the result, while the browser polls. The server    *)
(* keeps the requests in two in-memory stores (PingStore, UpdateStore),     *)
(* each behind a mutex, so that one store operation is one action.          *)
(*                                                                          *)
(* One daemon serves every runtime. A definition named X_Fault... is X with *)
(* a plausible bug, for showing that a property can fail.                   *)
(****************************************************************************)
EXTENDS Integers, FiniteSets

CONSTANTS
    Ping, Update,  \* request ids; their number bounds the requests
    Runtime,
    None,          \* no runtime: the request does not exist yet
    MaxRestarts    \* bound on restarts of the server and of the daemon together

ASSUME RequestAssumption ==
    /\ Ping \cap Update = {}
    /\ IsFiniteSet(Ping) /\ IsFiniteSet(Update)
    /\ None \notin Runtime
    /\ MaxRestarts \in Nat

VARIABLES
    \* the stores
    status,    \* [Request -> Status]; "gone" is a request deleted from its store
    of,        \* RuntimeID
    born,      \* CreatedAt, as the order of creation in its store
    age,       \* 0; 1: past the timeout of Get; 2: past the retention of Create
    \* the daemon
    work,      \* [Request -> Work], the goroutine that handles the request
    updating,  \* the flag that handleUpdate swaps
    managed,   \* cfg.LaunchedBy = "desktop"
    \* the browser
    polled,    \* updates that a page has an interval for
    restarts   \* restarts so far

vars == <<status, of, born, age, work, updating, managed, polled, restarts>>

Request == Ping \cup Update
Active  == {"pending", "running"}
Result  == {"completed", "failed", "timeout"}
Status  == {"absent", "gone"} \cup Active \cup Result
Work    == {"none", "received", "working", "ended"}

InStore == {q \in Request : status[q] \notin {"absent", "gone"}}

Init ==
    /\ status = [q \in Request |-> "absent"]
    /\ of = [q \in Request |-> None]
    /\ born = [q \in Request |-> 0]
    /\ age = [q \in Request |-> 0]
    /\ work = [q \in Request |-> "none"]
    /\ updating = FALSE
    /\ managed \in BOOLEAN
    /\ polled = {}
    /\ restarts = 0

-----------------------------------------------------------------------------
(* The stores *)

Unused(kind) == {x \in kind : status[x] = "absent"}

\* Create: what is past its retention is deleted from the store of its kind,
\* for whatever runtime, and the new request is pending. Any fresh id will do.
Create(kind, q, r, stays) ==
    /\ q \in Unused(kind)
    /\ q = CHOOSE x \in Unused(kind) : TRUE
    /\ status' = [x \in Request |->
                    IF x = q THEN "pending"
                    ELSE IF x \in (kind \cap InStore) \ stays THEN "gone"
                    ELSE status[x]]
    /\ of' = [of EXCEPT ![q] = r]
    /\ born' = [born EXCEPT ![q] = 1 + Cardinality(kind \ Unused(kind))]
    /\ UNCHANGED <<age, work, updating, managed, restarts>>

Retained == {x \in InStore : age[x] < 2}

InitiatePing(p, r) == Create(Ping, p, r, Retained) /\ UNCHANGED polled

UpdateInProgress_FaultPendingOnly(r) ==
    \E x \in Update \cap Retained : of[x] = r /\ status[x] = "pending"

UpdateInProgress_FaultBeforeCleanup(r) ==
    \E x \in Update \cap InStore : of[x] = r /\ status[x] \in Active

UpdateInProgress(r) ==
    \E x \in Update \cap Retained : of[x] = r /\ status[x] \in Active

\* The page sets an interval once it has the answer, which may be lost or come
\* too late: a closed browser polls nothing.
InitiateUpdate(u, r) ==
    /\ ~UpdateInProgress(r)
    /\ Create(Update, u, r, Retained)
    /\ polled' = polled \cup {u} \/ polled' = polled

\* The rejected request has deleted what is past its retention all the same.
RejectUpdate(r) ==
    /\ UpdateInProgress(r)
    /\ \E x \in Update \cap InStore : age[x] = 2
    /\ status' = [x \in Request |->
                    IF x \in (Update \cap InStore) \ Retained THEN "gone" ELSE status[x]]
    /\ UNCHANGED <<of, born, age, work, updating, managed, polled, restarts>>

TimeOut(q) ==
    /\ age[q] >= 1
    /\ status' = [status EXCEPT ![q] = "timeout"]
    /\ UNCHANGED <<of, born, age, work, updating, managed, restarts>>

\* A ping that was handed to the daemon has no timeout.
GetPing(p) == status[p] = "pending" /\ TimeOut(p) /\ UNCHANGED polled

\* A page that sees a result removes its interval; it ignores a poll that fails.
StopsAtResult(u) ==
    \/ polled' = polled
    \/ status'[u] \in Result /\ polled' = polled \ {u}

GetUpdate_FaultPendingOnly(u) ==
    /\ u \in polled
    /\ status[u] = "pending" /\ TimeOut(u)
    /\ StopsAtResult(u)

GetUpdate(u) ==
    /\ u \in polled
    /\ status[u] \in Active /\ TimeOut(u)
    /\ StopsAtResult(u)

\* The poll finds a result; or the page unmounts, or the browser is closed.
StopPolling(u) ==
    /\ u \in polled
    /\ polled' = polled \ {u}
    /\ UNCHANGED <<status, of, born, age, work, updating, managed, restarts>>

OneOf(S)  == IF S = {} THEN {{}} ELSE {{x} : x \in S}
Oldest(S) == {x \in S : \A y \in S : born[x] <= born[y]}

Poppable_FaultAnyActive(kind, r) == {q \in kind : of[q] = r /\ status[q] \in Active}

Poppable(kind, r) == {q \in kind : of[q] = r /\ status[q] = "pending"}

PopPending_FaultPeek(popped) == popped # {} /\ UNCHANGED status

PopPending(popped) ==
    /\ popped # {}
    /\ status' = [q \in Request |-> IF q \in popped THEN "running" ELSE status[q]]

\* DaemonHeartbeat pops the oldest pending ping and a pending update. The
\* response may be lost, and the daemon drops a ping of a runtime that it has
\* just forgotten.
Heartbeat(r) ==
    \E ping \in OneOf(Oldest(Poppable(Ping, r))), update \in OneOf(Poppable(Update, r)) :
        /\ PopPending(ping \cup update)
        /\ \E got \in {ping \cup update, update, {}} :
             work' = [q \in Request |-> IF q \in got THEN "received" ELSE work[q]]
        /\ UNCHANGED <<of, born, age, updating, managed, polled, restarts>>

-----------------------------------------------------------------------------
(* The daemon: handlePing and handleUpdate *)

\* The report of a result overwrites whatever status the request has, unless
\* the request is no longer in the store. Nobody repeats a report that is lost.
Report(q, result) ==
    \/ q \in InStore /\ status' = [status EXCEPT ![q] = result]
    \/ UNCHANGED status

EndPing(p) ==
    /\ work[p] = "received"
    /\ work' = [work EXCEPT ![p] = "ended"]
    /\ Report(p, "completed") \/ Report(p, "failed")
    /\ UNCHANGED <<of, born, age, updating, managed, polled, restarts>>

RefuseUpdate(u) ==
    /\ work[u] = "received"
    /\ managed
    /\ work' = [work EXCEPT ![u] = "ended"]
    /\ Report(u, "failed")
    /\ UNCHANGED <<of, born, age, updating, managed, polled, restarts>>

\* The CompareAndSwap fails: the update is ignored and nothing is reported.
IgnoreUpdate(u) ==
    /\ work[u] = "received"
    /\ ~managed
    /\ updating
    /\ work' = [work EXCEPT ![u] = "ended"]
    /\ UNCHANGED <<status, of, born, age, updating, managed, polled, restarts>>

BeginUpdate_FaultNoSwap(u) ==
    /\ work[u] = "received"
    /\ ~managed
    /\ updating' = TRUE
    /\ work' = [work EXCEPT ![u] = "working"]
    /\ UNCHANGED <<status, of, born, age, managed, polled, restarts>>

BeginUpdate(u) ==
    /\ work[u] = "received"
    /\ ~managed
    /\ ~updating
    /\ updating' = TRUE
    /\ work' = [work EXCEPT ![u] = "working"]
    /\ UNCHANGED <<status, of, born, age, managed, polled, restarts>>

FailUpdate(u) ==
    /\ work[u] = "working"
    /\ work' = [work EXCEPT ![u] = "ended"]
    /\ Report(u, "failed")
    /\ updating' = FALSE
    /\ UNCHANGED <<of, born, age, managed, polled, restarts>>

\* What a daemon that stops was working on is never reported.
DropWork == [q \in Request |-> IF work[q] = "none" THEN "none" ELSE "ended"]

\* triggerRestart ends every goroutine, unless the executable is not found.
CompleteUpdate(u) ==
    /\ work[u] = "working"
    /\ work' = DropWork \/ work' = [work EXCEPT ![u] = "ended"]
    /\ Report(u, "completed")
    /\ updating' = FALSE
    /\ UNCHANGED <<of, born, age, managed, polled, restarts>>

-----------------------------------------------------------------------------
(* Time and failure *)

Older(q) == {x \in InStore : ({x, q} \subseteq Ping \/ {x, q} \subseteq Update) /\ born[x] < born[q]}

\* A request is not past a threshold before the older requests of its kind.
Tick(q) ==
    /\ q \in InStore
    /\ age[q] < 2
    /\ \A x \in Older(q) : age[x] = 2 \/ age[x] > age[q]
    /\ age' = [age EXCEPT ![q] = @ + 1]
    /\ UNCHANGED <<status, of, born, work, updating, managed, polled, restarts>>

DaemonCrash ==
    /\ restarts < MaxRestarts
    /\ restarts' = restarts + 1
    /\ work' = DropWork
    /\ updating' = FALSE
    /\ UNCHANGED <<status, of, born, age, managed, polled>>

\* The stores are in memory.
ServerRestart ==
    /\ restarts < MaxRestarts
    /\ restarts' = restarts + 1
    /\ status' = [q \in Request |-> IF q \in InStore THEN "gone" ELSE status[q]]
    /\ UNCHANGED <<of, born, age, work, updating, managed, polled>>

Next ==
    \/ \E p \in Ping, r \in Runtime : InitiatePing(p, r)
    \/ \E u \in Update, r \in Runtime : InitiateUpdate(u, r)
    \/ \E p \in Ping : GetPing(p) \/ EndPing(p)
    \/ \E r \in Runtime : Heartbeat(r) \/ RejectUpdate(r)
    \/ \E u \in Update : \/ GetUpdate(u) \/ StopPolling(u) \/ RefuseUpdate(u) \/ IgnoreUpdate(u)
                         \/ BeginUpdate(u) \/ FailUpdate(u) \/ CompleteUpdate(u)
    \/ \E q \in Request : Tick(q)
    \/ DaemonCrash
    \/ ServerRestart

Spec == Init /\ [][Next]_vars

\* Time passes, and an interval that nobody removes goes on polling. Nothing is
\* assumed of the daemon, nor that a page stays.
Fairness ==
    /\ \A q \in Request : WF_vars(Tick(q))
    /\ \A u \in Update : WF_vars(GetUpdate(u))

FairSpec == Spec /\ Fairness

-----------------------------------------------------------------------------
(* Properties *)

\* Every variable has its type, and what is still pending was not handed to the
\* daemon: popping a request and marking it running is one operation.
TypeOK ==
    /\ status \in [Request -> Status]
    /\ of \in [Request -> Runtime \cup {None}]
    /\ born \in [Request -> Nat]
    /\ age \in [Request -> 0..2]
    /\ work \in [Request -> Work]
    /\ updating \in BOOLEAN
    /\ managed \in BOOLEAN
    /\ polled \subseteq Update
    /\ restarts \in 0..MaxRestarts
    /\ \A q \in Request : status[q] \in {"absent", "pending"} => work[q] = "none"

\* "Reject if there is already a pending or running update for this runtime"
\* (runtime_update.go:61): a runtime has one update in progress at most,
\* although late reports overwrite results and the daemon forgets updates.
OneActiveUpdate ==
    \A u, v \in Update :
        (of[u] = of[v] /\ {status[u], status[v]} \subseteq Active) => u = v

\* "Prevent concurrent update attempts" (daemon.go:679): even for updates of
\* two runtimes, or one whose request the server lost in a restart, the
\* daemon replaces its binary for one of them at a time.
OneUpdateWorking ==
    \A u, v \in Update : {work[u], work[v]} \subseteq {"working"} => u = v

\* "daemon did not respond within 60 seconds" (runtime_ping.go:87) is true of a
\* ping that timed out: the daemon does not have it and never will.
TimedOutPingUnheard ==
    \A p \in Ping : status[p] = "timeout" => work[p] = "none"

\* Whatever is lost, repeated or late, a request that has a result is never in
\* progress again, and the daemon receives a request once.
HandedOutOnce ==
    [][\A q \in Request :
          /\ status[q] \in Result => status'[q] \notin Active
          /\ work'[q] = "received" => work[q] \in {"none", "received"}]_vars

\* An update that the daemon ignored, forgot or could not report ends as long as
\* a page polls it (Get, runtime_update.go:83; update-section.tsx:118). An update
\* that a restart of the server lost ends too, but its page is never told: it
\* ignores that its polls fail (update-section.tsx:149).
UpdateEnds ==
    \A u \in Update :
        u \in polled /\ status[u] \in Active ~> u \notin polled \/ status[u] \notin Active

\* An update that nobody polls any more, because its page was left or never got
\* the answer, has no timeout; it does not block its runtime for ever either:
\* "Clean up old requests (>5 minutes)" (runtime_update.go:55) lets a later
\* update begin, whatever the daemon and the pages have done.
UpdateAdmittedAgain ==
    \A r \in Runtime : UpdateInProgress(r) ~> ~UpdateInProgress(r)
=============================================================================
