--------------------------- MODULE AutopilotProofs ----------------------------
(****************************************************************************)
(* Theorems about the runs of an autopilot, for any number of runs,         *)
(* triggers, servers and crashes.                                           *)
(****************************************************************************)
EXTENDS Autopilot, FiniteSetTheorems, TLAPS

USE AutopilotAssumption

\* What a label asks of what its goroutine knows.
Fits(p, label, l) ==
    /\ label \in Label /\ l \in Local
    /\ label \in {"dispatch", "link", "fail", "read", "write"} => l.run \in Run
    /\ p \in Scheduler /\ label # "idle" => l.trigger \in Trigger

\* A goroutine that is about to start a run for a trigger, or has yet to look
\* at it in this tick.
Choosing == {"check", "skip", "create"}
Owes(s, t) == t \in loc[s].claimed \/ (loc[s].trigger = t /\ pc[s] \in Choosing)

Holders(t) == {s \in Scheduler : Owes(s, t)}
Started(t) == {r \in Run : source[r] = t}
IsDue(t)   == IF nextRun[t] = "due" THEN 1 ELSE 0

\* Each time a trigger comes due is a due trigger, a goroutine that owes a run
\* for it, a run, or lost.
Counted(t) == Cardinality(Started(t)) + Cardinality(Holders(t)) + IsDue(t) <= ticks[t]

\* What a goroutine has claimed is for its own later triggers only, and no
\* caller starts a run for a trigger.
Apart ==
    /\ \A p \in Process : pc[p] = "idle" => loc[p] = NoLoc
    /\ \A s \in Scheduler : loc[s].trigger \notin loc[s].claimed
    /\ \A c \in Caller : loc[c].trigger = None

\* The inductive invariant.
IndInv == TypeOK /\ Apart /\ \A t \in Trigger : Counted(t)

-----------------------------------------------------------------------------
(* Types *)

LEMMA NoLocType == NoLoc \in Local
BY DEF NoLoc, Local

LEMMA GotoTypes ==
    ASSUME TypeOK, NEW p \in Process, NEW label, NEW l, Goto(p, label, l),
           label = "idle" \/ Fits(p, label, l)
    PROVE  /\ pc' \in [Process -> Label] /\ loc' \in [Process -> Local]
           /\ \A q \in Process :
                /\ pc'[q] \in {"dispatch", "link", "fail", "read", "write"} => loc'[q].run \in Run
                /\ q \in Scheduler /\ pc'[q] # "idle" => loc'[q].trigger \in Trigger
<1>1. pc'[p] = label /\ loc'[p] = IF label = "idle" THEN NoLoc ELSE l
  BY DEF Goto, TypeOK
<1>2. \A q \in Process \ {p} : pc'[q] = pc[q] /\ loc'[q] = loc[q]
  BY DEF Goto, TypeOK
<1>3. pc' \in [Process -> Label] /\ loc' \in [Process -> Local]
  BY NoLocType DEF Goto, TypeOK, Fits, Label
<1> QED
  BY <1>1, <1>2, <1>3 DEF TypeOK, Fits

LEMMA SetRunsTypes ==
    ASSUME TypeOK, NEW S, NEW s \in RunStatus, SetRuns(S, s)
    PROVE  runStatus' \in [Run -> RunStatus] /\ source' \in [Run -> Trigger \cup {None}]
BY DEF SetRuns, TypeOK

\* The rest of TypeOK, for a step that only moves a goroutine.
LEMMA MoveTypes ==
    ASSUME TypeOK, NEW p \in Process, NEW label, NEW l, Goto(p, label, l),
           label = "idle" \/ Fits(p, label, l),
           UNCHANGED fixedVars, crashes' \in 0..MaxCrashes,
           nextRun' \in [Trigger -> NextRun], ticks' = ticks,
           runStatus' \in [Run -> RunStatus], source' \in [Run -> Trigger \cup {None}],
           job' \in [Run -> Job],
           uncancelled' \in 0..MaxFailures, unarmed' \subseteq Trigger
    PROVE  TypeOK'
BY GotoTypes DEF TypeOK, fixedVars

LEMMA NextTriggerTypes ==
    ASSUME TypeOK, NEW p \in Scheduler, NEW C \in SUBSET Trigger, NextTrigger(p, C)
    PROVE  \E label, l : Goto(p, label, l) /\ (label = "idle" \/ Fits(p, label, l))
<1>1. CASE C = {}
  BY <1>1 DEF NextTrigger
<1>2. CASE C # {}
  <2>1. PICK t \in C : Goto(p, "check", [NoLoc EXCEPT !.trigger = t, !.claimed = C \ {t}])
    BY <1>2 DEF NextTrigger
  <2>2. Fits(p, "check", [NoLoc EXCEPT !.trigger = t, !.claimed = C \ {t}])
    BY DEF Fits, Label, Local, NoLoc
  <2> QED
    BY <2>1, <2>2
<1> QED
  BY <1>1, <1>2

LEMMA ReturnTypes ==
    ASSUME TypeOK, NEW p \in Dispatcher, pc[p] # "idle", Return(p)
    PROVE  \E label, l : Goto(p, label, l) /\ (label = "idle" \/ Fits(p, label, l))
<1>1. CASE p \in Caller
  BY <1>1 DEF Return
<1>2. CASE p \notin Caller
  <2>1. p \in Scheduler /\ Goto(p, "advance", loc[p])
    BY <1>2 DEF Return, Dispatcher
  <2>2. Fits(p, "advance", loc[p])
    BY <2>1 DEF Fits, Label, TypeOK, Process, Dispatcher
  <2> QED
    BY <2>1, <2>2
<1> QED
  BY <1>1, <1>2

LEMMA CreateRunTypes ==
    ASSUME TypeOK, NEW p \in Dispatcher, NEW r \in Run, NEW s \in RunStatus,
           CreateRun(p, r, s)
    PROVE  /\ runStatus' \in [Run -> RunStatus] /\ source' \in [Run -> Trigger \cup {None}]
           /\ UNCHANGED <<nextRun, ticks, job, uncancelled, unarmed>>
<1>1. loc[p] \in Local
  BY DEF TypeOK, Process
<1>2. loc[p].trigger \in Trigger \cup {None}
  BY <1>1 DEF Local
<1> QED
  BY <1>2 DEF CreateRun, TypeOK, faultVars

LEMMA DispatchTypes ==
    ASSUME TypeOK, NEW p \in Dispatcher, Dispatch(p)
    PROVE  TypeOK'
<1> DEFINE Moved == \E label, l : Goto(p, label, l) /\ (label = "idle" \/ Fits(p, label, l))
           Rest  == /\ UNCHANGED fixedVars /\ crashes' = crashes
                    /\ nextRun' = nextRun /\ ticks' = ticks
                    /\ runStatus' \in [Run -> RunStatus]
                    /\ source' \in [Run -> Trigger \cup {None}]
                    /\ job' \in [Run -> Job]
                    /\ uncancelled' \in 0..MaxFailures /\ unarmed' = unarmed
<1>1. p \in Process /\ loc[p] \in Local
  BY DEF TypeOK, Process
<1>2. Moved /\ Rest => TypeOK'
  <2> SUFFICES ASSUME Moved, Rest PROVE TypeOK'
    OBVIOUS
  <2>1. PICK label, l : Goto(p, label, l) /\ (label = "idle" \/ Fits(p, label, l))
    OBVIOUS
  <2>2. /\ crashes' \in 0..MaxCrashes /\ nextRun' \in [Trigger -> NextRun]
        /\ unarmed' \subseteq Trigger
    BY DEF TypeOK
  <2> QED
    BY <1>1, <2>1, <2>2, MoveTypes
<1> HIDE DEF Moved, Rest
<1>3. ASSUME CheckConcurrency(p) PROVE TypeOK'
  <2>1. runStatus' \in [Run -> RunStatus] /\ source' \in [Run -> Trigger \cup {None}]
    BY <1>3, SetRunsTypes DEF CheckConcurrency, CancelActiveAutopilotRuns, rowVars, TypeOK, RunStatus
  <2>2. Rest
    BY <1>3, <2>1 DEF Rest, CheckConcurrency, At, TypeOK
  <2>3. PICK label \in {"skip", "create"} : Goto(p, label, loc[p])
    BY <1>3 DEF CheckConcurrency
  <2>4. Fits(p, label, loc[p])
    BY <1>1, <1>3, <2>3 DEF Fits, Label, CheckConcurrency, At, TypeOK
  <2> QED
    BY <1>2, <2>2, <2>3, <2>4 DEF Moved
<1>4. ASSUME StatementFails(p) PROVE TypeOK'
  <2>1. Moved
    BY <1>4, ReturnTypes DEF StatementFails, Moved
  <2>2. Rest
    BY <1>4 DEF StatementFails, Rest, At, TypeOK, rowVars, faultVars
  <2> QED
    BY <1>2, <2>1, <2>2
<1>10. ASSUME CancelFails(p) PROVE TypeOK'
  <2>1. uncancelled' \in 0..MaxFailures
    BY <1>10 DEF CancelFails, TypeOK
  <2>2. Rest
    BY <1>10, <2>1 DEF CancelFails, Rest, At, TypeOK, rowVars
  <2>3. Fits(p, "create", loc[p])
    BY <1>1, <1>10 DEF Fits, Label, CancelFails, At, TypeOK
  <2> QED
    BY <1>2, <1>10, <2>2, <2>3 DEF Moved, CancelFails
<1>5. ASSUME NEW r \in Run, CreateSkippedRun(p, r) PROVE TypeOK'
  <2>1. Moved
    BY <1>5, ReturnTypes DEF CreateSkippedRun, Moved, At
  <2>2. Rest
    BY <1>5, CreateRunTypes DEF CreateSkippedRun, RunStatus, Rest, At, TypeOK
  <2> QED
    BY <1>2, <2>1, <2>2
<1>6. ASSUME NEW r \in Run, CreatePendingRun(p, r) PROVE TypeOK'
  <2>1. Rest
    BY <1>6, CreateRunTypes DEF CreatePendingRun, RunStatus, Active, Rest, At, TypeOK
  <2>2. Fits(p, "dispatch", [loc[p] EXCEPT !.run = r])
    BY <1>1, <1>6 DEF Fits, Label, Local, CreatePendingRun, At, TypeOK
  <2> QED
    BY <1>2, <1>6, <2>1, <2>2 DEF Moved, CreatePendingRun
<1>7. ASSUME CreateJob(p) PROVE TypeOK'
  <2>1. Rest
    BY <1>7 DEF CreateJob, Rest, At, TypeOK, Job, rowVars, faultVars
  <2>2. Fits(p, "link", loc[p])
    BY <1>1, <1>7 DEF Fits, Label, CreateJob, At, TypeOK
  <2> QED
    BY <1>2, <1>7, <2>1, <2>2 DEF Moved, CreateJob
<1>8. ASSUME CreateJobFails(p) PROVE TypeOK'
  <2>1. Rest
    BY <1>8 DEF CreateJobFails, Rest, At, TypeOK, rowVars, faultVars
  <2>2. Fits(p, "fail", loc[p])
    BY <1>1, <1>8 DEF Fits, Label, CreateJobFails, At, TypeOK
  <2> QED
    BY <1>2, <1>8, <2>1, <2>2 DEF Moved, CreateJobFails
<1>9. ASSUME LinkJob(p) \/ FailRun(p) PROVE TypeOK'
  <2>1. Moved
    BY <1>9, ReturnTypes DEF LinkJob, FailRun, At, Moved
  <2>2. runStatus' \in [Run -> RunStatus] /\ source' \in [Run -> Trigger \cup {None}]
    BY <1>9, SetRunsTypes DEF LinkJob, FailRun, RunStatus, Active
  <2>3. Rest
    BY <1>9, <2>2 DEF LinkJob, FailRun, Rest, At, TypeOK, faultVars
  <2> QED
    BY <1>2, <2>1, <2>3
<1> QED
  BY <1>3, <1>4, <1>5, <1>6, <1>7, <1>8, <1>9, <1>10 DEF Dispatch

LEMMA TypesKept == TypeOK /\ [Next]_vars => TypeOK'
<1> SUFFICES ASSUME TypeOK, [Next]_vars PROVE TypeOK'
  OBVIOUS
<1>1. ASSUME NEW c \in Caller, TriggerAutopilot(c) PROVE TypeOK'
  <2>1. c \in Process /\ c \notin Scheduler
    BY DEF Process, Dispatcher
  <2>2. Fits(c, "check", NoLoc)
    BY <2>1, NoLocType DEF Fits, Label
  <2> QED
    BY <1>1, <2>1, <2>2, MoveTypes DEF TriggerAutopilot, At, TypeOK, rowVars, faultVars
<1>2. ASSUME NEW s \in Scheduler, ClaimDueScheduleTriggers(s) PROVE TypeOK'
  <2>1. PICK label, l : Goto(s, label, l) /\ (label = "idle" \/ Fits(s, label, l))
    BY <1>2, NextTriggerTypes DEF ClaimDueScheduleTriggers, Due
  <2>2. nextRun' \in [Trigger -> NextRun]
    BY <1>2 DEF ClaimDueScheduleTriggers, TypeOK, NextRun
  <2> QED
    BY <1>2, <2>1, <2>2, MoveTypes DEF ClaimDueScheduleTriggers, At, TypeOK, rowVars, Process, Dispatcher
<1>3. ASSUME NEW s \in Scheduler, AdvanceNextRun(s) PROVE TypeOK'
  <2>1. loc[s].claimed \in SUBSET Trigger
    BY DEF TypeOK, Local, Process, Dispatcher
  <2>2. PICK label, l : Goto(s, label, l) /\ (label = "idle" \/ Fits(s, label, l))
    BY <1>3, <2>1, NextTriggerTypes DEF AdvanceNextRun
  <2>3. nextRun' \in [Trigger -> NextRun]
    BY <1>3 DEF AdvanceNextRun, TypeOK, NextRun
  <2> QED
    BY <1>3, <2>2, <2>3, MoveTypes DEF AdvanceNextRun, At, TypeOK, rowVars, faultVars, Process, Dispatcher
<1>14. ASSUME NEW s \in Scheduler, LeaveUnarmed(s) PROVE TypeOK'
  <2>1. s \in Process /\ loc[s].claimed \in SUBSET Trigger /\ loc[s].trigger \in Trigger
    BY <1>14 DEF TypeOK, Local, Process, Dispatcher, LeaveUnarmed
  <2>2. PICK label, l : Goto(s, label, l) /\ (label = "idle" \/ Fits(s, label, l))
    BY <1>14, <2>1, NextTriggerTypes DEF LeaveUnarmed
  <2>3. unarmed' \subseteq Trigger
    BY <1>14, <2>1 DEF LeaveUnarmed, TypeOK
  <2> QED
    BY <1>14, <2>1, <2>2, <2>3, MoveTypes DEF LeaveUnarmed, At, TypeOK, rowVars
<1>4. ASSUME NEW e \in Reporter, ReadRun(e) PROVE TypeOK'
  <2>1. e \in Process /\ e \notin Scheduler
    BY DEF Process, Dispatcher
  <2>2. Fits(e, "write", loc[e])
    BY <1>4, <2>1 DEF Fits, Label, ReadRun, At, TypeOK
  <2>3. \E label, l : Goto(e, label, l) /\ (label = "idle" \/ Fits(e, label, l))
    BY <1>4, <2>2 DEF ReadRun
  <2> QED
    BY <1>4, <2>1, <2>3, MoveTypes DEF ReadRun, At, TypeOK, rowVars, faultVars
<1>5. ASSUME NEW e \in Reporter, WriteRun(e) PROVE TypeOK'
  <2>1. runStatus' \in [Run -> RunStatus] /\ source' \in [Run -> Trigger \cup {None}]
    BY <1>5, SetRunsTypes DEF WriteRun, RunStatus
  <2> QED
    BY <1>5, <2>1, MoveTypes DEF WriteRun, At, TypeOK, Process, faultVars
<1>6. ASSUME NEW e \in Reporter, NEW r \in Run, EndJob(e, r) PROVE TypeOK'
  <2>1. e \in Process /\ e \notin Scheduler
    BY DEF Process, Dispatcher
  <2>2. Fits(e, "read", [NoLoc EXCEPT !.run = r])
    BY <2>1 DEF Fits, Label, Local, NoLoc
  <2>3. job' \in [Run -> Job]
    BY <1>6 DEF EndJob, TypeOK, Job
  <2> QED
    BY <1>6, <2>1, <2>2, <2>3, MoveTypes DEF EndJob, At, TypeOK, rowVars, faultVars
<1>7. ASSUME NEW r \in Run, LoseJob(r) PROVE TypeOK'
  BY <1>7 DEF LoseJob, TypeOK, Job, fixedVars, rowVars, faultVars
<1>8. ASSUME NEW t \in Trigger, UpdateAutopilotTrigger(t) PROVE TypeOK'
  BY <1>8 DEF UpdateAutopilotTrigger, TypeOK, NextRun, fixedVars, rowVars, faultVars
<1>9. ASSUME NEW t \in Trigger, ComeDue(t) PROVE TypeOK'
  <2>1. ticks' \in [Trigger -> 0..MaxTicks]
    BY <1>9 DEF ComeDue, TypeOK
  <2> QED
    BY <1>9, <2>1 DEF ComeDue, TypeOK, NextRun, fixedVars, rowVars, faultVars
<1>10. ASSUME NEW p \in Process, Stop(p), unarmed' \subseteq Trigger,
              crashes' = crashes \/ (crashes < MaxCrashes /\ crashes' = crashes + 1)
       PROVE  TypeOK'
  <2>1. crashes' \in 0..MaxCrashes
    BY <1>10 DEF TypeOK
  <2> QED
    BY <1>10, <2>1, MoveTypes DEF Stop, TypeOK, rowVars
<1>11. ASSUME UNCHANGED vars PROVE TypeOK'
  BY <1>11 DEF vars, TypeOK, fixedVars, rowVars, faultVars
<1>12. ASSUME NEW c \in Caller, Disconnect(c) PROVE TypeOK'
  BY <1>10, <1>12 DEF Disconnect, Process, Dispatcher, TypeOK
<1>15. ASSUME NEW e \in Reporter, SyncFails(e) PROVE TypeOK'
  BY <1>10, <1>15 DEF SyncFails, Process, TypeOK
<1>13. ASSUME NEW p \in Scheduler \cup Reporter, Crash(p) PROVE TypeOK'
  BY <1>10, <1>13 DEF Crash, InTick, Process, Dispatcher, TypeOK
<1> QED
  BY <1>1, <1>2, <1>3, <1>4, <1>5, <1>6, <1>7, <1>8, <1>9, <1>11, <1>12, <1>13, <1>14, <1>15,
     DispatchTypes DEF Next

-----------------------------------------------------------------------------
(* Counting: who owes a run after a goroutine has moved *)

LEMMA SetsFinite ==
    ASSUME NEW t \in Trigger
    PROVE  /\ IsFiniteSet(Started(t)) /\ Cardinality(Started(t)) \in Nat
           /\ IsFiniteSet(Started(t)') /\ Cardinality(Started(t)') \in Nat
           /\ IsFiniteSet(Holders(t)) /\ Cardinality(Holders(t)) \in Nat
           /\ IsFiniteSet(Holders(t)') /\ Cardinality(Holders(t)') \in Nat
<1>1. Started(t) \in SUBSET Run /\ Started(t)' \in SUBSET Run
  BY DEF Started
<1>2. Holders(t) \in SUBSET Scheduler /\ Holders(t)' \in SUBSET Scheduler
  BY DEF Holders
<1>3. \A S \in SUBSET Run : IsFiniteSet(S) /\ Cardinality(S) \in Nat
  BY FS_Subset, FS_CardinalityType
<1>4. \A S \in SUBSET Scheduler : IsFiniteSet(S) /\ Cardinality(S) \in Nat
  BY FS_Subset, FS_CardinalityType
<1> QED
  BY <1>1, <1>2, <1>3, <1>4

\* A step that starts nothing and makes nobody owe more keeps the count.
LEMMA CountKept ==
    ASSUME NEW t \in Trigger, Counted(t), ticks[t] \in Nat, ticks'[t] = ticks[t],
           Started(t)' \subseteq Started(t), Holders(t)' \subseteq Holders(t),
           IsDue(t)' <= IsDue(t)
    PROVE  Counted(t)'
<1>1. Cardinality(Started(t)') <= Cardinality(Started(t))
  BY SetsFinite, FS_Subset
<1>2. Cardinality(Holders(t)') <= Cardinality(Holders(t))
  BY SetsFinite, FS_Subset
<1>3. IsDue(t) \in Nat /\ IsDue(t)' \in Nat
  BY DEF IsDue
<1> QED
  BY <1>1, <1>2, <1>3, SetsFinite DEF Counted

LEMMA GotoOwes ==
    ASSUME TypeOK, NEW p \in Process, NEW label, NEW l, Goto(p, label, l)
    PROVE  /\ \A q \in Process \ {p} : pc'[q] = pc[q] /\ loc'[q] = loc[q]
           /\ pc'[p] = label /\ loc'[p] = IF label = "idle" THEN NoLoc ELSE l
BY DEF Goto, TypeOK

LEMMA GotoApart ==
    ASSUME TypeOK, Apart, NEW p \in Process, NEW label, NEW l, Goto(p, label, l),
           label # "idle" => /\ p \in Scheduler => l.trigger \notin l.claimed
                             /\ p \in Caller => l.trigger = None
    PROVE  Apart'
<1>1. NoLoc.trigger = None /\ NoLoc.claimed = {}
  BY DEF NoLoc
<1>2. Scheduler \subseteq Process /\ Caller \subseteq Process
  BY DEF Process, Dispatcher
<1> QED
  BY <1>1, <1>2, GotoOwes DEF Apart

\* A goroutine that ends, or goes on with what it has without choosing again.
Onward(p, label, l) ==
    \/ label = "idle"
    \/ /\ l.trigger = loc[p].trigger /\ l.claimed = loc[p].claimed
       /\ label \in Choosing => pc[p] \in Choosing

LEMMA OnwardApart ==
    ASSUME TypeOK, Apart, NEW p \in Process, NEW label, NEW l, Goto(p, label, l),
           Onward(p, label, l)
    PROVE  Apart'
BY GotoApart DEF Apart, Onward

LEMMA OnwardOwes ==
    ASSUME TypeOK, NEW p \in Process, NEW label, NEW l, Goto(p, label, l),
           Onward(p, label, l), NEW t \in Trigger
    PROVE  /\ Holders(t)' \subseteq Holders(t)
           /\ label \notin Choosing /\ t \notin loc[p].claimed => p \notin Holders(t)'
<1>1. NoLoc.claimed = {} /\ "idle" \notin Choosing
  BY DEF NoLoc, Choosing
<1>2. Scheduler \subseteq Process
  BY DEF Process, Dispatcher
<1>3. pc'[p] = label /\ loc'[p] = IF label = "idle" THEN NoLoc ELSE l
  BY GotoOwes
<1>4. Owes(p, t)' => Owes(p, t)
  BY <1>1, <1>3 DEF Owes, Onward
<1>5. \A q \in Process \ {p} : Owes(q, t)' <=> Owes(q, t)
  BY GotoOwes DEF Owes
<1>6. label \notin Choosing /\ t \notin loc[p].claimed => ~Owes(p, t)'
  BY <1>1, <1>3 DEF Owes, Onward
<1> QED
  BY <1>2, <1>4, <1>5, <1>6 DEF Holders

LEMMA ReturnOnward ==
    ASSUME NEW p \in Dispatcher, Return(p)
    PROVE  \E label, l : Goto(p, label, l) /\ Onward(p, label, l) /\ label \notin Choosing
BY DEF Return, Onward, Choosing

LEMMA NextTriggerOwes ==
    ASSUME TypeOK, Apart, NEW s \in Scheduler, NEW C \in SUBSET Trigger,
           NextTrigger(s, C), NEW t \in Trigger
    PROVE  /\ Apart'
           /\ \A q \in Scheduler \ {s} : q \in Holders(t)' => q \in Holders(t)
           /\ s \in Holders(t)' => t \in C
<1>1. s \in Process /\ s \notin Caller /\ Scheduler \subseteq Process
  BY DEF Process, Dispatcher
<1>2. CASE C = {}
  <2>1. Goto(s, "idle", NoLoc)
    BY <1>2 DEF NextTrigger
  <2>2. Onward(s, "idle", NoLoc)
    BY DEF Onward
  <2>3. loc'[s] = NoLoc /\ pc'[s] = "idle"
    BY <1>1, <2>1, GotoOwes
  <2>4. s \notin Holders(t)'
    BY <2>3 DEF Holders, Owes, NoLoc, Choosing
  <2> QED
    BY <1>1, <2>1, <2>2, <2>4, OnwardApart, OnwardOwes
<1>3. CASE C # {}
  <2>1. PICK u \in C : Goto(s, "check", [NoLoc EXCEPT !.trigger = u, !.claimed = C \ {u}])
    BY <1>3 DEF NextTrigger
  <2> DEFINE l == [NoLoc EXCEPT !.trigger = u, !.claimed = C \ {u}]
  <2>2. l.trigger = u /\ l.claimed = C \ {u}
    BY DEF NoLoc
  <2> HIDE DEF l
  <2>3. Goto(s, "check", l)
    BY <2>1 DEF l
  <2>4. Apart'
    BY <1>1, <2>2, <2>3, GotoApart
  <2>5. loc'[s] = l
    BY <1>1, <2>3, GotoOwes
  <2>6. s \in Holders(t)' => t \in C
    BY <2>2, <2>5 DEF Holders, Owes
  <2>7. \A q \in Scheduler \ {s} : Owes(q, t)' => Owes(q, t)
    BY <1>1, <2>3, GotoOwes DEF Owes
  <2> QED
    BY <2>4, <2>6, <2>7 DEF Holders
<1> QED
  BY <1>2, <1>3

-----------------------------------------------------------------------------
(* Apart and Counted are kept *)

Steady(t) == /\ Started(t)' \subseteq Started(t) /\ IsDue(t)' <= IsDue(t)
             /\ ticks'[t] = ticks[t]

LEMMA OnwardKept ==
    ASSUME IndInv, NEW p \in Process, NEW label, NEW l, Goto(p, label, l),
           Onward(p, label, l), \A t \in Trigger : Steady(t)
    PROVE  Apart' /\ \A t \in Trigger : Counted(t)'
<1>1. Apart'
  BY OnwardApart DEF IndInv
<1>2. ASSUME NEW t \in Trigger PROVE Counted(t)'
  <2>1. ticks[t] \in Nat
    BY DEF IndInv, TypeOK
  <2>2. Holders(t)' \subseteq Holders(t)
    BY OnwardOwes DEF IndInv
  <2> QED
    BY <2>1, <2>2, CountKept DEF IndInv, Steady
<1> QED
  BY <1>1, <1>2

LEMMA SteadyStep ==
    ASSUME UNCHANGED <<nextRun, ticks, source>>, NEW t \in Trigger
    PROVE  Steady(t)
BY DEF Steady, Started, IsDue

\* A run is created for a trigger by the scheduler that owes it, which owes it
\* no longer.
LEMMA CreateRunKept ==
    ASSUME IndInv, NEW p \in Dispatcher, NEW r \in Run, NEW s,
           CreateRun(p, r, s), pc[p] \in {"skip", "create"},
           NEW label, NEW l, Goto(p, label, l), Onward(p, label, l), label \notin Choosing
    PROVE  Apart' /\ \A t \in Trigger : Counted(t)'
<1>1. p \in Process
  BY DEF Process
<1>2. Apart'
  BY <1>1, OnwardApart DEF IndInv
<1>3. ASSUME NEW t \in Trigger PROVE Counted(t)'
  <2>1. ticks[t] \in Nat /\ ticks'[t] = ticks[t] /\ IsDue(t)' = IsDue(t) /\ IsDue(t) \in Nat
    BY DEF IndInv, TypeOK, CreateRun, IsDue
  <2>2. source' = [source EXCEPT ![r] = loc[p].trigger] /\ source \in [Run -> Trigger \cup {None}]
    BY DEF CreateRun, IndInv, TypeOK
  <2>3. Holders(t)' \subseteq Holders(t)
    BY <1>1, OnwardOwes DEF IndInv
  <2>4. CASE loc[p].trigger # t
    <3>1. Started(t)' \subseteq Started(t)
      BY <2>2, <2>4 DEF Started
    <3> QED
      BY <2>1, <2>3, <3>1, CountKept DEF IndInv
  <2>5. CASE loc[p].trigger = t
    <3>1. p \in Scheduler /\ t \notin loc[p].claimed
      BY <2>5 DEF IndInv, Apart, Dispatcher
    <3>2. p \in Holders(t)
      BY <2>5, <3>1 DEF Holders, Owes, Choosing
    <3>3. p \notin Holders(t)'
      BY <1>1, <3>1, OnwardOwes DEF IndInv
    <3>4. Holders(t)' \in SUBSET (Holders(t) \ {p})
      BY <2>3, <3>3
    <3>5. Cardinality(Holders(t)') <= Cardinality(Holders(t)) - 1
      <4>1. IsFiniteSet(Holders(t))
        BY SetsFinite
      <4>2. IsFiniteSet(Holders(t) \ {p}) /\ Cardinality(Holders(t) \ {p}) = Cardinality(Holders(t)) - 1
        BY <3>2, <4>1, FS_RemoveElement
      <4> QED
        BY <3>4, <4>2, FS_Subset
    <3>6. Started(t)' \in SUBSET (Started(t) \cup {r})
      BY <2>2 DEF Started
    <3>7. /\ IsFiniteSet(Started(t) \cup {r})
          /\ Cardinality(Started(t) \cup {r}) <= Cardinality(Started(t)) + 1
      <4>1. IsFiniteSet(Started(t)) /\ Cardinality(Started(t)) \in Nat
        BY SetsFinite
      <4>2. /\ IsFiniteSet(Started(t) \cup {r})
            /\ Cardinality(Started(t) \cup {r}) =
                 IF r \in Started(t) THEN Cardinality(Started(t)) ELSE Cardinality(Started(t)) + 1
        BY <4>1, FS_AddElement
      <4> QED
        BY <4>1, <4>2
    <3>8. Cardinality(Started(t)') <= Cardinality(Started(t) \cup {r})
      BY <3>6, <3>7, FS_Subset
    <3>9. Cardinality(Started(t)') <= Cardinality(Started(t)) + 1
      BY <3>7, <3>8, SetsFinite, FS_CardinalityType
    <3>10. Counted(t)
      BY DEF IndInv
    <3> QED
      BY <2>1, <3>5, <3>9, <3>10, SetsFinite DEF Counted
  <2> QED
    BY <2>4, <2>5
<1> QED
  BY <1>2, <1>3

LEMMA DispatchKept ==
    ASSUME IndInv, NEW p \in Dispatcher, Dispatch(p)
    PROVE  Apart' /\ \A t \in Trigger : Counted(t)'
<1> DEFINE Goal == Apart' /\ \A t \in Trigger : Counted(t)'
<1>1. p \in Process
  BY DEF Process
<1>2. ASSUME NEW label, NEW l, Goto(p, label, l), Onward(p, label, l),
             UNCHANGED <<nextRun, ticks, source>>
      PROVE  Goal
  BY <1>1, <1>2, SteadyStep, OnwardKept
<1>3. ASSUME Return(p), UNCHANGED <<nextRun, ticks, source>> PROVE Goal
  BY <1>2, <1>3, ReturnOnward
<1> HIDE DEF Goal
<1>4. ASSUME CheckConcurrency(p) PROVE Goal
  <2>1. PICK label : Goto(p, label, loc[p])
    BY <1>4 DEF CheckConcurrency
  <2>2. Onward(p, label, loc[p])
    BY <1>4 DEF Onward, CheckConcurrency, At, Choosing
  <2>3. UNCHANGED <<nextRun, ticks, source>>
    BY <1>4 DEF CheckConcurrency, CancelActiveAutopilotRuns, SetRuns, rowVars
  <2> QED
    BY <1>2, <2>1, <2>2, <2>3
<1>5. ASSUME StatementFails(p) PROVE Goal
  BY <1>3, <1>5 DEF StatementFails, rowVars
<1>10. ASSUME CancelFails(p) PROVE Goal
  <2>1. Goto(p, "create", loc[p]) /\ Onward(p, "create", loc[p])
    BY <1>10 DEF CancelFails, At, Onward, Choosing
  <2> QED
    BY <1>2, <1>10, <2>1 DEF CancelFails, rowVars
<1>6. ASSUME NEW r \in Run, CreateSkippedRun(p, r) PROVE Goal
  <2>1. CreateRun(p, r, "skipped") /\ pc[p] = "skip" /\ Return(p)
    BY <1>6 DEF CreateSkippedRun, At
  <2>2. PICK label, l : Goto(p, label, l) /\ Onward(p, label, l) /\ label \notin Choosing
    BY <2>1, ReturnOnward
  <2> QED
    BY <2>1, <2>2, CreateRunKept DEF Goal
<1>7. ASSUME NEW r \in Run, CreatePendingRun(p, r) PROVE Goal
  <2> DEFINE l == [loc[p] EXCEPT !.run = r]
  <2>1. CreateRun(p, r, "pending") /\ pc[p] = "create" /\ Goto(p, "dispatch", l)
    BY <1>7 DEF CreatePendingRun, At
  <2>2. loc[p] \in Local
    BY <1>1 DEF IndInv, TypeOK
  <2>3. Onward(p, "dispatch", l) /\ "dispatch" \notin Choosing
    BY <2>2 DEF Onward, Choosing, Local
  <2> QED
    BY <2>1, <2>3, CreateRunKept DEF Goal
<1>8. ASSUME CreateJob(p) \/ CreateJobFails(p) PROVE Goal
  <2>1. PICK label \in {"link", "fail"} : Goto(p, label, loc[p])
    BY <1>8 DEF CreateJob, CreateJobFails
  <2>2. Onward(p, label, loc[p])
    BY DEF Onward, Choosing
  <2> QED
    BY <1>2, <1>8, <2>1, <2>2 DEF CreateJob, CreateJobFails, rowVars
<1>9. ASSUME LinkJob(p) \/ FailRun(p) PROVE Goal
  BY <1>3, <1>9 DEF LinkJob, FailRun, SetRuns
<1> QED
  BY <1>4, <1>5, <1>6, <1>7, <1>8, <1>9, <1>10 DEF Dispatch, Goal

\* The triggers that were due are owed by the scheduler that claims them.
LEMMA ClaimKept ==
    ASSUME IndInv, NEW s \in Scheduler, ClaimDueScheduleTriggers(s)
    PROVE  Apart' /\ \A t \in Trigger : Counted(t)'
<1>1. TypeOK /\ Apart /\ Due \in SUBSET Trigger /\ NextTrigger(s, Due)
  BY DEF IndInv, ClaimDueScheduleTriggers, Due
<1>2. Apart' \/ Trigger = {}
  BY <1>1, NextTriggerOwes
<1>3. Due # {}
  BY DEF ClaimDueScheduleTriggers
<1>4. ASSUME NEW t \in Trigger PROVE Counted(t)'
  <2>1. /\ \A q \in Scheduler \ {s} : q \in Holders(t)' => q \in Holders(t)
        /\ s \in Holders(t)' => t \in Due
    BY <1>1, NextTriggerOwes
  <2>2. Started(t)' = Started(t) /\ ticks'[t] = ticks[t] /\ ticks[t] \in Nat
    BY <1>1 DEF ClaimDueScheduleTriggers, rowVars, Started, TypeOK
  <2>3. nextRun'[t] = IF t \in Due THEN "null" ELSE nextRun[t]
    BY DEF ClaimDueScheduleTriggers
  <2>4. CASE t \notin Due
    <3>1. Holders(t)' \subseteq Holders(t)
      BY <2>1, <2>4 DEF Holders
    <3>2. IsDue(t)' <= IsDue(t)
      BY <2>3, <2>4 DEF IsDue
    <3> QED
      BY <2>2, <3>1, <3>2, CountKept DEF IndInv
  <2>5. CASE t \in Due
    <3>1. Holders(t)' \in SUBSET (Holders(t) \cup {s})
      BY <2>1 DEF Holders
    <3>2. /\ IsFiniteSet(Holders(t) \cup {s})
          /\ Cardinality(Holders(t) \cup {s}) <= Cardinality(Holders(t)) + 1
      <4>1. IsFiniteSet(Holders(t)) /\ Cardinality(Holders(t)) \in Nat
        BY SetsFinite
      <4>2. /\ IsFiniteSet(Holders(t) \cup {s})
            /\ Cardinality(Holders(t) \cup {s}) =
                 IF s \in Holders(t) THEN Cardinality(Holders(t)) ELSE Cardinality(Holders(t)) + 1
        BY <4>1, FS_AddElement
      <4> QED
        BY <4>1, <4>2
    <3>3. Cardinality(Holders(t)') <= Cardinality(Holders(t) \cup {s})
      BY <3>1, <3>2, FS_Subset
    <3>4. Cardinality(Holders(t)') <= Cardinality(Holders(t)) + 1
      BY <3>2, <3>3, SetsFinite, FS_CardinalityType
    <3>5. IsDue(t) = 1 /\ IsDue(t)' = 0
      BY <2>3, <2>5 DEF IsDue, Due
    <3>6. Counted(t)
      BY DEF IndInv
    <3> QED
      BY <2>2, <3>4, <3>5, <3>6, SetsFinite DEF Counted
  <2> QED
    BY <2>4, <2>5
<1> QED
  BY <1>2, <1>3, <1>4 DEF Due

\* A tick goes on to its next trigger, whether this one is armed again or not.
LEMMA AdvanceKept ==
    ASSUME IndInv, NEW s \in Scheduler, AdvanceNextRun(s) \/ LeaveUnarmed(s)
    PROVE  Apart' /\ \A t \in Trigger : Counted(t)'
<1>1. s \in Process /\ TypeOK /\ Apart /\ NextTrigger(s, loc[s].claimed)
  BY DEF IndInv, AdvanceNextRun, LeaveUnarmed, Process, Dispatcher
<1>2. loc[s].claimed \in SUBSET Trigger /\ loc[s].trigger \in Trigger
  BY <1>1 DEF TypeOK, Local, AdvanceNextRun, LeaveUnarmed, At
<1>3. Apart'
  BY <1>1, <1>2, NextTriggerOwes
<1>4. ASSUME NEW t \in Trigger PROVE Counted(t)'
  <2>1. /\ \A q \in Scheduler \ {s} : q \in Holders(t)' => q \in Holders(t)
        /\ s \in Holders(t)' => t \in loc[s].claimed
    BY <1>1, <1>2, NextTriggerOwes
  <2>2. Holders(t)' \subseteq Holders(t)
    BY <2>1 DEF Holders, Owes
  <2>3. Started(t)' = Started(t) /\ ticks'[t] = ticks[t] /\ ticks[t] \in Nat
    BY <1>1 DEF AdvanceNextRun, LeaveUnarmed, rowVars, Started, TypeOK
  <2>4. IsDue(t)' <= IsDue(t)
    BY <1>1 DEF AdvanceNextRun, LeaveUnarmed, IsDue, TypeOK
  <2> QED
    BY <2>2, <2>3, <2>4, CountKept DEF IndInv
<1> QED
  BY <1>3, <1>4

\* A step that moves no goroutine.
LEMMA StillKept ==
    ASSUME IndInv, UNCHANGED <<pc, loc, source>>, NEW t \in Trigger
    PROVE  Apart' /\ Holders(t)' = Holders(t) /\ Started(t)' = Started(t)
BY DEF IndInv, Apart, Holders, Owes, Started

LEMMA ComeDueKept ==
    ASSUME IndInv, NEW u \in Trigger, ComeDue(u)
    PROVE  Apart' /\ \A t \in Trigger : Counted(t)'
<1>1. UNCHANGED <<pc, loc, source>>
  BY DEF ComeDue, rowVars
<1>2. ASSUME NEW t \in Trigger PROVE Counted(t)'
  <2>1. Holders(t)' = Holders(t) /\ Started(t)' = Started(t)
    BY <1>1, StillKept
  <2>2. ticks[t] \in Nat /\ nextRun \in [Trigger -> NextRun] /\ ticks \in [Trigger -> 0..MaxTicks]
    BY DEF IndInv, TypeOK
  <2>3. IF t = u THEN ticks'[t] = ticks[t] + 1 /\ IsDue(t)' = 1 /\ IsDue(t) = 0
        ELSE ticks'[t] = ticks[t] /\ IsDue(t)' = IsDue(t)
    BY <2>2 DEF ComeDue, IsDue
  <2>4. IsDue(t) \in Nat
    BY DEF IsDue
  <2>5. Counted(t)
    BY DEF IndInv
  <2> QED
    BY <2>1, <2>2, <2>3, <2>4, <2>5, SetsFinite DEF Counted
<1> QED
  BY <1>1, <1>2, StillKept

LEMMA CountsKept ==
    ASSUME IndInv, [Next]_vars
    PROVE  Apart' /\ \A t \in Trigger : Counted(t)'
<1> DEFINE Goal == Apart' /\ \A t \in Trigger : Counted(t)'
<1>1. ASSUME NEW p \in Process, NEW label, NEW l, Goto(p, label, l), Onward(p, label, l),
             UNCHANGED <<nextRun, ticks, source>>
      PROVE  Goal
  BY <1>1, SteadyStep, OnwardKept
<1>2. ASSUME UNCHANGED <<pc, loc, source, ticks>>, \A t \in Trigger : IsDue(t)' <= IsDue(t)
      PROVE  Goal
  <2>1. Apart'
    BY <1>2 DEF IndInv, Apart
  <2>2. ASSUME NEW t \in Trigger PROVE Counted(t)'
    BY <1>2, StillKept, CountKept DEF IndInv, TypeOK
  <2> QED
    BY <2>1, <2>2
<1> HIDE DEF Goal
<1>3. ASSUME NEW p \in Process, Stop(p) PROVE Goal
  BY <1>1, <1>3 DEF Stop, Onward, rowVars
<1>4. ASSUME NEW c \in Caller, TriggerAutopilot(c) PROVE Goal
  <2>1. c \in Process /\ c \notin Scheduler /\ Goto(c, "check", NoLoc)
    BY <1>4 DEF TriggerAutopilot, Process, Dispatcher
  <2>2. Apart'
    BY <2>1, GotoApart DEF IndInv, NoLoc
  <2>3. ASSUME NEW t \in Trigger PROVE Counted(t)'
    <3>1. \A q \in Scheduler : Owes(q, t)' <=> Owes(q, t)
      BY <2>1, GotoOwes DEF IndInv, Owes, Process, Dispatcher
    <3>2. Holders(t)' \subseteq Holders(t)
      BY <3>1 DEF Holders
    <3>3. Steady(t)
      BY <1>4, SteadyStep DEF TriggerAutopilot, rowVars
    <3> QED
      BY <3>2, <3>3, CountKept DEF IndInv, TypeOK, Steady
  <2> QED
    BY <2>2, <2>3 DEF Goal
<1>5. ASSUME NEW e \in Reporter, ReadRun(e) \/ WriteRun(e) PROVE Goal
  <2>1. e \in Process /\ UNCHANGED <<nextRun, ticks, source>>
    BY <1>5 DEF ReadRun, WriteRun, SetRuns, rowVars, Process
  <2>2. Onward(e, "write", loc[e]) /\ Onward(e, "idle", NoLoc)
    BY DEF Onward, Choosing
  <2> QED
    BY <1>1, <1>5, <2>1, <2>2 DEF ReadRun, WriteRun
<1>6. ASSUME NEW e \in Reporter, NEW r \in Run, EndJob(e, r) PROVE Goal
  <2>1. e \in Process /\ UNCHANGED <<nextRun, ticks, source>>
    BY <1>6 DEF EndJob, rowVars, Process
  <2>2. loc[e] = NoLoc
    BY <1>6, <2>1 DEF IndInv, Apart, EndJob, At
  <2>3. Onward(e, "read", [NoLoc EXCEPT !.run = r])
    BY <2>2 DEF Onward, NoLoc, Choosing
  <2> QED
    BY <1>1, <1>6, <2>1, <2>3 DEF EndJob
<1>7. ASSUME NEW r \in Run, LoseJob(r) PROVE Goal
  BY <1>2, <1>7 DEF LoseJob, rowVars, IsDue
<1>8. ASSUME NEW t \in Trigger, UpdateAutopilotTrigger(t) PROVE Goal
  <2>1. \A u \in Trigger : IsDue(u)' <= IsDue(u)
    BY <1>8 DEF UpdateAutopilotTrigger, IsDue, IndInv, TypeOK
  <2> QED
    BY <1>2, <1>8, <2>1 DEF UpdateAutopilotTrigger, rowVars
<1>9. ASSUME UNCHANGED vars PROVE Goal
  BY <1>2, <1>9 DEF vars, rowVars, IsDue
<1> QED
  BY <1>3, <1>4, <1>5, <1>6, <1>7, <1>8, <1>9, ClaimKept, AdvanceKept, ComeDueKept, DispatchKept
  DEF Next, Goal, Disconnect, SyncFails, Crash, Process, Dispatcher

LEMMA Initially == Init => IndInv
<1> SUFFICES ASSUME Init PROVE IndInv
  OBVIOUS
<1>1. TypeOK
  BY NoLocType DEF Init, TypeOK, NextRun, RunStatus, Job, Label
<1>2. Apart
  BY DEF Init, Apart, NoLoc, Process, Dispatcher
<1>3. ASSUME NEW t \in Trigger PROVE Counted(t)
  <2>1. Started(t) = {} /\ Holders(t) = {} /\ IsDue(t) = 0 /\ ticks[t] = 0
    BY DEF Init, Started, Holders, Owes, IsDue, NoLoc, Choosing, Process, Dispatcher
  <2> QED
    BY <2>1, FS_EmptySet DEF Counted
<1> QED
  BY <1>1, <1>2, <1>3 DEF IndInv

-----------------------------------------------------------------------------
(* Overlap: who may still make a run active *)

AtWork(p) == pc[p] \in {"dispatch", "link"}

\* Dispatchers that will insert a run, or link one that was ended meanwhile.
Committed ==
    Allowed \cup {p \in Dispatcher : AtWork(p) /\ runStatus[loc[p].run] \notin Active}

\* The run a dispatcher works on was inserted, and no other works on it.
OwnRun ==
    \A p \in Dispatcher : AtWork(p) =>
        /\ runStatus[loc[p].run] # "absent"
        /\ \A q \in Dispatcher : AtWork(q) /\ loc[q].run = loc[p].run => q = p

Bounded ==
    Cardinality(RunsIn(Active)) + Cardinality(Committed) <= Cardinality(Dispatcher) + uncancelled

\* The inductive invariant behind OverlapBounded.
OverlapInv == OwnRun /\ (policy # "queue" => Bounded)

LEMMA SizesFinite ==
    ASSUME IsFiniteSet(Caller)
    PROVE  /\ \A S \in SUBSET Dispatcher : IsFiniteSet(S) /\ Cardinality(S) \in Nat
           /\ \A S \in SUBSET Run : IsFiniteSet(S) /\ Cardinality(S) \in Nat
           /\ Committed \in SUBSET Dispatcher /\ Committed' \in SUBSET Dispatcher
           /\ RunsIn(Active) \in SUBSET Run /\ RunsIn(Active)' \in SUBSET Run
<1>1. IsFiniteSet(Dispatcher)
  BY FS_Union DEF Dispatcher
<1> QED
  BY <1>1, FS_Subset, FS_CardinalityType DEF Committed, Allowed, RunsIn

\* A step that makes neither set larger.
LEMMA BoundedShrinks ==
    ASSUME IsFiniteSet(Caller), Bounded, uncancelled \in Nat, uncancelled' = uncancelled,
           RunsIn(Active)' \subseteq RunsIn(Active), Committed' \subseteq Committed
    PROVE  Bounded'
<1>1. /\ Cardinality(RunsIn(Active)') <= Cardinality(RunsIn(Active))
      /\ Cardinality(Committed') <= Cardinality(Committed)
  BY SizesFinite, FS_Subset
<1>2. Cardinality(Dispatcher) \in Nat
  BY SizesFinite
<1> QED
  BY <1>1, <1>2, SizesFinite DEF Bounded

\* A committed dispatcher makes a run active.
LEMMA BoundedCommits ==
    ASSUME IsFiniteSet(Caller), Bounded, uncancelled \in Nat, uncancelled' = uncancelled, NEW p \in Committed, NEW r \in Run,
           RunsIn(Active)' \subseteq RunsIn(Active) \cup {r}, Committed' \subseteq Committed \ {p}
    PROVE  Bounded'
<1>1. Cardinality(RunsIn(Active)') <= Cardinality(RunsIn(Active)) + 1
  <2>0. IsFiniteSet(RunsIn(Active)) /\ Cardinality(RunsIn(Active)) \in Nat
    BY SizesFinite
  <2>1. /\ IsFiniteSet(RunsIn(Active) \cup {r})
        /\ Cardinality(RunsIn(Active) \cup {r}) <= Cardinality(RunsIn(Active)) + 1
    <3>1. /\ IsFiniteSet(RunsIn(Active) \cup {r})
          /\ Cardinality(RunsIn(Active) \cup {r})
               = IF r \in RunsIn(Active) THEN Cardinality(RunsIn(Active))
                 ELSE Cardinality(RunsIn(Active)) + 1
      BY <2>0, FS_AddElement
    <3> QED
      BY <2>0, <3>1
  <2>2. Cardinality(RunsIn(Active)') <= Cardinality(RunsIn(Active) \cup {r})
    BY <2>1, FS_Subset
  <2> QED
    BY <2>1, <2>2, SizesFinite, FS_CardinalityType
<1>2. Cardinality(Committed') <= Cardinality(Committed) - 1
  <2>1. IsFiniteSet(Committed \ {p}) /\ Cardinality(Committed \ {p}) = Cardinality(Committed) - 1
    BY SizesFinite, FS_RemoveElement
  <2> QED
    BY <2>1, FS_Subset
<1>3. Cardinality(Dispatcher) \in Nat
  BY SizesFinite
<1> QED
  BY <1>1, <1>2, <1>3, SizesFinite DEF Bounded

\* A run is ended while at most one dispatcher has still to link it.
LEMMA BoundedEnds ==
    ASSUME IsFiniteSet(Caller), Bounded, uncancelled \in Nat, uncancelled' = uncancelled, NEW r \in RunsIn(Active), NEW p,
           RunsIn(Active)' \subseteq RunsIn(Active) \ {r}, Committed' \subseteq Committed \cup {p}
    PROVE  Bounded'
<1>1. Cardinality(RunsIn(Active)') <= Cardinality(RunsIn(Active)) - 1
  <2>1. /\ IsFiniteSet(RunsIn(Active) \ {r})
        /\ Cardinality(RunsIn(Active) \ {r}) = Cardinality(RunsIn(Active)) - 1
    BY SizesFinite, FS_RemoveElement
  <2> QED
    BY <2>1, FS_Subset
<1>2. Cardinality(Committed') <= Cardinality(Committed) + 1
  <2>1. /\ IsFiniteSet(Committed \cup {p})
        /\ Cardinality(Committed \cup {p}) <= Cardinality(Committed) + 1
    BY SizesFinite, FS_AddElement
  <2>2. Cardinality(Committed') <= Cardinality(Committed \cup {p})
    BY <2>1, FS_Subset
  <2> QED
    BY <2>1, <2>2, SizesFinite, FS_CardinalityType
<1>3. Cardinality(Dispatcher) \in Nat
  BY SizesFinite
<1> QED
  BY <1>1, <1>2, <1>3, SizesFinite DEF Bounded

\* No run is active: the dispatchers that are committed are dispatchers.
LEMMA BoundedEmpty ==
    ASSUME IsFiniteSet(Caller), RunsIn(Active)' = {}, uncancelled' \in Nat
    PROVE  Bounded'
<1>1. Cardinality(RunsIn(Active)') = 0
  BY FS_EmptySet
<1>2. Cardinality(Committed') <= Cardinality(Dispatcher)
  BY SizesFinite, FS_Subset
<1>3. Cardinality(Committed') \in Nat /\ Cardinality(Dispatcher) \in Nat
  BY SizesFinite
<1> QED
  BY <1>1, <1>2, <1>3 DEF Bounded

\* Nobody becomes committed, or goes on with another run.
NoNewWork ==
    \A q \in Dispatcher : /\ pc'[q] = "create" => pc[q] = "create"
                          /\ AtWork(q)' => AtWork(q) /\ loc'[q].run = loc[q].run

LEMMA StillWork ==
    ASSUME IsFiniteSet(Caller), TypeOK, OverlapInv, NoNewWork,
           UNCHANGED <<policy, runStatus, uncancelled>>
    PROVE  OverlapInv'
<1>1. OwnRun'
  BY DEF OverlapInv, OwnRun, NoNewWork
<1>2. RunsIn(Active)' = RunsIn(Active)
  BY DEF RunsIn
<1>3. Committed' \subseteq Committed
  BY DEF Committed, Allowed, NoNewWork
<1> QED
  BY <1>1, <1>2, <1>3, BoundedShrinks DEF OverlapInv, TypeOK

LEMMA EndingWork ==
    ASSUME IsFiniteSet(Caller), TypeOK, OverlapInv, NoNewWork, UNCHANGED <<policy, uncancelled>>,
           NEW r \in Run, NEW s \in RunStatus \ (Active \cup {"absent"}),
           runStatus' = [runStatus EXCEPT ![r] = s]
    PROVE  OverlapInv'
<1>r. runStatus'[r] = s /\ \A x \in Run \ {r} : runStatus'[x] = runStatus[x]
  BY DEF TypeOK
<1>w. \A q \in Dispatcher : AtWork(q) => loc[q].run \in Run
  BY DEF TypeOK, AtWork, Process
<1>u. uncancelled \in Nat
  BY DEF TypeOK
<1>1. OwnRun'
  BY <1>r, <1>w DEF OverlapInv, OwnRun, NoNewWork
<1>2. CASE r \notin RunsIn(Active)
  <2>1. RunsIn(Active)' \subseteq RunsIn(Active)
    BY <1>2, <1>r DEF RunsIn
  <2>2. Committed' \subseteq Committed
    BY <1>2, <1>r, <1>w DEF Committed, Allowed, NoNewWork, RunsIn
  <2> QED
    BY <1>u, <1>1, <2>1, <2>2, BoundedShrinks DEF OverlapInv
<1>3. CASE r \in RunsIn(Active)
  <2>1. RunsIn(Active)' \subseteq RunsIn(Active) \ {r}
    BY <1>r DEF RunsIn
  <2>2. \A q \in Committed' : q \in Committed \/ (q \in Dispatcher /\ AtWork(q) /\ loc[q].run = r)
    BY <1>r, <1>w DEF Committed, Allowed, NoNewWork
  <2>3. \E p : Committed' \subseteq Committed \cup {p}
    <3>1. CASE \E p \in Dispatcher : AtWork(p) /\ loc[p].run = r
      <4>1. PICK p \in Dispatcher : AtWork(p) /\ loc[p].run = r
        BY <3>1
      <4> QED
        BY <2>2, <4>1 DEF OverlapInv, OwnRun
    <3> QED
      BY <2>2, <3>1
  <2> QED
    BY <1>u, <1>1, <1>3, <2>1, <2>3, BoundedEnds DEF OverlapInv
<1> QED
  BY <1>2, <1>3

\* A dispatcher that links its run, whatever became of it, works on no other.
LEMMA LinkingWork ==
    ASSUME IsFiniteSet(Caller), TypeOK, OverlapInv, NEW p \in Dispatcher, LinkJob(p)
    PROVE  OverlapInv'
<1> DEFINE r == loc[p].run
           s == IF mode = "create_issue" THEN "issue_created" ELSE "running"
<1>p. p \in Process
  BY DEF Process
<1>1. r \in Run /\ pc[p] = "link" /\ AtWork(p)
  BY <1>p DEF LinkJob, At, TypeOK, AtWork
<1>2. s \in Active /\ runStatus' = [runStatus EXCEPT ![r] = s] /\ policy' = policy
  BY <1>1 DEF LinkJob, SetRuns, TypeOK, Active, At, fixedVars
<1>u. uncancelled \in Nat /\ uncancelled' = uncancelled
  BY DEF TypeOK, LinkJob, faultVars
<1>3. PICK label, l : Goto(p, label, l) /\ label \in {"idle", "advance"}
  BY DEF LinkJob, Return
<1>4. /\ \A q \in Dispatcher \ {p} : pc'[q] = pc[q] /\ loc'[q] = loc[q]
      /\ pc'[p] \in {"idle", "advance"}
  BY <1>p, <1>3, GotoOwes DEF Process
<1>w. \A q \in Dispatcher : AtWork(q) => loc[q].run \in Run
  BY DEF TypeOK, AtWork, Process
<1>r. runStatus'[r] = s /\ \A x \in Run \ {r} : runStatus'[x] = runStatus[x]
  BY <1>1, <1>2 DEF TypeOK
<1> HIDE DEF r, s
<1>o. \A q \in Dispatcher : AtWork(q)' => q # p /\ AtWork(q) /\ loc'[q] = loc[q]
  BY <1>4 DEF AtWork
<1>5. OwnRun'
  BY <1>2, <1>r, <1>w, <1>o DEF OverlapInv, OwnRun, Active
<1>6. RunsIn(Active)' \subseteq RunsIn(Active) \cup {r}
  BY <1>r DEF RunsIn
<1>7. Committed' \subseteq Committed \ {p}
  BY <1>2, <1>4, <1>r, <1>w, <1>o DEF Committed, Allowed
<1>8. CASE runStatus[r] \in Active
  <2>1. RunsIn(Active)' \subseteq RunsIn(Active)
    BY <1>1, <1>6, <1>8 DEF RunsIn
  <2> QED
    BY <1>u, <1>2, <1>5, <1>7, <2>1, BoundedShrinks DEF OverlapInv
<1>9. CASE runStatus[r] \notin Active
  <2>1. p \in Committed
    BY <1>1, <1>9 DEF Committed, r
  <2> QED
    BY <1>u, <1>1, <1>2, <1>5, <1>6, <1>7, <2>1, BoundedCommits DEF OverlapInv
<1> QED
  BY <1>8, <1>9

\* A dispatcher that was allowed to inserts its run, which nobody knows yet.
LEMMA CreatingWork ==
    ASSUME IsFiniteSet(Caller), TypeOK, OverlapInv, NEW p \in Dispatcher, NEW r \in Run,
           CreatePendingRun(p, r)
    PROVE  OverlapInv'
<1>p. p \in Process /\ loc[p] \in Local
  BY DEF Process, TypeOK
<1>1. pc[p] = "create" /\ runStatus[r] = "absent" /\ policy' = policy
  BY DEF CreatePendingRun, CreateRun, RunsIn, At, fixedVars
<1>u. uncancelled \in Nat /\ uncancelled' = uncancelled
  BY DEF TypeOK, CreatePendingRun, CreateRun, faultVars
<1>2. /\ runStatus'[r] = "pending" /\ "pending" \in Active
      /\ \A x \in Run \ {r} : runStatus'[x] = runStatus[x]
  BY DEF CreatePendingRun, CreateRun, TypeOK, Active
<1>3. Goto(p, "dispatch", [loc[p] EXCEPT !.run = r])
  BY DEF CreatePendingRun
<1>4. /\ \A q \in Dispatcher \ {p} : pc'[q] = pc[q] /\ loc'[q] = loc[q]
      /\ pc'[p] = "dispatch" /\ loc'[p].run = r
  BY <1>p, <1>3, GotoOwes DEF Process, Local
<1>w. \A q \in Dispatcher : AtWork(q) => loc[q].run \in Run \ {r}
  BY <1>1 DEF TypeOK, AtWork, Process, OverlapInv, OwnRun
<1>5. OwnRun'
  <2>1. \A q \in Dispatcher \ {p} : AtWork(q)' <=> AtWork(q)
    BY <1>4 DEF AtWork
  <2>2. ~AtWork(p)
    BY <1>1 DEF AtWork
  <2> QED
    BY <1>2, <1>4, <1>w, <2>1, <2>2 DEF OverlapInv, OwnRun
<1>6. RunsIn(Active)' \subseteq RunsIn(Active) \cup {r}
  BY <1>2 DEF RunsIn
<1>7. Committed' \subseteq Committed \ {p}
  BY <1>2, <1>4, <1>w DEF Committed, Allowed, AtWork
<1>8. p \in Committed
  BY <1>1 DEF Committed, Allowed
<1> QED
  BY <1>u, <1>1, <1>5, <1>6, <1>7, <1>8, BoundedCommits DEF OverlapInv

\* Whoever passes the check found no active run, or ended them all.
LEMMA CheckingWork ==
    ASSUME IsFiniteSet(Caller), TypeOK, OverlapInv, NEW p \in Dispatcher, CheckConcurrency(p)
    PROVE  OverlapInv'
<1>p. p \in Process
  BY DEF Process
<1>1. pc[p] = "check" /\ policy' = policy
  BY DEF CheckConcurrency, At, fixedVars
<1>2. /\ \A q \in Dispatcher \ {p} : pc'[q] = pc[q] /\ loc'[q] = loc[q]
      /\ pc'[p] = IF policy = "skip" /\ ActiveRuns # {} THEN "skip" ELSE "create"
  BY <1>p, GotoOwes DEF CheckConcurrency, Process
<1>u. uncancelled' \in Nat /\ (policy # "replace" => uncancelled' = uncancelled)
  BY DEF TypeOK, CheckConcurrency
<1>3. CASE policy = "replace"
  <2>1. runStatus' = [r \in Run |-> IF r \in ActiveRuns THEN "failed" ELSE runStatus[r]]
    BY <1>3 DEF CheckConcurrency, CancelActiveAutopilotRuns, SetRuns
  <2>2. RunsIn(Active)' = {}
    BY <2>1 DEF RunsIn, ActiveRuns, Active
  <2>3. \A q \in Dispatcher : AtWork(q)' => AtWork(q) /\ loc'[q] = loc[q] /\ loc[q].run \in Run
    BY <1>2, <1>3 DEF AtWork, TypeOK, Process
  <2>4. OwnRun'
    BY <2>1, <2>3 DEF OverlapInv, OwnRun
  <2> QED
    BY <1>u, <2>2, <2>4, BoundedEmpty DEF OverlapInv
<1>4. CASE policy # "replace"
  <2>1. runStatus' = runStatus
    BY <1>4 DEF CheckConcurrency, rowVars
  <2>2. \A q \in Dispatcher : AtWork(q)' => AtWork(q) /\ loc'[q] = loc[q]
    BY <1>2 DEF AtWork
  <2>3. OwnRun'
    BY <2>1, <2>2 DEF OverlapInv, OwnRun
  <2>4. CASE ActiveRuns = {}
    BY <1>u, <2>1, <2>3, <2>4, BoundedEmpty DEF OverlapInv, RunsIn, ActiveRuns
  <2>5. CASE policy = "skip" /\ ActiveRuns # {}
    <3>1. NoNewWork
      BY <1>2, <2>2, <2>5 DEF NoNewWork
    <3> QED
      BY <1>1, <1>u, <1>4, <2>1, <3>1, StillWork
  <2>6. CASE policy = "queue"
    BY <1>1, <2>3, <2>6 DEF OverlapInv
  <2> QED
    BY <1>4, <2>4, <2>5, <2>6 DEF TypeOK
<1> QED
  BY <1>3, <1>4

\* A run is allowed although the cancellation failed, which is counted.
LEMMA UncancelledWork ==
    ASSUME IsFiniteSet(Caller), TypeOK, OverlapInv, NEW p \in Dispatcher, CancelFails(p)
    PROVE  OverlapInv'
<1>1. /\ pc[p] = "check" /\ policy' = policy /\ runStatus' = runStatus
      /\ uncancelled \in Nat /\ uncancelled' = uncancelled + 1
  BY DEF CancelFails, At, fixedVars, rowVars, TypeOK
<1>2. /\ \A q \in Dispatcher \ {p} : pc'[q] = pc[q] /\ loc'[q] = loc[q]
      /\ pc'[p] = "create"
  BY GotoOwes DEF CancelFails, Process
<1>3. \A q \in Dispatcher : AtWork(q)' => AtWork(q) /\ loc'[q] = loc[q]
  BY <1>2 DEF AtWork
<1>4. OwnRun'
  BY <1>1, <1>3 DEF OverlapInv, OwnRun
<1>5. RunsIn(Active)' = RunsIn(Active)
  BY <1>1 DEF RunsIn
<1>6. Committed' \in SUBSET (Committed \cup {p})
  BY <1>1, <1>2, <1>3 DEF Committed, Allowed
<1>7. Cardinality(Committed') <= Cardinality(Committed) + 1
  <2>0. IsFiniteSet(Committed) /\ Cardinality(Committed) \in Nat
    BY SizesFinite
  <2>1. /\ IsFiniteSet(Committed \cup {p})
        /\ Cardinality(Committed \cup {p})
             = IF p \in Committed THEN Cardinality(Committed) ELSE Cardinality(Committed) + 1
    BY <2>0, FS_AddElement
  <2>2. Cardinality(Committed') <= Cardinality(Committed \cup {p})
    BY <1>6, <2>1, FS_Subset
  <2> QED
    BY <2>0, <2>1, <2>2, SizesFinite
<1>8. Bounded => Bounded'
  BY <1>1, <1>5, <1>7, SizesFinite DEF Bounded
<1> QED
  BY <1>1, <1>4, <1>8 DEF OverlapInv

LEMMA OverlapKept ==
    ASSUME IsFiniteSet(Caller), TypeOK, OverlapInv, [Next]_vars
    PROVE  OverlapInv'
<1>g. ASSUME NEW p \in Process, NEW label, NEW l, Goto(p, label, l),
             \/ label \notin {"create", "dispatch", "link"}
             \/ label = "link" /\ pc[p] = "dispatch" /\ l = loc[p]
      PROVE  NoNewWork
  <2>1. /\ \A q \in Process \ {p} : pc'[q] = pc[q] /\ loc'[q] = loc[q]
        /\ pc'[p] = label /\ loc'[p] = IF label = "idle" THEN NoLoc ELSE l
    BY <1>g, GotoOwes
  <2> QED
    BY <1>g, <2>1 DEF NoNewWork, AtWork, Process
<1>n. ASSUME NEW s \in Scheduler, NEW C, NextTrigger(s, C) PROVE NoNewWork
  BY <1>n, <1>g DEF NextTrigger, Process, Dispatcher
<1>t. ASSUME NEW p \in Dispatcher, Return(p) PROVE NoNewWork
  BY <1>t, <1>g DEF Return, Process
<1>u. ASSUME UNCHANGED <<pc, loc>> PROVE NoNewWork
  BY <1>u DEF NoNewWork, AtWork
<1>s. ASSUME NEW p \in Process, Stop(p) PROVE NoNewWork
  BY <1>s, <1>g DEF Stop
<1> HIDE DEF NoNewWork
<1>1. ASSUME NEW p \in Dispatcher, Dispatch(p) PROVE OverlapInv'
  <2>p. p \in Process
    BY DEF Process
  <2>1. CASE StatementFails(p)
    BY <1>t, <2>1, StillWork DEF StatementFails, At, fixedVars, faultVars, rowVars
  <2>2. CASE \E r \in Run : CreateSkippedRun(p, r)
    BY <1>t, <2>2, EndingWork DEF CreateSkippedRun, CreateRun, At, fixedVars, faultVars, Active, RunStatus
  <2>3. CASE CreateJob(p) \/ CreateJobFails(p)
    BY <1>g, <2>p, <2>3, StillWork DEF CreateJob, CreateJobFails, At, fixedVars, faultVars, rowVars
  <2>4. CASE FailRun(p)
    <3>1. loc[p].run \in Run
      BY <2>4, <2>p DEF FailRun, At, TypeOK
    <3>2. runStatus' = [runStatus EXCEPT ![loc[p].run] = "failed"]
      BY <2>4, <3>1 DEF FailRun, SetRuns, TypeOK
    <3> QED
      BY <1>t, <2>4, <3>1, <3>2, EndingWork DEF FailRun, At, fixedVars, faultVars, Active, RunStatus
  <2> QED
    BY <1>1, <2>1, <2>2, <2>3, <2>4, LinkingWork, CreatingWork, CheckingWork,
       UncancelledWork DEF Dispatch
<1>2. ASSUME NEW c \in Caller, TriggerAutopilot(c) PROVE OverlapInv'
  BY <1>g, <1>2, StillWork DEF TriggerAutopilot, At, fixedVars, faultVars, rowVars, Process, Dispatcher
<1>3. ASSUME NEW s \in Scheduler, ClaimDueScheduleTriggers(s) \/ AdvanceNextRun(s) \/ LeaveUnarmed(s)
      PROVE  OverlapInv'
  BY <1>n, <1>3, StillWork DEF ClaimDueScheduleTriggers, AdvanceNextRun, LeaveUnarmed, At, fixedVars, faultVars, rowVars
<1>4. ASSUME NEW e \in Reporter, ReadRun(e) \/ \E r \in Run : EndJob(e, r) PROVE OverlapInv'
  BY <1>g, <1>4, StillWork DEF ReadRun, EndJob, At, fixedVars, faultVars, rowVars, Process
<1>5. ASSUME NEW e \in Reporter, WriteRun(e) PROVE OverlapInv'
  <2>1. e \in Process /\ pc[e] = "write" /\ loc[e].run \in Run
    BY <1>5 DEF WriteRun, At, TypeOK, Process
  <2>2. \E s \in {"completed", "failed"} : runStatus' = [runStatus EXCEPT ![loc[e].run] = s]
    BY <1>5, <2>1 DEF WriteRun, SetRuns, TypeOK
  <2>3. NoNewWork /\ UNCHANGED <<policy, uncancelled>>
    BY <1>g, <1>5, <2>1 DEF WriteRun, At, fixedVars, faultVars
  <2> QED
    BY <2>1, <2>2, <2>3, EndingWork DEF Active, RunStatus
<1>6. ASSUME NEW p \in Process, Stop(p) PROVE OverlapInv'
  BY <1>s, <1>6, StillWork DEF Stop, fixedVars, faultVars, rowVars
<1>7. CASE \/ \E r \in Run : LoseJob(r)
           \/ \E t \in Trigger : UpdateAutopilotTrigger(t) \/ ComeDue(t)
           \/ UNCHANGED vars
  BY <1>7, <1>u, StillWork DEF LoseJob, UpdateAutopilotTrigger, ComeDue, fixedVars, faultVars, rowVars, vars
<1> QED
  BY <1>1, <1>2, <1>3, <1>4, <1>5, <1>6, <1>7 DEF Next, Disconnect, SyncFails, Crash, Process, Dispatcher

LEMMA InitOverlap == ASSUME IsFiniteSet(Caller), Init PROVE OverlapInv
<1>1. RunsIn(Active) = {} /\ Committed = {} /\ OwnRun
  BY DEF Init, RunsIn, Active, Committed, Allowed, AtWork, OwnRun, Process
<1>2. Cardinality({}) = 0 /\ Cardinality(Dispatcher) \in Nat /\ uncancelled = 0
  BY SizesFinite, FS_EmptySet DEF Init
<1> QED
  BY <1>1, <1>2 DEF OverlapInv, Bounded

-----------------------------------------------------------------------------
(* The theorems *)

\* The strengthening holds in every reachable state: a tick of a trigger is a
\* due trigger, a scheduler that owes the run, a run, or it was lost.
THEOREM TicksAccounted == Spec => []IndInv
<1>1. IndInv /\ [Next]_vars => IndInv'
  BY TypesKept, CountsKept DEF IndInv
<1> QED
  BY <1>1, Initially, PTL DEF Spec

\* ClaimDueScheduleTriggers: with any number of servers, triggers, runs and
\* crashes, a trigger starts at most one run for each time it comes due.
THEOREM OnceAtMost == Spec => []OneRunPerTick
<1>1. IndInv => OneRunPerTick
  <2> SUFFICES ASSUME IndInv, NEW t \in Trigger PROVE Cardinality(Started(t)) <= ticks[t]
    BY DEF OneRunPerTick, Started
  <2>1. ticks[t] \in Nat /\ IsDue(t) \in Nat /\ Counted(t)
    BY DEF IndInv, TypeOK, IsDue
  <2> QED
    BY <2>1, SetsFinite DEF Counted
<1> QED
  BY <1>1, TicksAccounted, PTL

\* DispatchAutopilot checks the policy and inserts in two statements, and links
\* the job of a run unconditionally: with "skip" and "replace", no more runs are
\* active or about to be than there are goroutines that dispatch and, under
\* "replace", cancellations that have failed since the last that succeeded.
THEOREM Overlap == ASSUME IsFiniteSet(Caller) PROVE Spec => []OverlapBounded
<1>1. Init => IndInv /\ OverlapInv
  BY Initially, InitOverlap
<1>2. (IndInv /\ OverlapInv) /\ [Next]_vars => (IndInv /\ OverlapInv)'
  BY TypesKept, CountsKept, OverlapKept DEF IndInv
<1>3. IndInv /\ OverlapInv => OverlapBounded
  <2> SUFFICES ASSUME IndInv, OverlapInv PROVE OverlapBounded
    OBVIOUS
  <2>1. /\ Allowed \subseteq Committed
        /\ IsFiniteSet(Committed) /\ Cardinality(Committed) \in Nat
        /\ Cardinality(RunsIn(Active)) \in Nat /\ Cardinality(Dispatcher) \in Nat
        /\ uncancelled \in Nat
    BY SizesFinite DEF Committed, IndInv, TypeOK
  <2>2. Cardinality(Allowed) <= Cardinality(Committed) /\ Cardinality(Allowed) \in Nat
    BY <2>1, FS_Subset, FS_CardinalityType
  <2> QED
    BY <2>1, <2>2 DEF OverlapInv, Bounded, OverlapBounded
<1> QED
  BY <1>1, <1>2, <1>3, PTL DEF Spec

-----------------------------------------------------------------------------
(* Triggers are armed again *)

\* A step that disarms nothing, in which one goroutine moves and what leaves its
\* tick has been armed or is remembered as unarmed.
LEMMA TickKept ==
    ASSUME TypeOK, TriggerRearmed, NEW p \in Process,
           \A q \in Process \ {p} : loc'[q] = loc[q],
           \A t \in Trigger : nextRun'[t] = "null" =>
               /\ nextRun[t] = "null"
               /\ t \in unarmed => t \in unarmed'
               /\ p \in Scheduler /\ t \in InTick(p) => t \in InTick(p)' \/ t \in unarmed'
    PROVE  TriggerRearmed'
<1> SUFFICES ASSUME NEW t \in Trigger, nextRun'[t] = "null"
             PROVE  t \in unarmed' \/ \E s \in Scheduler : t \in InTick(s)'
  BY DEF TriggerRearmed
<1>1. CASE t \in unarmed
  BY <1>1
<1>2. CASE t \notin unarmed
  <2>1. PICK s \in Scheduler : t \in InTick(s)
    BY <1>2 DEF TriggerRearmed
  <2>2. s # p => InTick(s)' = InTick(s)
    BY DEF InTick, Process, Dispatcher
  <2> QED
    BY <2>1, <2>2
<1> QED
  BY <1>1, <1>2

\* A goroutine that goes on for the same trigger keeps its tick.
LEMMA DispatchKeepsTick ==
    ASSUME TypeOK, NEW p \in Dispatcher, Dispatch(p)
    PROVE  /\ UNCHANGED <<nextRun, unarmed>>
           /\ \A q \in Process \ {p} : loc'[q] = loc[q]
           /\ p \in Scheduler => loc'[p].trigger = loc[p].trigger /\ loc'[p].claimed = loc[p].claimed
<1> DEFINE Same(l) == l.trigger = loc[p].trigger /\ l.claimed = loc[p].claimed
           Goes    == \E label, l : /\ Goto(p, label, l)
                                    /\ p \in Scheduler => label # "idle" /\ Same(l)
<1>1. p \in Process /\ loc[p] \in Local
  BY DEF TypeOK, Process
<1>2. Return(p) => Goes
  BY AutopilotAssumption DEF Return, Dispatcher
<1>3. \A r \in Run : Same([loc[p] EXCEPT !.run = r])
  BY <1>1 DEF Local
<1>4. Goes
  <2>1. CASE \E r \in Run : CreatePendingRun(p, r)
    <3>1. PICK r \in Run : Goto(p, "dispatch", [loc[p] EXCEPT !.run = r])
      BY <2>1 DEF CreatePendingRun
    <3> DEFINE m == [loc[p] EXCEPT !.run = r]
    <3>2. Goto(p, "dispatch", m) /\ Same(m)
      BY <1>3, <3>1
    <3> HIDE DEF m
    <3> QED
      BY <3>2
  <2>2. CASE CheckConcurrency(p)
    BY <2>2 DEF CheckConcurrency
  <2>3. CASE CancelFails(p)
    BY <2>3 DEF CancelFails
  <2>4. CASE StatementFails(p) \/ \E r \in Run : CreateSkippedRun(p, r)
    BY <1>2, <2>4 DEF StatementFails, CreateSkippedRun
  <2>5. CASE CreateJob(p) \/ CreateJobFails(p)
    BY <2>5 DEF CreateJob, CreateJobFails
  <2>6. CASE LinkJob(p) \/ FailRun(p)
    BY <1>2, <2>6 DEF LinkJob, FailRun
  <2> QED
    BY <2>1, <2>2, <2>3, <2>4, <2>5, <2>6 DEF Dispatch
<1>5. UNCHANGED <<nextRun, unarmed>>
  BY DEF Dispatch, CheckConcurrency, CancelFails, StatementFails, CreateSkippedRun, CreatePendingRun,
     CreateRun, CreateJob, CreateJobFails, LinkJob, FailRun, faultVars
<1>6. PICK label, l : Goto(p, label, l) /\ (p \in Scheduler => label # "idle" /\ Same(l))
  BY <1>4
<1> QED
  BY <1>1, <1>5, <1>6, GotoOwes

\* A scheduler that goes to its next trigger keeps the rest of its tick.
LEMMA NextTriggerTick ==
    ASSUME TypeOK, NEW s \in Scheduler, NEW C \in SUBSET Trigger, NextTrigger(s, C)
    PROVE  /\ \A q \in Process \ {s} : loc'[q] = loc[q]
           /\ C \subseteq InTick(s)'
<1>1. s \in Process
  BY DEF Process, Dispatcher
<1>2. CASE C = {}
  BY <1>1, <1>2, GotoOwes DEF NextTrigger
<1>3. CASE C # {}
  <2>1. PICK t \in C : Goto(s, "check", [NoLoc EXCEPT !.trigger = t, !.claimed = C \ {t}])
    BY <1>3 DEF NextTrigger
  <2>2. loc'[s] = [NoLoc EXCEPT !.trigger = t, !.claimed = C \ {t}]
    BY <1>1, <2>1, GotoOwes
  <2>3. loc'[s].trigger = t /\ loc'[s].claimed = C \ {t}
    BY <2>2 DEF NoLoc
  <2> QED
    BY <1>1, <2>1, <2>3, GotoOwes DEF InTick
<1> QED
  BY <1>2, <1>3

LEMMA RearmedKept ==
    ASSUME TypeOK, Apart, TriggerRearmed, [Next]_vars
    PROVE  TriggerRearmed'
<1>p. Scheduler \cup Caller \cup Reporter = Process /\ Scheduler \cap (Caller \cup Reporter) = {}
  BY DEF Process, Dispatcher
<1>1. ASSUME NEW p \in Caller \cup Reporter, UNCHANGED <<nextRun, unarmed>>,
             \A q \in Process \ {p} : loc'[q] = loc[q]
      PROVE  TriggerRearmed'
  BY <1>1, <1>p, TickKept
<1>2. ASSUME NEW c \in Caller, TriggerAutopilot(c) \/ Disconnect(c) PROVE TriggerRearmed'
  BY <1>1, <1>2, <1>p, GotoOwes DEF TriggerAutopilot, Disconnect, Stop, faultVars
<1>3. ASSUME NEW e \in Reporter, ReadRun(e) \/ WriteRun(e) \/ SyncFails(e) \/ \E r \in Run : EndJob(e, r)
      PROVE  TriggerRearmed'
  BY <1>1, <1>3, <1>p, GotoOwes DEF ReadRun, WriteRun, EndJob, SyncFails, Stop, faultVars
<1>4. ASSUME NEW s \in Scheduler, ClaimDueScheduleTriggers(s) PROVE TriggerRearmed'
  <2>1. InTick(s) = {}
    BY <1>4, <1>p DEF InTick, ClaimDueScheduleTriggers, At, Apart, NoLoc
  <2>2. /\ \A q \in Process \ {s} : loc'[q] = loc[q]
        /\ Due \subseteq InTick(s)'
    BY <1>4, NextTriggerTick DEF ClaimDueScheduleTriggers, Due
  <2> SUFFICES ASSUME NEW t \in Trigger, nextRun'[t] = "null"
               PROVE  t \in unarmed' \/ \E q \in Scheduler : t \in InTick(q)'
    BY DEF TriggerRearmed
  <2>3. CASE t \in Due
    BY <2>2, <2>3
  <2>4. CASE t \notin Due
    <3>1. nextRun[t] = "null" /\ (t \in unarmed => t \in unarmed')
      BY <1>4, <2>4 DEF ClaimDueScheduleTriggers
    <3>2. CASE t \notin unarmed
      <4>1. PICK q \in Scheduler : t \in InTick(q)
        BY <3>1, <3>2 DEF TriggerRearmed
      <4>2. InTick(q)' = InTick(q)
        BY <1>p, <2>1, <2>2, <4>1 DEF InTick
      <4> QED
        BY <4>1, <4>2
    <3> QED
      BY <3>1, <3>2
  <2> QED
    BY <2>3, <2>4
<1>5. ASSUME NEW s \in Scheduler, AdvanceNextRun(s) \/ LeaveUnarmed(s) PROVE TriggerRearmed'
  <2>1. loc[s].claimed \in SUBSET Trigger /\ loc[s].trigger \in Trigger
    BY <1>5, <1>p DEF TypeOK, Local, AdvanceNextRun, LeaveUnarmed, At
  <2>2. /\ \A q \in Process \ {s} : loc'[q] = loc[q]
        /\ loc[s].claimed \subseteq InTick(s)'
    BY <1>5, <2>1, NextTriggerTick DEF AdvanceNextRun, LeaveUnarmed
  <2>3. ASSUME NEW t \in Trigger, nextRun'[t] = "null"
        PROVE  /\ nextRun[t] = "null" /\ (t \in unarmed => t \in unarmed')
               /\ t = loc[s].trigger => t \in unarmed'
    BY <1>5, <2>1, <2>3 DEF AdvanceNextRun, LeaveUnarmed, TypeOK
  <2> QED
    BY <1>p, <2>2, <2>3, TickKept DEF InTick
<1>6. ASSUME NEW p \in Dispatcher, Dispatch(p) PROVE TriggerRearmed'
  <2>1. p \in Process
    BY DEF Process
  <2> QED
    BY <1>6, <2>1, DispatchKeepsTick, TickKept DEF InTick
<1>7. ASSUME NEW p \in Scheduler \cup Reporter, Crash(p) PROVE TriggerRearmed'
  <2>1. /\ nextRun' = nextRun /\ unarmed' = unarmed \cup InTick(p)
        /\ \A q \in Process \ {p} : loc'[q] = loc[q]
    BY <1>7, <1>p, GotoOwes DEF Crash, Stop
  <2> QED
    BY <1>p, <2>1, TickKept
<1>8. ASSUME NEW r \in Run, LoseJob(r) PROVE TriggerRearmed'
  BY <1>8 DEF LoseJob, faultVars, TriggerRearmed, InTick
<1>9. ASSUME NEW t \in Trigger, UpdateAutopilotTrigger(t) \/ ComeDue(t) PROVE TriggerRearmed'
  BY <1>9 DEF UpdateAutopilotTrigger, ComeDue, faultVars, TriggerRearmed, InTick, TypeOK
<1>10. CASE UNCHANGED vars
  BY <1>10 DEF vars, faultVars, TriggerRearmed, InTick
<1> QED
  BY <1>2, <1>3, <1>4, <1>5, <1>6, <1>7, <1>8, <1>9, <1>10 DEF Next

\* ClaimDueScheduleTriggers clears next_run_at and advanceNextRun sets it again:
\* with any number of servers and triggers, a trigger without next_run_at is in
\* the tick of a server, or was left by a crash or by a failed statement about it.
THEOREM Rearmed == Spec => []TriggerRearmed
<1>1. Init => TriggerRearmed
  BY DEF Init, TriggerRearmed
<1>2. IndInv /\ TriggerRearmed /\ [Next]_vars => TriggerRearmed'
  BY RearmedKept DEF IndInv
<1> QED
  BY <1>1, <1>2, TicksAccounted, PTL DEF Spec
=============================================================================
