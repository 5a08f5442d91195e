------------------------------ MODULE LiveCache -------------------------------
(****************************************************************************)
(* One entry of a client's query cache kept in step with the server by the  *)
(* events of its WebSocket (ws-client.ts, use-realtime-sync.ts), by the     *)
(* mutation hooks and by refetching. Entries do not depend on one another,  *)
(* so a behaviour follows the entry of one key, any of Watched. What a key  *)
(* reads is a function from Item to the write that last changed the item.   *)
(*                                                                          *)
(* A definition named X_Fault... is X with a plausible bug, for showing     *)
(* that a property can fail.                                                *)
(****************************************************************************)
EXTENDS QueryHooks, QueryOptions, Integers, TLC

CONSTANTS
    Watched,      \* the keys whose entries are followed
    Item,         \* what the data consists of: issues, comments, pins
    Edit,         \* uses of mutation hooks
    None,
    MaxWrites,    \* bound on changes, by others and by the hooks
    MaxDrops,     \* bound on lost or replaced connections
    MaxFailures   \* bound on fetches and requests that fail

ASSUME LiveCacheAssumption ==
    {MaxWrites, MaxDrops, MaxFailures} \subseteq Nat

INSTANCE QueryCache

VARIABLES
    watched,  \* the key that is followed
    db,       \* [Item -> Write], what the server would answer
    writes,   \* writes begun
    unsent,   \* committed changes, oldest first, whose events are not published
    link,     \* the connection: registered by the hub, authed by the client, before
    wire,     \* events on their way to the client
    timers,   \* prefixes whose debounced refresh is due
    entry,    \* the entry of the cache
    mounted,  \* some component observes it
    edits,    \* [Edit -> what has become of it]
    lost,     \* history: what may have been lost to the entry: nothing; a change that had no
              \* event or one that was not heard ("missed"), and may have been "madeup" for;
              \* or a "race"
    drops, failures

vars == <<watched, db, writes, unsent, link, wire, timers, entry, mounted, edits, lost, drops, failures>>
serverVars == <<db, writes, unsent>>
linkVars   == <<link, wire, timers>>
entryVars  == <<entry, mounted>>
bounds     == <<drops, failures>>

Missing == -1                           \* an item of a list that was seeded without it
Write   == 0 .. MaxWrites

----------------------------------------------------------------------------
\* The tables, for one key. A reaction is what an event does to its entry: the
\* handler of its type runs first, then those of ws.onAny.

Reaction(event, k) ==
    [debounced   |-> event \notin specificEvents /\ event[1] \in DOMAIN refreshMap
                         /\ Matches(refreshMap[event[1]], k),
     invalidates |-> Matches(Handled(event).invalidates, k),
     patches     |-> k \in Handled(event).patches,
     seeds       |-> k \in Handled(event).seeds]

\* What the tables say of a key. Keys of one kind have entries that behave alike.
KindOf(k) ==
    [reactions |-> {Reaction(event, k) : event \in Announced(k) \ Unheard(k)},
     effects   |-> {[e EXCEPT !.announces = {Reaction(event, k) : event \in e.announces}] :
                        e \in {f \in Effects(k) : Touches(f)}},
     recovers  |-> Matches(onReconnect, k),
     paged     |-> k \in PagePatches,
     timed     |-> k \in TimedKeys]

Reactions == [k \in Watched |-> KindOf(k).reactions]
EffectsOn == [k \in Watched |-> KindOf(k).effects]
Recovers  == [k \in Watched |-> KindOf(k).recovers]
Paged     == [k \in Watched |-> KindOf(k).paged]
Timed     == [k \in Watched |-> KindOf(k).timed]

----------------------------------------------------------------------------

NoEdit == [pc |-> "none"]

Init ==
    /\ watched \in Watched
    /\ db = [i \in Item |-> 0]
    /\ writes = 0
    /\ unsent = <<>>
    /\ link = [registered |-> FALSE, authed |-> FALSE, before |-> FALSE]
    /\ wire = <<>>
    /\ timers = FALSE
    /\ entry = Empty
    /\ mounted = FALSE
    /\ edits = [e \in Edit |-> NoEdit]
    /\ lost = "nothing"
    /\ drops = 0
    /\ failures = 0

----------------------------------------------------------------------------
\* How a change can be lost for good: the races of this design. None of them
\* is told apart later, but in which operator they are.

\* An invalidation that starts no fetch although one is under way: that one
\* may have been answered already, and its success clears the mark.
Joins(e, active) == e.fetch # "idle" /\ CannotRefetch(e, active)

OnlyPatches(r) == (r.patches \/ r.seeds) /\ ~r.invalidates

\* A patch that nothing refetches: a fetch under way puts older data back, a
\* mark that stood for other changes is cleared, a list appears in part, or
\* the patch is older than what another fetch has brought.
Clobbers(e, m) ==
    \/ e.fetch # "idle"
    \/ e.data # None /\ (e.invalid \/ (e.data[m.item] = db[m.item] /\ m.tag # db[m.item]))
    \/ e.data = None /\ m.reaction.seeds

\* Two kinds of hooks settle without refetching: useReorderPins, and those
\* that refetch on success only when their request fails or seems to.
LeavesUnsettled(x) ==
    /\ ~x.effect.settles
    /\ \/ x.effect.edits \/ x.effect.seeds
       \/ x.effect.succeeds /\ x.pc = "failed"

Lost(race)     == IF race THEN "race" ELSE lost
Missed(events) == IF events /\ lost # "race" THEN "missed" ELSE lost

\* Data with one item changed; of a list that is made up, the rest is missing.
Patched(data, i, tag) == [(IF data = None THEN [j \in Item |-> Missing] ELSE data) EXCEPT ![i] = tag]

SetItem(e, i, tag, seeds) ==
    IF e.data = None /\ ~seeds THEN e ELSE SetData(e, Patched(e.data, i, tag))

----------------------------------------------------------------------------
\* The server.

Commit(i, tag, rs) ==
    /\ db' = [db EXCEPT ![i] = tag]
    /\ unsent' = unsent \o SetToSeq({[reaction |-> r, item |-> i, tag |-> tag] : r \in rs})

\* Another client, an agent or the server itself changes what the key reads.
\* Some changes it does not announce, and some events have no handler (Unheard).
ChangeByOthers(i) ==
    /\ writes < MaxWrites
    /\ writes' = writes + 1
    /\ \/ \E r \in Reactions[watched] : Commit(i, writes + 1, {r}) /\ UNCHANGED lost
       \/ Commit(i, writes + 1, {}) /\ lost' = Missed(TRUE)
    /\ UNCHANGED <<watched, linkVars, entryVars, edits, bounds>>

\* A handler publishes after its write, so that events of two handlers may
\* be published in either order. The hub drops what it has no client for.
Publish(n) ==
    /\ unsent' = RemoveAt(unsent, n)
    /\ wire' = IF link.registered THEN Append(wire, unsent[n]) ELSE wire
    /\ lost' = IF link.registered THEN Lost(n # 1 /\ OnlyPatches(unsent[n].reaction))
               ELSE Missed(TRUE)
    /\ UNCHANGED <<watched, db, writes, link, timers, entryVars, edits, bounds>>

----------------------------------------------------------------------------
\* The connection.

\* The client connects. The hub registers it after the upgrade, and after
\* auth_ack; the client sees the one or the other, and either may come first.
connect ==
    /\ ~link.registered
    /\ link' = [link EXCEPT !.registered = TRUE]
    /\ UNCHANGED <<watched, serverVars, wire, timers, entryVars, edits, lost, bounds>>

\* A client that was connected before recovers what it has missed: whatever
\* was lost up to now is made up for.
onAuthenticated ==
    LET recovers == link.before /\ (Recovers[watched] \/ (mounted /\ Paged[watched]))
    IN  /\ ~link.authed
        /\ link' = [link EXCEPT !.authed = TRUE, !.before = TRUE]
        /\ entry' = IF recovers THEN Invalidate(entry, mounted) ELSE entry
        /\ lost' = IF recovers /\ Joins(entry, mounted) THEN "race"
                   ELSE IF link.before /\ lost = "missed" THEN "madeup" ELSE lost
        /\ UNCHANGED <<watched, serverVars, wire, timers, mounted, edits, bounds>>

Closed == [registered |-> FALSE, authed |-> FALSE, before |-> link.before]

\* The connection breaks; the client will connect again.
onclose ==
    /\ link.registered \/ link.authed
    /\ drops < MaxDrops
    /\ drops' = drops + 1
    /\ link' = Closed
    /\ wire' = <<>>
    /\ lost' = Missed(wire # <<>>)
    /\ UNCHANGED <<watched, serverVars, timers, entryVars, edits, failures>>

\* The user or the workspace object changes identity: WSProvider makes a new
\* client, which has not connected before, and drops the armed timers.
ReplaceClient ==
    /\ drops < MaxDrops
    /\ drops' = drops + 1
    /\ link' = [Closed EXCEPT !.before = FALSE]
    /\ wire' = <<>>
    /\ timers' = FALSE
    /\ lost' = Missed(wire # <<>> \/ timers)
    /\ UNCHANGED <<watched, serverVars, entryVars, edits, failures>>

----------------------------------------------------------------------------
\* The handlers of an event. A mounted page patches what the global handler
\* invalidates, before or after it.

React(e, m, paged) ==
    LET r == m.reaction
        set == SetItem(e, m.item, m.tag, r.seeds)
        handled == IF r.patches \/ r.seeds THEN set ELSE e
    IN  IF r.invalidates
        THEN IF paged THEN {Invalidate(set, mounted), SetItem(Invalidate(e, mounted), m.item, m.tag, FALSE)}
             ELSE {Invalidate(handled, mounted)}
        ELSE {handled}

Receive ==
    /\ link.authed
    /\ wire # <<>>
    /\ LET m == Head(wire)
           r == m.reaction
       IN  /\ entry' \in React(entry, m, mounted /\ Paged[watched])
           /\ timers' = (timers \/ r.debounced)
           /\ lost' = Lost(\/ r.invalidates /\ Joins(entry, mounted)
                           \/ OnlyPatches(r) /\ Clobbers(entry, m))
    /\ wire' = Tail(wire)
    /\ UNCHANGED <<watched, serverVars, link, mounted, edits, bounds>>

debouncedRefresh ==
    /\ timers
    /\ timers' = FALSE
    /\ entry' = Invalidate(entry, mounted)
    /\ lost' = Lost(Joins(entry, mounted))
    /\ UNCHANGED <<watched, serverVars, link, wire, mounted, edits, bounds>>

----------------------------------------------------------------------------
\* Components and fetches.

MountComponent ==
    /\ ~mounted
    /\ mounted' = TRUE
    /\ entry' = Mount(entry)
    /\ UNCHANGED <<watched, serverVars, linkVars, edits, lost, bounds>>

UnmountComponent ==
    /\ mounted
    /\ mounted' = FALSE
    /\ UNCHANGED <<watched, serverVars, linkVars, entry, edits, lost, bounds>>

\* gcTime after the last component has gone.
Collect ==
    /\ ~mounted /\ entry.fetch = "idle" /\ entry.data # None
    /\ entry' = Empty
    /\ UNCHANGED <<watched, serverVars, linkVars, mounted, edits, lost, bounds>>

\* The window gets the focus, the data is old, or the polling interval is over.
TimedRefetch ==
    /\ Timed[watched] /\ mounted /\ entry.fetch = "idle"
    /\ entry' = StartFetch(entry)
    /\ UNCHANGED <<watched, serverVars, linkVars, mounted, edits, lost, bounds>>

\* The server reads what it answers.
AnswerFetch ==
    /\ entry.fetch = "asked"
    /\ entry' = [entry EXCEPT !.fetch = "answered", !.answer = db]
    /\ UNCHANGED <<watched, serverVars, linkVars, mounted, edits, lost, bounds>>

\* An answer that is up to date has everything that was not heard of.
FetchSucceeds ==
    /\ entry.fetch = "answered"
    /\ entry' = Succeed(entry)
    /\ lost' = IF lost # "race" /\ entry.answer = db THEN "nothing" ELSE lost
    /\ UNCHANGED <<watched, serverVars, linkVars, mounted, edits, bounds>>

\* Both attempts fail (retry: 1).
FetchFails ==
    /\ entry.fetch # "idle"
    /\ failures < MaxFailures
    /\ failures' = failures + 1
    /\ entry' = Fail(entry)
    /\ UNCHANGED <<watched, serverVars, linkVars, mounted, edits, lost, drops>>

----------------------------------------------------------------------------
\* A mutation hook: onMutate, the request, and onSuccess or onError, onSettled.

onMutate(e, effect, i) ==
    LET tag      == writes + 1
        canceled == IF effect.cancels THEN CancelFetch(entry) ELSE entry
    IN  /\ edits[e].pc = "none"
        /\ writes < MaxWrites
        /\ writes' = tag
        /\ entry' = IF effect.edits \/ effect.seeds
                    THEN SetItem(canceled, i, tag, effect.seeds) ELSE canceled
        /\ edits' = [edits EXCEPT ![e] = [pc |-> "sent", effect |-> effect, item |-> i, tag |-> tag,
                                          prev |-> canceled.data, landed |-> FALSE]]
        /\ UNCHANGED <<watched, db, unsent, linkVars, mounted, lost, bounds>>

CommitEdit(e) ==
    /\ edits[e].pc = "sent"
    /\ Commit(edits[e].item, edits[e].tag, edits[e].effect.announces)
    /\ edits' = [edits EXCEPT ![e].pc = "answered", ![e].landed = TRUE]
    /\ UNCHANGED <<watched, writes, linkVars, entryVars, lost, bounds>>

\* The request is refused, or its answer is lost.
FailEdit(e) ==
    /\ edits[e].pc \in {"sent", "answered"}
    /\ failures < MaxFailures
    /\ failures' = failures + 1
    /\ edits' = [edits EXCEPT ![e].pc = "failed"]
    /\ UNCHANGED <<watched, serverVars, linkVars, entryVars, lost, drops>>

onSuccess(e) ==
    LET x == edits[e] IN
    IF x.effect.adds \/ x.effect.plants THEN SetItem(entry, x.item, x.tag, x.effect.plants) ELSE entry

onError(e) ==
    LET x == edits[e] IN
    IF (x.effect.edits \/ x.effect.seeds) /\ x.prev # None THEN SetData(entry, x.prev) ELSE entry

\* A failed hook that has neither a snapshot nor a refetch undoes nothing.
Undoes(x) == x.prev # None \/ x.effect.settles

onSettled_FaultOnSuccess(e) ==
    LET x == edits[e]
        refetches == x.pc = "answered" /\ (x.effect.settles \/ x.effect.succeeds)
        called == IF x.pc = "answered" THEN onSuccess(e) ELSE onError(e)
    IN  /\ x.pc \in {"answered", "failed"}
        /\ entry' = IF refetches THEN Invalidate(called, mounted) ELSE called
        /\ lost' = Lost(LeavesUnsettled(x) \/ (refetches /\ Joins(called, mounted)))
        /\ edits' = [edits EXCEPT ![e] = [pc |-> "done", tag |-> x.tag, landed |-> x.landed, undoes |-> Undoes(x)]]
        /\ UNCHANGED <<watched, serverVars, linkVars, mounted, bounds>>

onSettled(e) ==
    LET x == edits[e]
        refetches == x.effect.settles \/ (x.pc = "answered" /\ x.effect.succeeds)
        called == IF x.pc = "answered" THEN onSuccess(e) ELSE onError(e)
    IN  /\ x.pc \in {"answered", "failed"}
        /\ entry' = IF refetches THEN Invalidate(called, mounted) ELSE called
        /\ lost' = Lost(LeavesUnsettled(x) \/ (refetches /\ Joins(called, mounted)))
        /\ edits' = [edits EXCEPT ![e] = [pc |-> "done", tag |-> x.tag, landed |-> x.landed, undoes |-> Undoes(x)]]
        /\ UNCHANGED <<watched, serverVars, linkVars, mounted, bounds>>

----------------------------------------------------------------------------

Next ==
    \/ \E i \in Item : ChangeByOthers(i)
    \/ \E n \in DOMAIN unsent : Publish(n)
    \/ connect \/ onAuthenticated \/ onclose \/ ReplaceClient
    \/ Receive \/ debouncedRefresh
    \/ MountComponent \/ UnmountComponent \/ Collect
    \/ TimedRefetch \/ AnswerFetch \/ FetchSucceeds \/ FetchFails
    \/ \E e \in Edit : \/ \E effect \in EffectsOn[watched], i \in Item : onMutate(e, effect, i)
                       \/ CommitEdit(e) \/ FailEdit(e) \/ onSettled(e)

Spec == Init /\ [][Next]_vars

=============================================================================
