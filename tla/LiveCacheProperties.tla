-------------------------- MODULE LiveCacheProperties --------------------------
(****************************************************************************)
(* What the client's query cache promises of its entries.                   *)
(****************************************************************************)
EXTENDS LiveCache

\* The keys whose data a reconnected client refetches: those of the workspace
\* that its pages list, but not pins, invitations, what is said of one issue
\* and the messages of one chat.
RecoveredKeys ==
    {issueKeys.list, issueKeys.myList, issueKeys.detail, issueKeys.children, issueKeys.childProgress,
     inboxKeys.list, workspaceKeys.agents, workspaceKeys.members, workspaceKeys.skills,
     workspaceKeys.list, projectKeys.list, projectKeys.detail, runtimeKeys.list, runtimeKeys.listMine,
     autopilotKeys.list, autopilotKeys.detail, autopilotKeys.runs,
     chatKeys.sessions, chatKeys.allSessions, chatKeys.session, chatKeys.pendingTasks}

\* States in which nothing has been lost for good: the others are not explored.
Explained == lost # "race"

\* At most one connection is lost or one fetch or request fails.
OneFault == drops + failures <= 1

ItemSymmetry == Permutations(Item)

Delivered == link.registered /\ link.authed /\ unsent = <<>> /\ wire = <<>> /\ ~timers
Settled   == entry.fetch = "idle" /\ \A e \in Edit : edits[e].pc \in {"none", "done"}
Quiet     == Delivered /\ Settled

\* What the client was told of, or has refetched. Of the keys that a
\* reconnected client refetches, a reconnection makes up for what was not
\* heard of before it.
NothingLost == lost = "nothing" \/ (lost = "madeup" /\ watched \in RecoveredKeys)

\* Once everything is delivered and answered, an entry that differs from what
\* the server would answer is marked for a refetch: whatever order the events
\* that have a handler for the key, the hooks, the fetches and the mounting of
\* components come in, every hook restores what it edited, and no cancelled or
\* failed fetch leaves old data unmarked (use-realtime-sync.ts, the onMutate,
\* onError and onSettled of the mutation hooks). It does not speak of changes
\* that the client is not told of, or that no handler hears, until a fetch or
\* a reconnection has brought them, nor of the races that LiveCache names.
StaleIsMarked ==
    Quiet /\ NothingLost => entry.data \in {None, db} \/ entry.invalid

\* If moreover no request failed, what a mounted component shows is what the
\* server would answer: it is there, and neither a cancelled first fetch nor
\* an edit, nor an event that overtook another, leaves anything else. Changes
\* that are not heard of and races are excepted as above.
VisibleIsCurrent ==
    Quiet /\ NothingLost /\ mounted /\ failures = 0 => entry.data = db

\* An edit that the server has refused is not in the cache once its hook has
\* settled and its refetch is answered, whichever events and fetches came in
\* between (the rollback of onError). A reordering of pins that were not
\* loaded has neither a rollback nor a refetch.
RefusedEditIsGone ==
    Settled /\ entry.data # None /\ ~entry.invalid =>
        \A e \in Edit : edits[e].pc = "done" /\ ~edits[e].landed /\ edits[e].undoes =>
                            \A i \in Item : entry.data[i] # edits[e].tag
=============================================================================
