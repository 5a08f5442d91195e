----------------------------- MODULE QueryTables ------------------------------
(****************************************************************************)
(* What the web and desktop clients do to their query cache, as tables: the *)
(* query keys, the keys that each event of the server refreshes or patches, *)
(* and the keys that each mutation hook edits and refetches. One workspace  *)
(* ("ws"), one user ("u") and one identifier of each kind.                  *)
(*                                                                          *)
(* A definition named X_Fault... is X with a plausible bug, for showing     *)
(* that a property can fail.                                                *)
(****************************************************************************)
EXTENDS Sequences, SequencesExt

----------------------------------------------------------------------------
\* Query keys. A key matches every prefix of it.

issueKeys ==
    LET all == <<"issues", "ws">> IN
    [all |-> all, list |-> Append(all, "list"), myAll |-> Append(all, "my"),
     myList |-> all \o <<"my", "scope">>, detail |-> all \o <<"detail", "i">>,
     children |-> all \o <<"children", "i">>, childProgress |-> Append(all, "child-progress"),
     timeline |-> <<"issues", "timeline", "i">>, reactions |-> <<"issues", "reactions", "i">>,
     subscribers |-> <<"issues", "subscribers", "i">>, usage |-> <<"issues", "usage", "i">>]

inboxKeys == [all |-> <<"inbox", "ws">>, list |-> <<"inbox", "ws", "list">>]

workspaceKeys ==
    [list |-> <<"workspaces", "list">>, members |-> <<"workspaces", "ws", "members">>,
     invitations |-> <<"workspaces", "ws", "invitations">>, myInvitations |-> <<"invitations", "mine">>,
     agents |-> <<"workspaces", "ws", "agents">>, skills |-> <<"workspaces", "ws", "skills">>,
     assigneeFrequency |-> <<"workspaces", "ws", "assignee-frequency">>]

projectKeys ==
    LET all == <<"projects", "ws">> IN
    [all |-> all, list |-> Append(all, "list"), detail |-> all \o <<"detail", "p">>]

pinKeys == [all |-> <<"pins", "ws", "u">>, list |-> <<"pins", "ws", "u", "list">>]

autopilotKeys ==
    LET all == <<"autopilots", "ws">> IN
    [all |-> all, list |-> Append(all, "list"),
     detail |-> all \o <<"detail", "a">>, runs |-> all \o <<"runs", "a">>]

runtimeKeys ==
    LET all == <<"runtimes", "ws">> IN
    [all |-> all, list |-> Append(all, "list"), listMine |-> all \o <<"list", "mine">>,
     latestVersion |-> <<"runtimes", "latestVersion">>]

chatKeys ==
    LET all == <<"chat", "ws">> IN
    [all |-> all, sessions |-> Append(all, "sessions"), allSessions |-> all \o <<"sessions", "all">>,
     session |-> all \o <<"session", "s">>,
     messages |-> <<"chat", "messages", "s">>, pendingTask |-> <<"chat", "pending-task", "s">>,
     pendingTasks |-> Append(all, "pending-tasks"), taskMessages |-> <<"task-messages", "t">>]

councilKeys ==
    LET all == <<"council", "ws">> IN
    [all |-> all, list |-> Append(all, "list"), pendingCount |-> Append(all, "pending-count"),
     configs |-> Append(all, "configs"), trustScores |-> Append(all, "trust-scores"),
     promotions |-> Append(all, "promotions"), contested |-> Append(all, "contested"),
     dryRuns |-> Append(all, "dry-runs")]

watchKeys ==
    LET all == <<"watch", "ws">> IN
    [all |-> all, list |-> Append(all, "list"), runs |-> all \o <<"runs", "st">>,
     triggers |-> Append(all, "triggers")]

brainDumpKeys ==
    LET all == <<"brain-dumps", "ws">> IN
    [all |-> all, list |-> Append(all, "list"), unprocessedCount |-> Append(all, "unprocessed-count")]

missionKeys ==
    LET all == <<"missions", "ws">> IN
    [all |-> all, list |-> all \o <<"list", "p">>, detail |-> all \o <<"detail", "m">>,
     activeForProject |-> all \o <<"active", "p">>]

goalKeys ==
    LET all == <<"goals", "ws">> IN
    [all |-> all, list |-> Append(all, "list"), chain |-> <<"goals", "chain", "g">>]

shadowKeys ==
    LET all == <<"shadow", "ws">> IN
    [all |-> all, runs |-> Append(all, "runs"), stats |-> Append(all, "stats"),
     configs |-> Append(all, "configs")]

observatoryKeys ==
    [memory |-> <<"observatory", "memory">>, corrections |-> <<"observatory", "corrections", "ws">>,
     patterns |-> <<"observatory", "patterns", "ws">>, health |-> <<"observatory", "health">>,
     profiles |-> <<"observatory", "profiles", "ws">>, sessions |-> <<"observatory", "sessions", "ws">>]

usageKeys ==
    LET all == <<"usage", "ws">> IN
    [daily |-> all \o <<"daily", "d">>, summary |-> all \o <<"summary", "d">>,
     byAgent |-> all \o <<"by-agent", "d">>]

debugKeys ==
    LET all == <<"debug", "ws">> IN
    [all |-> all, timeline |-> all \o <<"timeline", "i">>, forks |-> Append(all, "forks")]

escalationKeys ==
    LET all == <<"escalations", "ws">> IN
    [all |-> all, list |-> Append(all, "list"), count |-> Append(all, "count")]

safetyKeys      == [all |-> <<"safety", "ws">>, config |-> <<"safety", "ws", "config">>]
achievementKeys == [list |-> <<"achievements", "ws", "list">>]
eisenhowerKeys  == [matrix |-> <<"eisenhower", "ws", "matrix">>, counts |-> <<"eisenhower", "ws", "counts">>]

Matches(prefixes, key) == \E p \in prefixes : IsPrefix(p, key)

----------------------------------------------------------------------------
\* Events. An event is <<prefix, name>> for the type "prefix:name"; a third
\* element says of what, where a handler tells it apart. A handler
\* invalidates keys, patches the data of keys that have data, or seeds keys
\* whether they have data or not.

Nothing == [invalidates |-> {}, patches |-> {}, seeds |-> {}]
Invalidating(keys) == [Nothing EXCEPT !.invalidates = keys]

onIssueCreated ==
    [Nothing EXCEPT !.patches = {issueKeys.list},
                    !.invalidates = {issueKeys.myAll, issueKeys.children, issueKeys.childProgress}]

onIssueUpdated_FaultNoList ==
    [Nothing EXCEPT !.patches = {issueKeys.detail, issueKeys.children},
                    !.invalidates = {issueKeys.myAll, issueKeys.childProgress}]

\* The issue keeps its parent, which the list or the issue's own entry names.
onIssueUpdated ==
    [Nothing EXCEPT !.patches = {issueKeys.list, issueKeys.detail, issueKeys.children},
                    !.invalidates = {issueKeys.myAll, issueKeys.childProgress}]

\* The parent is that which the list names, if the list has the issue (listed).
\* What it removes are entries of the deleted issue itself.
onIssueDeleted(listed) ==
    [Nothing EXCEPT !.patches = {issueKeys.list},
                    !.invalidates = {issueKeys.myAll} \cup
                        IF listed THEN {issueKeys.children, issueKeys.childProgress} ELSE {}]

onInboxNew               == Invalidating({inboxKeys.list})
onInboxInvalidate        == {inboxKeys.list}
onInboxIssueStatusChanged == {inboxKeys.list}

unsubIssueUpdated ==
    [onIssueUpdated EXCEPT !.patches = onIssueUpdated.patches \cup onInboxIssueStatusChanged]

invalidateTimeline == Invalidating({issueKeys.timeline})
invalidateReactions == Invalidating({issueKeys.reactions})
invalidateSubscribers == Invalidating({issueKeys.subscribers})

\* The events of the user itself: it is the one who is added.
unsubMemberAdded == Invalidating({workspaceKeys.list, workspaceKeys.myInvitations})
unsubInvitationCreated  == Invalidating({workspaceKeys.myInvitations})
unsubInvitationAccepted == Invalidating({workspaceKeys.invitations, workspaceKeys.members})
unsubInvitationDeclined == Invalidating({workspaceKeys.invitations})
unsubInvitationRevoked  == Invalidating({workspaceKeys.myInvitations})

unsubTaskMessage == [Nothing EXCEPT !.seeds = {chatKeys.taskMessages}]
invalidatePendingAggregate == {chatKeys.pendingTasks}
invalidateSessionLists == {chatKeys.sessions, chatKeys.allSessions}

unsubChatMessage ==
    Invalidating({chatKeys.messages, chatKeys.pendingTask} \cup invalidatePendingAggregate)

unsubChatDone ==
    [Nothing EXCEPT !.seeds = {chatKeys.pendingTask},
                    !.invalidates = {chatKeys.messages, chatKeys.pendingTask}
                                        \cup invalidatePendingAggregate \cup invalidateSessionLists]

unsubTaskCompleted ==
    [Nothing EXCEPT !.seeds = {chatKeys.pendingTask},
                    !.invalidates = {chatKeys.messages, chatKeys.pendingTask}
                                        \cup invalidatePendingAggregate]

unsubTaskFailed ==
    [Nothing EXCEPT !.seeds = {chatKeys.pendingTask},
                    !.invalidates = {chatKeys.pendingTask} \cup invalidatePendingAggregate]

unsubChatSessionRead == Invalidating(invalidateSessionLists)

\* ws.on: what the handler of an event's type does to the cache.
Handled(event) ==
    CASE event = <<"issue", "created">> -> onIssueCreated
      [] event = <<"issue", "updated">> -> unsubIssueUpdated
      [] event = <<"issue", "deleted">> -> onIssueDeleted(TRUE)
      [] event = <<"issue", "deleted", "unlisted">> -> onIssueDeleted(FALSE)
      [] event = <<"inbox", "new">> -> onInboxNew
      [] event[1] \in {"comment", "activity", "reaction"} -> invalidateTimeline
      [] event[1] = "issue_reaction" -> invalidateReactions
      [] event[1] = "subscriber" -> invalidateSubscribers
      [] event = <<"member", "added">> -> unsubMemberAdded
      [] event = <<"invitation", "created">> -> unsubInvitationCreated
      [] event = <<"invitation", "accepted">> -> unsubInvitationAccepted
      [] event = <<"invitation", "declined">> -> unsubInvitationDeclined
      [] event = <<"invitation", "revoked">> -> unsubInvitationRevoked
      [] event = <<"task", "message">> -> unsubTaskMessage
      [] event = <<"task", "completed">> -> unsubTaskCompleted
      [] event = <<"task", "failed">> -> unsubTaskFailed
      [] event = <<"chat", "message">> -> unsubChatMessage
      [] event = <<"chat", "done">> -> unsubChatDone
      [] event = <<"chat", "session_read">> -> unsubChatSessionRead
      [] OTHER -> Nothing

\* Events that ws.onAny leaves to the handlers above.
specificEvents ==
    {<<"issue", "updated">>, <<"issue", "created">>, <<"issue", "deleted">>,
     <<"issue", "deleted", "unlisted">>, <<"inbox", "new">>,
     <<"comment", "created">>, <<"comment", "updated">>, <<"comment", "deleted">>,
     <<"activity", "created">>, <<"reaction", "added">>, <<"reaction", "removed">>,
     <<"issue_reaction", "added">>, <<"issue_reaction", "removed">>,
     <<"subscriber", "added">>, <<"subscriber", "removed">>, <<"daemon", "heartbeat">>,
     <<"chat", "message">>, <<"chat", "done">>, <<"chat", "session_read">>,
     <<"task", "message">>, <<"task", "completed">>, <<"task", "failed">>}

\* What ws.onAny refreshes, 100 ms after the last event of the prefix.
refreshMap ==
    [inbox |-> onInboxInvalidate, agent |-> {workspaceKeys.agents}, member |-> {workspaceKeys.members},
     workspace |-> {workspaceKeys.list}, skill |-> {workspaceKeys.skills}, project |-> {projectKeys.all},
     pin |-> {pinKeys.all}, daemon |-> {runtimeKeys.all}, autopilot |-> {autopilotKeys.all}]

\* The pages of an issue patch its entries while they are mounted.
useIssueTimeline    == {issueKeys.timeline}
useIssueReactions   == {issueKeys.reactions}
useIssueSubscribers == {issueKeys.subscribers}
PagePatches == useIssueTimeline \cup useIssueReactions \cup useIssueSubscribers

onReconnect_FaultNoInbox ==
    {issueKeys.all, workspaceKeys.agents, workspaceKeys.members, workspaceKeys.skills,
     projectKeys.all, runtimeKeys.all, autopilotKeys.all, chatKeys.all, workspaceKeys.list}

\* What a reconnected client invalidates, and what the mounted pages add.
onReconnect ==
    {issueKeys.all, inboxKeys.all, workspaceKeys.agents, workspaceKeys.members, workspaceKeys.skills,
     projectKeys.all, runtimeKeys.all, autopilotKeys.all, chatKeys.all, workspaceKeys.list}

useWSReconnect == PagePatches

\* The events that the server publishes when what a key reads is changed by
\* anything but a hook that touches the key, whether a handler hears them or
\* not.
IssueEvents ==
    {<<"issue", "created">>, <<"issue", "updated">>, <<"issue", "deleted">>,
     <<"issue", "deleted", "unlisted">>, <<"issue", "claimed">>, <<"issue", "unclaimed">>}

ProjectEvents == {<<"project", "created">>, <<"project", "updated">>, <<"project", "deleted">>}

Announced(key) ==
    CASE key \in {issueKeys.list, issueKeys.myList} -> IssueEvents \cup {<<"project", "deleted">>}
      [] key = issueKeys.detail ->
             {<<"issue", "updated">>, <<"issue", "claimed">>, <<"issue", "unclaimed">>,
              <<"project", "deleted">>}
      [] key \in {issueKeys.children, issueKeys.childProgress} -> IssueEvents
      [] key = issueKeys.timeline ->
             {<<"comment", "created">>, <<"comment", "updated">>, <<"comment", "deleted">>,
              <<"activity", "created">>, <<"reaction", "added">>, <<"reaction", "removed">>}
      [] key = issueKeys.reactions -> {<<"issue_reaction", "added">>, <<"issue_reaction", "removed">>}
      [] key = issueKeys.subscribers -> {<<"subscriber", "added">>, <<"subscriber", "removed">>}
      [] key = inboxKeys.list ->
             {<<"inbox", "new">>, <<"inbox", "read">>, <<"issue", "updated">>, <<"issue", "deleted">>}
      [] key = workspaceKeys.agents ->
             {<<"agent", "status">>, <<"agent", "created">>, <<"skill", "updated">>, <<"skill", "deleted">>}
      [] key = workspaceKeys.members ->
             {<<"member", "added">>, <<"member", "updated">>, <<"invitation", "accepted">>}
      [] key = workspaceKeys.skills -> {<<"skill", "created">>}
      [] key = workspaceKeys.list -> {<<"workspace", "updated">>, <<"member", "added">>}
      [] key = workspaceKeys.invitations ->
             {<<"invitation", "created">>, <<"invitation", "accepted">>, <<"invitation", "declined">>,
              <<"invitation", "revoked">>}
      [] key = workspaceKeys.myInvitations ->
             {<<"invitation", "created">>, <<"invitation", "declined">>, <<"invitation", "revoked">>,
              <<"member", "added">>}
      [] key = workspaceKeys.assigneeFrequency -> IssueEvents
      [] key \in {projectKeys.list, projectKeys.detail} -> ProjectEvents \cup IssueEvents
      [] key = pinKeys.list ->
             {<<"pin", "created">>, <<"pin", "deleted">>, <<"issue", "updated">>, <<"issue", "deleted">>,
              <<"project", "updated">>, <<"project", "deleted">>}
      [] key \in {runtimeKeys.list, runtimeKeys.listMine} -> {<<"daemon", "register">>}
      [] key \in {autopilotKeys.list, autopilotKeys.detail} ->
             {<<"autopilot", "updated">>, <<"autopilot", "run_start">>}
      [] key = autopilotKeys.runs -> {<<"autopilot", "run_start">>, <<"autopilot", "run_done">>}
      [] key \in {chatKeys.sessions, chatKeys.allSessions} ->
             {<<"chat", "message">>, <<"chat", "done">>, <<"chat", "session_read">>}
      [] key = chatKeys.messages -> {<<"chat", "message">>, <<"chat", "done">>}
      [] key \in {chatKeys.pendingTask, chatKeys.pendingTasks} ->
             {<<"chat", "message">>, <<"chat", "done">>, <<"task", "dispatch">>,
              <<"task", "completed">>, <<"task", "failed">>, <<"task", "cancelled">>}
      [] key = chatKeys.taskMessages -> {<<"task", "message">>}
      [] key \in {councilKeys.list, councilKeys.pendingCount, councilKeys.contested,
                  councilKeys.dryRuns, councilKeys.trustScores} ->
             {<<"approval", "created">>, <<"approval", "decided">>, <<"approval", "debated">>}
      [] key \in {watchKeys.list, watchKeys.runs} -> {<<"watch", "fired">>}
      [] key = watchKeys.triggers -> {<<"watch", "trigger_fired">>}
      [] key = goalKeys.list -> {<<"goal", "created">>}
      [] key = safetyKeys.config -> {<<"safety", "emergency_stop">>, <<"safety", "resume">>}
      [] key = achievementKeys.list -> {<<"achievement", "unlocked">>}
      [] key \in {eisenhowerKeys.matrix, eisenhowerKeys.counts} -> IssueEvents
      [] OTHER -> {}

\* Those of them that nobody listens for: types without a handler, and events
\* whose handlers leave this key alone.
Unheard(key) ==
    {event \in Announced(key) :
        event[1] \in {"approval", "watch", "goal", "safety", "achievement"}}
    \cup (Announced(key) \cap
            ({<<"issue", "claimed">>, <<"issue", "unclaimed">>,
              <<"task", "dispatch">>, <<"task", "cancelled">>}
             \cup
             CASE key \in {issueKeys.list, issueKeys.myList, issueKeys.detail} -> {<<"project", "deleted">>}
               [] key \in {issueKeys.children, issueKeys.childProgress} ->
                      {<<"issue", "deleted", "unlisted">>}
               [] key = inboxKeys.list -> {<<"issue", "deleted">>}
               [] key = workspaceKeys.agents -> {<<"skill", "updated">>, <<"skill", "deleted">>}
               [] key = workspaceKeys.invitations ->
                      {<<"invitation", "created">>, <<"invitation", "revoked">>}
               [] key = workspaceKeys.myInvitations -> {<<"invitation", "declined">>}
               [] key \in {chatKeys.sessions, chatKeys.allSessions} -> {<<"chat", "message">>}
               [] key = pinKeys.list -> IssueEvents \cup ProjectEvents
               [] key \in {projectKeys.list, projectKeys.detail, workspaceKeys.assigneeFrequency,
                           eisenhowerKeys.matrix, eisenhowerKeys.counts} -> IssueEvents
               [] OTHER -> {}))

=============================================================================
