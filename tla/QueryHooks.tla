------------------------------ MODULE QueryHooks ------------------------------
(****************************************************************************)
(* The mutation hooks, as the query keys each of them touches: those whose  *)
(* fetch it cancels and whose data it edits before the request (edits only  *)
(* where there is data, seeds in any case), those it adds the answer to     *)
(* (plants in any case), and those it invalidates once the request has      *)
(* succeeded or has settled.                                                *)
(* announces: the event that the server publishes for the request.          *)
(****************************************************************************)
EXTENDS QueryTables

Inert == [cancels |-> {}, edits |-> {}, seeds |-> {}, adds |-> {}, plants |-> {}, succeeds |-> {},
          settles |-> {}, announces |-> {}]

\* Hooks that only refetch when their request has settled.
Settling(keys, events) == [Inert EXCEPT !.settles = keys, !.announces = events]

\* Hooks that snapshot and edit keys at once, and restore them if they fail.
Optimistic(keys, events) ==
    [Inert EXCEPT !.cancels = keys, !.edits = keys, !.settles = keys, !.announces = events]

\* Hooks that put the created object into a list.
Creating(keys, events) == [Inert EXCEPT !.adds = keys, !.settles = keys, !.announces = events]

----------------------------------------------------------------------------
\* Issues

useCreateIssue ==
    [Creating({issueKeys.list}, {<<"issue", "created">>}) EXCEPT
        !.succeeds = {issueKeys.children, issueKeys.childProgress}]

useUpdateIssue ==
    [Optimistic({issueKeys.list, issueKeys.detail, issueKeys.children}, {<<"issue", "updated">>}) EXCEPT
        !.cancels = {issueKeys.list},
        !.settles = {issueKeys.list, issueKeys.detail, issueKeys.children, issueKeys.childProgress}]

\* The parent is that which the list names, if it has the issue (listed). What
\* is removed is the entry of the deleted issue.
useDeleteIssue(listed) ==
    IF listed
    THEN [Optimistic({issueKeys.list}, {<<"issue", "deleted">>}) EXCEPT
             !.settles = {issueKeys.list, issueKeys.children, issueKeys.childProgress}]
    ELSE Optimistic({issueKeys.list}, {<<"issue", "deleted", "unlisted">>})

useBatchUpdateIssues == Optimistic({issueKeys.list}, {<<"issue", "updated">>})

\* The same of the parents of all.
useBatchDeleteIssues(listed) == useDeleteIssue(listed)

useCreateComment == Creating({issueKeys.timeline}, {<<"comment", "created">>})
useUpdateComment == Optimistic({issueKeys.timeline}, {<<"comment", "updated">>})
useDeleteComment == Optimistic({issueKeys.timeline}, {<<"comment", "deleted">>})
useToggleCommentReaction == Settling({issueKeys.timeline}, {<<"reaction", "added">>})
useToggleIssueReaction   == Settling({issueKeys.reactions}, {<<"issue_reaction", "added">>})

useToggleIssueSubscriber ==
    [Optimistic({issueKeys.subscribers}, {<<"subscriber", "added">>}) EXCEPT
        !.edits = {}, !.seeds = {issueKeys.subscribers}]

----------------------------------------------------------------------------
\* Inbox

useMarkInboxRead    == Optimistic({inboxKeys.list}, {<<"inbox", "read">>})
useArchiveInbox     == Optimistic({inboxKeys.list}, {<<"inbox", "archived">>})
useMarkAllInboxRead == Optimistic({inboxKeys.list}, {<<"inbox", "batch-read">>})
useArchiveAllInbox       == Settling({inboxKeys.list}, {<<"inbox", "batch-archived">>})
useArchiveAllReadInbox   == Settling({inboxKeys.list}, {<<"inbox", "batch-archived">>})
useArchiveCompletedInbox == Settling({inboxKeys.list}, {<<"inbox", "batch-archived">>})

----------------------------------------------------------------------------
\* Projects, pins, autopilots, runtimes, workspaces, chat

useCreateProject == Creating({projectKeys.list}, {<<"project", "created">>})

useUpdateProject ==
    [Optimistic({projectKeys.list, projectKeys.detail}, {<<"project", "updated">>}) EXCEPT
        !.cancels = {projectKeys.list}]

useDeleteProject == Optimistic({projectKeys.list}, {<<"project", "deleted">>})

useCreatePin ==
    [Inert EXCEPT !.plants = {pinKeys.list}, !.settles = {pinKeys.list},
                  !.announces = {<<"pin", "created">>}]
useDeletePin == Optimistic({pinKeys.list}, {<<"pin", "deleted">>})

\* It writes the list even when there is none, does not refetch, and the
\* server announces nothing.
useReorderPins == [Inert EXCEPT !.cancels = {pinKeys.list}, !.seeds = {pinKeys.list}]

useCreateAutopilot == Creating({autopilotKeys.list}, {<<"autopilot", "created">>})

useUpdateAutopilot ==
    [Optimistic({autopilotKeys.list, autopilotKeys.detail}, {<<"autopilot", "updated">>}) EXCEPT
        !.cancels = {autopilotKeys.list}]

useDeleteAutopilot  == Optimistic({autopilotKeys.list}, {<<"autopilot", "deleted">>})
useTriggerAutopilot ==
    Settling({autopilotKeys.runs, autopilotKeys.detail}, {<<"autopilot", "run_start">>})
useCreateAutopilotTrigger == Settling({autopilotKeys.detail}, {<<"autopilot", "updated">>})
useUpdateAutopilotTrigger == Settling({autopilotKeys.detail}, {<<"autopilot", "updated">>})
useDeleteAutopilotTrigger == Settling({autopilotKeys.detail}, {<<"autopilot", "updated">>})

useDeleteRuntime == Settling({runtimeKeys.all}, {<<"daemon", "register">>})

useCreateWorkspace == [Inert EXCEPT !.plants = {workspaceKeys.list}, !.settles = {workspaceKeys.list}]
useLeaveWorkspace  == Settling({workspaceKeys.list}, {<<"member", "removed">>})
useDeleteWorkspace == Settling({workspaceKeys.list}, {<<"workspace", "deleted">>})

useCreateChatSession   == Settling(invalidateSessionLists, {})
useMarkChatSessionRead == Optimistic(invalidateSessionLists, {<<"chat", "session_read">>})
useArchiveChatSession  == Optimistic(invalidateSessionLists, {})

----------------------------------------------------------------------------
\* Approvals, scheduled tasks, brain dumps and the other pages: nothing that
\* the server publishes about them is heard.

useApproveApproval      == Settling({councilKeys.all}, {})
useRejectApproval       == Settling({councilKeys.all}, {})
useUpdateApprovalConfig == Settling({councilKeys.configs}, {})
useSetAutoApprove       == Settling({councilKeys.configs}, {})
useDismissPromotion     == Settling({councilKeys.all}, {})
useAcceptPromotion      == Settling({councilKeys.all}, {})
useExecuteDryRun        == Settling({councilKeys.all}, {})
useUpdateApprovalConfigDryRun == Settling({councilKeys.configs}, {})
useBatchApproveApprovals == Settling({councilKeys.all}, {})
useBatchRejectApprovals  == Settling({councilKeys.all}, {})

useCreateScheduledTask  == Settling({watchKeys.all}, {})
useUpdateScheduledTask  == Settling({watchKeys.all}, {})
useDeleteScheduledTask  == Settling({watchKeys.all}, {})
useToggleScheduledTask  == Settling({watchKeys.all}, {})
useTriggerScheduledTask == Settling({watchKeys.all}, {})
useCreateEventTrigger   == Settling({watchKeys.triggers}, {})
useUpdateEventTrigger   == Settling({watchKeys.triggers}, {})
useDeleteEventTrigger   == Settling({watchKeys.triggers}, {})
useToggleEventTrigger   == Settling({watchKeys.triggers}, {})

\* They write the list even when there is none.
useCreateBrainDump ==
    [Optimistic({brainDumpKeys.list}, {}) EXCEPT
        !.edits = {}, !.seeds = {brainDumpKeys.list},
        !.settles = {brainDumpKeys.list, brainDumpKeys.unprocessedCount}]
useProcessBrainDump == Settling({brainDumpKeys.list, brainDumpKeys.unprocessedCount}, {})
useDeleteBrainDump == useCreateBrainDump

useStartMission == Settling({missionKeys.activeForProject, missionKeys.list}, {})
useStopMission  == Settling({missionKeys.all}, {})

useUpdateSafetyConfig      == Settling({safetyKeys.all}, {})
useActivateEmergencyStop   == Settling({safetyKeys.all}, {})
useDeactivateEmergencyStop == Settling({safetyKeys.all}, {})

useRateShadowRun      == Settling({shadowKeys.all}, {})
useUpsertShadowConfig == Settling({shadowKeys.configs}, {})
useDeleteShadowConfig == Settling({shadowKeys.configs}, {})

useCreateFork        == Settling({debugKeys.all}, {})
useResolveEscalation == Settling({escalationKeys.all}, {})

\* They refetch only if the request has succeeded.
useCreateGoal   == [Inert EXCEPT !.succeeds = {goalKeys.all}]
useSetIssueGoal == [Inert EXCEPT !.succeeds = {goalKeys.all, issueKeys.detail}]

----------------------------------------------------------------------------

Hooks ==
    {useCreateIssue, useUpdateIssue, useDeleteIssue(TRUE), useDeleteIssue(FALSE),
     useBatchUpdateIssues, useBatchDeleteIssues(TRUE), useBatchDeleteIssues(FALSE),
     useCreateComment, useUpdateComment, useDeleteComment, useToggleCommentReaction,
     useToggleIssueReaction, useToggleIssueSubscriber,
     useMarkInboxRead, useArchiveInbox, useMarkAllInboxRead, useArchiveAllInbox,
     useArchiveAllReadInbox, useArchiveCompletedInbox,
     useCreateProject, useUpdateProject, useDeleteProject, useCreatePin, useDeletePin, useReorderPins,
     useCreateAutopilot, useUpdateAutopilot, useDeleteAutopilot, useTriggerAutopilot,
     useCreateAutopilotTrigger, useUpdateAutopilotTrigger, useDeleteAutopilotTrigger,
     useDeleteRuntime, useCreateWorkspace, useLeaveWorkspace, useDeleteWorkspace,
     useCreateChatSession, useMarkChatSessionRead, useArchiveChatSession,
     useApproveApproval, useRejectApproval, useUpdateApprovalConfig, useSetAutoApprove,
     useDismissPromotion, useAcceptPromotion, useExecuteDryRun, useUpdateApprovalConfigDryRun,
     useBatchApproveApprovals, useBatchRejectApprovals,
     useCreateScheduledTask, useUpdateScheduledTask, useDeleteScheduledTask, useToggleScheduledTask,
     useTriggerScheduledTask, useCreateEventTrigger, useUpdateEventTrigger, useDeleteEventTrigger,
     useToggleEventTrigger, useCreateBrainDump, useProcessBrainDump, useDeleteBrainDump,
     useStartMission, useStopMission, useUpdateSafetyConfig, useActivateEmergencyStop,
     useDeactivateEmergencyStop, useRateShadowRun, useUpsertShadowConfig, useDeleteShadowConfig,
     useCreateFork, useResolveEscalation, useCreateGoal, useSetIssueGoal}

\* What a hook does to the entry of one key.
Effect(hook, key) ==
    [cancels   |-> Matches(hook.cancels, key),
     edits     |-> key \in hook.edits,
     seeds     |-> key \in hook.seeds,
     adds      |-> key \in hook.adds,
     plants    |-> key \in hook.plants,
     succeeds  |-> Matches(hook.succeeds, key),
     settles   |-> Matches(hook.settles, key),
     announces |-> hook.announces]

Touches(effect) ==
    effect.cancels \/ effect.edits \/ effect.seeds \/ effect.adds \/ effect.plants
        \/ effect.succeeds \/ effect.settles

Effects(key) == {Effect(hook, key) : hook \in Hooks}

=============================================================================
