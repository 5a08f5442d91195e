----------------------------- MODULE QueryOptions ------------------------------
(****************************************************************************)
(* The queries of the clients: the key of each, and whether time makes its  *)
(* data old. Data stays fresh until it is invalidated (query-client.ts),    *)
(* unless the query has a staleTime, after which the focus of the window or *)
(* the mount of a component refetches it, or is polled (refetchInterval).   *)
(****************************************************************************)
EXTENDS QueryTables

Lasting(key) == [key |-> key, timed |-> FALSE]
Aging(key)   == [key |-> key, timed |-> TRUE]

----------------------------------------------------------------------------

issueListOptions          == Lasting(issueKeys.list)
myIssueListOptions        == Lasting(issueKeys.myList)
issueDetailOptions        == Lasting(issueKeys.detail)
childIssueProgressOptions == Lasting(issueKeys.childProgress)
childIssuesOptions        == Lasting(issueKeys.children)
issueTimelineOptions      == Lasting(issueKeys.timeline)
issueReactionsOptions     == Lasting(issueKeys.reactions)
issueSubscribersOptions   == Lasting(issueKeys.subscribers)
issueUsageOptions         == Lasting(issueKeys.usage)

inboxListOptions == Lasting(inboxKeys.list)

workspaceListOptions     == Lasting(workspaceKeys.list)
memberListOptions        == Lasting(workspaceKeys.members)
agentListOptions         == Lasting(workspaceKeys.agents)
skillListOptions         == Lasting(workspaceKeys.skills)
invitationListOptions    == Lasting(workspaceKeys.invitations)
myInvitationListOptions  == Lasting(workspaceKeys.myInvitations)
assigneeFrequencyOptions == Lasting(workspaceKeys.assigneeFrequency)

projectListOptions   == Lasting(projectKeys.list)
projectDetailOptions == Lasting(projectKeys.detail)
pinListOptions       == Lasting(pinKeys.list)

autopilotListOptions   == Lasting(autopilotKeys.list)
autopilotDetailOptions == Lasting(autopilotKeys.detail)
autopilotRunsOptions   == Lasting(autopilotKeys.runs)

runtimeListOptions(owner) == Lasting(IF owner = "me" THEN runtimeKeys.listMine ELSE runtimeKeys.list)
latestCliVersionOptions   == Aging(runtimeKeys.latestVersion)

chatSessionsOptions     == Lasting(chatKeys.sessions)
allChatSessionsOptions  == Lasting(chatKeys.allSessions)
chatSessionOptions      == Lasting(chatKeys.session)
chatMessagesOptions     == Aging(chatKeys.messages)
pendingChatTaskOptions  == Aging(chatKeys.pendingTask)
taskMessagesOptions     == Lasting(chatKeys.taskMessages)
pendingChatTasksOptions == Aging(chatKeys.pendingTasks)

approvalListOptions         == Lasting(councilKeys.list)
pendingApprovalCountOptions == Aging(councilKeys.pendingCount)
approvalConfigsOptions      == Lasting(councilKeys.configs)
trustScoresOptions          == Lasting(councilKeys.trustScores)
promotionSuggestionsOptions == Aging(councilKeys.promotions)
contestedApprovalsOptions   == Aging(councilKeys.contested)
dryRunApprovalsOptions      == Lasting(councilKeys.dryRuns)

scheduledTaskListOptions == Lasting(watchKeys.list)
scheduledTaskRunsOptions == Lasting(watchKeys.runs)
eventTriggerListOptions  == Lasting(watchKeys.triggers)

brainDumpListOptions             == Lasting(brainDumpKeys.list)
brainDumpUnprocessedCountOptions == Lasting(brainDumpKeys.unprocessedCount)

missionListOptions   == Lasting(missionKeys.list)
missionDetailOptions == Lasting(missionKeys.detail)

\* Its refetchInterval reads the status of the mission that select picks, but
\* is given the answer that the cache keeps, which has none: it never polls.
activeMissionOptions == Lasting(missionKeys.activeForProject)

goalsOptions     == Lasting(goalKeys.list)
goalChainOptions == Lasting(goalKeys.chain)

shadowRunsOptions    == Lasting(shadowKeys.runs)
shadowStatsOptions   == Lasting(shadowKeys.stats)
shadowConfigsOptions == Lasting(shadowKeys.configs)

safetyConfigOptions     == Lasting(safetyKeys.config)
debugTimelineOptions    == Lasting(debugKeys.timeline)
debugForksOptions       == Lasting(debugKeys.forks)
escalationListOptions   == Aging(escalationKeys.list)
escalationCountOptions  == Aging(escalationKeys.count)
achievementsOptions     == Lasting(achievementKeys.list)
eisenhowerMatrixOptions == Lasting(eisenhowerKeys.matrix)
eisenhowerCountsOptions == Lasting(eisenhowerKeys.counts)

observatoryMemoryOptions      == Aging(observatoryKeys.memory)
observatoryCorrectionsOptions == Aging(observatoryKeys.corrections)
observatoryPatternsOptions    == Aging(observatoryKeys.patterns)
observatoryHealthOptions      == Aging(observatoryKeys.health)
observatoryProfilesOptions    == Aging(observatoryKeys.profiles)
observatorySessionsOptions    == Aging(observatoryKeys.sessions)

usageDailyOptions   == Lasting(usageKeys.daily)
usageSummaryOptions == Lasting(usageKeys.summary)
usageByAgentOptions == Lasting(usageKeys.byAgent)

----------------------------------------------------------------------------

Queries ==
    {issueListOptions, myIssueListOptions, issueDetailOptions, childIssueProgressOptions,
     childIssuesOptions, issueTimelineOptions, issueReactionsOptions, issueSubscribersOptions,
     issueUsageOptions, inboxListOptions, workspaceListOptions, memberListOptions, agentListOptions,
     skillListOptions, invitationListOptions, myInvitationListOptions, assigneeFrequencyOptions,
     projectListOptions, projectDetailOptions, pinListOptions, autopilotListOptions,
     autopilotDetailOptions, autopilotRunsOptions, runtimeListOptions("me"), runtimeListOptions("all"),
     latestCliVersionOptions, chatSessionsOptions, allChatSessionsOptions, chatSessionOptions,
     chatMessagesOptions, pendingChatTaskOptions, taskMessagesOptions, pendingChatTasksOptions,
     approvalListOptions, pendingApprovalCountOptions, approvalConfigsOptions, trustScoresOptions,
     promotionSuggestionsOptions, contestedApprovalsOptions, dryRunApprovalsOptions,
     scheduledTaskListOptions, scheduledTaskRunsOptions, eventTriggerListOptions,
     brainDumpListOptions, brainDumpUnprocessedCountOptions, missionListOptions, missionDetailOptions,
     activeMissionOptions, goalsOptions, goalChainOptions, shadowRunsOptions, shadowStatsOptions,
     shadowConfigsOptions, safetyConfigOptions, debugTimelineOptions, debugForksOptions,
     escalationListOptions, escalationCountOptions, achievementsOptions, eisenhowerMatrixOptions,
     eisenhowerCountsOptions, observatoryMemoryOptions, observatoryCorrectionsOptions,
     observatoryPatternsOptions, observatoryHealthOptions, observatoryProfilesOptions,
     observatorySessionsOptions, usageDailyOptions, usageSummaryOptions, usageByAgentOptions}

QueryKeys == {q.key : q \in Queries}
TimedKeys == {q.key : q \in {r \in Queries : r.timed}}

=============================================================================
