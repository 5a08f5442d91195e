# Verification of Multica

TLA+ models of the concurrent core of this repository: the Go server under
`server/`, the agent daemon, the realtime cache of the web and desktop clients
(`packages/core`, `packages/views`) and the desktop application's management of
its daemon (`apps/desktop`). TLC checks the models on small instances, and TLAPS
proves the most important invariants of the server and the daemon for every
value of the constants. Paths of Go and SQL files are relative to `src/server/`,
the others start with `src/`.

## 1. The system

Users assign issues to agents, mention agents in comments and chat with them.
The server turns each of these into a row of `agent_task_queue`. A daemon on a
user's machine registers one runtime per provider it finds, polls the server
for tasks of its runtimes, runs an external agent program for each one and
reports the outcome. Everything the server knows is in PostgreSQL, except two
small stores of pings and CLI updates, which are in memory. No handler of the
task queue opens a transaction, so between any two SQL statements of a request
the statements of other requests, of the sweeper and of the scheduler may run.

| Component | State | Operations | Interacts through | What makes it correct |
| --- | --- | --- | --- | --- |
| Task queue (`internal/service/task.go`, `pkg/db/queries/agent.sql`, the handlers of issues, comments, chats, agents, loop detection, daemons) | `agent_task_queue`, `agent`, `issue`, `loop_detection` | enqueue, claim, start, complete, fail, continue, cancel, reassign, archive, migrate | the tables; HTTP calls of browsers and daemons | a task moves forward only; tasks of one (issue, agent) never overlap; capacity; no lost or doubled delivery; the queue follows the issue |
| Runtime sweeper (`cmd/server/runtime_sweeper.go`) | none of its own | mark stale runtimes offline, fail their tasks, fail timed-out tasks, reset issues, collect old runtimes | the same tables, one goroutine | every task underway ends; no issue is left in progress with nobody working on it |
| Pings and CLI updates (`internal/handler/runtime_ping.go`, `runtime_update.go`, `internal/daemon/daemon.go`) | two maps behind mutexes; the daemon's `updating` flag | create, poll, pop with a heartbeat, report | HTTP polling from both sides | at most one update at a time; a request is handed out once; what is reported as a timeout is one; nothing blocks for ever |
| Autopilot (`internal/service/autopilot.go`, `cmd/server/autopilot_scheduler.go`, `autopilot_listeners.go`) | `autopilot`, `autopilot_trigger`, `autopilot_run` | trigger, tick, dispatch, link, synchronise | the tables; events of tasks and issues, delivered synchronously | one run per tick; the concurrency policy; a trigger is armed again; a run ends with its job |
| Agent daemon (`internal/daemon`) | runtimes, slots, local working copies | poll loop, task execution, cancellation watch, reload, collection | HTTP calls to the server | slots are returned; a cancelled task is stopped |
| Realtime client and query cache (`src/packages/core/realtime`, `api/ws-client.ts`, `query-client.ts`, every `queries.ts`) | one cache entry per query, the connection, armed timers | connect, reconnect, react to an event, debounce, fetch, collect | the events of the server, the query keys | nothing that is displayed is old and looks fresh |
| Mutation hooks (every `mutations.ts` of `src/packages/core`) | what a hook edited and would restore | cancel, edit, request, add the answer, roll back, refetch | the query cache, HTTP, the events of their own changes | an edit that was refused disappears; one that was accepted stays |
| Issue page hooks (`src/packages/views/issues/hooks`) | none of their own | patch entries on events, refetch after a reconnection | the query cache | as above |
| Live cards (`src/packages/views/issues/components/agent-live-card.tsx`) | the cards and which messages were seen | load, dispatch, message, end | two endpoints, four events | one card per task at work, each message once |
| Chat page (`src/packages/views/chat`, `src/packages/core/chat/store.ts`) | the active session and the pending task | send, stop, switch, poll | the store, the cache, the events | the indicator follows the agent |
| Desktop daemon manager (`src/apps/desktop/src/main/daemon-manager.ts`, `renderer/src/App.tsx`) | status, guard, PAT, sidecar | sync token, clear token, start, stop, restart, poll | IPC, files, the CLI, /health | the daemon runs with the credentials of the user, and only then |
| Session stores (`src/packages/core/auth/store.ts`, `platform/auth-initializer.tsx`) | the token, the user | log in, deep link, initialise, log out | local storage, HTTP | one session at a time |
| Realtime hub and bus (`internal/realtime`, `internal/events`) | rooms, client buffers | register, broadcast, evict | channels, synchronous callbacks | a slow client blocks nobody |
| Approvals, missions, scheduled tasks, invitations, listeners that only insert rows | their tables | mostly single statements | the tables | the rows |
| API client, pages, view stores | form state, what is selected | setters, one request per method | HTTP, the cache | markup and layout |
| CLI, agent back ends, repository cache | processes, files | | HTTP, processes | not protocol logic of this system |

What is hard in it, and therefore what the models are about:

- **Interleaving of statements.** Claims, capacity checks, reassignment,
  archiving, status reconciliation and autopilot dispatch are each several
  statements without a transaction or a lock between them.
- **READ COMMITTED.** `ClaimAgentTask` is one statement, but its inner `SELECT`
  evaluates `NOT EXISTS` in a snapshot and its row lock comes later.
- **Lost and late messages.** The response to a claim or a heartbeat may be
  lost when the row has already changed; daemons report on tasks that the
  sweeper or a user has ended; updates report after their timeout.
- **Crashes.** Requests in flight vanish with the server, as do the in-memory
  stores; a daemon that dies reports nothing.
- **Retries.** A failed task is continued automatically, up to a limit and
  unless loop detection escalates.
- **Answers against events.** A client learns of a change from the answer to its
  own request, from an event and from a refetch, in any order, and cancelling a
  fetch or rolling back an edit restores what was there before.
- **Several sources of one truth.** The chat indicator is kept in a store, in a
  query and by a poll that overwrite one another; the user of a desktop daemon is
  in the token store, in two files and in a running process.

`PROJECT.json` lists the hazards one by one, with the line where each one bites
and the properties that would notice.

## 2. The modules

    TaskLifecycle          abstract: atomic operations on tasks
        ^ refined by
    TaskStore  <-- TaskQueue <-- TaskQueueProperties <-- MCTaskQueue
    (statements)   (goroutines)        ^
                                  TaskQueueProofs <-- TaskHandlingProofs
    RuntimeRequests <-- MCRuntimeRequests, RuntimeRequestsProofs
    Autopilot <-- MCAutopilot, AutopilotProofs
    AgentDaemon <-- MCAgentDaemon, AgentDaemonProofs
        (instantiates TaskLifecycle as its server)

    QueryTables <-- QueryOptions, QueryHooks <-- LiveCache <-- LiveCacheProperties
                                        QueryCache ^
                                                   v
    TaskEvents <-- LiveCard, ChatPage (instantiates QueryCache) <-- TaskPages
                                                   ^
                         LiveCardProofs, ChatPageProofs, MCTaskPages
    DesktopDaemon <-- MCDesktopDaemon, DesktopDaemonProofs

A definition named `X_Fault...` is `X` with a plausible bug. No specification
uses it; it documents what a property would catch.

### TaskStore and TaskQueue

`TaskStore` holds the tables as variables and one operator per SQL statement,
named like the query: `ClaimAgentTask`, `FailStaleTasks`,
`MigrateQueuedTasksToRuntime`, and so on. `TaskQueue` composes them into
processes. Each process of `Handler` is a goroutine of the HTTP server that
serves one request at a time; `Sweeper` is the sweeper. `pc` says which
statement is next and `loc` holds the local variables that the goroutine has
read and will use, so that a value may be stale when it is used. A request that
is one statement is one action (`StartTask`, `BindAgent`, `DaemonHeartbeat`);
the others are a chain:

| Code | Actions |
| --- | --- |
| `EnqueueTaskForIssue`, `EnqueueTaskForMention`, `EnqueueChatTask` | `Comment`, `Mention`, `SendChatMessage`, then `LoadAgent`, `InsertNew` or `InsertRejected` |
| `ClaimTaskForRuntime`, `ClaimTask` | `ClaimTaskForRuntime`, `CheckCapacity`, `SnapshotQueue`, `LockTask` or `LockNothing`, `Deliver` |
| `CompleteTask`, `FailTask`, `CancelTask` | the action of that name, `DetectLoop`, `ContinueTask` or `ContinuationRejected`, `Reconcile`, `SetAgentStatus` |
| `UpdateIssue` | `UpdateIssue`, `WriteIssue`, `CancelOnReassign` and the enqueue, `CancelOnStatus` |
| `ArchiveAgent`, `RestoreAgent`, `UpdateAgent` with a runtime | `ArchiveAgent`, `CancelOnArchive`; `RestoreAgent`; `BindAgent` |
| resolution of a detected loop | `ResolveLoop`, then the enqueue or `SkipIssue` |
| `DaemonRegister`, `DaemonDeregister`, `DaemonHeartbeat` | `DaemonRegister`, `MigrateAgents`, `MigrateTasks`; `DaemonDeregister`; `DaemonHeartbeat` |
| `sweepStaleRuntimes`, `sweepStaleTasks`, `broadcastFailedTasks` | `SweepRuntimes`, `FailOffline`, `FailStale`, `ReadItem`, `CheckActive`, `ResetIssue`, `Reconcile`, `SetAgentStatus` |
| time, lost responses, crashes | `Expire`, `Age`, the second disjunct of `Deliver`, `Crash` |

`ClaimAgentTask` is two steps. `SnapshotQueue` evaluates the inner `SELECT` with
its `NOT EXISTS`. `LockTask` locks and updates one of the rows found if it is
*still queued*: under READ COMMITTED PostgreSQL re-reads the locked row but does
not evaluate the `NOT EXISTS` again for rows of other tasks.

`holder` is the one variable the server does not have: the runtime whose daemon
received the task. Daemons report only on tasks that they received.

Abstractions: priorities are dropped, so any claimable task may be chosen, which
includes the one the code chooses. All runtimes belong to one workspace, owner
and provider, the only ones that exchange work. An assignee is an agent or
nobody. `Age` and `Expire` say that a timeout has passed, at any moment. The
count of failures saturates at the escalation threshold. An insert fails when
no id is left, which is also how an insert that fails for any other reason
looks; the number of ids is the bound of the model.

`TaskLifecycle` is what the queue promises with every operation atomic: create,
claim, start, complete, fail, cancel, where `Create` and `Claim` require that no
other task for the same work is waiting or underway. `ImplementsLifecycle`
states that the queue refines it, with `work` mapped to the (agent, issue) of a
task and to `Free` for a chat task, which nothing serializes.

### RuntimeRequests

The two stores `PingStore` and `UpdateStore`, one action per operation because
each is behind a mutex, and the goroutines of the daemon. `status` is the status
of a request in its store, `work` what the daemon has done about it. `age` is 0,
1 (past the timeout that `Get` applies) or 2 (past the retention that `Create`
applies), and requests age in the order of their creation. The difference
between the two `Get`s is kept: a ping that was popped never times out, an
update does. `Report` overwrites whatever status the request has, as the code
does. `managed` is a daemon that the desktop application launched, which refuses
updates. `polled` are the updates that a page of the browser has an interval
for: it gets one with the answer to its request (which may not come), keeps it
over polls that fail, and drops it at a result or when it unmounts
(`StopPolling`).

### Autopilot

`Caller` are the goroutines of the trigger request, `Scheduler` the scheduler
goroutines of several servers, `Reporter` the goroutines in which a task or an issue
ends and whose event runs the autopilot's listeners. Dispatch is `CheckConcurrency`
or `CancelFails`, `CreateSkippedRun` or `CreatePendingRun`, `CreateJob` or
`CreateJobFails`, `LinkJob` or `FailRun`; `StatementFails` ends it anywhere with the
rows as they are. The scheduler then re-arms the trigger (`AdvanceNextRun`) or fails
to (`LeaveUnarmed`). Two variables are history and no part of the code:
`uncancelled` counts the cancellations of the policy "replace" that failed since the
last that succeeded, and `unarmed` holds the triggers that a tick, or the crash of
its server, left without `next_run_at`. `InTick` are the triggers that a scheduler
has claimed and is not done with. The job is an issue or a task of which only its
end matters: it ends with an event (`EndJob`) or without one (`LoseJob`).
`Disconnect` is a request whose context is cancelled, after which every statement of
it fails, those that would record the failure too.

### AgentDaemon

One daemon: the loop that claims tasks (`poll`, with `left` the runtimes that it
has not tried in this round and `slots` the tokens in its semaphore), and for
each task that it received the goroutine `handleTask` (`job`, `result`) and the
one that polls for a cancellation (`watch`).

| Code | Actions |
| --- | --- |
| `pollLoop` | `BeginRound`, `AcquireSlot`, `Claim` or `ClaimNothing`, `EndRound`, `Wake`; `Drain`, `Stop` |
| `handleTask` | `PickTask`, `StartTask`, `RunEnds` (`runTask`, `executeAndDrain`), `CheckWatch`, `CheckStatus`, `CompleteTask`, `FailTask` |
| its goroutine that polls | `Notice` (`runCancel`), then `CloseWatch` (`close(cancelledByPoll)`) |
| `reloadWorkspaces`, `Run`, `triggerRestart` | `Reload`; `Start`, `Shutdown`, `Crash` |

The server is `TaskLifecycle`, the specification that the task queue is proved to
implement, so every step on `status` is one of its operations: those that the
daemon calls for, and `ServerStep`, what users and the sweeper do. A call may be
lost on its way there, when nothing happens, or back, when it had its effect and
the daemon sees an error. Once the context is cancelled no call is sent at all,
so a daemon that shuts down waits for its handlers but their reports are lost;
the sweeper ends those tasks (`UnderwayEnds`). The serialization of tasks is left
out (`Work` is empty): it is the server's, and `TaskQueue` has it.

### QueryTables, QueryOptions, QueryHooks, QueryCache, LiveCache

The clients keep 70 kinds of query. What each event and each mutation hook does
to them is data in the code (a map of refreshes, lists of keys), and it is data
in the model: `QueryTables` has the query keys, what the handlers of each event
patch or invalidate, the refresh map and the recovery after a reconnection, and
which events the server announces for which key (`Announced`), heard or not
(`Unheard` names those that no handler maps to the key); `QueryOptions` has every
`queryOptions` with what makes its data old; `QueryHooks` has every mutation
hook, as the keys it cancels, edits, seeds, adds to and refetches.

`QueryCache` is one entry of TanStack Query 5.96, as the code uses it: `Mount`,
`Invalidate`, `CancelFetch` (which reverts the entry to what it was before the
fetch), `SetData`, `Succeed`, `Fail`. It is outside the repository and modelled
from how the hooks use it.

`LiveCache` follows the entry of one key, any of them, because entries do not
depend on one another: the initial state chooses `watched`, and the tables say
what reaches it.

| Code | Actions |
| --- | --- |
| `ws-client.ts`, `provider.tsx` | `connect`, `onAuthenticated` (with the recovery of `useRealtimeSync` and of the page hooks), `onclose`, `ReplaceClient` |
| `useRealtimeSync`, the hooks of the issue page | `Receive`, `debouncedRefresh` |
| queries | `MountComponent`, `UnmountComponent`, `Collect`, `TimedRefetch`, `AnswerFetch`, `FetchSucceeds`, `FetchFails` |
| a mutation hook | `onMutate`, `CommitEdit`, `FailEdit`, `onSettled` (with `onSuccess` or `onError`) |
| the server | `ChangeByOthers` (announced; or silent, or by an event without a handler), `Publish`: handlers publish after they write, so that two events may overtake each other |

What a query reads is a function from an item to the write that last changed it:
enough to tell old from new, and a part of a list from the whole. `await
cancelQueries` and the edit that follows are one step. An edit that two hooks
would make at once is the edit of one hook against a change by others.

The variable `lost` is a history. It becomes `"missed"` when events are lost or a
change had none that anybody maps to the key, and `"race"` at the places that
`Joins`, `Clobbers`, `OnlyPatches` and `LeavesUnsettled` define: the races that this
design has, listed in section 3. A fetch whose answer is up to date, or a
reconnection for the keys that it refetches, makes up for the former. `NothingLost`
makes the properties conditional on the absence of what was not made up for: they
say what the mechanism does with the events it handles. That it does not handle all
of them is stated in section 3.

A deleted issue is either among those that the list has or not (`listed`): only
then do the handler of `issue:deleted` and the hooks know its parent, whose
children they refetch. The entries that they remove are the deleted issue's own,
which are not followed.

### TaskEvents, LiveCard, ChatPage, TaskPages

`TaskEvents` has the rows of the tasks as these pages learn of them and the events
on their way (`wire`), which may be lost (`Reconnect`) or never published
(`EndSilently`). `LiveCard` is `agent-live-card.tsx`: `MountLiveCard`, the requests
(`ReadRequest`, `TasksAnswered`, `MessagesAnswered`), and the events
(`onTaskMessage`, `handleTaskEnd`, `onTaskDispatch`). `ChatPage` is the page of a
chat with its effects, which run after what they depend on has changed and before
anything else is handled (`RunEffects` has priority); the store; the query of the
pending task, an entry of `QueryCache`; the interval of `useChatStreaming`
(`PollTick`, `PendingArrives`); `handleSend`, `handleStop`, `handleSelectSession`,
`handleNewChat`, `handleArchive`. The age of the query's data, which an effect
compares with 8 s, is arbitrary unless the data has just arrived. The server cancels
a stopped task in the step that asks for it. While a mount of the page is sending or
a task is pending, nothing of it sends (`isWorking`: the input is off, and the
actions below a message and the prompts of an empty chat are hidden); a page that is
left and opened again does not know of a send that goes on, so several may be under
way (`Send`). `TaskPages` has one of the two pages open.

### DesktopDaemon

The renderer's session (`stored`, `user`, `awaiting`), the main process
(`currentState`, `operationInProgress`, the functions suspended at an await in
`calls`, answers of `/health` in `polls`), the two files (`config`, `sidecar`)
and the daemon's process. A step is what runs between two awaits. `syncToken` is
four of them until it has written: the read of the config, the read of the sidecar
(`choosePat`), the mint, and the two writes. A `batch` tells the calls of one
change of session from those of another.

Nothing in the code makes users wait before they log in or out, or keeps two
`syncToken`s apart. The history variable `raced` remembers what has come on top of
what: a session that began or ended while `commands` of the daemon were under way,
or while `credentials` were still to be read or written, and `files` that changed
between the two reads of a sync. The properties say which of these they survive;
the constant `Races` bounds those that a run follows.

| Code | Actions |
| --- | --- |
| `auth/store.ts`, `auth-initializer.tsx`, `App.tsx` | `Login`, `loginWithToken`, `LinkAnswered`, `AuthInitialized`, `AuthRefused`, `logout` |
| `syncToken`, `clearToken` | `syncToken`, `choosePat`, `mintPat`, `WriteCredentials`, `RestartOnUserSwitch`; `clearToken` |
| `startDaemon`, `stopDaemon`, `restartDaemon`, `autoStart`, `withGuard` | `Click`, `autoStart`, `startDaemon`, `execStart`, `Started`, `stopDaemon`, `execStop`, `Stopped`, `Done` |
| bootstrap and polling | `bootstrapCli`, `retryInstall`, `pollOnce`, `PollReturns` (`fetchHealth`) |
| the daemon, the application | `DaemonLoads`, `DaemonServes`, `DaemonDies`, `Relaunch` |

A token is the user it belongs to; a user of `PatUser` has a PAT for a session
token, which is written through. Abstractions: the profile is resolved; the
preferences are the defaults
(`autoStart` on, `autoStop` off); a daemon that drains after its stop is down;
quitting and opening the application is one step.

## 3. What is checked

Every run explores its whole state space. `Inputs` of `TaskQueue` names the
requests and events that an instance may produce, so that a run can afford the
goroutines its question needs.

| Run | Instance | Shows |
| --- | --- | --- |
| `claims` | 2 handlers, 1 agent of capacity 1, 1 issue, 1 chat, 3 tasks, 1 crash | `TypeOK`, `OneUnderwayPerIssueAgent`, `OvercommitBounded`, `ContinuationSound`, `ImplementsLifecycle` while claims, reports, continuations, cancellations, resolutions of loops and lost responses interleave |
| `migration` | 2 handlers, 2 runtimes, 1 agent, 3 tasks | a task stays with the runtime whose daemon received it, and no two claims respond with it, while agents and queued tasks move to other runtimes |
| `assignment` | 1 handler, 2 agents of capacity 2, an issue and a chat, 4 tasks, `max_continuations` 3, the number of failures at which the server escalates | the queue follows the assignee; an archived agent has no live task; a chain of continuations ends at the third failure; the badge of an agent agrees with its tasks |
| `sweeping` | 1 handler, 2 agents, 2 tasks; daemons start tasks and report nothing | every task underway ends; issues that lost their last task leave `in_progress` |
| `requests` | 2 updates, or a ping and an update; 2 runtimes, 1 restart; pages are left at any moment | one update in progress per runtime and one being carried out; a request is handed out once; an update that is polled ends, and one that is not does not block its runtime for ever |
| `autopilot` | 2 schedulers, 1 caller, 1 reporter, 2 triggers that come due twice together, 2 runs, 1 crash, 1 failed cancellation in a row, any number of other failed statements; every policy and mode | a tick starts one run at most; the policies bound the overlap of runs; no tick forgets to arm its trigger again |
| `daemon` | 1 slot, 2 runtimes with a task each, 1 restart | the properties of `AgentDaemon` |
| `livecache` | each of the 70 query keys, 2 items, 2 writes, 1 use of any hook that touches the key; 1 lost or replaced connection, or 1 failed fetch or request | no event that has a handler, no rollback and no cancellation leaves old data that looks fresh; a mounted component shows what the server would answer; a refused edit is gone |
| `pages` | an issue or a chat session, 2 tasks, 2 messages, 2 events on their way, 1 failed request; on the chat also lost and unpublished events | a message is on its card once; cards follow the tasks; a session at work shows its indicator; an indicator that is on is polled |
| `desktop` | 2 users, 2 sessions, 1 click, failed command, dead daemon or exit of the application; a session begins or ends whatever commands of the daemon are under way | `withGuard`'s flag is released; no PAT is written for another user; of sessions that do not overlap, the daemon runs exactly while somebody is logged in, with that user's token |
| `status` | the same with 1 user, who has a PAT from the start | the displayed status follows the daemon |
| `inherits` | 2 users, 2 sessions that begin and end while commands are under way, no failure | section "Where the code and what it says disagree" |

Why the bounds are enough. Two goroutines are what a race between two statements
needs; the races found below all appear with two. Two tasks are what a serialization
property relates; the third is the one that a continuation, a reassignment or a late
report adds. Two runtimes are what migration relates. The invariants that are proved
do not depend on the bounds. In `assignment` the fourth task is the one that an
escalation would have to let through for a chain to be too long, and a
`max_continuations` below 3 would end the chain before the escalation does; a
capacity of 2 lets an agent work on the issue and in the chat at once, which its
badge has to count. In `requests` the constraint `PingOrUpdates` does not follow two
updates beside a ping: the stores and the daemon treat the two kinds apart, and only
the creation of a request leads beyond it, which has no fairness. With one ping, the
deletion of old pings by a later `Create`, which is the code that also deletes
updates, is exercised with updates only; the theorems cover any number of pings and
updates. In `autopilot` the constraint `TwoTicks` admits two ticks in all, of one
trigger or one of each: two of one trigger are a run of the past beside a new one,
and two triggers are what one scheduler works off in order. The two run ids bound
the inserts, and `StatementFails` takes over when they are used up, which is also
what a failing insert does. In `daemon` two tasks compete for one slot, which is
enough for the semaphore to be full, to be released by one handler while another
waits, and to be lost for good if any way out leaked it; the second runtime is the
one that a round turns to next.

In `livecache` two writes are a change and another that overtakes it or is lost with
it, and two items are a list of which a part is there. The constraint `Explained`
does not follow a behaviour beyond one of the named races, from which nothing is
claimed, and `OneFault` admits one fault. In `pages` two tasks are one that is
underway while another is dispatched or continues it; two messages are one that was
loaded and one that was streamed. The properties also hold with two sessions and one
task, which is the instance for switching between sessions with answers on their way
(2.9 million states, explored while developing and not kept as a run, since it asks
nothing else). The two sends are one of a page that was left and one of the page
that was opened again; a send starts only while an id is left for its task.

In `desktop`, a session may begin or end while daemon `commands` of the former are
under way, and something may fail. What can be claimed of all these behaviours is
about the flag and the files: `TypeOK`, `WrittenPatIsOwn`. `CredentialsFollowUser`
and `DaemonFollowsSession` speak of those in which nothing raced, nothing failed and
no button was used: of sessions that overlap nothing can be claimed about the daemon
(that is the run `inherits`), a user may have stopped it, and nothing retries a start
that failed. The calls of *one* session (two syncs of a deep link, their restarts,
the auto-start) overlap as they like in all of this. `Races` leaves out `credentials`
and `files`, the races of `syncToken` with itself and with `clearToken`; what they
break is listed below, and the theorems, whose behaviours have them, except them by
name. `WrittenPatIsOwn` also excepts two faults: a quit between the two writes of
`syncToken` and then a refused mint leave the PAT of one user beside the sidecar of
another. Two batches are the calls of two changes of session; a third waits until one
of them is done. In `status` one user is enough, since the status does not depend on
whose daemon it is.

Fairness. `UnderwayEnds` assumes that goroutines that are not blocked run on, that
the sweeper's ticker keeps firing and that time passes, and nothing of the daemons.
`UpdateEnds` assumes that time passes and that an interval ticks while it exists;
the property speaks of updates that are polled, since the code decides a timeout
only when somebody polls, and a page that is left stops polling
(`update-section.tsx:111`). `UpdateAdmittedAgain`, about updates that nobody polls
too, assumes only that time passes. `CancelledAgentStops`, `NothingHeldBack` and
`DaemonStops` assume that the daemon's goroutines run on, that a call returns (the
client has a timeout of 30 s) and that one of the repeated status calls is answered,
and that `runTask` returns once its context is cancelled (`executeAndDrain` waits
for that context). Of an agent that is not interrupted they assume nothing: it may
run for ever.

`StatusFollowsDaemon` assumes that promises settle, that commands end (the code
gives them 15 s and 20 s), that the interval ticks and that a spawned daemon
makes progress; nothing of users. `livecache` and `pages` have no fairness: their
properties speak of quiet states. Nor has `autopilot`: `TriggerRearmed` is the
safety half of "a claimed trigger is armed again", that a trigger without
`next_run_at` is one that a scheduler has in hand. It excepts those that a failed
statement or a crash left behind, because nothing in the code repairs them.
`IndicatorWatched` is the safety half of "an
indicator goes out in the end", the half that the code can get wrong: that there
is an interval to ask.

Deadlock is not checked: users may stop asking, ids run out, and a system with
nothing to do is not stuck.

### What holds only one request at a time

`QueueFollowsAssignee`, `ArchivedAgentHasNoTask` and `AgentStatusReconciled` are
checked with one request in flight, and are *not* true with two.
`AgentStatusReconciled` also excepts what a cancellation in bulk (a reassignment, a
closed issue, an archived agent) leaves: no agent is reconciled after it, and the
badge stays at `working`. With two requests TLC finds:
an update that names no assignee writes back the assignee that it read earlier
(`internal/handler/issue.go:982`); a request that read an agent before it was
archived inserts a task after the bulk cancellation (`internal/handler/agent.go:437`);
two reconciliations write an old count last (`internal/service/task.go:471`).
`SweptIssuesReset` likewise excepts crashes: a server that dies between failing
the tasks and resetting their issues leaves the issues `in_progress`, because
later sweeps only look at tasks they have just failed.

### Where the code and what it says disagree

| Run | The repository says | The code does |
| --- | --- | --- |
| `inherits` | "On logout, clear any cached PAT and stop the daemon so that a subsequent login as a different user never inherits the previous user's credentials" (`src/apps/desktop/src/renderer/src/App.tsx:127`) | a logout while the daemon is still loading stops nothing, successfully; the daemon has read the former user's PAT, serves afterwards, and is taken for the next user's, because `clearToken` has removed the sidecar by which a change of user is noticed |

Other behaviours met while modelling. They have no run of their own; the
properties above are stated so that they do not depend on them.

*Server*

- `ClaimTask` "atomically claims the next queued task for an agent, respecting
  max_concurrent_tasks" (`internal/service/task.go:172`) counts in one statement
  and claims in another; two claims overrun the limit. `OvercommitBounded` is
  what does hold.
- Chat tasks "use chat_session_id for serialization instead"
  (`pkg/db/queries/agent.sql:83`), but the test is made in a snapshot and no
  unique index stands behind it: two tasks of a session run at once.
- Removing an assignee is not recognised as a change
  (`internal/handler/issue.go:1096`); the former assignee's task stays.
- An update of a runtime that the daemon lost and whose page was left stays
  pending or running until a later request deletes it after 5 minutes
  (`runtime_update.go:55`), and one that a restart of the server lost is polled,
  with errors that are ignored (`update-section.tsx:149`), until the page is left.
- A trigger whose `next_run_at` could not be written after a tick, or whose
  autopilot could not be loaded in it, never fires again
  (`cmd/server/autopilot_scheduler.go:46`, `:90`), and neither does one whose
  server stopped in between, unless somebody edits it.
- With the policy "replace" a cancellation that fails is logged and the new run
  starts beside the old (`internal/service/autopilot.go:337`).
- An autopilot run is linked to its task after the task is in the queue, with an
  unconditional write (`internal/service/autopilot.go:224`); if the task ends
  first the run stays `running`.

*Query cache* (the races that `LiveCache` names, and what it has no event for)

- Published events that no handler maps to what they change: `goal:created`, the
  approval, watch and safety events, `issue:claimed`, `task:cancelled` and
  `task:dispatch` for the pending tasks of chats, and `issue:*` for pins, projects
  and the Eisenhower pages (`src/packages/core/realtime/use-realtime-sync.ts`;
  `Unheard` has the pairs). The data stay old and unmarked while the connection
  holds, although "WebSocket events handle invalidation, no polling needed"
  (`src/docs/plans/2026-04-07-tanstack-query-migration.md:199`).
- A reconnected client refetches the lists of the workspace, but not pins,
  invitations, the timeline, reactions and subscribers of an issue that is not open,
  nor the messages of a chat
  (`src/packages/core/realtime/use-realtime-sync.ts:462`). `RecoveredKeys` is the
  set it does recover. A replaced client (`provider.tsx:74`) counts as one that has
  never been connected, and recovers nothing.
- An event that only patches an entry while it is being fetched is overwritten by
  an answer that was read before it (`Clobbers`), and two such events that
  overtake each other leave the older value.
- An invalidation that joins a first fetch under way, already answered, is
  forgotten when that fetch succeeds (`Joins`).
- Deleting an issue that the list does not have (a closed one beyond the first
  50) refetches neither its parent's children nor their progress
  (`src/packages/core/issues/ws-updaters.ts:116`).
- `useReorderPins` never refetches
  (`src/packages/core/pins/mutations.ts:65`), so that whatever happened to the
  list while it was under way stays.

*Live cards and chat*

- An answer with the active tasks that was read before a task ended and comes
  after its event puts the card back (`agent-live-card.tsx:214`); nothing removes
  it until the page is left. `CardsFollowTasks` excepts such tasks (`raced`).
- A message of a task that has no card yet is marked as seen and is not shown
  later by the event that repeats it; only loading brings it.
- `chat-full-page.tsx:81-87` ignores *fresh* data and clears the indicator by data
  that is older than 8 s; the comment wants to wait out *stale* data. The indicator
  of a task that was just sent can be put out by what was read before.
- `SendAnswered` sets the pending task of whichever session is active by then:
  after "new chat" there is an indicator without a session, and without a poll;
  a session that is created after the user switched shows the other's task.
- `handleStop` clears the store but not the query, from which an effect adopts
  the stopped task again, until the poll.

*Desktop*

- A deep link over a session sets off two syncs. One that is suspended between
  reading the config and reading the sidecar, while the other mints and writes both
  files, finds the new user's id beside the former user's PAT and keeps that, which
  "the critical path" (`src/apps/desktop/src/main/daemon-manager.ts:402`) is there to
  prevent. The window is short, but nothing closes it: the race `files`.
- Overlapping syncs (a login while a deep link is answered) each restart the
  daemon, unguarded; nobody waits for the restart (`daemon-manager.ts:454`).
- A login that follows a logout at once overlaps it: a sync that started before the
  logout may write its PAT after `clearToken` has removed it, and a stop may find
  the daemon of the next session (`App.tsx:129`, `daemon-manager.ts:478`).
- A command that succeeds while its daemon then dies leaves the status
  `starting`, which `fetchHealth` never gives up (`daemon-manager.ts:245`).

## 4. What is proved

`TaskQueueProofs`, for every set of tasks, agents, issues, chats, runtimes and
goroutines, from `StoreAssumption` and `QueueAssumption` only (the constants have
their types, the sweeper is no HTTP handler, issues are not chats):

- `TypeCorrect`: `Spec => []TypeOK`. `TypeOK` is inductive because it says not
  only what the variables hold but also what a goroutine knows at each label
  (`LocalAt`) and that the tasks it knows were inserted (`KnownTasks`).
- `Serialized`: `Spec => []SerializationInv`, and from it `NoDuplicateRuns`:
  two tasks of one (issue, agent) are never both dispatched or running. That
  property alone is not inductive: a claim that took its snapshot before another
  claim dispatched a task could lock a row that is no longer alone. It is saved
  by the unique index. If the row is still `queued` when it is locked, then it
  has held the one pending slot of its (issue, agent) ever since the snapshot, so
  no other task of the pair can have been dispatched meanwhile, and those running
  were excluded by the snapshot. `SerializationInv` says this with three parts:
  one pending task per pair, one underway, and `SnapshotStillAlone`. The proof
  reduces all actions to four kinds of steps on tasks (`TaskStep`) and treats
  each kind once. Neither the capacity check nor a transaction is needed.

- `Refines`, that is `Spec => ImplementsLifecycle`. An insert maps to `Create`
  because the unique index rejects what `Create` forbids; a lock maps to `Claim`
  because of `SnapshotStillAlone`; a bulk statement maps to one `Fail` or `Cancel`
  of a set, or to a stutter if it finds no row; migration and every statement on
  another table are stutters.

`TaskHandlingProofs`, from the same assumptions and what each theorem names:

- `HoldersKept` and `NoSecondDelivery`. Both follow from `DeliveryInv`, which adds
  that a task that is still queued has no holder and is not being delivered. A
  claim only locks what is queued and a migration only moves what is queued, so
  neither touches a task that somebody has.
- `Overcommit` (`OvercommitBounded`), if the set of goroutines is finite, without
  which there is nothing to count. The bound on the running tasks alone is not
  inductive: a goroutine that has counted and found room takes a task later. In
  `CapacityInv` the tasks underway *and* the goroutines that may still take one
  (`Claimers`) are together fewer than the capacity plus the goroutines: a
  goroutine that joins the claimers has just seen fewer tasks than the capacity,
  and the claimers are never more than the goroutines; a lock turns a claimer
  into a task. `SnapshotIsOwn` says that what it locks is a task of the agent for
  which it counted.
- `ContinuedOnce` (`ContinuationSound`). Nothing in the schema makes a parent
  unique; it holds because only one goroutine ever handles the failure of a task,
  the one whose `UPDATE` ended it, and it inserts once. `ChainInv` says so
  (`FailingOnce`), and that the limit was read from a row that no longer changes.
- `EscalationEnds` (`EscalationEndsChain`), if `Inputs` does not contain `resolve`,
  which is the property's "as long as nobody resolves an escalation". `CountedInv`
  relates a chain to the counter of its (agent, issue): a task with index n exists
  only if n failures were counted, because the counter is raised by the goroutine
  that then continues.
- `SweptReset` (`SweptIssuesReset`), if only the sweeper ends tasks
  (`OnlySweeperEnds`): when a task of the issue is ended otherwise in the middle of a
  sweep, the issue may have lost its last task to that request, which resets
  nothing. `ResetInv`: an issue that is owed a reset (it has a failed task, none that is
  live, and is `in_progress`) is `Attended`, that is, the sweeper is at it or has
  a task of it before it and has not skipped it. The step that decides is the one that
  finds a task of the issue still live and skips the issue from then on
  (`processedIssues`): only a later statement of the sweeper ends that task, and
  that statement lists it with a new `processedIssues`.

The other properties of the queue hold while requests come one at a time (section
3), and are proved under just that: `RequestsAlone`, at most one request is in
flight and the server has not crashed, or `OneAtATime`, which counts the sweeper
too. The hypothesis is about the behaviour and not about the constants: any
number of agents, issues and goroutines, as long as they take turns.

- `ArchivedIdle` (`ArchivedAgentHasNoTask`), while requests are alone, whatever the
  sweeper does between their statements. `ArchiveInv`: a live task of an
  archived agent has a request that is about to cancel it, and a request that is
  about to insert a task, new or continuing another, does so for an agent that is
  not archived. A task that fails belongs to no archived agent either, or its
  cancellation would be due and the request that cancels not alone.
- `AssigneeServed` (`QueueFollowsAssignee`), while requests are alone and nobody is
  mentioned (a mention gives a task to an agent that is not the assignee).
  `AssigneeInv` says of each statement of an update what the statements before it
  have left: a task that does not follow the assignee has a request at `reassign`
  for its issue, and whoever inserts does so for the assignee of that moment.
- `StatusReconciled` (`AgentStatusReconciled`), while nothing overlaps, for a finite
  set of goroutines and without updates and archiving, whose bulk cancellations
  reconcile no agent. Without these it also concludes that the badge is right
  outright, without the property's exception. `StatusInv`: the badge is right or
  a goroutine will set it, and what that goroutine has counted is still so.
- `OneRequestIsAlone` and `WithoutSweepsNothingOverlaps`: a server with one request
  goroutine and no crash satisfies `RequestsAlone`, and if it does not sweep,
  `OneAtATime`. The run `assignment` is such a server.

`RuntimeRequestsProofs`, for any finite number of pings and updates and any
number of restarts, from `RequestAssumption`:

- `TypeCorrect`, `UpdatesExclusive` (one update of a runtime in progress),
  `SwapExclusive` (the daemon works on one update at a time) and the action
  property `NeverTwice` (`HandedOutOnce`). `TimeoutsAreTrue` (a ping that timed out
  never reached the daemon) is proved and not a property of the run, for it is
  mostly the guard of one operation. The inductive invariant `IndInv` is the
  conjunction of these with `FlagSet`: while an update is being worked on the
  flag that `CompareAndSwap` tests is set.

`AgentDaemonProofs`, for any number of tasks, runtimes, slots and restarts, from
`DaemonAssumption`: `TypeCorrect`, `SlotsKept` (`SlotsAccountedFor`) and
`CompletionsAreTrue` (the action property `CompletedByAgent`). The bound of
`slots` in `TypeOK` is not inductive without the count of the handlers, nor the
count without `HandedOut` (a task that is being handled is not queued, hence
cannot be claimed into the same handler again). `ResultKnown` carries what
`runTask` returned to the place where it is reported.

`AutopilotProofs`, for any number of runs, triggers, servers, users and crashes,
from `AutopilotAssumption` (the kinds of goroutines are disjoint; runs and
schedulers are finite sets): `OnceAtMost`, that is `Spec => []OneRunPerTick`. The
property counts runs and is not inductive: between the claim of a tick and the
insert there is neither a due trigger nor a run. `TicksAccounted` strengthens it
to a conservation law: the runs of a trigger, the schedulers that still owe it a
run and whether it is due add up to at most the number of times it came due. A
claim turns a due trigger into one scheduler that owes, an insert turns that into
one run, and a crash or a failed statement loses it; `Apart` says that what a
scheduler works on is no longer among what it claimed, and that a user's request
never counts for a trigger. It needs that the claim is one statement, and nothing
of the policies.

In the same module `Overlap` (`OverlapBounded`), for a finite set of callers.
`OverlapInv` counts with the active runs the dispatchers that are `Committed`:
those that the policy has let through and those whose run was ended before they
have linked it. A run that becomes active again when it is linked late is so
charged to the dispatcher that links it, and a run that starts after a failed
cancellation to `uncancelled`; `OwnRun` says that no two dispatchers work on one
run. `Rearmed` (`TriggerRearmed`) needs of the scheduler only which triggers are in
its tick, and is inductive with `TypeOK`.

`LiveCardProofs`, for any number of tasks and messages and any order of events and
answers, from the constants' types: `MessagesOnce` (`ItemsAreMessages`) and
`CardsRight` (`CardsFollowTasks`). Both speak of a page at rest, so the invariant
has to say, for every message and every end of a task, where it is while the page
is not at rest. The parts of `CardInv`:

- `Sayings`: nothing is on the wire, in `seenSeqs` or in an answer that the task
  has not said. `Once`: what is on a card is in `seenSeqs`. The two give "once".
- `Loaded`: each message of a card that was loaded is on it or its event is on
  the wire and will not be ignored. `Loading`: the same of a card whose answer is
  on its way, counting what the answer brings. This is where `seenSeqs` and
  `loadedSeqs` are both needed.
- `Dispatched`: a task underway has a card, or its dispatch is on the wire, or an
  answer that lists it is on its way. `Gone` and `Ends`: a task that has ended and
  still has a card, or may get one, has its end on the wire or is in `raced`.
- `Unmounted`: nothing is left behind when the page is closed.

`ChatPageProofs`: `AlwaysWatched` (`IndicatorWatched`), for any number of tasks and
sessions. The interval is made for a task *and* a session while the property
relates the pending task to the active session, so the invariant has to follow
which session every id that may become pending belongs to: in the store
(`PendingKnown`), in a send that is under way (`SendingKnown`) and in the entries
of the query cache with the answers on their way to them (`EntriesTyped`). Then
`PollFollows`: an interval for the pending task is one for its session.

In the same module `AlwaysShown` (`IndicatorShown`), for any number of tasks and
sessions, from the constants' types and that data which say "no task" differ from no
data (`TaskEventsAssumption`). It speaks of a page at rest; the invariant `ShownInv`
says where the knowledge that an agent is at work is while the page is not:

- `EntryFollows`: a session with a task at work has a `chat:message` on the wire, or
  the entry of its query does not deny the task (`Admits`): no answer that denies
  it is on its way, and data that deny it are marked and not observed. A task is
  created with such an event, and an entry that is invalidated while it cannot be
  refetched is in `raced`, which the property excepts. `Filled`: what is observed
  has data or is being fetched.
- `StoreFollows`: when the effects have run, the store has no pending task only if
  the query has none. Every handler that clears the store's task changes what the
  effects depend on, so that they run again and adopt the query's.
- `TasksBounded`: finitely many tasks exist at any time, so that the server's
  answer, the latest of those at work, exists (`BoundedHasLast`).

The steps on an entry are compared by one relation, `Improves`, which holds of
each operator of `QueryCache` and composes.

`DesktopDaemonProofs`, for any number of users, sessions, exits, failures and
uses of the buttons and any races, from `DesktopAssumption` only; what a theorem
excepts is said by the property, in terms of `raced`, `faults` and `clicks`.

- `TypeCorrect` (`TypeOK`), without exception, from `CallsInv`: which function is
  suspended at which await for which session. Its conjuncts are `Orderly` (unless
  credentials or files raced, what writes credentials does so for the token that is
  stored, and a logout that clears them is alone in that: `OneSession`),
  `RestartsOnce` (a sync that may still restart has not done so) and `GuardHeld`
  (`withGuard`'s flag is set if and only if the one call that holds it is under
  way). Every step of a call replaces it by those that go on, and the invariant is
  shown once for that form.
- `PatIsOwn` (`WrittenPatIsOwn`), with at most one failure and commands that may
  race, from `CredentialsMatch`: the PAT and the sidecar name one user, or the
  sidecar is about to be written, or one failure came between the two writes and
  the same user is logging in again.
- `TokensFollow` (`CredentialsFollowUser`) and `DaemonFollows`
  (`DaemonFollowsSession`), when nothing failed, no button was used and nothing
  raced, from `SessionInv`: while somebody is logged in, an old
  daemon that serves has a call that will stop it and a daemon that is down has a
  call that will start it (`Replaced`), and those calls write or have written that
  user's PAT (`Credited`); while nobody is, what is left on disk or running is
  what the logout has not come to yet (`LoggedOut`).

`Serialized` and `TicksAccounted` are stronger than what the runs check, and are
listed without a property for that reason.

Only model-checked:

- All liveness properties, which TLAPS cannot prove.
- `LiveCache`: its tables are finite sets of keys that TLC enumerates completely,
  and its properties (`StaleIsMarked`, `VisibleIsCurrent`, `RefusedEditIsGone`) are
  about what the concrete tables invalidate, so a proof would add the number of
  writes, faults and edits, but no key.

## 5. What is not modelled

- The realtime hub and the event bus (events only reach browsers, except for the
  autopilot listeners, which are in `Autopilot`), and the notification, activity
  and subscriber listeners, which only insert rows.
- Of the daemon: local garbage collection, usage scans, the health port, and how
  the watched workspaces are found (`Reload` chooses any set).
- `ResetLoopDetection` (`pkg/db/queries/loop_detection.sql:39`), which nothing
  calls: the count of "consecutive" failures survives a success.
- Deletion of issues, agents and runtimes, `gcRuntimes`, batch updates of issues,
  registration of a runtime with the status `offline`, edits of an agent's
  capacity or status, and members as assignees.
- Chat messages and sessions beyond their tasks, approvals, missions, invitations
  and the scheduled-task endpoints.
- Creation, deletion and pausing of autopilots, and changes of their policy. The
  tasks that a run-only autopilot creates are jobs in `Autopilot`, not rows of
  `TaskQueue`.
- `internal/scheduler`: nothing starts it.
- The pages and components of the web and desktop clients (`src/packages/views`,
  `src/packages/ui`, `src/apps/web`), which are most of the TypeScript: markup,
  styling, form state, text. They read the cache and call the hooks that are
  modelled; a state machine of their own, with requests and events that race,
  is what `LiveCard` and `ChatPage` have and what the others lack. Hence a small
  share of the lines of the repository is modelled, and most of its protocol.
- The API client: one method per endpoint, no state. That a request fails is a
  choice of `LiveCache`, `TaskPages` and `DesktopDaemon`.
- Of the realtime client: `workspace:deleted`, `member:removed` and the other
  handlers that switch the workspace, and issues that change their parent.
- Of the chat: the timeline, the list of messages, drafts, and a failed send that leaves
  its optimistic message; of the cards: the history of past runs.
- The session of the web client (cookies); of the desktop: changes of the target
  URL, the log tail, the watch list, the preferences.
- What the Go daemon itself writes into `config.json`, token included: a daemon that
  serves adds workspaces to watch (`internal/daemon/daemon.go:443-464`, at the start
  and from its loop; `health.go:228-235` and `:288-295` on request), and one that is
  started with `LOCAL_AUTO_LOGIN` logs in by itself (`daemon.go:156`). It loads,
  changes and saves the file within one function; a PAT that the application writes
  in between is overwritten by the one before. In `DesktopDaemon` the application is
  the only writer.
- View stores: synchronous setters with one writer.
- The CLI, the agent back ends and the repository cache.

## 6. Plan

What would come next, in this order:

1. `RefusedEditIsGone` as a theorem: the history `lost` is what an inductive
   invariant would have to relate to the requests under way.
2. Deletion: `gcRuntimes`, `DeleteIssue`, deletion of agents and runtimes as
   further actions of `TaskStore` and `TaskQueue`.
3. The daemon's workspace reload and garbage collection of working copies, which
   race with the tasks that reuse them.
4. `Hub`: registration, broadcast, eviction of slow clients, closing of channels,
   as the server's half of `LiveCache`'s connection.
5. Approvals, missions and chat sessions (unread marks, session resumption), as
   far as they have state machines of more than one statement.
