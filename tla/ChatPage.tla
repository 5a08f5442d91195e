------------------------------- MODULE ChatPage -------------------------------
(****************************************************************************)
(* The chat page (chat-full-page.tsx, use-chat-send.ts, use-chat-streaming  *)
(* .ts, chat/store.ts): which session is open and whether its agent is at   *)
(* work. The store's pendingTaskId says so; it is kept in step with the     *)
(* cached query of the session's pending task by the page's effects, by the *)
(* events and by a poll. The window of every page, which nothing opens,     *)
(* observes that query as well.                                             *)
(*                                                                          *)
(* A definition named X_Fault... is X with a plausible bug, for showing     *)
(* that a property can fail.                                                *)
(****************************************************************************)
EXTENDS TaskEvents

CONSTANT Send      \* bound: names of the sends that may be under way at once

ASSUME ChatPageAssumption == None \notin Send

INSTANCE QueryCache

VARIABLES
    open,              \* the page is there
    sessions,          \* that exist
    activeSessionId, pendingTaskId,
    entries,           \* [Session -> cache entry of chatKeys.pendingTask]
    updated,           \* what the page's effects read has "changed", or has just "arrived"
    poll,              \* the interval: the pendingTaskId and the session it was made for
    ticks,             \* sessions whose fetch a tick of an interval awaits
    sending,           \* [Send -> how far handleSend is]
    isSending,         \* the send of this mount of the page, or None
    stopping           \* handleStop awaits its answer

chatVars == <<open, sessions, activeSessionId, pendingTaskId, entries, updated, poll, ticks,
              sending, isSending, stopping>>
query    == <<entries, updated>>
store    == <<activeSessionId, pendingTaskId>>
effects  == <<poll, ticks>>
calls    == <<sending, isSending, stopping>>

NoTask   == 0
NoPoll   == [task |-> NoTask, session |-> None]
Idle     == [pc |-> "idle"]

ChatInit ==
    /\ open = FALSE
    /\ sessions \in SUBSET Session /\ activeSessionId \in sessions \cup {None}
    /\ pendingTaskId = NoTask
    /\ entries = [s \in Session |-> IF s = activeSessionId THEN StartFetch(Empty) ELSE Empty]
    /\ updated = "no"
    /\ poll = NoPoll /\ ticks = {}
    /\ sending = [x \in Send |-> Idle] /\ isSending = None /\ stopping = FALSE

----------------------------------------------------------------------------
\* The query of the pending task.

\* The latest of the session's tasks that are queued or underway.
GetPendingChatTask(s) ==
    LET latest == {t \in Task : /\ tasks[t].about = s /\ Live(t)
                                /\ \A u \in Task : u > t /\ tasks[u].about = s => ~Live(u)}
    IN  IF latest = {} THEN NoTask ELSE CHOOSE t \in latest : TRUE

AnswerPending(s) ==
    /\ entries[s].fetch = "asked"
    /\ entries' = [entries EXCEPT ![s].fetch = "answered", ![s].answer = GetPendingChatTask(s)]
    /\ UNCHANGED <<events, open, sessions, store, updated, effects, calls>>

\* The tick of a poll that awaits it goes on at once, whatever the page shows
\* by now: without a pending task it clears the store's.
PendingArrives(s) ==
    LET arrived == Succeed(entries[s])
        isOver  == s \in ticks /\ arrived.data = NoTask
    IN  /\ entries[s].fetch = "answered"
        /\ entries' = [entries EXCEPT ![s] = IF isOver THEN Invalidate(arrived, s = activeSessionId)
                                             ELSE arrived]
        /\ pendingTaskId' = IF isOver THEN NoTask ELSE pendingTaskId
        /\ updated' = IF s = activeSessionId THEN "arrived" ELSE updated
        /\ ticks' = ticks \ {s}
        /\ UNCHANGED <<events, open, sessions, activeSessionId, poll, calls>>

PendingFails(s) ==
    /\ entries[s].fetch # "idle"
    /\ FailOnce
    /\ entries' = [entries EXCEPT ![s] = Fail(@)]
    /\ ticks' = ticks \ {s}
    /\ UNCHANGED <<tasks, wire, raced, open, sessions, store, updated, poll, calls>>

\* The window gets the focus, and the data may be stale (5 s).
RefetchOnFocus ==
    /\ activeSessionId # None
    /\ entries[activeSessionId].fetch = "idle"
    /\ entries' = [entries EXCEPT ![activeSessionId] = StartFetch(@)]
    /\ UNCHANGED <<events, open, sessions, store, updated, effects, calls>>

\* The query of the session that becomes the active one is observed.
Observe(s) ==
    \/ entries' = [entries EXCEPT ![s] = Mount(@)]
    \/ entries[s].fetch = "idle" /\ entries' = [entries EXCEPT ![s] = StartFetch(@)]

----------------------------------------------------------------------------
\* The effects of the page, which run after what they depend on has changed
\* and before anything else is handled.

serverTaskId ==
    IF activeSessionId = None \/ entries[activeSessionId].data = None THEN NoTask
    ELSE entries[activeSessionId].data

Adopts == serverTaskId # NoTask /\ pendingTaskId = NoTask

\* Data that came 8 s ago or before when the effect runs.
ClearsStale ==
    /\ serverTaskId = NoTask /\ pendingTaskId # NoTask
    /\ activeSessionId # None /\ entries[activeSessionId].data # None
    /\ updated # "arrived"

EffectsDue == open /\ (updated # "no" \/ pendingTaskId # poll.task)

RunEffects ==
    /\ EffectsDue
    /\ updated' = "no"
    /\ poll' = IF pendingTaskId = poll.task THEN poll
               ELSE [task |-> pendingTaskId, session |-> IF pendingTaskId = NoTask THEN None ELSE activeSessionId]
    /\ \/ Adopts /\ pendingTaskId' = serverTaskId
       \/ ClearsStale /\ pendingTaskId' = NoTask
       \/ ~Adopts /\ UNCHANGED pendingTaskId
    /\ UNCHANGED <<events, open, sessions, activeSessionId, entries, ticks, calls>>

\* The interval of useChatStreaming; the fetch of the tick joins another.
PollTick ==
    /\ open /\ poll.session # None /\ pendingTaskId # NoTask
    /\ ticks' = ticks \cup {poll.session}
    /\ entries' = [entries EXCEPT ![poll.session] = IF @.fetch = "idle" THEN StartFetch(@) ELSE @]
    /\ UNCHANGED <<events, open, sessions, store, updated, poll, calls>>

----------------------------------------------------------------------------
\* What the user does.

\* The page, and the session that it or the window restores.
OpenPage ==
    /\ ~open
    /\ open' = TRUE /\ updated' = "changed"
    /\ \/ UNCHANGED <<activeSessionId, entries>>
       \/ /\ activeSessionId = None
          /\ \E s \in sessions : activeSessionId' = s /\ Observe(s)
    /\ UNCHANGED <<events, sessions, pendingTaskId, effects, calls>>

LeavePage_FaultRemembersTask ==
    /\ open
    /\ open' = FALSE /\ poll' = [poll EXCEPT !.session = None] /\ isSending' = None
    /\ UNCHANGED <<events, sessions, store, query, ticks, sending, stopping>>

\* A send goes on, but what the page knew of it is gone.
LeavePage ==
    /\ open
    /\ open' = FALSE /\ poll' = NoPoll /\ isSending' = None
    /\ UNCHANGED <<events, sessions, store, query, ticks, sending, stopping>>

handleSelectSession(s) ==
    /\ open /\ s \in sessions
    /\ activeSessionId' = s /\ pendingTaskId' = NoTask
    /\ Observe(s)
    /\ updated' = "changed"
    /\ UNCHANGED <<events, open, sessions, effects, calls>>

handleNewChat ==
    /\ open /\ activeSessionId # None
    /\ activeSessionId' = None /\ pendingTaskId' = NoTask /\ updated' = "changed"
    /\ UNCHANGED <<events, open, sessions, entries, effects, calls>>

\* The pending task stays.
handleArchive ==
    /\ open /\ activeSessionId # None
    /\ activeSessionId' = None /\ updated' = "changed"
    /\ UNCHANGED <<events, open, sessions, pendingTaskId, entries, effects, calls>>

\* Whatever sends, the input, the actions below a message or the prompts of an
\* empty chat, is off while the page is sending or a task is pending.
isWorking == isSending # None \/ pendingTaskId # NoTask

\* Bound: there is a task for every send.
TasksLeft == Quantify(Task, LAMBDA t : tasks[t].status = "absent")
                 > Quantify(Send, LAMBDA x : sending[x].pc \in {"creating", "sent"})

handleSend(x) ==
    /\ open /\ ~isWorking /\ sending[x] = Idle /\ TasksLeft
    /\ sending' = [sending EXCEPT ![x] = IF activeSessionId = None THEN [pc |-> "creating"]
                                         ELSE [pc |-> "sent", session |-> activeSessionId]]
    /\ isSending' = x
    /\ UNCHANGED <<events, open, sessions, store, query, effects, stopping>>

SendOver(x) ==
    /\ sending' = [sending EXCEPT ![x] = Idle]
    /\ isSending' = IF isSending = x THEN None ELSE isSending

\* The user may have gone on to another session meanwhile.
SessionCreated(x, s) ==
    /\ sending[x].pc = "creating" /\ s \notin sessions
    /\ sessions' = sessions \cup {s}
    /\ activeSessionId' = s /\ Observe(s) /\ updated' = "changed"
    /\ sending' = [sending EXCEPT ![x] = [pc |-> "sent", session |-> s]]
    /\ UNCHANGED <<events, open, pendingTaskId, effects, isSending, stopping>>

EnqueueChatTask(x, t) ==
    LET s == sending[x].session IN
    /\ sending[x].pc = "sent" /\ NextId(t)
    /\ tasks' = [tasks EXCEPT ![t] = [status |-> "queued", about |-> s, said |-> 0]]
    /\ Publish(<<Event("chat:message", t, s, 0)>>)
    /\ sending' = [sending EXCEPT ![x] = [pc |-> "answered", session |-> s, task |-> t]]
    /\ UNCHANGED <<missed, raced, open, sessions, store, query, effects, isSending, stopping>>

\* setPendingTask, whichever session is active and whatever was sent by now.
SendAnswered(x) ==
    /\ sending[x].pc = "answered"
    /\ pendingTaskId' = sending[x].task
    /\ SendOver(x)
    /\ UNCHANGED <<events, open, sessions, activeSessionId, query, effects, stopping>>

SendFails(x) ==
    /\ sending[x] # Idle
    /\ FailOnce
    /\ SendOver(x)
    /\ UNCHANGED <<tasks, wire, raced, open, sessions, store, query, effects, stopping>>

\* The server cancels the task, if it still can, before it answers.
handleStop ==
    /\ open /\ pendingTaskId # NoTask /\ ~stopping
    /\ stopping' = TRUE
    /\ tasks' = IF Live(pendingTaskId) THEN [tasks EXCEPT ![pendingTaskId].status = "ended"] ELSE tasks
    /\ UNCHANGED <<wire, missed, raced, open, sessions, store, query, effects, sending, isSending>>

\* The query keeps its data, and task:cancelled is not heard.
StopAnswered ==
    /\ stopping
    /\ pendingTaskId' = NoTask
    /\ stopping' = FALSE
    /\ UNCHANGED <<events, open, sessions, activeSessionId, query, effects, sending, isSending>>

----------------------------------------------------------------------------
\* Events: the global handlers (useRealtimeSync), then those of the page.

onChatMessage(m) ==
    /\ m.type = "chat:message"
    /\ entries' = [entries EXCEPT ![m.about] = Invalidate(@, m.about = activeSessionId)]
    /\ raced' = IF entries[m.about].fetch # "idle" /\ CannotRefetch(entries[m.about], m.about = activeSessionId)
                THEN raced \cup {m.about} ELSE raced
    /\ UNCHANGED <<updated, pendingTaskId>>

onChatTaskEnd_FaultNoRefetch(m) ==
    /\ m.type \in {"chat:done", "task:completed", "task:failed"}
    /\ entries' = [entries EXCEPT ![m.about] = SetData(@, NoTask)]
    /\ updated' = IF m.about = activeSessionId THEN "arrived" ELSE updated
    /\ pendingTaskId' = IF open /\ pendingTaskId = m.task THEN NoTask ELSE pendingTaskId
    /\ UNCHANGED raced

finalizePending(m) == open /\ pendingTaskId = m.task

onChatTaskEnd(m) ==
    LET cleared == [entries EXCEPT ![m.about] = Invalidate(SetData(@, NoTask), m.about = activeSessionId)] IN
    /\ m.type \in {"chat:done", "task:completed", "task:failed"}
    /\ entries' = IF finalizePending(m) /\ activeSessionId # None
                  THEN [cleared EXCEPT ![activeSessionId] = Invalidate(@, TRUE)] ELSE cleared
    /\ updated' = IF m.about = activeSessionId THEN "arrived" ELSE updated
    /\ pendingTaskId' = IF finalizePending(m) THEN NoTask ELSE pendingTaskId
    /\ UNCHANGED raced

ReceiveInChat ==
    /\ wire # <<>>
    /\ wire' = Tail(wire)
    /\ LET m == Head(wire) IN onChatMessage(m) \/ onChatTaskEnd(m)
    /\ UNCHANGED <<tasks, missed, open, sessions, activeSessionId,
                   effects, calls>>

ChatStep ==
    \/ \E s \in Session : AnswerPending(s) \/ PendingArrives(s) \/ PendingFails(s)
                              \/ handleSelectSession(s)
    \/ RefetchOnFocus \/ PollTick \/ ReceiveInChat
    \/ OpenPage \/ LeavePage \/ handleNewChat \/ handleArchive
    \/ \E x \in Send : \/ handleSend(x) \/ SendAnswered(x) \/ SendFails(x)
                       \/ \E s \in Session : SessionCreated(x, s)
                       \/ \E t \in Task : EnqueueChatTask(x, t)
    \/ handleStop \/ StopAnswered

ChatQuiet ==
    /\ open /\ wire = <<>> /\ ~EffectsDue
    /\ \A s \in Session : entries[s].fetch = "idle"
    /\ \A x \in Send : sending[x] = Idle
    /\ ~stopping

=============================================================================
