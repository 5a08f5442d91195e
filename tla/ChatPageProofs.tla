---------------------------- MODULE ChatPageProofs ----------------------------
(****************************************************************************)
(* Theorems about the chat page: whatever is sent, stopped, switched, lost  *)
(* or late, an indicator that is on has an interval that asks the server    *)
(* whether it should be, and when nothing was lost and everything has come  *)
(* in, a session whose agent is at work has its indicator on, for any       *)
(* number of tasks and sessions.                                            *)
(****************************************************************************)
EXTENDS TaskPages, WellFoundedInduction, TLAPS

USE TaskEventsAssumption

Row   == [status : {"absent", "queued", "underway", "ended"},
          about : Session \cup {Issue, None}, said : Nat]
Datum == Task \cup {NoTask, None}
Entry == [data : Datum, invalid : BOOLEAN, fetch : {"idle", "asked", "answered"},
          answer : Datum, revert : [data : Datum, invalid : BOOLEAN]]

\* A task that was created for the session, and a datum that names one or none.
Created(t, s) == t \in Task /\ tasks[t].status # "absent" /\ tasks[t].about = s
Names(d, s)   == d \in {None, NoTask} \/ Created(d, s)

TasksTyped   == tasks \in [Task -> Row]
EntriesTyped == /\ entries \in [Session -> Entry]
                /\ \A s \in Session : Names(entries[s].data, s) /\ Names(entries[s].answer, s)

SessionsKnown == sessions \subseteq Session /\ activeSessionId \in sessions \cup {None}

SendingKnown ==
    /\ sending = [x \in Send |-> sending[x]]
    /\ \A x \in Send :
           /\ sending[x].pc = "sent" => sending[x].session \in sessions
           /\ sending[x].pc = "answered" => sending[x].session \in sessions
                                            /\ Created(sending[x].task, sending[x].session)

PendingKnown == pendingTaskId = NoTask \/ \E s \in sessions : Created(pendingTaskId, s)

\* An interval that was made for the pending task was made for its session, if
\* that is the one that is active.
PollFollows ==
    /\ ~open => poll = NoPoll
    /\ poll.task = pendingTaskId /\ pendingTaskId # NoTask
       /\ tasks[pendingTaskId].about = activeSessionId => poll.session = activeSessionId

ChatInv == TasksTyped /\ EntriesTyped /\ SessionsKnown /\ SendingKnown /\ PendingKnown /\ PollFollows

\* The inductive invariant.
IndInv == /\ page \in {"issue", "chat"}
          /\ page = "issue" => ~open
          /\ page = "chat" => ChatInv

-----------------------------------------------------------------------------
(* The cache entries *)

LEMMA EntryTypes ==
    ASSUME NEW e \in Entry, NEW d \in Datum, NEW active \in BOOLEAN
    PROVE  /\ StartFetch(e) \in Entry /\ StartFetch(e).data = e.data
           /\ StartFetch(e).answer = None
           /\ Invalidate(e, active) \in Entry /\ Invalidate(e, active).data = e.data
           /\ Invalidate(e, active).answer \in {e.answer, None}
           /\ SetData(e, d) \in Entry /\ SetData(e, d).data = d /\ SetData(e, d).answer = e.answer
           /\ Succeed(e) \in Entry /\ Succeed(e).data = e.answer /\ Succeed(e).answer = None
           /\ Fail(e) \in Entry /\ Fail(e).data = e.data /\ Fail(e).answer = None
           /\ Mount(e) \in Entry /\ Mount(e).data = e.data /\ Mount(e).answer \in {e.answer, None}
<1>1. StartFetch(e) \in Entry /\ StartFetch(e).data = e.data /\ StartFetch(e).answer = None
  BY DEF StartFetch, Entry, Datum
<1>2. /\ Invalidate(e, active) \in Entry /\ Invalidate(e, active).data = e.data
      /\ Invalidate(e, active).answer \in {e.answer, None}
  BY DEF Invalidate, StartFetch, Entry, Datum
<1>3. SetData(e, d) \in Entry /\ SetData(e, d).data = d /\ SetData(e, d).answer = e.answer
  BY DEF SetData, Entry
<1>4. Succeed(e) \in Entry /\ Succeed(e).data = e.answer /\ Succeed(e).answer = None
  BY DEF Succeed, Empty, Entry, Datum
<1>5. Fail(e) \in Entry /\ Fail(e).data = e.data /\ Fail(e).answer = None
  BY DEF Fail, Empty, Entry, Datum
<1>6. Mount(e) \in Entry /\ Mount(e).data = e.data /\ Mount(e).answer \in {e.answer, None}
  BY <1>1 DEF Mount
<1> QED
  BY <1>1, <1>2, <1>3, <1>4, <1>5, <1>6

\* The same for an entry that is observed if its session is the active one.
LEMMA InvalidateTypes ==
    ASSUME NEW e \in Entry, NEW s
    PROVE  /\ Invalidate(e, s = activeSessionId) \in Entry
           /\ Invalidate(e, s = activeSessionId).data = e.data
           /\ Invalidate(e, s = activeSessionId).answer \in {e.answer, None}
BY DEF Invalidate, StartFetch, Entry, Datum

-----------------------------------------------------------------------------
(* Steps that only add tasks and end them *)

Grows == /\ TasksTyped'
         /\ \A t, s : Created(t, s) => Created(t, s)'

LEMMA SameTasksGrow == ASSUME TasksTyped, UNCHANGED tasks PROVE Grows
BY DEF TasksTyped, Grows, Created

LEMMA EventsGrow ==
    ASSUME TasksTyped, NEW t \in Task,
           \/ \E outcome \in {"completed", "failed"} : EndTask(t, outcome)
           \/ EndSilently(t)
           \/ \E next \in Task : FailAndContinue(t, next)
    PROVE  Grows
<1>1. ASSUME NEW outcome \in {"completed", "failed"}, EndTask(t, outcome) PROVE Grows
  BY <1>1 DEF EndTask, TasksTyped, Row, Grows, Created
<1>2. ASSUME EndSilently(t) PROVE Grows
  BY <1>2 DEF EndSilently, TasksTyped, Row, Grows, Created
<1>3. ASSUME NEW next \in Task, FailAndContinue(t, next) PROVE Grows
  <2>1. tasks[t].about \in Session \cup {Issue, None} /\ tasks[t].status # "absent"
    BY <1>3 DEF TasksTyped, Row, FailAndContinue, Live
  <2>2. t # next /\ tasks[next].status = "absent"
    BY <1>3, <2>1 DEF FailAndContinue, NextId
  <2>3. tasks' = [tasks EXCEPT ![t].status = "ended",
                               ![next] = [status |-> "queued", about |-> tasks[t].about, said |-> 0]]
    BY <1>3 DEF FailAndContinue
  <2>4. TasksTyped'
    BY <2>1, <2>2, <2>3 DEF TasksTyped, Row
  <2>5. ASSUME NEW u, NEW s, Created(u, s) PROVE Created(u, s)'
    <3>1. u # next /\ u \in Task
      BY <2>2, <2>5 DEF Created
    <3>2. tasks'[u].about = tasks[u].about /\ tasks'[u].status \in {tasks[u].status, "ended"}
      BY <2>3, <3>1 DEF TasksTyped, Row
    <3> QED
      BY <2>5, <3>1, <3>2 DEF Created
  <2> QED
    BY <2>4, <2>5 DEF Grows
<1> QED
  BY <1>1, <1>2, <1>3

LEMMA StopGrows == ASSUME TasksTyped, handleStop PROVE Grows
<1>1. CASE UNCHANGED tasks
  BY <1>1, SameTasksGrow
<1>2. CASE Live(pendingTaskId) /\ pendingTaskId \in Task
  <2>1. tasks' = [tasks EXCEPT ![pendingTaskId].status = "ended"]
    BY <1>2 DEF handleStop
  <2>2. [tasks[pendingTaskId] EXCEPT !.status = "ended"] \in Row
    BY <1>2 DEF TasksTyped, Row
  <2>3. TasksTyped'
    BY <2>1, <2>2 DEF TasksTyped
  <2>4. \A t, s : Created(t, s) => Created(t, s)'
    BY <2>1 DEF TasksTyped, Row, Created
  <2> QED
    BY <2>3, <2>4 DEF Grows
<1>3. (Live(pendingTaskId) /\ pendingTaskId \in Task) \/ UNCHANGED tasks
  BY DEF handleStop, TasksTyped
<1> QED
  BY <1>1, <1>2, <1>3

LEMMA EnqueueGrows ==
    ASSUME ChatInv, NEW x \in Send, NEW t \in Task, EnqueueChatTask(x, t)
    PROVE  /\ Grows /\ sending[x].session \in sessions
           /\ tasks'[t].status # "absent" /\ tasks'[t].about = sending[x].session
<1>1. sending[x].session \in sessions /\ sending[x].session \in Session
  BY DEF ChatInv, SendingKnown, SessionsKnown, EnqueueChatTask
<1> DEFINE row == [status |-> "queued", about |-> sending[x].session, said |-> 0]
<1>2. row \in Row /\ row.status # "absent" /\ row.about = sending[x].session
  BY <1>1 DEF Row
<1>3. tasks' = [tasks EXCEPT ![t] = row] /\ tasks[t].status = "absent" /\ tasks \in [Task -> Row]
  BY DEF EnqueueChatTask, NextId, ChatInv, TasksTyped
<1> HIDE DEF row
<1>4. tasks' \in [Task -> Row] /\ tasks'[t] = row /\ \A u \in Task \ {t} : tasks'[u] = tasks[u]
  BY <1>2, <1>3
<1>5. TasksTyped'
  BY <1>4 DEF TasksTyped
<1>6. ASSUME NEW u, NEW s, Created(u, s) PROVE Created(u, s)'
  BY <1>3, <1>4, <1>6 DEF Created
<1> QED
  BY <1>1, <1>2, <1>4, <1>5, <1>6 DEF Grows

-----------------------------------------------------------------------------
(* What such a step keeps of the page *)

\* An entry holds what it held, what it was answered, or nothing.
Derived(s) == /\ entries'[s].data \in {entries[s].data, entries[s].answer, NoTask}
              /\ entries'[s].answer \in {entries[s].answer, None}

LEMMA EntriesKept ==
    ASSUME ChatInv, Grows, entries' \in [Session -> Entry], \A s \in Session : Derived(s)
    PROVE  EntriesTyped'
<1>1. ASSUME NEW s \in Session
      PROVE  (Names(entries[s].data, s) /\ Names(entries[s].answer, s))'
  <2>1. Names(entries[s].data, s) /\ Names(entries[s].answer, s) /\ Names(NoTask, s) /\ Names(None, s)
    BY DEF ChatInv, EntriesTyped, Names
  <2>2. Names(entries'[s].data, s) /\ Names(entries'[s].answer, s)
    BY <2>1 DEF Derived
  <2>3. \A d : Names(d, s) => (d \in {None, NoTask} \/ Created(d, s)')
    BY DEF Names, Grows
  <2> QED
    BY <2>2, <2>3 DEF Names
<1> QED
  BY <1>1 DEF EntriesTyped

LEMMA OneSend ==
    ASSUME ChatInv, Grows, sessions \subseteq sessions', NEW x \in Send, NEW d,
           d.pc \in {"sent", "answered"} => d.session \in sessions',
           d.pc = "answered" => /\ d.task \in Task /\ tasks'[d.task].status # "absent"
                                /\ tasks'[d.task].about = d.session,
           sending' = [sending EXCEPT ![x] = d]
    PROVE  SendingKnown'
<1>1. sending' = [y \in Send |-> IF y = x THEN d ELSE sending[y]]
  BY DEF ChatInv, SendingKnown
<1>2. ASSUME NEW y \in Send
      PROVE  (/\ sending[y].pc = "sent" => sending[y].session \in sessions
              /\ sending[y].pc = "answered" => sending[y].session \in sessions
                                               /\ Created(sending[y].task, sending[y].session))'
  <2>1. CASE y = x
    BY <1>1, <2>1 DEF Created
  <2>2. CASE y # x
    <3>1. sending'[y] = sending[y]
      BY <1>1, <2>2
    <3>2. /\ sending[y].pc = "sent" => sending[y].session \in sessions
          /\ sending[y].pc = "answered" => sending[y].session \in sessions
                                           /\ Created(sending[y].task, sending[y].session)
      BY DEF ChatInv, SendingKnown
    <3> QED
      BY <3>1, <3>2 DEF Grows, Created
  <2> QED
    BY <2>1, <2>2
<1> QED
  BY <1>1, <1>2 DEF SendingKnown

LEMMA SendingKept ==
    ASSUME ChatInv, Grows, sessions \subseteq sessions', UNCHANGED sending
    PROVE  SendingKnown'
BY DEF ChatInv, SendingKnown, Grows, Created

LEMMA PendingKept ==
    ASSUME ChatInv, Grows, sessions \subseteq sessions', pendingTaskId' \in {NoTask, pendingTaskId}
    PROVE  PendingKnown'
BY DEF ChatInv, PendingKnown, Grows

LEMMA PollKept ==
    ASSUME ChatInv, Grows, UNCHANGED <<poll, open, activeSessionId>>,
           pendingTaskId' \in {NoTask, pendingTaskId}
    PROVE  PollFollows'
<1>1. CASE pendingTaskId' = NoTask
  BY <1>1 DEF ChatInv, PollFollows
<1>2. CASE pendingTaskId' = pendingTaskId /\ pendingTaskId # NoTask
  <2>1. PICK s \in sessions : Created(pendingTaskId, s)
    BY <1>2 DEF ChatInv, PendingKnown
  <2>2. tasks[pendingTaskId].about = s /\ tasks'[pendingTaskId].about = s
    BY <2>1 DEF Grows, Created
  <2> QED
    BY <1>2, <2>2 DEF ChatInv, PollFollows
<1> QED
  BY <1>1, <1>2

\* Most steps leave the page where it is and put out the indicator at most.
LEMMA PageKept ==
    ASSUME ChatInv, Grows, EntriesTyped', UNCHANGED sending,
           UNCHANGED <<open, sessions, activeSessionId, poll>>,
           pendingTaskId' \in {NoTask, pendingTaskId}
    PROVE  ChatInv'
<1>1. SessionsKnown'
  BY DEF ChatInv, SessionsKnown
<1> QED
  BY <1>1, SendingKept, PendingKept, PollKept DEF ChatInv, Grows

-----------------------------------------------------------------------------
(* Steps on the query *)

LEMMA OneEntry ==
    ASSUME ChatInv, Grows, NEW a, NEW e, entries' = [entries EXCEPT ![a] = e],
           a \in Session => /\ e \in Entry
                            /\ e.data \in {entries[a].data, entries[a].answer, NoTask}
                            /\ e.answer \in {entries[a].answer, None}
    PROVE  EntriesTyped'
<1>1. entries \in [Session -> Entry]
  BY DEF ChatInv, EntriesTyped
<1>2. entries' \in [Session -> Entry]
  BY <1>1
<1>3. ASSUME NEW s \in Session PROVE Derived(s)
  BY <1>1 DEF Derived
<1> QED
  BY <1>2, <1>3, EntriesKept

LEMMA SameEntries == ASSUME ChatInv, Grows, UNCHANGED entries PROVE EntriesTyped'
<1>1. \A s \in Session : Derived(s)
  BY DEF Derived
<1> QED
  BY <1>1, EntriesKept DEF ChatInv, EntriesTyped

\* GetPendingChatTask answers with a task of the session, if with any.
LEMMA PendingIsCreated ==
    ASSUME TasksTyped, NEW s \in Session
    PROVE  GetPendingChatTask(s) = NoTask \/ Created(GetPendingChatTask(s), s)
<1> DEFINE latest == {t \in Task : /\ tasks[t].about = s /\ Live(t)
                                   /\ \A u \in Task : u > t /\ tasks[u].about = s => ~Live(u)}
<1>1. CASE latest = {}
  BY <1>1 DEF GetPendingChatTask
<1>2. CASE latest # {}
  <2>1. GetPendingChatTask(s) \in latest
    BY <1>2 DEF GetPendingChatTask
  <2>2. \A t \in latest : t \in Task /\ tasks[t].about = s /\ Live(t)
    OBVIOUS
  <2> QED
    BY <2>1, <2>2 DEF Created, Live
<1> QED
  BY <1>1, <1>2

LEMMA AnswerKept == ASSUME ChatInv, NEW s \in Session, AnswerPending(s) PROVE ChatInv'
<1>1. Grows /\ entries \in [Session -> Entry]
  BY SameTasksGrow DEF ChatInv, EntriesTyped, AnswerPending, events
<1> DEFINE g == GetPendingChatTask(s)
<1>2. Names(g, s) /\ g \in Datum
  BY PendingIsCreated DEF ChatInv, Names, Datum, Created
<1> HIDE DEF g
<1>3. entries' = [entries EXCEPT ![s].fetch = "answered", ![s].answer = g]
  BY DEF AnswerPending, g
<1>4. entries' \in [Session -> Entry]
  <2>1. [entries[s] EXCEPT !.fetch = "answered", !.answer = g] \in Entry
    BY <1>1, <1>2 DEF Entry
  <2> QED
    BY <1>1, <1>3, <2>1
<1>5. ASSUME NEW u \in Session
      PROVE  entries'[u].data = entries[u].data
             /\ entries'[u].answer = IF u = s THEN g ELSE entries[u].answer
  BY <1>1, <1>3 DEF Entry
<1>6. \A u \in Session : Names(entries'[u].data, u) /\ Names(entries'[u].answer, u)
  BY <1>2, <1>5 DEF ChatInv, EntriesTyped
<1>7. UNCHANGED tasks
  BY DEF AnswerPending, events
<1>8. EntriesTyped'
  BY <1>4, <1>6, <1>7 DEF EntriesTyped, Names, Created
<1> QED
  BY <1>1, <1>8, PageKept DEF AnswerPending, store, effects, calls

LEMMA ArrivesKept == ASSUME ChatInv, NEW s \in Session, PendingArrives(s) PROVE ChatInv'
<1>1. Grows /\ entries[s] \in Entry
  BY SameTasksGrow DEF ChatInv, EntriesTyped, PendingArrives, events
<1> DEFINE arrived == Succeed(entries[s])
           marked  == Invalidate(arrived, s = activeSessionId)
<1>2. arrived \in Entry /\ arrived.data = entries[s].answer /\ arrived.answer = None
  <2>1. NoTask \in Datum
    BY DEF Datum
  <2> QED
    BY <1>1, <2>1, EntryTypes
<1>3. marked \in Entry /\ marked.data = arrived.data /\ marked.answer \in {arrived.answer, None}
  <2> HIDE DEF arrived
  <2> QED
    BY <1>2, InvalidateTypes
<1>4. PICK e \in {arrived, marked} : entries' = [entries EXCEPT ![s] = e]
  BY DEF PendingArrives
<1> HIDE DEF arrived, marked
<1>5. EntriesTyped'
  BY <1>1, <1>2, <1>3, <1>4, OneEntry
<1> QED
  BY <1>1, <1>5, PageKept DEF PendingArrives, calls

LEMMA FetchKept ==
    ASSUME ChatInv, (\E s \in Session : PendingFails(s)) \/ RefetchOnFocus \/ PollTick
    PROVE  ChatInv'
<1>1. Grows /\ UNCHANGED <<open, sessions, activeSessionId, poll, pendingTaskId, sending>>
  BY SameTasksGrow DEF ChatInv, PendingFails, RefetchOnFocus, PollTick, events, store, effects, calls
<1>2. NoTask \in Datum /\ TRUE \in BOOLEAN
  BY DEF Datum
<1>3. \A s \in Session : entries[s] \in Entry
  BY DEF ChatInv, EntriesTyped
<1>4. ASSUME NEW s \in Session, PendingFails(s) PROVE EntriesTyped'
  <2>1. entries' = [entries EXCEPT ![s] = Fail(entries[s])]
    BY <1>4 DEF PendingFails
  <2> QED
    BY <1>1, <1>2, <1>3, <2>1, EntryTypes, OneEntry
<1>5. ASSUME NEW a, entries' = [entries EXCEPT ![a] = StartFetch(entries[a])] PROVE EntriesTyped'
  BY <1>1, <1>2, <1>3, <1>5, EntryTypes, OneEntry
<1>6. EntriesTyped'
  <2>1. CASE RefetchOnFocus
    BY <1>5, <2>1 DEF RefetchOnFocus
  <2>2. CASE PollTick
    <3>1. PICK e \in {StartFetch(entries[poll.session]), entries[poll.session]} :
             entries' = [entries EXCEPT ![poll.session] = e]
      BY <2>2 DEF PollTick
    <3>2. CASE poll.session \in Session
      BY <1>1, <1>2, <1>3, <3>1, <3>2, EntryTypes, OneEntry
    <3>3. CASE poll.session \notin Session
      BY <1>1, <3>1, <3>3, OneEntry
    <3> QED
      BY <3>2, <3>3
  <2> QED
    BY <1>4, <2>1, <2>2
<1> QED
  BY <1>1, <1>6, PageKept

\* The handlers of an event, on the cache and on the store.
LEMMA ReceiveKept == ASSUME ChatInv, ReceiveInChat PROVE ChatInv'
<1>1. /\ Grows /\ UNCHANGED <<open, sessions, activeSessionId, poll, sending>>
      /\ \E m : onChatMessage(m) \/ onChatTaskEnd(m)
  BY SameTasksGrow DEF ChatInv, ReceiveInChat, effects, calls
<1>2. NoTask \in Datum /\ entries \in [Session -> Entry]
  BY DEF Datum, ChatInv, EntriesTyped
<1>3. PICK m : onChatMessage(m) \/ onChatTaskEnd(m)
  BY <1>1
<1>4. ASSUME onChatMessage(m) PROVE EntriesTyped' /\ pendingTaskId' = pendingTaskId
  <2>1. entries' = [entries EXCEPT ![m.about] = Invalidate(entries[m.about], m.about = activeSessionId)]
    BY <1>4 DEF onChatMessage
  <2> DEFINE k == m.about
             e == Invalidate(entries[k], k = activeSessionId)
  <2>2. k \in Session => /\ e \in Entry /\ e.data = entries[k].data
                         /\ e.answer \in {entries[k].answer, None}
    <3> HIDE DEF k
    <3>1. k \in Session => entries[k] \in Entry
      BY <1>2
    <3> QED
      BY <3>1, InvalidateTypes
  <2>3. entries' = [entries EXCEPT ![k] = e]
    BY <2>1
  <2> HIDE DEF e, k
  <2>4. EntriesTyped'
    BY <1>1, <2>2, <2>3, OneEntry
  <2> QED
    BY <1>4, <2>4 DEF onChatMessage
<1>5. ASSUME onChatTaskEnd(m) PROVE EntriesTyped' /\ pendingTaskId' \in {NoTask, pendingTaskId}
  <2> DEFINE set(s)  == SetData(entries[s], NoTask)
             e       == Invalidate(set(m.about), m.about = activeSessionId)
             cleared == [entries EXCEPT ![m.about] = e]
  <2>1. ASSUME NEW s \in Session
        PROVE set(s) \in Entry /\ set(s).data = NoTask /\ set(s).answer = entries[s].answer
    <3>1. entries[s] \in Entry /\ NoTask \in Datum
      BY <1>2 DEF Datum
    <3> QED
      BY <3>1, EntryTypes
  <2> HIDE DEF set
  <2>2. m.about \in Session => /\ e \in Entry /\ e.data = NoTask
                               /\ e.answer \in {entries[m.about].answer, None}
    <3> DEFINE k == m.about
    <3> HIDE DEF k
    <3>1. k \in Session => /\ set(k) \in Entry /\ set(k).data = NoTask
                           /\ set(k).answer = entries[k].answer
      BY <2>1
    <3>2. k \in Session =>
            LET i == Invalidate(set(k), k = activeSessionId)
            IN  i \in Entry /\ i.data = NoTask /\ i.answer \in {entries[k].answer, None}
      BY <3>1, InvalidateTypes
    <3> QED
      BY <3>2 DEF k
  <2> HIDE DEF e
  <2>3. cleared \in [Session -> Entry]
    BY <1>2, <2>2
  <2>4. \A s \in Session : /\ cleared[s].data \in {entries[s].data, NoTask}
                           /\ cleared[s].answer \in {entries[s].answer, None}
    BY <1>2, <2>2
  <2>5. entries' \in {cleared, [cleared EXCEPT ![activeSessionId] = Invalidate(cleared[activeSessionId], TRUE)]}
    BY <1>5 DEF onChatTaskEnd, set, e
  <2> HIDE DEF cleared
  <2> DEFINE again == Invalidate(cleared[activeSessionId], TRUE)
  <2>6. activeSessionId \in Session =>
          again \in Entry /\ again.data = cleared[activeSessionId].data
          /\ again.answer \in {cleared[activeSessionId].answer, None}
    BY <1>2, <2>3, EntryTypes
  <2> HIDE DEF again
  <2>7. entries' = cleared \/ entries' = [cleared EXCEPT ![activeSessionId] = again]
    BY <2>5 DEF again
  <2>8. entries' \in [Session -> Entry]
    BY <2>3, <2>6, <2>7
  <2>9. \A s \in Session : Derived(s)
    BY <2>3, <2>4, <2>6, <2>7 DEF Derived
  <2>10. EntriesTyped'
    BY <1>1, <2>8, <2>9, EntriesKept
  <2> QED
    BY <1>5, <2>10 DEF onChatTaskEnd
<1> QED
  BY <1>1, <1>3, <1>4, <1>5, PageKept

-----------------------------------------------------------------------------
(* What the user does *)

LEMMA ObserveKept ==
    ASSUME ChatInv, Grows, NEW s \in Session, Observe(s)
    PROVE  EntriesTyped'
<1>1. NoTask \in Datum /\ TRUE \in BOOLEAN /\ entries[s] \in Entry
  BY DEF Datum, ChatInv, EntriesTyped
<1>2. PICK e \in {Mount(entries[s]), StartFetch(entries[s])} : entries' = [entries EXCEPT ![s] = e]
  BY DEF Observe
<1> QED
  BY <1>1, <1>2, EntryTypes, OneEntry

LEMMA StopKept == ASSUME ChatInv, handleStop \/ StopAnswered PROVE ChatInv'
<1>1. Grows
  BY StopGrows, SameTasksGrow DEF ChatInv, StopAnswered, events
<1>2. UNCHANGED <<open, sessions, activeSessionId, poll, sending, entries>>
      /\ pendingTaskId' \in {NoTask, pendingTaskId}
  BY DEF handleStop, StopAnswered, store, query, effects
<1> QED
  BY <1>1, <1>2, SameEntries, PageKept

LEMMA LeaveKept == ASSUME ChatInv, LeavePage PROVE ChatInv'
<1>1. Grows
  BY SameTasksGrow DEF ChatInv, LeavePage, events
<1>2. UNCHANGED <<sessions, activeSessionId, pendingTaskId, sending, entries>>
  BY DEF LeavePage, store, query
<1>3. PollFollows'
  BY DEF LeavePage, PollFollows, NoPoll, NoTask
<1>4. SessionsKnown'
  BY <1>2 DEF ChatInv, SessionsKnown
<1> QED
  BY <1>1, <1>2, <1>3, <1>4, SameEntries, SendingKept, PendingKept DEF ChatInv, Grows

\* The page has no interval when it opens, so none for another session.
LEMMA OpenKept == ASSUME ChatInv, OpenPage PROVE ChatInv'
<1>1. Grows
  BY SameTasksGrow DEF ChatInv, OpenPage, events
<1>2. UNCHANGED <<sessions, pendingTaskId, sending, poll>> /\ open'
  BY DEF OpenPage, calls, effects
<1>3. poll = NoPoll
  BY DEF ChatInv, PollFollows, OpenPage
<1>4. PollFollows'
  BY <1>2, <1>3 DEF PollFollows, NoPoll
<1>5. SessionsKnown' /\ EntriesTyped'
  <2>1. CASE UNCHANGED <<activeSessionId, entries>>
    BY <1>1, <1>2, <2>1, SameEntries DEF ChatInv, SessionsKnown
  <2>2. CASE \E s \in sessions : activeSessionId' = s /\ Observe(s)
    BY <1>1, <1>2, <2>2, ObserveKept DEF ChatInv, SessionsKnown
  <2> QED
    BY <2>1, <2>2 DEF OpenPage
<1> QED
  BY <1>1, <1>2, <1>4, <1>5, SendingKept, PendingKept DEF ChatInv, Grows

LEMMA SelectKept == ASSUME ChatInv, NEW s \in Session, handleSelectSession(s) PROVE ChatInv'
<1>1. Grows
  BY SameTasksGrow DEF ChatInv, handleSelectSession, events
<1>2. /\ UNCHANGED <<sessions, sending, poll, open>> /\ pendingTaskId' = NoTask
      /\ s \in sessions /\ activeSessionId' = s /\ Observe(s)
  BY DEF handleSelectSession, calls, effects
<1>3. PollFollows' /\ SessionsKnown'
  BY <1>2 DEF ChatInv, PollFollows, SessionsKnown
<1> QED
  BY <1>1, <1>2, <1>3, ObserveKept, SendingKept, PendingKept DEF ChatInv, Grows

\* The pending task of an archived session stays, and is of no active session.
LEMMA CloseSessionKept == ASSUME ChatInv, handleNewChat \/ handleArchive PROVE ChatInv'
<1>1. Grows
  BY SameTasksGrow DEF ChatInv, handleNewChat, handleArchive, events
<1>2. /\ UNCHANGED <<sessions, sending, poll, open, entries>>
      /\ activeSessionId' = None /\ pendingTaskId' \in {NoTask, pendingTaskId}
  BY DEF handleNewChat, handleArchive, calls, effects
<1>3. SessionsKnown'
  BY <1>2 DEF ChatInv, SessionsKnown
<1>4. PendingKnown'
  BY <1>1, <1>2, PendingKept
<1>5. PollFollows'
  <2>1. CASE pendingTaskId' = NoTask
    BY <1>2, <2>1 DEF ChatInv, PollFollows
  <2>2. CASE pendingTaskId' # NoTask
    <3>1. PICK u \in sessions : Created(pendingTaskId, u)
      BY <1>2, <2>2 DEF ChatInv, PendingKnown
    <3>2. tasks'[pendingTaskId'].about # None
      BY <1>1, <1>2, <2>2, <3>1 DEF Grows, Created, ChatInv, SessionsKnown
    <3> QED
      BY <1>2, <3>2 DEF ChatInv, PollFollows
  <2> QED
    BY <2>1, <2>2
<1> QED
  BY <1>1, <1>2, <1>3, <1>4, <1>5, SameEntries, SendingKept DEF ChatInv, Grows

\* A session that is created has no task yet.
LEMMA SessionCreatedKept ==
    ASSUME ChatInv, NEW x \in Send, NEW s \in Session, SessionCreated(x, s)
    PROVE  ChatInv'
<1>1. Grows
  BY SameTasksGrow DEF ChatInv, SessionCreated, events
<1>2. /\ UNCHANGED <<pendingTaskId, poll, open>> /\ s \notin sessions
      /\ sessions' = sessions \cup {s} /\ activeSessionId' = s /\ Observe(s)
      /\ sending' = [sending EXCEPT ![x] = [pc |-> "sent", session |-> s]]
  BY DEF SessionCreated, effects
<1>3. SessionsKnown'
  BY <1>2 DEF ChatInv, SessionsKnown
<1>4. SendingKnown'
  <2>. DEFINE d == [pc |-> "sent", session |-> s]
  <2>1. d.pc = "sent" /\ d.session \in sessions' /\ sending' = [sending EXCEPT ![x] = d]
    BY <1>2
  <2>. HIDE DEF d
  <2>. QED
    BY <1>1, <1>2, <2>1, OneSend
<1>5. PollFollows'
  <2>1. CASE pendingTaskId = NoTask
    BY <1>2, <2>1 DEF ChatInv, PollFollows
  <2>2. CASE pendingTaskId # NoTask
    <3>1. PICK u \in sessions : Created(pendingTaskId, u)
      BY <2>2 DEF ChatInv, PendingKnown
    <3>2. tasks'[pendingTaskId].about = u /\ u # s
      BY <1>1, <1>2, <3>1 DEF Grows, Created
    <3> QED
      BY <1>2, <3>2 DEF ChatInv, PollFollows
  <2> QED
    BY <2>1, <2>2
<1> QED
  BY <1>1, <1>2, <1>3, <1>4, <1>5, ObserveKept, PendingKept DEF ChatInv, Grows

\* Sending, up to the answer.
LEMMA SendKept ==
    ASSUME ChatInv, NEW x \in Send,
           handleSend(x) \/ SendFails(x) \/ \E t \in Task : EnqueueChatTask(x, t)
    PROVE  ChatInv'
<1>1. UNCHANGED <<open, sessions, activeSessionId, pendingTaskId, poll, entries>>
  BY DEF handleSend, SendFails, EnqueueChatTask, store, query, effects
<1>2. Grows
  BY SameTasksGrow, EnqueueGrows DEF ChatInv, handleSend, SendFails, events
<1>3. SendingKnown'
  <2>1. CASE handleSend(x)
    <3>1. PICK d : /\ sending' = [sending EXCEPT ![x] = d]
                   /\ \/ d = [pc |-> "creating"]
                      \/ d = [pc |-> "sent", session |-> activeSessionId] /\ activeSessionId # None
      BY <2>1 DEF handleSend
    <3>2. d.pc # "answered" /\ (d.pc = "sent" => d.session \in sessions')
      BY <1>1, <3>1 DEF ChatInv, SessionsKnown
    <3> QED
      BY <1>1, <1>2, <3>1, <3>2, OneSend
  <2>2. CASE SendFails(x)
    <3>1. sending' = [sending EXCEPT ![x] = Idle] /\ Idle.pc = "idle"
      BY <2>2 DEF SendFails, SendOver, Idle
    <3> QED
      BY <1>1, <1>2, <3>1, OneSend
  <2>3. ASSUME NEW t \in Task, EnqueueChatTask(x, t) PROVE SendingKnown'
    <3>. DEFINE d == [pc |-> "answered", session |-> sending[x].session, task |-> t]
    <3>1. sending' = [sending EXCEPT ![x] = d]
      BY <2>3 DEF EnqueueChatTask
    <3>2. /\ sending[x].session \in sessions
          /\ tasks'[t].status # "absent" /\ tasks'[t].about = sending[x].session
      BY <2>3, EnqueueGrows
    <3>3. d.pc = "answered" /\ d.session = sending[x].session /\ d.task = t
      OBVIOUS
    <3>. HIDE DEF d
    <3> QED
      BY <1>1, <1>2, <3>1, <3>2, <3>3, OneSend
  <2> QED
    BY <2>1, <2>2, <2>3
<1>4. EntriesTyped' /\ SessionsKnown'
  BY <1>1, <1>2, SameEntries DEF ChatInv, SessionsKnown
<1> QED
  BY <1>1, <1>2, <1>3, <1>4, PendingKept, PollKept DEF ChatInv, Grows

\* The answer comes when the effects have run: an interval of the page that is
\* for this task was made when the task was adopted, in the same session.
LEMMA SendAnsweredKept == ASSUME ChatInv, ~EffectsDue, NEW x \in Send, SendAnswered(x) PROVE ChatInv'
<1>1. Grows
  BY SameTasksGrow DEF ChatInv, SendAnswered, events
<1>2. /\ UNCHANGED <<open, sessions, activeSessionId, poll, entries>>
      /\ sending[x].pc = "answered" /\ pendingTaskId' = sending[x].task /\ sending' = [sending EXCEPT ![x] = Idle]
  BY DEF SendAnswered, SendOver, query, effects
<1>3. sending[x].session \in sessions /\ Created(sending[x].task, sending[x].session)
  BY <1>2 DEF ChatInv, SendingKnown
<1>4. PendingKnown'
  BY <1>1, <1>2, <1>3 DEF PendingKnown, Grows
<1>5. sending[x].task # NoTask
  BY <1>3 DEF Created, NoTask
<1>6. poll.task = sending[x].task => pendingTaskId = sending[x].task
  <2>1. CASE open
    BY <2>1 DEF EffectsDue
  <2>2. CASE ~open
    BY <1>5, <2>2 DEF ChatInv, PollFollows, NoPoll
  <2> QED
    BY <2>1, <2>2
<1>7. UNCHANGED tasks
  BY DEF SendAnswered, events
<1>8. PollFollows'
  BY <1>2, <1>5, <1>6, <1>7 DEF ChatInv, PollFollows
<1>9. SessionsKnown'
  BY <1>2 DEF ChatInv, SessionsKnown
<1>10. SendingKnown'
  <2>1. Idle.pc = "idle"
    BY DEF Idle
  <2> QED
    BY <1>1, <1>2, <2>1, OneSend
<1> QED
  BY <1>1, <1>2, <1>4, <1>8, <1>9, <1>10, SameEntries DEF ChatInv, Grows

LEMMA EffectsKept == ASSUME ChatInv, RunEffects PROVE ChatInv'
<1>1. Grows
  BY SameTasksGrow DEF ChatInv, RunEffects, events
<1>2. UNCHANGED <<tasks, open, sessions, activeSessionId, entries, sending>> /\ open
  BY DEF RunEffects, EffectsDue, calls, events
<1>3. SessionsKnown'
  BY <1>2 DEF ChatInv, SessionsKnown
<1>4. Adopts => activeSessionId \in sessions /\ Created(serverTaskId, activeSessionId) /\ pendingTaskId = NoTask
  <2> SUFFICES ASSUME Adopts
               PROVE  activeSessionId \in sessions /\ Created(serverTaskId, activeSessionId)
    BY DEF Adopts
  <2>1. activeSessionId # None /\ serverTaskId = entries[activeSessionId].data
        /\ serverTaskId \notin {None, NoTask}
    BY DEF Adopts, serverTaskId
  <2>2. activeSessionId \in sessions /\ activeSessionId \in Session
    BY <2>1 DEF ChatInv, SessionsKnown
  <2> QED
    BY <2>1, <2>2 DEF ChatInv, EntriesTyped, Names
<1>5. pendingTaskId' \in {NoTask, pendingTaskId} \/ (Adopts /\ pendingTaskId' = serverTaskId)
  BY DEF RunEffects
<1>6. PendingKnown'
  <2>1. CASE pendingTaskId' \in {NoTask, pendingTaskId}
    BY <1>1, <1>2, <2>1, PendingKept
  <2>2. CASE Adopts /\ pendingTaskId' = serverTaskId
    BY <1>1, <1>2, <1>4, <2>2 DEF PendingKnown, Grows
  <2> QED
    BY <1>5, <2>1, <2>2
<1>7. PollFollows'
  <2>1. CASE pendingTaskId = poll.task
    <3>1. poll' = poll
      BY <2>1 DEF RunEffects
    <3> QED
      BY <1>2, <1>4, <1>5, <2>1, <3>1 DEF ChatInv, PollFollows, Adopts
  <2>2. CASE pendingTaskId # poll.task
    <3>1. poll' = [task |-> pendingTaskId,
                   session |-> IF pendingTaskId = NoTask THEN None ELSE activeSessionId]
      BY <2>2 DEF RunEffects
    <3> QED
      BY <1>2, <1>4, <1>5, <3>1 DEF PollFollows
  <2> QED
    BY <2>1, <2>2
<1> QED
  BY <1>1, <1>2, <1>3, <1>6, <1>7, SameEntries, SendingKept DEF ChatInv, Grows

-----------------------------------------------------------------------------
(* An indicator that is on is watched *)

LEMMA ChatStepKept ==
    ASSUME ChatInv, RunEffects \/ (~EffectsDue /\ ChatStep) PROVE ChatInv'
<1>1. CASE RunEffects
  BY <1>1, EffectsKept
<1>2. CASE ~EffectsDue /\ ChatStep
  BY <1>2, AnswerKept, ArrivesKept, FetchKept, ReceiveKept, StopKept, LeaveKept, OpenKept,
     SelectKept, CloseSessionKept, SessionCreatedKept, SendKept, SendAnsweredKept
  DEF ChatStep
<1> QED
  BY <1>1, <1>2

LEMMA ChatEventKept ==
    ASSUME ChatInv, page = "chat", EventStep, UNCHANGED chatVars
    PROVE  ChatInv'
<1>1. Grows
  <2>1. CASE Reconnect
    BY <2>1, SameTasksGrow DEF ChatInv, Reconnect
  <2>2. CASE ~Reconnect
    BY <2>2, EventsGrow DEF ChatInv, EventStep
  <2> QED
    BY <2>1, <2>2
<1> QED
  BY <1>1, SameEntries, PageKept DEF chatVars

LEMMA Kept == IndInv /\ [Next]_vars => IndInv'
<1> SUFFICES ASSUME IndInv, [Next]_vars PROVE IndInv'
  OBVIOUS
<1>1. CASE UNCHANGED vars
  BY <1>1 DEF vars, events, chatVars, IndInv, ChatInv, TasksTyped, EntriesTyped, Names, Created,
              SessionsKnown, SendingKnown, PendingKnown, PollFollows
<1>2. CASE Next /\ page = "issue"
  BY <1>2 DEF Next, IndInv, chatVars
<1>3. CASE Next /\ page = "chat"
  <2>1. ChatInv'
    BY <1>3, ChatStepKept, ChatEventKept DEF Next, IndInv
  <2> QED
    BY <1>3, <2>1 DEF Next, IndInv
<1> QED
  BY <1>1, <1>2, <1>3 DEF IndInv

LEMMA Initially == Init => IndInv
<1> SUFFICES ASSUME Init PROVE IndInv
  OBVIOUS
<1>1. CASE page = "issue"
  BY <1>1 DEF Init, IndInv
<1>2. CASE page = "chat"
  <2>1. EventsInit /\ ChatInit
    BY <1>2 DEF Init
  <2>2. TasksTyped
    BY <2>1 DEF EventsInit, Absent, TasksTyped, Row
  <2>3. Empty \in Entry /\ Empty.data = None /\ Empty.answer = None
    BY DEF Empty, Entry, Datum
  <2>4. StartFetch(Empty) \in Entry /\ StartFetch(Empty).data = None /\ StartFetch(Empty).answer = None
    <3>1. NoTask \in Datum /\ TRUE \in BOOLEAN
      BY DEF Datum
    <3> QED
      BY <2>3, <3>1, EntryTypes
  <2>5. EntriesTyped
    BY <2>1, <2>3, <2>4 DEF ChatInit, EntriesTyped, Names
  <2>6. SessionsKnown /\ SendingKnown /\ PendingKnown
    BY <2>1 DEF ChatInit, SessionsKnown, SendingKnown, PendingKnown, Idle
  <2>7. PollFollows
    BY <2>1 DEF ChatInit, PollFollows, NoPoll
  <2> QED
    BY <1>2, <2>2, <2>5, <2>6, <2>7 DEF IndInv, ChatInv
<1> QED
  BY <1>1, <1>2 DEF Init

\* The safety-net poll of useChatStreaming: whichever message is lost, the
\* indicator of a session at work is never left with nothing to put it out.
THEOREM AlwaysWatched == Spec => []IndicatorWatched
<1>1. IndInv => IndicatorWatched
  <2> SUFFICES ASSUME IndInv, NEW t \in Task, open, ~EffectsDue, pendingTaskId = t,
                      tasks[t].about = activeSessionId
               PROVE  poll.session = activeSessionId
    BY DEF IndicatorWatched
  <2>1. pendingTaskId # NoTask /\ pendingTaskId = poll.task
    BY DEF EffectsDue, NoTask
  <2> QED
    BY <2>1 DEF IndInv, ChatInv, PollFollows
<1>2. IndInv /\ [Next]_vars => IndInv'
  BY Kept
<1>3. Init => IndInv
  BY Initially
<1> QED
  BY <1>1, <1>2, <1>3, PTL DEF Spec

-----------------------------------------------------------------------------
(* Numbers that are bounded have a last one *)

LEMMA BoundedHasLast ==
    ASSUME NEW S \in SUBSET Nat, NEW B \in Nat, \A x \in S : x <= B, S # {}
    PROVE  \E last \in S : \A x \in S : x <= last
<1> DEFINE Left == {n \in Nat : \E x \in S : n = B - x}
<1>1. Left \subseteq Nat /\ Left # {}
  <2>1. PICK x \in S : TRUE
    OBVIOUS
  <2>2. B - x \in Left
    BY <2>1
  <2> QED
    BY <2>2
<1> HIDE DEF Left
<1>2. PICK least \in Left : \A n \in Left : <<n, least>> \notin OpToRel(<, Nat)
  BY <1>1, NatLessThanWellFounded, WFMin, Zenon
<1>3. \A n \in Left : ~(n < least)
  BY <1>1, <1>2, Zenon DEF OpToRel
<1>4. PICK last \in S : least = B - last
  BY <1>2 DEF Left
<1>5. ASSUME NEW x \in S PROVE x <= last
  <2>1. B - x \in Left
    BY <1>5 DEF Left
  <2> QED
    BY <1>3, <1>4, <2>1
<1> QED
  BY <1>4, <1>5

-----------------------------------------------------------------------------
(* What an active session needs for its indicator to be shown *)

Message == [type : {"chat:message", "chat:done", "task:completed", "task:failed"},
            task : Task, about : Session \cup {Issue, None}, seq : Nat]
Flight  == {wire[i] : i \in 1 .. Len(wire)}

WireTyped    == wire \in Seq(Message)
TasksBounded == \E last \in Nat : \A t \in Task : tasks[t].status # "absent" => t <= last

Work(s)          == \E t \in Task : tasks[t].about = s /\ Live(t)
MessageComing(s) == \E m \in Flight : m.type = "chat:message" /\ m.about = s

\* An entry that is observed has data or is being fetched.
Filled(e, active) == e.fetch = "idle" /\ e.data = None => ~active
Answered(e)       == e.fetch = "answered" => e.answer # None

\* An entry that does not deny a task: none is on its way to deny one, and one
\* that denies it is not observed and is fetched again when it is.
Admits(e, active) == /\ e.fetch = "answered" => e.answer # NoTask
                     /\ e.fetch = "idle" /\ e.data = NoTask => e.invalid /\ ~active

Active(s) == s = activeSessionId

EntryFollows(s) ==
    /\ ~missed => Filled(entries[s], Active(s))
    /\ Answered(entries[s])
    /\ ~missed /\ s \notin raced /\ Work(s) => MessageComing(s) \/ Admits(entries[s], Active(s))

\* With the effects run, the store has no task only if the query has none.
StoreFollows ==
    open /\ updated = "no" /\ pendingTaskId = NoTask /\ poll.task = NoTask => serverTaskId = NoTask

ShownInv == WireTyped /\ TasksBounded /\ StoreFollows /\ \A s \in Session : EntryFollows(s)

-----------------------------------------------------------------------------
(* What the steps on an entry do to it *)

\* From e, observed or not, to f, observed or not.
Improves(e, active, f, now) ==
    /\ Answered(e) => Answered(f)
    /\ Filled(e, active) => Filled(f, now)
    /\ Admits(e, active) => Admits(f, now)

LEMMA NoTaskIsSome == NoTask # None /\ NoTask \in Datum
BY DEF NoTask, Datum

LEMMA FetchImproves ==
    ASSUME NEW e \in Entry, NEW active \in BOOLEAN, NEW now \in BOOLEAN
    PROVE  Improves(e, active, StartFetch(e), now)
BY DEF Improves, Answered, Filled, Admits, StartFetch, Entry

LEMMA MountImproves ==
    ASSUME NEW e \in Entry, NEW active \in BOOLEAN
    PROVE  Improves(e, active, Mount(e), TRUE)
BY DEF Improves, Answered, Filled, Admits, Mount, StartFetch, Entry

\* An invalidated entry is marked, if it has data to be marked, or being fetched.
LEMMA InvalidateFields ==
    ASSUME NEW e \in Entry, NEW active \in BOOLEAN, NEW f, f = Invalidate(e, active)
    PROVE  IF CannotRefetch(e, active)
           THEN /\ f.fetch = e.fetch /\ f.answer = e.answer /\ f.data = e.data
                /\ f.invalid = (e.data # None)
           ELSE f.fetch = "asked"
<1> DEFINE marked == [e EXCEPT !.invalid = e.data # None]
<1>1. /\ marked \in Entry /\ marked.fetch = e.fetch /\ marked.answer = e.answer
      /\ marked.data = e.data /\ marked.invalid = (e.data # None)
  BY DEF Entry
<1>2. f = IF CannotRefetch(e, active) THEN marked ELSE StartFetch(marked)
  BY DEF Invalidate
<1> HIDE DEF marked
<1>3. StartFetch(marked).fetch = "asked"
  BY <1>1 DEF StartFetch, Entry
<1> QED
  BY <1>1, <1>2, <1>3

LEMMA InvalidateImproves ==
    ASSUME NEW e \in Entry, NEW active \in BOOLEAN
    PROVE  Improves(e, active, Invalidate(e, active), active)
<1> DEFINE f == Invalidate(e, active)
<1>1. IF CannotRefetch(e, active)
      THEN /\ f.fetch = e.fetch /\ f.answer = e.answer /\ f.data = e.data
           /\ f.invalid = (e.data # None)
      ELSE f.fetch = "asked"
  BY InvalidateFields
<1> HIDE DEF f
<1>2. CASE CannotRefetch(e, active)
  <2>1. Answered(e) => Answered(f)
    BY <1>1, <1>2 DEF Answered
  <2>2. Filled(e, active) => Filled(f, active)
    BY <1>1, <1>2 DEF Filled
  <2>3. Admits(e, active) => Admits(f, active)
    BY <1>1, <1>2, NoTaskIsSome DEF Admits, CannotRefetch
  <2> QED
    BY <2>1, <2>2, <2>3 DEF Improves, f
<1>3. CASE ~CannotRefetch(e, active)
  BY <1>1, <1>3 DEF Improves, Answered, Filled, Admits, f
<1> QED
  BY <1>2, <1>3

LEMMA ClearImproves ==
    ASSUME NEW e \in Entry, NEW active \in BOOLEAN
    PROVE  Improves(e, active, Invalidate(SetData(e, NoTask), active), active)
<1> DEFINE c == SetData(e, NoTask)
           f == Invalidate(c, active)
<1>1. c \in Entry /\ c.data = NoTask /\ c.fetch = e.fetch /\ c.answer = e.answer
  BY NoTaskIsSome DEF SetData, Entry
<1> HIDE DEF c
<1>2. IF CannotRefetch(c, active)
      THEN /\ f.fetch = c.fetch /\ f.answer = c.answer /\ f.data = c.data
           /\ f.invalid = (c.data # None)
      ELSE f.fetch = "asked"
  BY <1>1, InvalidateFields
<1> HIDE DEF f
<1>3. CASE CannotRefetch(c, active)
  <2>1. Answered(e) => Answered(f)
    BY <1>1, <1>2, <1>3 DEF Answered
  <2>2. Filled(f, active)
    BY <1>1, <1>2, <1>3, NoTaskIsSome DEF Filled
  <2>3. Admits(e, active) => Admits(f, active)
    BY <1>1, <1>2, <1>3, NoTaskIsSome DEF Admits, CannotRefetch
  <2> QED
    BY <2>1, <2>2, <2>3 DEF Improves, f, c
<1>4. CASE ~CannotRefetch(c, active)
  BY <1>2, <1>4 DEF Improves, Answered, Filled, Admits, f, c
<1> QED
  BY <1>3, <1>4

LEMMA ImprovesTwice ==
    ASSUME NEW e, NEW f, NEW g, NEW a, NEW b, NEW c, Improves(e, a, f, b), Improves(f, b, g, c)
    PROVE  Improves(e, a, g, c)
BY DEF Improves

LEMMA LeftAlone ==
    ASSUME NEW e, NEW active \in BOOLEAN, NEW now \in BOOLEAN, now => active
    PROVE  Improves(e, active, e, now)
BY DEF Improves, Answered, Filled, Admits

\* The event of a message makes an entry admit a task, unless an answer is on its way.
LEMMA InvalidateAdmits ==
    ASSUME NEW e \in Entry, NEW active \in BOOLEAN, ~(e.fetch # "idle" /\ CannotRefetch(e, active))
    PROVE  Admits(Invalidate(e, active), active)
<1> DEFINE f == Invalidate(e, active)
<1>1. IF CannotRefetch(e, active)
      THEN /\ f.fetch = e.fetch /\ f.answer = e.answer /\ f.data = e.data
           /\ f.invalid = (e.data # None)
      ELSE f.fetch = "asked"
  BY InvalidateFields
<1> HIDE DEF f
<1>2. Admits(f, active)
  BY <1>1, NoTaskIsSome DEF Admits, CannotRefetch
<1> QED
  BY <1>2 DEF f

-----------------------------------------------------------------------------
(* What a step has to do with a session *)

\* Work is taken on with a message, which is not lost unnoticed.
WorkTold(s) == /\ Work(s)' => Work(s) \/ MessageComing(s)'
               /\ MessageComing(s) /\ ~missed' => MessageComing(s)'

Histories == (missed => missed') /\ raced \subseteq raced'

LEMMA EntryFollowsKept ==
    ASSUME NEW s \in Session, EntryFollows(s), Histories, WorkTold(s),
           Improves(entries[s], Active(s), entries'[s], Active(s)')
    PROVE  EntryFollows(s)'
BY DEF EntryFollows, Histories, WorkTold, Improves

\* The effects have run, and the data of the session that is active are what
\* they were or deny a task.
LEMMA StoreFollowsKept ==
    ASSUME StoreFollows, ~EffectsDue, UNCHANGED <<open, updated, poll>>,
           serverTaskId' \in {serverTaskId, NoTask}
    PROVE  StoreFollows'
BY DEF StoreFollows, EffectsDue

\* The same where effects are due.
LEMMA EffectsAreDue == ASSUME updated' # "no" \/ ~open' PROVE StoreFollows'
BY DEF StoreFollows

LEMMA SameServerTask ==
    ASSUME ChatInv, UNCHANGED activeSessionId, entries' \in [Session -> Entry],
           \A s \in Session : Active(s) => entries'[s].data = entries[s].data
    PROVE  serverTaskId' = serverTaskId
BY DEF ChatInv, SessionsKnown, serverTaskId, Active

-----------------------------------------------------------------------------
(* What the steps of the server do *)

\* The latest task at work, if the session has one, is answered.
LEMMA WorkIsPending ==
    ASSUME TasksTyped, TasksBounded, NEW s \in Session, Work(s)
    PROVE  GetPendingChatTask(s) # NoTask
<1> DEFINE atWork == {t \in Task : tasks[t].about = s /\ Live(t)}
           latest == {t \in Task : /\ tasks[t].about = s /\ Live(t)
                                   /\ \A u \in Task : u > t /\ tasks[u].about = s => ~Live(u)}
<1>1. PICK last \in Nat : \A t \in Task : tasks[t].status # "absent" => t <= last
  BY DEF TasksBounded
<1>2. atWork \in SUBSET Nat /\ atWork # {} /\ \A t \in atWork : t <= last
  BY <1>1 DEF Work, Live
<1>3. \E t \in atWork : \A u \in atWork : u <= t
  <2> HIDE DEF atWork
  <2> QED
    BY <1>2, BoundedHasLast
<1>4. PICK t \in atWork : \A u \in atWork : u <= t
  BY <1>3
<1>5. t \in latest
  <2>1. t \in Task /\ t \in Nat /\ tasks[t].about = s /\ Live(t)
    BY <1>4
  <2>2. ASSUME NEW u \in Task, u > t, tasks[u].about = s, Live(u) PROVE FALSE
    <3>1. u \in atWork /\ u \in Nat
      BY <2>2
    <3> QED
      BY <1>4, <2>1, <2>2, <3>1
  <2> QED
    BY <2>1, <2>2
<1>6. GetPendingChatTask(s) \in latest
  BY <1>5 DEF GetPendingChatTask
<1> QED
  BY <1>6 DEF NoTask

LEMMA OneMore ==
    ASSUME TasksBounded, NEW next \in Task,
           \A t \in Task \ {next} : tasks'[t].status # "absent" => tasks[t].status # "absent"
    PROVE  TasksBounded'
<1>1. PICK last \in Nat : \A t \in Task : tasks[t].status # "absent" => t <= last
  BY DEF TasksBounded
<1>2. CASE next <= last
  BY <1>1, <1>2 DEF TasksBounded
<1>3. CASE ~(next <= last)
  <2>1. next \in Nat /\ \A t \in Task : tasks'[t].status # "absent" => t <= next
    BY <1>1, <1>3
  <2> QED
    BY <2>1 DEF TasksBounded
<1> QED
  BY <1>2, <1>3

LEMMA PublishFlight ==
    ASSUME WireTyped, NEW published \in Seq(Message), Publish(published)
    PROVE  /\ WireTyped' /\ Flight \subseteq Flight'
           /\ \A i \in 1 .. Len(published) : published[i] \in Flight'
<1>1. wire' = wire \o published /\ wire \in Seq(Message)
  BY DEF Publish, WireTyped
<1>2. wire' \in Seq(Message) /\ Len(wire') = Len(wire) + Len(published)
  BY <1>1
<1>3. Len(wire) \in Nat /\ Len(published) \in Nat
  BY <1>1
<1>4. \A i \in 1 .. Len(wire) : wire'[i] = wire[i]
  BY <1>1
<1>5. ASSUME NEW i \in 1 .. Len(published) PROVE published[i] \in Flight'
  <2>1. Len(wire) + i \in 1 .. Len(wire')
    BY <1>2, <1>3
  <2>2. wire'[Len(wire) + i] = published[i]
    BY <1>1, <1>3
  <2> QED
    BY <2>1, <2>2 DEF Flight
<1>6. Flight \subseteq Flight'
  BY <1>2, <1>3, <1>4 DEF Flight
<1> QED
  BY <1>2, <1>5, <1>6 DEF WireTyped

LEMMA ReceiveFlight ==
    ASSUME WireTyped, wire # <<>>, wire' = Tail(wire)
    PROVE  WireTyped' /\ Head(wire) \in Message /\ Flight \subseteq Flight' \cup {Head(wire)}
<1>1. /\ wire' \in Seq(Message) /\ Len(wire) \in Nat \ {0} /\ Len(wire') = Len(wire) - 1
      /\ Head(wire) = wire[1] /\ Head(wire) \in Message
  BY DEF WireTyped
<1>2. \A i \in 1 .. Len(wire') : wire'[i] = wire[i + 1]
  BY <1>1 DEF WireTyped
<1>3. ASSUME NEW i \in 1 .. Len(wire), i # 1 PROVE wire[i] \in Flight'
  <2>1. i - 1 \in 1 .. Len(wire') /\ wire'[i - 1] = wire[i]
    BY <1>1, <1>2, <1>3
  <2> QED
    BY <2>1 DEF Flight
<1> QED
  BY <1>1, <1>3 DEF Flight, WireTyped

LEMMA EndedIsPublished ==
    ASSUME TasksTyped, NEW t \in Task, NEW outcome \in {"completed", "failed"}
    PROVE  Ended(t, outcome) \in Seq(Message)
<1>1. tasks[t].about \in Session \cup {Issue, None}
  BY DEF TasksTyped, Row
<1>2. \A type \in {"chat:done", "task:completed", "task:failed"}, about \in Session \cup {Issue, None} :
         Event(type, t, about, 0) \in Message
  BY DEF Event, Message
<1>3. Event("chat:done", t, tasks[t].about, 0) \in Message
      /\ Event("task:completed", t, tasks[t].about, 0) \in Message
      /\ Event("task:completed", t, Issue, 0) \in Message
      /\ Event("task:failed", t, tasks[t].about, 0) \in Message
  BY <1>1, <1>2
<1>4. CASE outcome = "failed"
  BY <1>3, <1>4 DEF Ended
<1>5. CASE outcome = "completed" /\ tasks[t].about \in Session
  BY <1>3, <1>5 DEF Ended
<1>6. CASE outcome = "completed" /\ tasks[t].about \notin Session
  BY <1>3, <1>6 DEF Ended
<1> QED
  BY <1>4, <1>5, <1>6

\* What a step may do to the tasks and the wire.
ServerKept == WireTyped' /\ TasksBounded' /\ \A s \in Session : WorkTold(s)

LEMMA SameServer == ASSUME ShownInv, UNCHANGED <<tasks, wire>> PROVE ServerKept
BY DEF ShownInv, ServerKept, WireTyped, TasksBounded, WorkTold, Work, Live, MessageComing, Flight

LEMMA FewerAtWork ==
    ASSUME ShownInv, TasksTyped, NEW t \in Task, tasks' = [tasks EXCEPT ![t].status = "ended"],
           Live(t), WireTyped', Flight \subseteq Flight'
    PROVE  ServerKept
<1>1. \A u \in Task : /\ tasks'[u].about = tasks[u].about
                      /\ tasks'[u].status # "absent" => tasks[u].status # "absent"
                      /\ Live(u)' => Live(u)
  BY DEF TasksTyped, Row, Live
<1>2. TasksBounded'
  BY <1>1, OneMore DEF ShownInv
<1>3. \A s \in Session : WorkTold(s)
  BY <1>1 DEF WorkTold, Work, MessageComing
<1> QED
  BY <1>2, <1>3 DEF ServerKept

LEMMA ServerSteps ==
    ASSUME ShownInv, TasksTyped, NEW t \in Task,
           \/ \E outcome \in {"completed", "failed"} : EndTask(t, outcome)
           \/ EndSilently(t)
           \/ \E next \in Task : FailAndContinue(t, next)
    PROVE  ServerKept
<1>1. ASSUME NEW outcome \in {"completed", "failed"}, EndTask(t, outcome) PROVE ServerKept
  <2>1. WireTyped' /\ Flight \subseteq Flight'
    BY <1>1, EndedIsPublished, PublishFlight DEF EndTask, ShownInv
  <2> QED
    BY <1>1, <2>1, FewerAtWork DEF EndTask
<1>2. ASSUME EndSilently(t) PROVE ServerKept
  BY <1>2, FewerAtWork DEF EndSilently, ShownInv, WireTyped, Flight
<1>3. ASSUME NEW next \in Task, FailAndContinue(t, next) PROVE ServerKept
  <2>1. WireTyped' /\ Flight \subseteq Flight'
    BY <1>3, EndedIsPublished, PublishFlight DEF FailAndContinue, ShownInv
  <2>2. /\ Live(t) /\ tasks[next].status = "absent" /\ t # next
        /\ tasks' = [tasks EXCEPT ![t].status = "ended",
                                  ![next] = [status |-> "queued", about |-> tasks[t].about, said |-> 0]]
    BY <1>3 DEF FailAndContinue, NextId, Live
  <2>3. /\ \A u \in Task \ {next} : /\ tasks'[u].about = tasks[u].about
                                    /\ tasks'[u].status # "absent" => tasks[u].status # "absent"
                                    /\ Live(u)' => Live(u)
        /\ tasks'[next].about = tasks[t].about
    BY <2>2 DEF TasksTyped, Row, Live
  <2>4. TasksBounded'
    BY <2>3, OneMore DEF ShownInv
  <2>5. \A s \in Session : WorkTold(s)
    BY <2>1, <2>2, <2>3 DEF WorkTold, Work, MessageComing
  <2> QED
    BY <2>1, <2>4, <2>5 DEF ServerKept
<1> QED
  BY <1>1, <1>2, <1>3

LEMMA StopServer == ASSUME ShownInv, TasksTyped, handleStop PROVE ServerKept
<1>1. UNCHANGED wire
  BY DEF handleStop
<1>2. CASE Live(pendingTaskId)
  <2>1. tasks' = [tasks EXCEPT ![pendingTaskId].status = "ended"]
    BY <1>2 DEF handleStop
  <2>2. CASE pendingTaskId \in Task
    BY <1>1, <1>2, <2>1, <2>2, FewerAtWork DEF ShownInv, WireTyped, Flight
  <2>3. CASE pendingTaskId \notin Task
    BY <1>1, <2>1, <2>3, SameServer DEF TasksTyped
  <2> QED
    BY <2>2, <2>3
<1>3. CASE ~Live(pendingTaskId)
  BY <1>1, <1>3, SameServer DEF handleStop
<1> QED
  BY <1>2, <1>3

\* A message is announced with its task.
LEMMA EnqueueServer ==
    ASSUME ShownInv, ChatInv, NEW x \in Send, NEW t \in Task, EnqueueChatTask(x, t)
    PROVE  ServerKept
<1> DEFINE s   == sending[x].session
           row == [status |-> "queued", about |-> s, said |-> 0]
           m   == Event("chat:message", t, s, 0)
<1>1. s \in Session
  BY EnqueueGrows DEF ChatInv, SessionsKnown
<1>2. row.about = s
  OBVIOUS
<1>3. m \in Message /\ m.type = "chat:message" /\ m.about = s
  BY <1>1 DEF Event, Message
<1>4. tasks' = [tasks EXCEPT ![t] = row] /\ Publish(<<m>>) /\ tasks \in [Task -> Row]
  BY DEF EnqueueChatTask, ChatInv, TasksTyped
<1> HIDE DEF row, m, s
<1>5. WireTyped' /\ Flight \subseteq Flight' /\ m \in Flight'
  <2> DEFINE published == <<m>>
  <2>1. published \in Seq(Message) /\ 1 \in 1 .. Len(published) /\ published[1] = m
    BY <1>3
  <2>2. Publish(published)
    BY <1>4
  <2> HIDE DEF published
  <2> QED
    BY <2>1, <2>2, PublishFlight DEF ShownInv
<1>6. tasks'[t].about = s /\ \A u \in Task \ {t} : tasks'[u] = tasks[u]
  BY <1>2, <1>4
<1>7. TasksBounded'
  BY <1>6, OneMore DEF ShownInv
<1>8. \A u \in Session : WorkTold(u)
  BY <1>3, <1>5, <1>6 DEF WorkTold, Work, Live, MessageComing
<1> QED
  BY <1>5, <1>7, <1>8 DEF ServerKept

-----------------------------------------------------------------------------
(* What the steps of the page do *)

LEMMA ShownKept ==
    ASSUME ShownInv, ServerKept, StoreFollows', Histories,
           \A s \in Session : Improves(entries[s], Active(s), entries'[s], Active(s)')
    PROVE  ShownInv'
<1>1. \A s \in Session : EntryFollows(s)'
  BY EntryFollowsKept DEF ShownInv, ServerKept
<1> QED
  BY <1>1 DEF ShownInv, ServerKept

LEMMA SameEntriesImprove ==
    ASSUME UNCHANGED entries, activeSessionId' \in {activeSessionId, None}
    PROVE  \A s \in Session : Improves(entries[s], Active(s), entries'[s], Active(s)')
<1> SUFFICES ASSUME NEW s \in Session PROVE Improves(entries[s], Active(s), entries'[s], Active(s)')
  OBVIOUS
<1>1. Active(s) \in BOOLEAN /\ Active(s)' \in BOOLEAN /\ (Active(s)' => Active(s))
  BY DEF Active
<1> QED
  BY <1>1, LeftAlone

\* The store, the server and the user's requests.
LEMMA StoreStepShown ==
    ASSUME ShownInv, ~EffectsDue, ServerKept, Histories,
           UNCHANGED <<open, activeSessionId, entries, updated, poll>>
    PROVE  ShownInv'
<1>1. StoreFollows'
  BY StoreFollowsKept DEF ShownInv, serverTaskId
<1> QED
  BY <1>1, ShownKept, SameEntriesImprove

LEMMA RequestsShown ==
    ASSUME ChatInv, ShownInv, ~EffectsDue,
           \/ handleStop \/ StopAnswered
           \/ \E x \in Send : \/ handleSend(x) \/ SendAnswered(x) \/ SendFails(x)
                             \/ \E t \in Task : EnqueueChatTask(x, t)
    PROVE  ShownInv'
<1>1. UNCHANGED <<open, activeSessionId, entries, updated, poll>> /\ Histories
  <2>1. CASE StopAnswered \/ \E x \in Send : handleSend(x) \/ SendAnswered(x)
    BY <2>1 DEF handleSend, SendAnswered, StopAnswered, events, store, query, effects, Histories
  <2>2. CASE handleStop \/ \E x \in Send : SendFails(x)
    BY <2>2 DEF SendFails, handleStop, FailOnce, store, query, effects, Histories
  <2>3. CASE \E x \in Send, t \in Task : EnqueueChatTask(x, t)
    BY <2>3 DEF EnqueueChatTask, store, query, effects, Histories
  <2> QED
    BY <2>1, <2>2, <2>3
<1>2. StopAnswered \/ (\E x \in Send : handleSend(x) \/ SendAnswered(x) \/ SendFails(x))
          => UNCHANGED <<tasks, wire>>
  BY DEF handleSend, SendAnswered, StopAnswered, SendFails, events
<1>3. ServerKept
  BY <1>2, SameServer, StopServer, EnqueueServer DEF ChatInv
<1> QED
  BY <1>1, <1>3, StoreStepShown

LEMMA EventsShown ==
    ASSUME ChatInv, ShownInv, page = "chat", ~EffectsDue, EventStep, UNCHANGED chatVars
    PROVE  ShownInv'
<1>1. CASE Reconnect
  <2>1. Histories /\ UNCHANGED tasks /\ missed' /\ wire' = <<>>
    BY <1>1 DEF Reconnect, Histories
  <2>2. WireTyped' /\ TasksBounded'
    <3>1. <<>> \in Seq(Message)
      OBVIOUS
    <3>2. TasksBounded'
      BY <2>1 DEF ShownInv, TasksBounded
    <3> QED
      BY <2>1, <3>1, <3>2 DEF WireTyped
  <2>3. ServerKept
    BY <2>1, <2>2 DEF ServerKept, WorkTold, Work, Live
  <2> QED
    BY <2>1, <2>3, StoreStepShown DEF chatVars
<1>2. CASE ~Reconnect
  <2>1. PICK t \in Task : \/ \E outcome \in {"completed", "failed"} : EndTask(t, outcome)
                          \/ EndSilently(t)
                          \/ \E next \in Task : FailAndContinue(t, next)
    BY <1>2 DEF EventStep
  <2>2. ServerKept
    BY <2>1, ServerSteps DEF ChatInv
  <2>3. Histories
    BY <2>1 DEF EndTask, EndSilently, FailAndContinue, Histories
  <2> QED
    BY <2>2, <2>3, StoreStepShown DEF chatVars
<1> QED
  BY <1>1, <1>2

LEMMA EffectsShown == ASSUME ShownInv, RunEffects PROVE ShownInv'
<1>1. /\ UNCHANGED <<tasks, wire, missed, raced, open, activeSessionId, entries>>
      /\ poll'.task = pendingTaskId
  BY DEF RunEffects, events
<1>2. serverTaskId' = serverTaskId
  BY <1>1 DEF serverTaskId
<1>3. pendingTaskId' = NoTask /\ pendingTaskId = NoTask => serverTaskId = NoTask
  BY DEF RunEffects, Adopts, ClearsStale
<1>4. StoreFollows'
  BY <1>1, <1>2, <1>3 DEF StoreFollows
<1> QED
  BY <1>1, <1>4, ShownKept, SameServer, SameEntriesImprove DEF Histories

LEMMA LookAwayShown ==
    ASSUME ShownInv, LeavePage \/ handleNewChat \/ handleArchive
    PROVE  ShownInv'
<1>1. /\ UNCHANGED <<tasks, wire, missed, raced, entries>>
      /\ updated' # "no" \/ ~open'
      /\ activeSessionId' \in {activeSessionId, None}
  BY DEF LeavePage, handleNewChat, handleArchive, events, store, query
<1> QED
  BY <1>1, EffectsAreDue, ShownKept, SameServer, SameEntriesImprove DEF Histories

-----------------------------------------------------------------------------
(* What the query does *)

\* A step on the entry of one session, which stays as active as it was.
LEMMA OneImproves ==
    ASSUME ChatInv, NEW a \in Session, NEW f, entries' = [entries EXCEPT ![a] = f],
           UNCHANGED activeSessionId, Improves(entries[a], Active(a), f, Active(a))
    PROVE  \A s \in Session : Improves(entries[s], Active(s), entries'[s], Active(s)')
<1> SUFFICES ASSUME NEW s \in Session PROVE Improves(entries[s], Active(s), entries'[s], Active(s)')
  OBVIOUS
<1>1. Active(s)' = Active(s) /\ Active(s) \in BOOLEAN
  BY DEF Active
<1>2. entries'[s] = IF s = a THEN f ELSE entries[s]
  BY DEF ChatInv, EntriesTyped
<1> QED
  BY <1>1, <1>2, LeftAlone

LEMMA FetchShown ==
    ASSUME ChatInv, ShownInv, ~EffectsDue, RefetchOnFocus \/ PollTick
    PROVE  ShownInv'
<1>1. UNCHANGED <<tasks, wire, missed, raced, open, activeSessionId, updated, poll>>
  BY DEF RefetchOnFocus, PollTick, events, store, effects
<1>2. PICK a : \/ UNCHANGED entries
               \/ entries' = [entries EXCEPT ![a] = StartFetch(entries[a])]
  BY DEF RefetchOnFocus, PollTick, ChatInv, EntriesTyped
<1>3. entries \in [Session -> Entry]
  BY DEF ChatInv, EntriesTyped
<1>4. CASE UNCHANGED entries
  BY <1>1, <1>4, StoreStepShown, SameServer DEF Histories
<1>5. CASE a \in Session /\ entries' = [entries EXCEPT ![a] = StartFetch(entries[a])]
  <2>1. entries[a] \in Entry /\ Active(a) \in BOOLEAN
    BY <1>3, <1>5 DEF Active
  <2> DEFINE f == StartFetch(entries[a])
  <2>2. f.data = entries[a].data /\ f \in Entry
    BY <2>1, NoTaskIsSome, EntryTypes
  <2>3. Improves(entries[a], Active(a), f, Active(a))
    BY <2>1, FetchImproves
  <2>4. entries' = [entries EXCEPT ![a] = f]
    BY <1>5
  <2> HIDE DEF f
  <2>5. \A s \in Session : Improves(entries[s], Active(s), entries'[s], Active(s)')
    BY <1>1, <1>5, <2>3, <2>4, OneImproves
  <2>6. entries' \in [Session -> Entry] /\ \A s \in Session : entries'[s].data = entries[s].data
    BY <1>3, <2>2, <2>4
  <2>7. serverTaskId' = serverTaskId
    BY <1>1, <2>6, SameServerTask
  <2>8. StoreFollows'
    BY <1>1, <2>7, StoreFollowsKept DEF ShownInv
  <2> QED
    BY <1>1, <2>5, <2>8, ShownKept, SameServer DEF Histories
<1>6. CASE a \notin Session /\ entries' = [entries EXCEPT ![a] = StartFetch(entries[a])]
  BY <1>1, <1>3, <1>4, <1>6
<1> QED
  BY <1>2, <1>4, <1>5, <1>6

LEMMA FailsShown ==
    ASSUME ChatInv, ShownInv, ~EffectsDue, NEW a \in Session, PendingFails(a)
    PROVE  ShownInv'
<1>1. /\ UNCHANGED <<tasks, wire, raced, open, activeSessionId, updated, poll>> /\ missed'
      /\ entries' = [entries EXCEPT ![a] = Fail(entries[a])]
  BY DEF PendingFails, FailOnce, store
<1>2. entries \in [Session -> Entry] /\ entries[a] \in Entry
  BY DEF ChatInv, EntriesTyped
<1>3. Fail(entries[a]) \in Entry /\ Fail(entries[a]).data = entries[a].data /\ Fail(entries[a]).fetch = "idle"
  BY <1>2, NoTaskIsSome, EntryTypes DEF Fail, Empty
<1>4. entries' \in [Session -> Entry] /\ \A s \in Session : entries'[s].data = entries[s].data
  BY <1>1, <1>2, <1>3
<1>5. StoreFollows'
  BY <1>1, <1>4, SameServerTask, StoreFollowsKept DEF ShownInv
<1>6. \A s \in Session : Answered(entries'[s])
  BY <1>1, <1>2, <1>3 DEF ShownInv, EntryFollows, Answered
<1>7. \A s \in Session : EntryFollows(s)'
  BY <1>1, <1>6 DEF EntryFollows, Answered
<1> QED
  BY <1>1, <1>5, <1>7, SameServer DEF ShownInv, ServerKept

LEMMA AnswerShown ==
    ASSUME ChatInv, ShownInv, ~EffectsDue, NEW a \in Session, AnswerPending(a)
    PROVE  ShownInv'
<1> DEFINE g == GetPendingChatTask(a)
           f == [entries[a] EXCEPT !.fetch = "answered", !.answer = g]
<1>1. /\ UNCHANGED <<tasks, wire, missed, raced, open, activeSessionId, updated, poll>>
      /\ entries' = [entries EXCEPT ![a] = f]
  BY DEF AnswerPending, events, store, effects
<1>2. entries \in [Session -> Entry] /\ entries[a] \in Entry
  BY DEF ChatInv, EntriesTyped
<1>3. g \in Task \cup {NoTask} /\ (Work(a) => g # NoTask)
  BY PendingIsCreated, WorkIsPending DEF ChatInv, ShownInv, Created
<1> HIDE DEF g
<1>4. f \in Entry /\ f.data = entries[a].data /\ f.fetch = "answered" /\ f.answer = g
  BY <1>2, <1>3 DEF Entry, Datum
<1> HIDE DEF f
<1>5. entries' \in [Session -> Entry] /\ \A s \in Session : entries'[s].data = entries[s].data
  BY <1>1, <1>2, <1>4
<1>6. StoreFollows'
  BY <1>1, <1>5, SameServerTask, StoreFollowsKept DEF ShownInv
<1>7. \A s \in Session : WorkTold(s) /\ Active(s)' = Active(s)
  BY <1>1, SameServer DEF ServerKept, Active
<1>8. ASSUME NEW s \in Session, s # a PROVE EntryFollows(s)'
  <2>1. entries'[s] = entries[s] /\ Active(s) \in BOOLEAN
    BY <1>1, <1>2, <1>8 DEF Active
  <2>2. Improves(entries[s], Active(s), entries'[s], Active(s)')
    BY <1>7, <2>1, LeftAlone
  <2> QED
    BY <1>1, <1>7, <2>2, EntryFollowsKept DEF ShownInv, Histories
<1>9. EntryFollows(a)'
  <2>1. entries'[a] = f
    BY <1>1, <1>2
  <2>2. Filled(f, Active(a)') /\ Answered(f)
    BY <1>3, <1>4, NoTaskIsSome DEF Filled, Answered
  <2>3. Work(a)' => Work(a)
    BY <1>1 DEF Work, Live
  <2>4. Work(a) => Admits(f, Active(a)')
    BY <1>3, <1>4 DEF Admits
  <2> QED
    BY <2>1, <2>2, <2>3, <2>4 DEF EntryFollows
<1> QED
  BY <1>1, <1>6, <1>8, <1>9, SameServer DEF ShownInv, ServerKept

LEMMA ArrivesImproves ==
    ASSUME NEW e \in Entry, NEW active \in BOOLEAN, e.fetch = "answered", Answered(e)
    PROVE  Improves(e, active, Succeed(e), active)
<1> DEFINE f == Succeed(e)
<1>1. f.fetch = "idle" /\ f.data = e.answer /\ e.answer # None
  BY DEF Succeed, Empty, Answered
<1> HIDE DEF f
<1>2. Improves(e, active, f, active)
  BY <1>1 DEF Improves, Answered, Filled, Admits
<1> QED
  BY <1>2 DEF f

LEMMA ArrivesShown ==
    ASSUME ChatInv, ShownInv, ~EffectsDue, NEW a \in Session, PendingArrives(a)
    PROVE  ShownInv'
<1> DEFINE arrived == Succeed(entries[a])
           marked  == Invalidate(arrived, Active(a))
<1>1. /\ UNCHANGED <<tasks, wire, missed, raced, open, activeSessionId, poll>>
      /\ updated' = IF Active(a) THEN "arrived" ELSE updated
      /\ entries[a].fetch = "answered"
  BY DEF PendingArrives, events, Active
<1>2. PICK f \in {arrived, marked} : entries' = [entries EXCEPT ![a] = f]
  BY DEF PendingArrives, Active
<1>3. entries[a] \in Entry /\ Active(a) \in BOOLEAN /\ Answered(entries[a])
  BY DEF ChatInv, EntriesTyped, Active, ShownInv, EntryFollows
<1>4. arrived \in Entry
  BY <1>3, NoTaskIsSome, EntryTypes
<1>5. Improves(entries[a], Active(a), arrived, Active(a))
  BY <1>1, <1>3, ArrivesImproves
<1> HIDE DEF arrived
<1>6. Improves(arrived, Active(a), marked, Active(a))
  BY <1>3, <1>4, InvalidateImproves
<1> HIDE DEF marked
<1>7. Improves(entries[a], Active(a), f, Active(a))
  BY <1>2, <1>5, <1>6, ImprovesTwice
<1>8. \A s \in Session : Improves(entries[s], Active(s), entries'[s], Active(s)')
  BY <1>1, <1>2, <1>7, OneImproves
<1>9. StoreFollows'
  <2>1. CASE Active(a)
    BY <1>1, <2>1, EffectsAreDue
  <2>2. CASE ~Active(a)
    <3>1. entries' \in [Session -> Entry]
      BY ArrivesKept DEF ChatInv, EntriesTyped
    <3>2. \A s \in Session : Active(s) => entries'[s].data = entries[s].data
      BY <1>2, <2>2 DEF ChatInv, EntriesTyped, Active
    <3> QED
      BY <1>1, <2>2, <3>1, <3>2, SameServerTask, StoreFollowsKept DEF ShownInv
  <2> QED
    BY <2>1, <2>2
<1> QED
  BY <1>1, <1>8, <1>9, ShownKept, SameServer DEF Histories

\* The session that becomes the active one is observed.
LEMMA ObserveImproves ==
    ASSUME ChatInv, NEW a \in Session, Observe(a), activeSessionId' = a
    PROVE  \A s \in Session : Improves(entries[s], Active(s), entries'[s], Active(s)')
<1> SUFFICES ASSUME NEW s \in Session PROVE Improves(entries[s], Active(s), entries'[s], Active(s)')
  OBVIOUS
<1>1. PICK f \in {Mount(entries[a]), StartFetch(entries[a])} : entries' = [entries EXCEPT ![a] = f]
  BY DEF Observe
<1>2. entries[s] \in Entry /\ Active(s) \in BOOLEAN /\ Active(s)' = (s = a)
  BY DEF ChatInv, EntriesTyped, Active
<1>3. CASE s = a
  <2>1. entries'[s] = f
    BY <1>1, <1>3 DEF ChatInv, EntriesTyped
  <2>2. Improves(entries[s], Active(s), f, TRUE)
    BY <1>1, <1>2, <1>3, FetchImproves, MountImproves
  <2> QED
    BY <1>2, <1>3, <2>1, <2>2
<1>4. CASE s # a
  BY <1>1, <1>2, <1>4, LeftAlone DEF ChatInv, EntriesTyped
<1> QED
  BY <1>3, <1>4

LEMMA ObserveShown ==
    ASSUME ChatInv, ShownInv,
           \/ OpenPage
           \/ \E s \in Session : handleSelectSession(s) \/ \E x \in Send : SessionCreated(x, s)
    PROVE  ShownInv'
<1>1. UNCHANGED <<tasks, wire, missed, raced>> /\ updated' = "changed"
  BY DEF OpenPage, handleSelectSession, SessionCreated, events
<1>2. \/ UNCHANGED <<activeSessionId, entries>>
      \/ \E a \in Session : activeSessionId' = a /\ Observe(a)
  BY DEF OpenPage, handleSelectSession, SessionCreated, ChatInv, SessionsKnown
<1>3. \A s \in Session : Improves(entries[s], Active(s), entries'[s], Active(s)')
  BY <1>2, ObserveImproves, SameEntriesImprove
<1> QED
  BY <1>1, <1>3, EffectsAreDue, ShownKept, SameServer DEF Histories

-----------------------------------------------------------------------------
(* What the events do *)

LEMMA MessageShown ==
    ASSUME ChatInv, ShownInv, ~EffectsDue, ReceiveInChat, onChatMessage(Head(wire))
    PROVE  ShownInv'
<1> DEFINE m == Head(wire)
<1>0. PICK a : a = m.about
  OBVIOUS
<1> DEFINE f == Invalidate(entries[a], Active(a))
<1>1. /\ UNCHANGED <<tasks, missed, open, activeSessionId, poll, updated>>
      /\ wire # <<>> /\ wire' = Tail(wire) /\ m.type = "chat:message"
      /\ entries' = [entries EXCEPT ![a] = f]
      /\ raced' = IF entries[a].fetch # "idle" /\ CannotRefetch(entries[a], Active(a))
                  THEN raced \cup {a} ELSE raced
  BY <1>0 DEF ReceiveInChat, onChatMessage, effects, Active
<1>2. WireTyped' /\ Flight \subseteq Flight' \cup {m}
  BY <1>1, ReceiveFlight DEF ShownInv
<1> HIDE DEF m
<1>3. Histories /\ TasksBounded' /\ \A s \in Session : Work(s)' => Work(s)
  BY <1>1 DEF Histories, ShownInv, TasksBounded, Work, Live
<1>4. entries \in [Session -> Entry] /\ \A s : Active(s)' = Active(s) /\ Active(s) \in BOOLEAN
  BY <1>1 DEF ChatInv, EntriesTyped, Active
<1>5. ASSUME NEW s \in Session, s # a PROVE EntryFollows(s)'
  <2>1. WorkTold(s)
    BY <1>0, <1>2, <1>3, <1>5 DEF WorkTold, MessageComing
  <2>2. Improves(entries[s], Active(s), entries'[s], Active(s)')
    BY <1>1, <1>4, <1>5, LeftAlone
  <2> QED
    BY <1>3, <2>1, <2>2, EntryFollowsKept DEF ShownInv
<1>6. ASSUME a \in Session PROVE EntryFollows(a)' /\ f.data = entries[a].data /\ f \in Entry
  <2> DEFINE e == entries[a]
  <2>1. e \in Entry /\ Active(a) \in BOOLEAN /\ EntryFollows(a)
    BY <1>4, <1>6 DEF ShownInv
  <2>2. Improves(e, Active(a), f, Active(a))
    BY <2>1, InvalidateImproves
  <2>3. f.data = e.data /\ f \in Entry
    BY <2>1, EntryTypes, NoTaskIsSome
  <2>4. ~(e.fetch # "idle" /\ CannotRefetch(e, Active(a))) => Admits(f, Active(a))
    BY <2>1, InvalidateAdmits
  <2>5. a \in raced' \/ Admits(f, Active(a))
    BY <1>1, <2>4
  <2> HIDE DEF f
  <2>6. entries'[a] = f /\ Active(a)' = Active(a)
    BY <1>1, <1>4, <1>6
  <2>7. Answered(f) /\ (~missed => Filled(f, Active(a)))
    BY <2>1, <2>2 DEF EntryFollows, Improves
  <2> QED
    BY <1>1, <2>3, <2>5, <2>6, <2>7 DEF EntryFollows
<1> HIDE DEF f
<1>7. StoreFollows'
  <2>1. entries' \in [Session -> Entry] /\ \A s \in Session : entries'[s].data = entries[s].data
    BY <1>1, <1>4, <1>6
  <2> QED
    BY <1>1, <2>1, SameServerTask, StoreFollowsKept DEF ShownInv
<1> QED
  BY <1>2, <1>3, <1>5, <1>6, <1>7 DEF ShownInv

LEMMA TaskEndShown ==
    ASSUME ChatInv, ShownInv, ~EffectsDue, ReceiveInChat, onChatTaskEnd(Head(wire))
    PROVE  ShownInv'
<1> DEFINE m       == Head(wire)
           a       == m.about
           e       == Invalidate(SetData(entries[a], NoTask), Active(a))
           cleared == [entries EXCEPT ![a] = e]
           again   == Invalidate(cleared[activeSessionId], TRUE)
<1>1. /\ UNCHANGED <<tasks, missed, raced, open, activeSessionId, poll>>
      /\ wire # <<>> /\ wire' = Tail(wire) /\ m.type # "chat:message"
      /\ updated' = IF Active(a) THEN "arrived" ELSE updated
  BY DEF ReceiveInChat, onChatTaskEnd, effects, Active
<1>2. \/ entries' = cleared
      \/ activeSessionId # None /\ entries' = [cleared EXCEPT ![activeSessionId] = again]
  BY DEF ReceiveInChat, onChatTaskEnd, Active
<1>3. ServerKept /\ Histories
  <2>1. WireTyped' /\ Flight \subseteq Flight' \cup {m}
    BY <1>1, ReceiveFlight DEF ShownInv
  <2>2. TasksBounded' /\ \A s \in Session : Work(s)' => Work(s)
    BY <1>1 DEF ShownInv, TasksBounded, Work, Live
  <2> HIDE DEF m
  <2> QED
    BY <1>1, <2>1, <2>2 DEF Histories, ServerKept, WorkTold, MessageComing
<1>4. entries \in [Session -> Entry] /\ \A s : Active(s)' = Active(s) /\ Active(s) \in BOOLEAN
  BY <1>1 DEF ChatInv, EntriesTyped, Active
<1> HIDE DEF m
<1>5. a \in Session => e \in Entry /\ Improves(entries[a], Active(a), e, Active(a))
  <2> SUFFICES ASSUME a \in Session
               PROVE  e \in Entry /\ Improves(entries[a], Active(a), e, Active(a))
    OBVIOUS
  <2>1. entries[a] \in Entry /\ Active(a) \in BOOLEAN
    BY <1>4
  <2>2. SetData(entries[a], NoTask) \in Entry
    BY <2>1, NoTaskIsSome, EntryTypes
  <2>3. e \in Entry
    BY <2>1, <2>2, NoTaskIsSome, EntryTypes
  <2>4. Improves(entries[a], Active(a), e, Active(a))
    BY <2>1, ClearImproves
  <2> QED
    BY <2>3, <2>4
<1> HIDE DEF e
<1>6. /\ cleared \in [Session -> Entry]
      /\ \A s \in Session : /\ Improves(entries[s], Active(s), cleared[s], Active(s))
                            /\ s # a => cleared[s].data = entries[s].data
  BY <1>4, <1>5, LeftAlone
<1> HIDE DEF cleared
<1>7. activeSessionId # None => /\ activeSessionId \in Session
                                /\ Improves(cleared[activeSessionId], TRUE, again, TRUE)
                                /\ again.data = cleared[activeSessionId].data
  <2> SUFFICES ASSUME activeSessionId # None
               PROVE  /\ activeSessionId \in Session
                      /\ Improves(cleared[activeSessionId], TRUE, again, TRUE)
                      /\ again.data = cleared[activeSessionId].data
    OBVIOUS
  <2>1. activeSessionId \in Session
    BY DEF ChatInv, SessionsKnown
  <2> QED
    BY <1>6, <2>1, InvalidateImproves, EntryTypes, NoTaskIsSome
<1> HIDE DEF again
<1>8. ASSUME NEW s \in Session
      PROVE  /\ Improves(entries[s], Active(s), entries'[s], Active(s)')
             /\ s # a => entries'[s].data = entries[s].data
  <2>1. CASE entries'[s] = cleared[s]
    BY <1>4, <1>6, <2>1
  <2>2. CASE Active(s) /\ entries'[s] = again /\ activeSessionId # None
    <3>1. Improves(cleared[s], TRUE, again, TRUE) /\ Active(s) = TRUE /\ again.data = cleared[s].data
      BY <1>7, <2>2 DEF Active
    <3> QED
      BY <1>4, <1>6, <2>2, <3>1, ImprovesTwice
  <2> QED
    BY <1>2, <1>6, <2>1, <2>2 DEF Active
<1>9. StoreFollows'
  <2>1. CASE Active(a)
    BY <1>1, <2>1, EffectsAreDue
  <2>2. CASE ~Active(a)
    <3>1. entries' \in [Session -> Entry]
      BY ReceiveKept DEF ChatInv, EntriesTyped
    <3>2. \A s \in Session : Active(s) => entries'[s].data = entries[s].data
      BY <1>8, <2>2 DEF Active
    <3> QED
      BY <1>1, <2>2, <3>1, <3>2, SameServerTask, StoreFollowsKept DEF ShownInv
  <2> QED
    BY <2>1, <2>2
<1> QED
  BY <1>3, <1>8, <1>9, ShownKept

-----------------------------------------------------------------------------
(* An indicator that is to be on is on *)

LEMMA ShownStep ==
    ASSUME ChatInv, ShownInv, RunEffects \/ (~EffectsDue /\ ChatStep) PROVE ShownInv'
<1>1. CASE RunEffects
  BY <1>1, EffectsShown
<1>2. CASE ~EffectsDue /\ ReceiveInChat
  BY <1>2, MessageShown, TaskEndShown DEF ReceiveInChat
<1>3. CASE ~EffectsDue /\ ChatStep /\ ~ReceiveInChat
  BY <1>3, AnswerShown, ArrivesShown, FailsShown, FetchShown, ObserveShown, LookAwayShown,
     RequestsShown
  DEF ChatStep
<1> QED
  BY <1>1, <1>2, <1>3

ChatShown == page = "chat" => ShownInv

LEMMA ShownKeptByNext == IndInv /\ ChatShown /\ [Next]_vars => ChatShown'
<1> SUFFICES ASSUME IndInv, ChatShown, [Next]_vars, page = "chat" PROVE ShownInv'
  BY DEF ChatShown, Next, vars
<1>1. CASE UNCHANGED vars
  BY <1>1 DEF vars, events, chatVars, ChatShown, ShownInv, WireTyped, TasksBounded, StoreFollows,
              serverTaskId, EntryFollows, Filled, Answered, Admits, Active, Work, Live,
              MessageComing, Flight
<1>2. CASE Next
  BY <1>2, ShownStep, EventsShown DEF Next, IndInv, ChatShown
<1> QED
  BY <1>1, <1>2

LEMMA ShownInitially == Init => ChatShown
<1> SUFFICES ASSUME Init, page = "chat" PROVE ShownInv
  BY DEF ChatShown
<1>1. /\ tasks = [t \in Task |-> Absent] /\ wire = <<>> /\ ~open
      /\ entries = [s \in Session |-> IF Active(s) THEN StartFetch(Empty) ELSE Empty]
  BY DEF Init, EventsInit, ChatInit, Active
<1>2. WireTyped
  <2>1. <<>> \in Seq(Message)
    OBVIOUS
  <2> QED
    BY <1>1, <2>1 DEF WireTyped
<1>3. TasksBounded /\ \A s \in Session : ~Work(s)
  BY <1>1 DEF TasksBounded, Work, Live, Absent
<1>4. StartFetch(Empty).fetch = "asked" /\ Empty.fetch = "idle"
  BY DEF StartFetch, Empty
<1>5. \A s \in Session : EntryFollows(s)
  BY <1>1, <1>3, <1>4 DEF EntryFollows, Filled, Answered
<1> QED
  BY <1>1, <1>2, <1>3, <1>5 DEF ShownInv, StoreFollows

\* The indicator of useChatStreaming and useChatSend: once everything is
\* delivered, answered and rendered, an active session whose agent is at work
\* says so, however the store, the query, the events, the poll and the answers
\* of sends and stops have written over one another.
THEOREM AlwaysShown == Spec => []IndicatorShown
<1>1. IndInv /\ ChatShown => IndicatorShown
  <2> SUFFICES ASSUME IndInv, ChatShown, ChatQuiet, ~missed,
                      activeSessionId \notin raced \cup {None},
                      GetPendingChatTask(activeSessionId) # NoTask
               PROVE  pendingTaskId # NoTask
    BY DEF IndicatorShown
  <2> DEFINE s == activeSessionId
  <2>1. page = "chat" /\ open
    BY DEF ChatQuiet, IndInv
  <2>2. s \in Session /\ TasksTyped
    BY <2>1 DEF IndInv, ChatInv, SessionsKnown
  <2>3. entries[s].fetch = "idle" /\ wire = <<>> /\ ~EffectsDue
    BY <2>2 DEF ChatQuiet
  <2>4. Work(s)
    BY <2>2, PendingIsCreated DEF Work, GetPendingChatTask
  <2>5. ~MessageComing(s)
    BY <2>3 DEF MessageComing, Flight
  <2>6. EntryFollows(s) /\ Active(s)
    BY <2>1, <2>2 DEF ChatShown, ShownInv, Active
  <2>7. entries[s].data \notin {None, NoTask}
    BY <2>3, <2>4, <2>5, <2>6 DEF EntryFollows, Filled, Admits
  <2>8. serverTaskId # NoTask
    BY <2>7 DEF serverTaskId
  <2> QED
    BY <2>1, <2>3, <2>8 DEF ChatShown, ShownInv, StoreFollows, EffectsDue
<1>2. IndInv /\ ChatShown /\ [Next]_vars => (IndInv /\ ChatShown)'
  BY Kept, ShownKeptByNext
<1>3. Init => IndInv /\ ChatShown
  BY Initially, ShownInitially
<1> QED
  BY <1>1, <1>2, <1>3, PTL DEF Spec

=============================================================================
