------------------------------- MODULE LiveCard -------------------------------
(****************************************************************************)
(* The cards of the agents at work on an issue (agent-live-card.tsx): which *)
(* tasks have one, and the messages on it, from two kinds of requests and   *)
(* four kinds of events that come in any order.                             *)
(*                                                                          *)
(* A definition named X_Fault... is X with a plausible bug, for showing     *)
(* that a property can fail.                                                *)
(****************************************************************************)
EXTENDS TaskEvents

VARIABLES
    mounted,    \* the page is there
    cards,      \* taskStates: what each task's card shows, how many times
    seenSeqs,
    requests    \* that are not answered, with what the server has read

issueVars == <<mounted, cards, seenSeqs, requests>>

NoCard    == [shown |-> FALSE, loaded |-> FALSE, items |-> [n \in Seq1 |-> 0]]
EmptyCard == [NoCard EXCEPT !.shown = TRUE]

\* getActiveTasksForIssue, asked for on mount, when it loads the messages too,
\* or on the dispatch of a task; and listTaskMessages.
ActiveTasks(for) == [kind |-> "tasks", for |-> for, read |-> FALSE, tasks |-> {}, said |-> 0]
Messages(t)      == [kind |-> "messages", for |-> t, read |-> FALSE, tasks |-> {}, said |-> 0]

IssueInit ==
    /\ mounted = FALSE
    /\ cards = [t \in Task |-> NoCard]
    /\ seenSeqs = {} /\ requests = {}

MountLiveCard ==
    /\ ~mounted
    /\ mounted' = TRUE
    /\ requests' = {ActiveTasks(None)}
    /\ UNCHANGED <<events, cards, seenSeqs>>

ReadRequest(r) ==
    /\ ~r.read
    /\ requests' = (requests \ {r}) \cup
           {[r EXCEPT !.read = TRUE,
                      !.tasks = IF r.kind = "tasks" THEN {t \in Task : tasks[t].status = "underway"} ELSE {},
                      !.said = IF r.kind = "messages" THEN tasks[r.for].said ELSE 0]}
    /\ UNCHANGED <<events, mounted, cards, seenSeqs>>

\* New cards are empty, those that are there stay.
ShowCards(ts) ==
    cards' = [t \in Task |-> IF t \in ts /\ ~cards[t].shown THEN EmptyCard ELSE cards[t]]

TasksAnswered(r) ==
    /\ r.read /\ r.kind = "tasks"
    /\ ShowCards(r.tasks)
    /\ requests' = (requests \ {r}) \cup (IF r.for = None THEN {Messages(t) : t \in r.tasks} ELSE {})
    /\ UNCHANGED <<events, mounted, seenSeqs>>

MessagesAnswered_FaultAppends(r) ==
    /\ r.read /\ r.kind = "messages"
    /\ seenSeqs' = seenSeqs \cup {<<r.for, n>> : n \in 1 .. r.said}
    /\ cards' = [cards EXCEPT ![r.for] =
           [shown |-> TRUE, loaded |-> TRUE,
            items |-> [n \in Seq1 |-> @.items[n] + (IF n <= r.said THEN 1 ELSE 0)]]]
    /\ requests' = requests \ {r}
    /\ UNCHANGED <<events, mounted>>

\* What was loaded, and of what the events have brought the rest.
MessagesAnswered(r) ==
    /\ r.read /\ r.kind = "messages"
    /\ seenSeqs' = seenSeqs \cup {<<r.for, n>> : n \in 1 .. r.said}
    /\ cards' = [cards EXCEPT ![r.for] =
           [shown |-> TRUE, loaded |-> TRUE,
            items |-> [n \in Seq1 |-> IF n <= r.said THEN 1 ELSE @.items[n]]]]
    /\ requests' = requests \ {r}
    /\ UNCHANGED <<events, mounted>>

RequestFails(r) ==
    /\ FailOnce
    /\ requests' = requests \ {r}
    /\ UNCHANGED <<tasks, wire, raced, mounted, cards, seenSeqs>>

----------------------------------------------------------------------------
\* Events.

\* A message of a task that has no card yet counts as seen all the same.
onTaskMessage(m) ==
    LET key == <<m.task, m.seq>> IN
    /\ m.type = "task:message"
    /\ seenSeqs' = seenSeqs \cup {key}
    /\ cards' = IF key \in seenSeqs \/ ~cards[m.task].shown THEN cards
                ELSE [cards EXCEPT ![m.task].items[m.seq] = @ + 1]
    /\ UNCHANGED <<requests, raced>>

handleTaskEnd_FaultNotCancelled(m) ==
    /\ m.type \in {"task:completed", "task:failed", "task:cancelled"}
    /\ cards' = IF m.type = "task:cancelled" THEN cards ELSE [cards EXCEPT ![m.task] = NoCard]
    /\ UNCHANGED <<raced, seenSeqs, requests>>

handleTaskEnd(m) ==
    /\ m.type \in {"task:completed", "task:failed", "task:cancelled"}
    /\ cards' = [cards EXCEPT ![m.task] = NoCard]
    /\ raced' = IF \E r \in requests : m.task \in r.tasks \/ (r.kind = "messages" /\ r.for = m.task)
                THEN raced \cup {m.task} ELSE raced
    /\ UNCHANGED <<seenSeqs, requests>>

onTaskDispatch(m) ==
    /\ m.type = "task:dispatch"
    /\ requests' = requests \cup {ActiveTasks(m.task)}
    /\ UNCHANGED <<cards, seenSeqs, raced>>

ReceiveOnIssue ==
    /\ wire # <<>>
    /\ wire' = Tail(wire)
    /\ \/ ~mounted /\ UNCHANGED <<issueVars, raced>>
       \/ mounted /\ UNCHANGED mounted
                  /\ LET m == Head(wire) IN onTaskMessage(m) \/ handleTaskEnd(m) \/ onTaskDispatch(m)
    /\ UNCHANGED <<tasks, missed>>

IssueStep ==
    \/ MountLiveCard \/ ReceiveOnIssue
    \/ \E r \in requests : ReadRequest(r) \/ TasksAnswered(r) \/ MessagesAnswered(r) \/ RequestFails(r)

IssueQuiet == mounted /\ wire = <<>> /\ requests = {}

=============================================================================
