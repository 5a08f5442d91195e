------------------------------ MODULE TaskEvents ------------------------------
(****************************************************************************)
(* The tasks of the server as the pages that show them live see them: the   *)
(* rows, and the events that are published about them over a connection     *)
(* that may break (task.go, handler/daemon.go, handler/chat.go).            *)
(****************************************************************************)
EXTENDS Integers, Sequences, FiniteSetsExt

CONSTANTS
    Task,          \* ids in the order of creation
    Session,       \* chat sessions
    Issue,         \* the issue whose page is open
    None,
    MaxMessages,   \* bound on the messages of all tasks
    MaxWire        \* bound on the events on their way

ASSUME TaskEventsAssumption ==
    /\ Task \subseteq Nat \ {0}
    /\ Issue \notin Session
    /\ None \notin Session \cup Task \cup {Issue, 0}
    /\ {MaxMessages, MaxWire} \subseteq Nat

VARIABLES
    tasks,      \* [Task -> row]
    wire,       \* events that are published and not received yet
    missed,     \* history: an event was lost or never published, or a request failed
    raced       \* history: tasks and sessions of which an event came while an answer was on its way

events == <<tasks, wire, missed, raced>>

Seq1      == 1 .. MaxMessages
Absent    == [status |-> "absent", about |-> None, said |-> 0]
Live(t)   == tasks[t].status \in {"queued", "underway"}
NextId(t) == tasks[t].status = "absent" /\ \A u \in Task : u < t => tasks[u].status # "absent"

Event(type, t, about, seq) == [type |-> type, task |-> t, about |-> about, seq |-> seq]
Publish(published) == Len(wire \o published) <= MaxWire /\ wire' = wire \o published

EventsInit ==
    /\ tasks = [t \in Task |-> Absent]
    /\ wire = <<>> /\ missed = FALSE /\ raced = {}

----------------------------------------------------------------------------
\* The server. What a request publishes follows what it writes at once: the
\* wire delays it.

\* A claim, which is when a task of an issue is first announced.
broadcastTaskDispatch(t) ==
    /\ NextId(t)
    /\ tasks' = [tasks EXCEPT ![t] = [status |-> "underway", about |-> Issue, said |-> 0]]
    /\ Publish(<<Event("task:dispatch", t, Issue, 0)>>)
    /\ UNCHANGED <<missed, raced>>

\* Two flushes of the daemon may overlap, and the last one may come after the
\* end of the task.
ReportTaskMessages(t) ==
    /\ tasks[t].status \in {"underway", "ended"}
    /\ MapThenSumSet(LAMBDA u : tasks[u].said, Task) < MaxMessages
    /\ tasks' = [tasks EXCEPT ![t].said = @ + 1]
    /\ Publish(<<Event("task:message", t, tasks[t].about, tasks[t].said + 1)>>)
    /\ UNCHANGED <<missed, raced>>

Ended(t, outcome) ==
    CASE outcome = "completed" /\ tasks[t].about \in Session ->
             <<Event("chat:done", t, tasks[t].about, 0), Event("task:completed", t, tasks[t].about, 0)>>
      [] outcome = "completed" -> <<Event("task:completed", t, Issue, 0)>>
      [] outcome = "failed"    -> <<Event("task:failed", t, tasks[t].about, 0)>>
      [] outcome = "cancelled" -> <<Event("task:cancelled", t, tasks[t].about, 0)>>

EndTask(t, outcome) ==
    /\ Live(t)
    /\ tasks' = [tasks EXCEPT ![t].status = "ended"]
    /\ Publish(Ended(t, outcome))
    /\ UNCHANGED <<missed, raced>>

\* A failed task is continued before the failure is announced.
FailAndContinue(t, next) ==
    /\ Live(t) /\ NextId(next)
    /\ tasks' = [tasks EXCEPT ![t].status = "ended",
                              ![next] = [status |-> "queued", about |-> tasks[t].about, said |-> 0]]
    /\ Publish(Ended(t, "failed"))
    /\ UNCHANGED <<missed, raced>>

\* The sweeper's event for a chat task has no workspace and is dropped, and
\* the bulk cancellations of an issue publish none.
EndSilently(t) ==
    /\ Live(t)
    /\ tasks' = [tasks EXCEPT ![t].status = "ended"]
    /\ missed' = TRUE
    /\ UNCHANGED <<wire, raced>>

\* The connection breaks and is made again. Nothing that these pages show is
\* refetched then.
Reconnect ==
    /\ wire # <<>>
    /\ wire' = <<>> /\ missed' = TRUE
    /\ UNCHANGED <<tasks, raced>>

\* One request fails, for want of another bound on failures.
FailOnce == ~missed /\ missed' = TRUE

=============================================================================
