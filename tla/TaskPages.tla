------------------------------ MODULE TaskPages -------------------------------
(****************************************************************************)
(* A client that has one of the pages open that show tasks live: the page   *)
(* of an issue or the chat.                                                 *)
(****************************************************************************)
EXTENDS LiveCard, ChatPage

VARIABLE page

vars == <<page, events, issueVars, chatVars>>

Init ==
    /\ page \in {"issue", "chat"}
    /\ EventsInit /\ IssueInit
    /\ IF page = "chat" THEN ChatInit
       ELSE /\ open = FALSE /\ sessions = {} /\ activeSessionId = None /\ pendingTaskId = NoTask
            /\ entries = [s \in Session |-> Empty] /\ updated = "no"
            /\ poll = NoPoll /\ ticks = {} /\ sending = [x \in Send |-> Idle] /\ isSending = None
            /\ stopping = FALSE

\* The cards recover from no loss of an event: the properties say nothing of
\* them then, and only the chat is shown with losses. Claims and starts of chat
\* tasks are left out, since nothing of the chat hears them.
EventStep ==
    \/ /\ page = "issue"
       /\ \E t \in Task : \/ broadcastTaskDispatch(t) \/ ReportTaskMessages(t)
                          \/ \E outcome \in {"completed", "failed", "cancelled"} : EndTask(t, outcome)
    \/ /\ page = "chat"
       /\ \/ Reconnect
          \/ \E t \in Task : \/ \E outcome \in {"completed", "failed"} : EndTask(t, outcome)
                             \/ EndSilently(t)
                             \/ \E next \in Task : FailAndContinue(t, next)

Next ==
    /\ UNCHANGED page
    /\ \/ ~EffectsDue /\ EventStep /\ UNCHANGED <<issueVars, chatVars>>
       \/ page = "issue" /\ IssueStep /\ UNCHANGED chatVars
       \/ page = "chat" /\ (RunEffects \/ (~EffectsDue /\ ChatStep)) /\ UNCHANGED issueVars

Spec == Init /\ [][Next]_vars

----------------------------------------------------------------------------
\* Properties

\* Whatever is loaded while it is being streamed, a message is on its task's
\* card once only, and once everything is delivered a card that was loaded
\* has all of them: of seenSeqs and loadedSeqs each closes a gap that the
\* other leaves.
ItemsAreMessages ==
    \A t \in Task : cards[t].shown => \A n \in Seq1 :
        /\ cards[t].items[n] <= 1
        /\ IssueQuiet /\ ~missed /\ cards[t].loaded /\ t \notin raced => (cards[t].items[n] = 1 <=> n <= tasks[t].said)

\* Once everything is delivered and answered, the tasks that are underway have
\* a card, and those that have ended have none, unless an answer about them
\* was still on its way when their end was announced.
CardsFollowTasks ==
    IssueQuiet /\ ~missed =>
        \A t \in Task : /\ tasks[t].status = "underway" => cards[t].shown
                        /\ tasks[t].status = "ended" /\ cards[t].shown => t \in raced

\* Once everything is delivered, answered and rendered, an active session
\* whose agent is at work says so, although the store, the query, the poll and
\* the answers of sends and stops have written over one another.
IndicatorShown ==
    ChatQuiet /\ ~missed /\ activeSessionId \notin raced \cup {None} =>
        (GetPendingChatTask(activeSessionId) # NoTask => pendingTaskId # NoTask)

\* While the page of a session says that its agent is at work on one of its
\* tasks, an interval asks the server whether it is (the safety-net poll):
\* whichever event is lost, the indicator is not left with nothing to put it
\* out.
IndicatorWatched ==
    \A t \in Task :
        open /\ ~EffectsDue /\ pendingTaskId = t /\ tasks[t].about = activeSessionId =>
            poll.session = activeSessionId
=============================================================================
