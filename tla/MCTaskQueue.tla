----------------------------- MODULE MCTaskQueue -----------------------------
(****************************************************************************)
(* Values for the constants of TaskQueue that a .cfg cannot write down.     *)
(****************************************************************************)
EXTENDS TaskQueueProperties, TLC

\* Every chat session is with the same agent.
CONSTANT ChattingAgent

MCChatAgent          == [c \in Chat |-> ChattingAgent]
OneTaskAtATime       == [a \in Agent |-> 1]
TwoTasksAtATime      == [a \in Agent |-> 2]

\* Task ids and goroutines are interchangeable. Not used where liveness is.
Interchangeable == Permutations(Task) \cup Permutations(Handler) \cup Permutations(Runtime)
=============================================================================
