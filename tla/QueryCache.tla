------------------------------ MODULE QueryCache ------------------------------
(****************************************************************************)
(* One entry of the query cache (TanStack Query 5.96), as the hooks and the *)
(* event handlers of the clients use it. data: what the components read;    *)
(* invalid: isInvalidated; answer: what the server has read for the fetch   *)
(* that is under way; revert: [data, invalid] that a cancellation returns   *)
(* to. active: some mounted component observes the entry.                   *)
(****************************************************************************)

CONSTANT None

Empty == [data |-> None, invalid |-> FALSE, fetch |-> "idle", answer |-> None,
          revert |-> [data |-> None, invalid |-> FALSE]]

StartFetch(entry) ==
    [entry EXCEPT !.fetch = "asked", !.answer = None,
                  !.revert = [data |-> entry.data, invalid |-> entry.invalid]]

\* A fetch that is under way is replaced, unless the entry has no data yet:
\* then the caller joins it.
CannotRefetch(entry, active) == ~active \/ (entry.fetch # "idle" /\ entry.data = None)

\* An entry without data is fetched when it is needed, marked or not.
Invalidate(entry, active) ==
    LET marked == [entry EXCEPT !.invalid = entry.data # None] IN
    IF CannotRefetch(entry, active) THEN marked ELSE StartFetch(marked)

\* A manual update also becomes what a cancellation returns to.
SetData(entry, data) ==
    [entry EXCEPT !.data = data, !.invalid = FALSE,
                  !.revert = IF entry.fetch = "idle" THEN @ ELSE [data |-> data, invalid |-> FALSE]]

CancelFetch(entry) ==
    IF entry.fetch = "idle" THEN entry
    ELSE [Empty EXCEPT !.data = entry.revert.data, !.invalid = entry.revert.invalid]

Succeed(entry) == [Empty EXCEPT !.data = entry.answer]
Fail(entry)    == [Empty EXCEPT !.data = entry.data, !.invalid = entry.data # None]

\* What a mounting component does, with staleTime Infinity.
Mount(entry) ==
    IF entry.fetch = "idle" /\ (entry.data = None \/ entry.invalid) THEN StartFetch(entry) ELSE entry
=============================================================================
