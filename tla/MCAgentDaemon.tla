---------------------------- MODULE MCAgentDaemon ----------------------------
(****************************************************************************)
(* Values for the constants of AgentDaemon that a .cfg cannot write down.   *)
(****************************************************************************)
EXTENDS AgentDaemon

CONSTANTS t1, r1, r2

\* One task is queued for another runtime than the rest.
MCRuntimeOf == [t \in Task |-> IF t = t1 THEN r1 ELSE r2]
=============================================================================
