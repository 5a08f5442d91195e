--------------------------- MODULE MCRuntimeRequests ---------------------------
(* Instance for TLC.                                                          *)
EXTENDS RuntimeRequests, FiniteSets

\* The daemon and the stores treat pings and updates apart: several updates are
\* looked at without a ping, and a ping beside one update. Only steps that create
\* a request lead out of this, and they have no fairness.
Begun(q) == status[q] # "absent" \/ work[q] # "none"

PingOrUpdates ==
    (\E p \in Ping : Begun(p)) => Cardinality({u \in Update : Begun(u)}) <= 1
=============================================================================
