------------------------------ MODULE MCAutopilot ------------------------------
(* Instance for TLC: servers and triggers are interchangeable. Ids of runs are  *)
(* not, since a CHOOSE takes the next one.                                      *)
EXTENDS Autopilot, TLC

Interchangeable == Permutations(Scheduler) \cup Permutations(Trigger)

\* Two ticks: of one trigger one after the other, or of two.
TwoTicks == \A t, u \in Trigger : t # u => ticks[t] + ticks[u] <= 2
=============================================================================
