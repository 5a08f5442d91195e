--------------------------- MODULE MCDesktopDaemon ---------------------------
(* Instance for TLC: users without a PAT of their own are interchangeable. *)
EXTENDS DesktopDaemon, TLC

Interchangeable == Permutations(User)
=============================================================================
