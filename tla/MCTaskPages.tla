----------------------------- MODULE MCTaskPages -----------------------------
(* TaskPages for TLC: the names of sends mean nothing.                      *)
EXTENDS TaskPages, TLC

Interchangeable == Permutations(Send)
=============================================================================
