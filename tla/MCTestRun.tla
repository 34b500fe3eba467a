----------------------------- MODULE MCTestRun -----------------------------
(* Instances of the test command for TLC: two workers and three cases, so   *)
(* that a worker comes back while the other still runs, every assignment of *)
(* what becomes of the cases, and a signal at every await.                  *)
EXTENDS TestRun
=============================================================================
