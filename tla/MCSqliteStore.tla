--------------------------- MODULE MCSqliteStore ---------------------------
(* Instances of the SQLite store for TLC: two processes, each with a queue *)
(* that can hold both units of work, so that a job waits behind one of its *)
(* own process and competes with one of another.  Symmetry is not used,    *)
(* because the run checks a liveness property.                             *)
EXTENDS SqliteStore
=============================================================================
