--------------------------- MODULE MCStressCases ---------------------------
(* Instances of the stress-test pool for TLC: one case more than workers,  *)
(* so that a worker comes back for another case while others still run an  *)
(* earlier one, with every assignment of what the programs of the cases do.*)
EXTENDS StressCases
=============================================================================
