---------------------------- MODULE MCStoreOpen ----------------------------
(* Instances of the opening of the store for TLC: three processes, every   *)
(* schema version a file may have, and two kills or failed opens.  Symmetry *)
(* is not used, because the runs check a liveness property.                *)
EXTENDS StoreOpen
=============================================================================
