----------------------------- MODULE MCSandbox -----------------------------
(* Instances of the sandbox for TLC: the child and up to two processes     *)
(* below it, one of which may fork the other, in or out of the group, the  *)
(* cgroup and the pipes.  A cap of one unit and a combined budget of one   *)
(* let either limit be the one that is exceeded.                           *)
EXTENDS Sandbox
=============================================================================
