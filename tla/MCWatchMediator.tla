-------------------------- MODULE MCWatchMediator --------------------------
(* Instances of the watch mediator for TLC.                                *)
EXTENDS WatchMediator, TLC

\* Targets are model values and only compared: they may be permuted.
TargetSymmetry == Permutations(Targets)
=============================================================================
