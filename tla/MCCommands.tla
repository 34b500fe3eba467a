----------------------------- MODULE MCCommands -----------------------------
(* Instances of the commands for TLC.                                      *)
EXTENDS Commands, TLC

\* What the contents do: the starter answers wrongly everywhere, the buggy one fails
\* on the whole and on its left half, but not in the same way, and the naive fails
\* on the right half.
MCContents == {"starter", "buggy", "naive"}
MCInputs   == {"whole", "left", "right"}
MCHalves   == [i \in MCInputs |-> IF i = "whole" THEN <<"left", "right">> ELSE <<>>]
MCOutcome  ==
    [starter |-> [whole |-> "wrong", left |-> "wrong", right |-> "wrong"],
     buggy   |-> [whole |-> "wrong", left |-> "crash", right |-> "right"],
     naive   |-> [whole |-> "right", left |-> "right", right |-> "crash"]]

\* Processes are model values and only compared: they may be permuted.
ProcSymmetry == Permutations(Procs)
=============================================================================
