---------------------------- MODULE AtomicStore ----------------------------
(***************************************************************************)
(* What the durable store promises to its callers: a submitted unit of     *)
(* work is applied at most once, all of its rows at the same instant, and  *)
(* the promise the caller holds tells the truth about it.  Only a caller   *)
(* that dies with its process never learns the answer.                     *)
(***************************************************************************)
EXTENDS Naturals

CONSTANTS
    Jobs,       \* units of work handed to transact()
    Parts       \* how many rows each of them writes

VARIABLES
    rows,       \* rows[j]: rows of j that readers can see
    outcome     \* outcome[j]: what the caller of j has been told

Outcomes == {"none", "waiting", "resolved", "rejected", "lost"}

Init ==
    /\ rows = [j \in Jobs |-> 0]
    /\ outcome = [j \in Jobs |-> "none"]

Submit(j) ==
    /\ outcome[j] = "none"
    /\ outcome' = [outcome EXCEPT ![j] = "waiting"]
    /\ UNCHANGED rows

Apply(j) ==
    /\ outcome[j] = "waiting"
    /\ rows[j] = 0
    /\ rows' = [rows EXCEPT ![j] = Parts]
    /\ UNCHANGED outcome

Resolve(j) ==
    /\ outcome[j] = "waiting"
    /\ rows[j] = Parts
    /\ outcome' = [outcome EXCEPT ![j] = "resolved"]
    /\ UNCHANGED rows

Reject(j) ==
    /\ outcome[j] = "waiting"
    /\ rows[j] = 0
    /\ outcome' = [outcome EXCEPT ![j] = "rejected"]
    /\ UNCHANGED rows

\* The process that submitted the jobs in lost is gone.
Lose(lost) ==
    /\ \A j \in lost : outcome[j] = "waiting"
    /\ outcome' = [j \in Jobs |-> IF j \in lost THEN "lost" ELSE outcome[j]]
    /\ UNCHANGED rows

Next ==
    \/ \E j \in Jobs : Submit(j) \/ Apply(j) \/ Resolve(j) \/ Reject(j)
    \/ \E lost \in SUBSET Jobs : Lose(lost)

Spec == Init /\ [][Next]_<<rows, outcome>>
=============================================================================
