----------------------------- MODULE RunLedger -----------------------------
(***************************************************************************)
(* What the watch mediator promises about the runs of its targets: every   *)
(* run is scheduled, waits, executes, and is committed or told canceled;   *)
(* a newer run takes the place of the one that waits; at most Slots runs   *)
(* execute, one per target, and none waits that could; the runs committed  *)
(* are in the order of their scheduling, and one that was told canceled    *)
(* before it was approved is not among them.  Files, timers, scans and the *)
(* queue do not appear.                                                    *)
(***************************************************************************)
EXTENDS Naturals, FiniteSets

CONSTANTS
    Targets,    \* logical watch targets
    Slots       \* global bound on concurrently executing runs

VARIABLES
    closed,     \* nothing is scheduled or started any more
    scheduled,  \* scheduled[t]: runs of t so far; a run's id is its number
    waiting,    \* waiting[t]: the run that waits, if any
    executing,  \* executing[t]: the run that executes, if any
    approved,   \* the targets whose executing run may be committed
    told,       \* told[t]: the runs a watch.cancel fact has named
    committed   \* committed[t]: the runs whose verdict was committed
vars == <<closed, scheduled, waiting, executing, approved, told, committed>>

Init ==
    /\ closed = FALSE
    /\ scheduled = [t \in Targets |-> 0]
    /\ waiting = [t \in Targets |-> {}]
    /\ executing = [t \in Targets |-> {}]
    /\ approved = {}
    /\ told = [t \in Targets |-> {}]
    /\ committed = [t \in Targets |-> {}]

Busy(exec) == {t \in Targets : exec[t] # {}}
Startable(wait, exec) == {t \in Targets : wait[t] # {} /\ exec[t] = {}}

\* As many of the runs that wait begin as there are slots for them; which
\* ones is left open.
Begin(wait, exec) ==
    \E go \in SUBSET Startable(wait, exec) :
        /\ closed => go = {}
        /\ Cardinality(Busy(exec) \cup go) <= Slots
        /\ ~closed /\ go # Startable(wait, exec)
              => Cardinality(Busy(exec) \cup go) = Slots
        /\ waiting' = [t \in Targets |-> IF t \in go THEN {} ELSE wait[t]]
        /\ executing' = [t \in Targets |-> IF t \in go THEN wait[t] ELSE exec[t]]
        /\ approved' = approved \cap Busy(exec)

\* The first run of a target; a change may have been quicker.
Place(t) ==
    /\ ~closed
    /\ scheduled' = [scheduled EXCEPT ![t] = @ + 1]
    /\ told' = [told EXCEPT ![t] = @ \cup waiting[t]]
    /\ waiting' = [waiting EXCEPT ![t] = {scheduled[t] + 1}]
    /\ UNCHANGED <<closed, executing, approved, committed>>

\* A change: the new run supersedes the one that waits and the one that
\* executes, which keeps its slot.
Supersede(t) ==
    /\ ~closed
    /\ scheduled' = [scheduled EXCEPT ![t] = @ + 1]
    /\ told' = [told EXCEPT ![t] = @ \cup waiting[t] \cup executing[t]]
    /\ Begin([waiting EXCEPT ![t] = {scheduled[t] + 1}], executing)
    /\ UNCHANGED <<closed, committed>>

BeginWaiting ==
    /\ Begin(waiting, executing)
    /\ UNCHANGED <<closed, scheduled, told, committed>>

Approve(t) ==
    /\ ~closed
    /\ executing[t] # {}
    /\ executing[t] \cap told[t] = {}
    /\ approved' = approved \cup {t}
    /\ UNCHANGED <<closed, scheduled, waiting, executing, told, committed>>

\* An approved run is committed, even if it was superseded meanwhile, but
\* never twice and never after a newer one.
Commit(t) ==
    /\ t \in approved
    /\ \A i \in committed[t], j \in executing[t] : i < j
    /\ committed' = [committed EXCEPT ![t] = @ \cup executing[t]]
    /\ Begin(waiting, [executing EXCEPT ![t] = {}])
    /\ UNCHANGED <<closed, scheduled, told>>

Discard(t) ==
    /\ executing[t] # {}
    /\ told' = [told EXCEPT ![t] = @ \cup executing[t]]
    /\ Begin(waiting, [executing EXCEPT ![t] = {}])
    /\ UNCHANGED <<closed, scheduled, committed>>

Close ==
    /\ ~closed
    /\ closed' = TRUE
    /\ told' = [t \in Targets |-> told[t] \cup waiting[t] \cup executing[t]]
    /\ waiting' = [t \in Targets |-> {}]
    /\ UNCHANGED <<scheduled, executing, approved, committed>>

Next ==
    \/ BeginWaiting \/ Close
    \/ \E t \in Targets :
          Place(t) \/ Supersede(t) \/ Approve(t) \/ Commit(t) \/ Discard(t)

Spec == Init /\ [][Next]_vars
=============================================================================
