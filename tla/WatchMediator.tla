--------------------------- MODULE WatchMediator ---------------------------
(***************************************************************************)
(* The latest-wins watch mediator (src/src/watch/scheduler.ts).            *)
(*                                                                         *)
(* Filesystem facts are hints.  A hint arms one debounce timer per target, *)
(* the timer starts a rescan (scan, 50 ms, scan again), a rescan that sees *)
(* a stable change opens a generation and queues a run, at most Slots runs *)
(* execute at a time and at most one per target, and a finished run is     *)
(* committed only after one more scan.                                     *)
(*                                                                         *)
(* The mediator is one JavaScript object: a handler is atomic up to its    *)
(* next await, and every await is a place where another handler may run.   *)
(* Each action below is one such segment.  A scan is two actions, the read *)
(* of the disk and the continuation that uses what was read.               *)
(*                                                                         *)
(* A target's files are abstracted to one version number, the content a    *)
(* WatchTargetSnapshot fingerprints: equal numbers are equal snapshots.    *)
(***************************************************************************)
EXTENDS Naturals, Sequences, FiniteSets

CONSTANTS
    Targets,           \* logical watch targets (keys of the states map)
    Slots,             \* global bound on concurrently executing runs
    NoRun,             \* stands for an undefined pending or active run
    MaxEdits,          \* bound: how often the user changes files
    MaxOverflows,      \* bound: how often the observer overflows or resets
    BusyStart,         \* environment: changes and facts before start() is over?
    MayRestore,        \* environment: may an edit bring back an old content?
    MayFail            \* environment: may run() or commit() reject?

Run == [id : Nat, generation : Nat, trigger : {"initial", "change"},
        snapshot : Nat]

ASSUME SlotsAssumption   == Slots \in Nat \ {0}
ASSUME TargetsAssumption == IsFiniteSet(Targets)
ASSUME NoRunAssumption   == NoRun \notin Run
ASSUME BoundsAssumption  == MaxEdits \in Nat /\ MaxOverflows \in Nat
ASSUME EnvAssumption     == /\ BusyStart \in BOOLEAN
                            /\ MayRestore \in BOOLEAN
                            /\ MayFail \in BOOLEAN

VARIABLES
    \* The environment: the files and the observer.
    disk,        \* disk[t]: the content version the target's files have now
    edits,       \* changes made so far
    notify,      \* notify[t]: a change fact is on its way to the mediator
    overflows,   \* overflow, reset and error facts so far
    \* start() and drain().
    observing,   \* this.observing
    start,       \* start[t]: where the per-target part of start() is
    first,       \* first[t]: what start()'s scan of t read
    draining,    \* the drain promise: none, waiting or resolved
    \* One TargetState per target.
    generation,  \* state.generation
    snapshot,    \* state.snapshot, 0 for null
    timer,       \* state.debounceCancel is defined
    rescan,      \* where the target's confirmChange is; "none": not in flight
    seen,        \* the candidate, then the stable snapshot (0: not stable)
    deferred,    \* state.deferredTrigger is defined
    pending,     \* state.pending
    active,      \* state.active
    canceled,    \* canceled[t]: the active run's token is canceled
    phase,       \* phase[t]: which await of execute() the active run is at
    inputs,      \* inputs[t]: the contents the active run has read so far
    \* Scheduling shared by all targets.
    queue,       \* members of this.queue
    ahead,       \* ahead[t]: the members queued before t
    activeSlots, \* this.activeSlots
    \* What the outside world has been told.
    runs,        \* runs[t]: runs scheduled so far; a run's id is its number
    reported,    \* reported[t]: ids named by a watch.cancel fact
    persisted    \* persisted[t]: the commits of t, in order

env     == <<disk, edits, notify, overflows>>
started == <<start, first>>
states  == <<generation, snapshot, timer, rescan, seen, deferred>>
slots   == <<pending, active, canceled, phase, inputs, queue, ahead, activeSlots>>
facts   == <<runs, reported, persisted>>
vars    == <<env, observing, started, draining, states, slots, facts>>

StartPhases  == {"idle", "scanning", "scanned", "placed", "done"}
RescanPhases == {"none", "scanning", "stabilizing", "resuming"}
RunPhases    == {"idle", "running", "checking", "current", "changed",
                 "committing"}

Commit == [id : Nat, generation : Nat, snapshot : Nat, inputs : SUBSET Nat]

Init ==
    /\ disk = [t \in Targets |-> 1]
    /\ edits = 0
    /\ notify = [t \in Targets |-> FALSE]
    /\ overflows = 0
    /\ observing = FALSE
    /\ start = [t \in Targets |-> "idle"]
    /\ first = [t \in Targets |-> 0]
    /\ draining = "none"
    /\ generation = [t \in Targets |-> 0]
    /\ snapshot = [t \in Targets |-> 0]
    /\ timer = [t \in Targets |-> FALSE]
    /\ rescan = [t \in Targets |-> "none"]
    /\ seen = [t \in Targets |-> 0]
    /\ deferred = [t \in Targets |-> FALSE]
    /\ pending = [t \in Targets |-> NoRun]
    /\ active = [t \in Targets |-> NoRun]
    /\ canceled = [t \in Targets |-> FALSE]
    /\ phase = [t \in Targets |-> "idle"]
    /\ inputs = [t \in Targets |-> {}]
    /\ queue = {}
    /\ ahead = [t \in Targets |-> {}]
    /\ activeSlots = 0
    /\ runs = [t \in Targets |-> 0]
    /\ reported = [t \in Targets |-> {}]
    /\ persisted = [t \in Targets |-> <<>>]

-----------------------------------------------------------------------------
(* Helpers of the mediator.                                                *)

IdOf(run) == IF run = NoRun THEN {} ELSE {run.id}

\* The runs whose cancellation is announced when t's work is superseded or
\* drained.  Mutant: the pending run is overwritten without a fact.
CanceledActiveOnly(t) == IdOf(active[t])

CanceledRuns(t) == IdOf(pending[t]) \cup IdOf(active[t])

NextGeneration(gen) == gen + 1

\* Mutant of NewRun: tagged with the generation that is about to be replaced.
NewRunOldGeneration(t, gen, trigger, snap) ==
    [id |-> runs[t] + 1, generation |-> generation[t], trigger |-> trigger,
     snapshot |-> snap]

NewRun(t, gen, trigger, snap) ==
    [id |-> runs[t] + 1, generation |-> gen, trigger |-> trigger,
     snapshot |-> snap]

\* enqueue(): a target already in the queue keeps its place.  The queue has no
\* duplicates, so it is kept as the set of its members with, for each member,
\* the set of those ahead of it.
EnqueuedAhead(t) ==
    IF t \in queue THEN ahead ELSE [ahead EXCEPT ![t] = queue]

\* pump()'s loop as one step: while a slot is free it starts the first queued
\* target that has no active run.  Starting one does not change whether another
\* is eligible, so the loop starts the eligible targets with fewer eligible ones
\* ahead of them than there were free slots.
\* Mutant of Eligible: a replacement does not wait for its predecessor's reaping.
EligibleWhileReaping(pend, act, q) ==
    IF observing THEN {t \in q : pend[t] # NoRun} ELSE {}

Eligible(pend, act, q) ==
    IF observing THEN {t \in q : act[t] = NoRun /\ pend[t] # NoRun} ELSE {}

\* Mutant of Started: only the head of the queue is looked at.
StartedHeadOnly(pend, act, n, q, ah) ==
    {t \in Eligible(pend, act, q) : ah[t] = {} /\ n < Slots}

Started(pend, act, n, q, ah) ==
    LET eligible == Eligible(pend, act, q)
    IN  {t \in eligible : Cardinality(ah[t] \cap eligible) + n < Slots}

Pump(pend, act, cancel, n, q, ah) ==
    LET go == Started(pend, act, n, q, ah)
    IN  /\ pending' = [t \in Targets |-> IF t \in go THEN NoRun ELSE pend[t]]
        /\ active' = [t \in Targets |-> IF t \in go THEN pend[t] ELSE act[t]]
        /\ canceled' = [t \in Targets |-> act[t] # NoRun /\ cancel[t]]
        /\ phase' = [t \in Targets |->
                       IF t \in go THEN "running"
                       ELSE IF act[t] = NoRun THEN "idle" ELSE phase[t]]
        /\ inputs' = [t \in Targets |-> IF act[t] = NoRun THEN {} ELSE inputs[t]]
        /\ activeSlots' = n + Cardinality(go)
        /\ queue' = q \ go
        /\ ahead' = [t \in Targets |-> IF t \in go THEN {} ELSE ah[t] \ go]

\* Mutants of FinishDrainIfIdle: rescans are not waited for, and the slot count is
\* read before the finished run has released its slot.
FinishDrainIgnoringRescans(n, scans) ==
    draining' = IF draining = "waiting" /\ n = 0 THEN "resolved" ELSE draining

FinishDrainBeforeRelease(n, scans) ==
    draining' = IF /\ draining = "waiting"
                   /\ activeSlots = 0
                   /\ \A t \in Targets : scans[t] = "none"
                THEN "resolved" ELSE draining

\* finishDrainIfIdle(): called with what activeSlots and the rescans are then.
FinishDrainIfIdle(n, scans) ==
    draining' = IF /\ draining = "waiting"
                   /\ n = 0
                   /\ \A t \in Targets : scans[t] = "none"
                THEN "resolved" ELSE draining

-----------------------------------------------------------------------------
(* The environment.                                                        *)

StartOver == \A t \in Targets : start[t] = "done"

\* The user saves (a content never seen before) or restores (an old one, for
\* example by renaming a backup into place).
Edit(t) ==
    /\ edits < MaxEdits
    /\ BusyStart \/ StartOver
    /\ edits' = edits + 1
    /\ \E v \in (IF MayRestore THEN 1 .. (edits + 2) ELSE {edits + 2}) :
          /\ v # disk[t]
          /\ disk' = [disk EXCEPT ![t] = v]
    /\ notify' = [notify EXCEPT ![t] = TRUE]
    /\ UNCHANGED <<overflows, observing, started, draining, states, slots, facts>>

-----------------------------------------------------------------------------
(* hint() and hintAll().                                                   *)

\* hint(): re-arms the target's debounce timer; ignored when not observing.
Hint(t) ==
    /\ notify[t]
    /\ notify' = [notify EXCEPT ![t] = FALSE]
    /\ timer' = [timer EXCEPT ![t] = @ \/ observing]
    /\ UNCHANGED <<disk, edits, overflows, observing, started, draining,
                   generation, snapshot, rescan, seen, deferred, slots, facts>>

\* hintAll(): the observer lost track (overflow, reset, error), so the change
\* facts that were under way are lost and every target is hinted instead.
HintAll ==
    /\ overflows < MaxOverflows
    /\ BusyStart \/ StartOver
    /\ overflows' = overflows + 1
    /\ notify' = [t \in Targets |-> FALSE]
    /\ timer' = [t \in Targets |-> timer[t] \/ observing]
    /\ UNCHANGED <<disk, edits, observing, started, draining, generation,
                   snapshot, rescan, seen, deferred, slots, facts>>

-----------------------------------------------------------------------------
(* start().                                                                *)

Start ==
    /\ ~observing
    /\ draining = "none"
    /\ observing' = TRUE
    /\ start' = [t \in Targets |-> "scanning"]
    /\ UNCHANGED <<env, first, draining, states, slots, facts>>

StartScan(t) ==
    /\ start[t] = "scanning"
    /\ start' = [start EXCEPT ![t] = "scanned"]
    /\ first' = [first EXCEPT ![t] = disk[t]]
    /\ UNCHANGED <<env, observing, draining, states, slots, facts>>

\* The continuation of start()'s scan, with replacePending().
StartPlace(t) ==
    /\ start[t] = "scanned"
    /\ start' = [start EXCEPT ![t] = "placed"]
    /\ IF observing
       THEN /\ snapshot' = [snapshot EXCEPT ![t] = first[t]]
            /\ pending' = [pending EXCEPT
                             ![t] = NewRun(t, generation[t], "initial", first[t])]
            /\ reported' = [reported EXCEPT ![t] = @ \cup IdOf(pending[t])]
            /\ runs' = [runs EXCEPT ![t] = @ + 1]
            /\ queue' = queue \cup {t}
            /\ ahead' = EnqueuedAhead(t)
       ELSE UNCHANGED <<snapshot, pending, reported, runs, queue, ahead>>
    /\ UNCHANGED <<env, observing, first, draining, generation, timer, rescan,
                   seen, deferred, active, canceled, phase, inputs, activeSlots,
                   persisted>>

\* Promise.all has settled: the pump() at the end of start().
StartPump ==
    /\ Targets # {}
    /\ \A t \in Targets : start[t] = "placed"
    /\ start' = [t \in Targets |-> "done"]
    /\ Pump(pending, active, canceled, activeSlots, queue, ahead)
    /\ UNCHANGED <<env, observing, first, draining, states, facts>>

-----------------------------------------------------------------------------
(* confirmChange().                                                        *)

\* Mutant of TimerFires: a timer that fires during a rescan is dropped.
TimerFiresLost(t) ==
    /\ timer[t]
    /\ timer' = [timer EXCEPT ![t] = FALSE]
    /\ rescan' = [rescan EXCEPT
                     ![t] = IF observing /\ @ = "none" THEN "scanning" ELSE @]
    /\ UNCHANGED <<env, observing, started, draining, generation, snapshot,
                   seen, deferred, slots, facts>>

\* The debounce timer fires: confirmChange() up to its first await.  While a
\* rescan is in flight the hint is deferred to its end.
TimerFires(t) ==
    /\ timer[t]
    /\ timer' = [timer EXCEPT ![t] = FALSE]
    /\ rescan' = [rescan EXCEPT
                     ![t] = IF observing /\ @ = "none" THEN "scanning" ELSE @]
    /\ deferred' = [deferred EXCEPT
                       ![t] = @ \/ (observing /\ rescan[t] # "none")]
    /\ UNCHANGED <<env, observing, started, draining, generation, snapshot,
                   seen, slots, facts>>

RescanReads(t) ==
    /\ rescan[t] = "scanning"
    /\ rescan' = [rescan EXCEPT ![t] = "stabilizing"]
    /\ seen' = [seen EXCEPT ![t] = disk[t]]
    /\ UNCHANGED <<env, observing, started, draining, generation, snapshot,
                   timer, deferred, slots, facts>>

\* stableWatchSnapshot(): scan again after 50 ms, null unless nothing changed.
StableReads(t) ==
    /\ rescan[t] = "stabilizing"
    /\ rescan' = [rescan EXCEPT ![t] = "resuming"]
    /\ seen' = [seen EXCEPT ![t] = IF disk[t] = @ THEN @ ELSE 0]
    /\ UNCHANGED <<env, observing, started, draining, generation, snapshot,
                   timer, deferred, slots, facts>>

\* The finally block of confirmChange(), which starts over for a deferred hint.
RescanEnds(t) ==
    LET ended == [rescan EXCEPT ![t] = "none"]
    IN  /\ rescan[t] = "resuming"
        /\ rescan' = IF observing /\ deferred[t]
                     THEN [rescan EXCEPT ![t] = "scanning"] ELSE ended
        /\ deferred' = [deferred EXCEPT ![t] = FALSE]
        /\ FinishDrainIfIdle(activeSlots, ended)
        /\ seen' = [seen EXCEPT ![t] = 0]
        /\ UNCHANGED <<env, observing, started, persisted>>

\* Draining, or nothing changed since the last generation.
RescanIgnored(t) ==
    /\ \/ ~observing
       \/ seen[t] # 0 /\ seen[t] = snapshot[t]
    /\ RescanEnds(t)
    /\ UNCHANGED <<generation, snapshot, timer, slots, runs, reported>>

\* The content was still changing: another debounce interval.
RescanUnstable(t) ==
    /\ observing
    /\ seen[t] = 0
    /\ timer' = [timer EXCEPT ![t] = TRUE]
    /\ RescanEnds(t)
    /\ UNCHANGED <<generation, snapshot, slots, runs, reported>>

\* A stable change: a new generation replaces the pending run and cancels the
\* active one, which keeps its slot until it has been reaped.
RescanConfirms(t) ==
    /\ observing
    /\ seen[t] # 0
    /\ seen[t] # snapshot[t]
    /\ snapshot' = [snapshot EXCEPT ![t] = seen[t]]
    /\ generation' = [generation EXCEPT ![t] = NextGeneration(@)]
    /\ reported' = [reported EXCEPT ![t] = @ \cup CanceledRuns(t)]
    /\ runs' = [runs EXCEPT ![t] = @ + 1]
    /\ Pump([pending EXCEPT
               ![t] = NewRun(t, NextGeneration(generation[t]), "change", seen[t])],
            active, [canceled EXCEPT ![t] = TRUE], activeSlots,
            queue \cup {t}, EnqueuedAhead(t))
    /\ RescanEnds(t)
    /\ UNCHANGED timer

-----------------------------------------------------------------------------
(* execute().                                                              *)

\* The run loads the target's files, once per case, while it executes.
RunReads(t) ==
    /\ phase[t] = "running"
    /\ disk[t] \notin inputs[t]
    /\ inputs' = [inputs EXCEPT ![t] = @ \cup {disk[t]}]
    /\ UNCHANGED <<env, observing, started, draining, states, pending, active,
                   canceled, phase, queue, ahead, activeSlots, facts>>

\* The finally block of execute(): the slot is freed and the next run starts.
Settle(t) ==
    /\ FinishDrainIfIdle(activeSlots - 1, rescan)
    /\ Pump(pending, [active EXCEPT ![t] = NoRun], canceled, activeSlots - 1,
            queue, ahead)
    /\ UNCHANGED <<env, observing, started, states, runs>>

\* The run is over but may not be committed, or it threw: a watch.cancel fact.
Discard(t) ==
    /\ reported' = [reported EXCEPT ![t] = @ \cup IdOf(active[t])]
    /\ Settle(t)
    /\ UNCHANGED persisted

MayCommit(t) ==
    /\ observing
    /\ generation[t] = active[t].generation
    /\ ~canceled[t]

\* run() resolves while the run is still wanted: the freshness scan starts.
RunResolves(t) ==
    /\ phase[t] = "running"
    /\ MayCommit(t)
    /\ inputs[t] # {}
    /\ phase' = [phase EXCEPT ![t] = "checking"]
    /\ UNCHANGED <<env, observing, started, draining, states, pending, active,
                   canceled, inputs, queue, ahead, activeSlots, facts>>

\* run() resolves after the run was superseded or canceled.
RunIsStale(t) ==
    /\ phase[t] = "running"
    /\ ~MayCommit(t)
    /\ Discard(t)

RunRejects(t) ==
    /\ MayFail
    /\ phase[t] = "running"
    /\ Discard(t)

\* Mutant of CheckReads: the freshness scan is skipped.
CheckReadsNothing(t) ==
    /\ phase[t] = "checking"
    /\ phase' = [phase EXCEPT ![t] = "current"]
    /\ UNCHANGED <<env, observing, started, draining, states, pending, active,
                   canceled, inputs, queue, ahead, activeSlots, facts>>

\* isSnapshotCurrent(): the read of the disk.
CheckReads(t) ==
    /\ phase[t] = "checking"
    /\ phase' = [phase EXCEPT
                   ![t] = IF disk[t] = active[t].snapshot THEN "current" ELSE "changed"]
    /\ UNCHANGED <<env, observing, started, draining, states, pending, active,
                   canceled, inputs, queue, ahead, activeSlots, facts>>

\* fresh: commit() is called, on the strength of the checks made before the scan.
CommitBegins(t) ==
    /\ phase[t] = "current"
    /\ phase' = [phase EXCEPT ![t] = "committing"]
    /\ UNCHANGED <<env, observing, started, draining, states, pending, active,
                   canceled, inputs, queue, ahead, activeSlots, facts>>

CheckFails(t) ==
    /\ phase[t] = "changed"
    /\ Discard(t)

CommitResolves(t) ==
    /\ phase[t] = "committing"
    /\ persisted' = [persisted EXCEPT
                       ![t] = Append(@, [id         |-> active[t].id,
                                         generation |-> active[t].generation,
                                         snapshot   |-> active[t].snapshot,
                                         inputs     |-> inputs[t]])]
    /\ Settle(t)
    /\ UNCHANGED reported

CommitRejects(t) ==
    /\ MayFail
    /\ phase[t] = "committing"
    /\ Discard(t)

-----------------------------------------------------------------------------
(* drain(): stops observing, forgets what is pending, cancels what runs.   *)
(* The call of finishDrainIfIdle() at its end is made by the executor of   *)
(* the promise that becomes this.draining, before the assignment, when     *)
(* this.draining is still undefined: it does nothing, even when nothing is *)
(* in flight.                                                              *)

Drain ==
    /\ draining = "none"
    /\ draining' = "waiting"
    /\ observing' = FALSE
    /\ timer' = [t \in Targets |-> FALSE]
    /\ reported' = [t \in Targets |-> reported[t] \cup CanceledRuns(t)]
    /\ pending' = [t \in Targets |-> NoRun]
    /\ canceled' = [t \in Targets |-> active[t] # NoRun]
    /\ queue' = {}
    /\ ahead' = [t \in Targets |-> {}]
    /\ UNCHANGED <<env, started, generation, snapshot, rescan, seen, deferred,
                   active, phase, inputs, activeSlots, runs, persisted>>

-----------------------------------------------------------------------------

Rescan(t) == RescanIgnored(t) \/ RescanUnstable(t) \/ RescanConfirms(t)

Execute(t) ==
    \/ RunReads(t) \/ RunResolves(t) \/ RunIsStale(t) \/ RunRejects(t)
    \/ CheckReads(t) \/ CheckFails(t)
    \/ CommitBegins(t) \/ CommitResolves(t) \/ CommitRejects(t)

\* What happens without the user: deliveries, timers, reads and continuations.
System ==
    \/ Start \/ StartPump
    \/ \E t \in Targets :
          \/ Hint(t) \/ StartScan(t) \/ StartPlace(t) \/ TimerFires(t)
          \/ RescanReads(t) \/ StableReads(t) \/ Rescan(t) \/ Execute(t)

Next == System \/ HintAll \/ Drain \/ \E t \in Targets : Edit(t)

Spec == Init /\ [][Next]_vars

\* Timers fire, I/O completes, promises settle (a run ends at the latest when
\* the sandbox's wall limit kills it), and observed changes are reported.
FairSpec == Spec /\ WF_vars(System)
-----------------------------------------------------------------------------
(* Properties.                                                             *)

EnvTypeOK ==
    /\ disk \in [Targets -> Nat \ {0}]
    /\ edits \in Nat
    /\ notify \in [Targets -> BOOLEAN]
    /\ overflows \in Nat
    /\ observing \in BOOLEAN
    /\ start \in [Targets -> StartPhases]
    /\ first \in [Targets -> Nat]
    /\ draining \in {"none", "waiting", "resolved"}

StateTypeOK ==
    /\ generation \in [Targets -> Nat]
    /\ snapshot \in [Targets -> Nat]
    /\ timer \in [Targets -> BOOLEAN]
    /\ rescan \in [Targets -> RescanPhases]
    /\ seen \in [Targets -> Nat]
    /\ deferred \in [Targets -> BOOLEAN]

SlotTypeOK ==
    /\ pending \in [Targets -> Run \cup {NoRun}]
    /\ active \in [Targets -> Run \cup {NoRun}]
    /\ canceled \in [Targets -> BOOLEAN]
    /\ phase \in [Targets -> RunPhases]
    /\ inputs \in [Targets -> SUBSET Nat]
    /\ queue \in SUBSET Targets
    /\ ahead \in [Targets -> SUBSET Targets]
    /\ activeSlots \in 0 .. Slots

FactTypeOK ==
    /\ runs \in [Targets -> Nat]
    /\ reported \in [Targets -> SUBSET Nat]
    /\ persisted \in [Targets -> Seq(Commit)]

\* The type of every variable, and the slot bound: activeSlots stays in range.
TypeOK == EnvTypeOK /\ StateTypeOK /\ SlotTypeOK /\ FactTypeOK

Running == {t \in Targets : active[t] # NoRun}

\* activeSlots counts exactly the targets with an active run, and never more
\* than the configured slots: no path through execute() and pump() leaks a slot,
\* frees one twice, or starts a second run of a target beside a reaping one.
SlotsExact ==
    /\ activeSlots = Cardinality(Running)
    /\ activeSlots <= Slots

\* Outside start(), no queued run waits while a slot is free and its target is
\* idle, and exactly the targets with a pending run are queued: pump() neither
\* drops a replacement behind a reaping predecessor nor blocks others on it.
NoIdleSlot ==
    /\ \A t \in Targets : t \in queue <=> pending[t] # NoRun
    /\ StartOver /\ activeSlots < Slots =>
          \A t \in queue : active[t] # NoRun

\* Every run the mediator ever scheduled is waiting, executing, committed, or
\* named by a watch.cancel fact: none disappears silently when it is replaced,
\* superseded, drained or fails.
NoSilentDrop ==
    \A t \in Targets : \A i \in 1 .. runs[t] :
        \/ i \in IdOf(pending[t]) \cup IdOf(active[t]) \cup reported[t]
        \/ \E c \in 1 .. Len(persisted[t]) : persisted[t][c].id = i

\* Latest wins: what waits is always the newest generation and snapshot of its
\* target, and an executing run of an older generation has been canceled.
LatestWins ==
    \A t \in Targets :
        /\ pending[t] # NoRun => /\ pending[t].generation = generation[t]
                                 /\ pending[t].snapshot = snapshot[t]
        /\ active[t] # NoRun /\ active[t].generation # generation[t]
              => canceled[t]

\* A committed verdict was computed from the content its snapshot names and no
\* other, whatever was saved while its cases were executing.
VerdictOnSnapshot ==
    \A t \in Targets : \A i \in 1 .. Len(persisted[t]) :
        persisted[t][i].inputs = {persisted[t][i].snapshot}

\* Once the drain promise has resolved no run executes and no rescan is in flight, and
\* nothing is committed, reported, scheduled, started or scanned for any more: the store
\* may be closed.
DrainedIsQuiet ==
    [][draining = "resolved" =>
          /\ \A t \in Targets : active[t] = NoRun /\ rescan[t] = "none"
          /\ UNCHANGED <<facts, slots, rescan>>]_vars

Approved == {"checking", "current", "changed", "committing"}

\* The ids of the runs in pending or active, and of those in persisted.
Ids(slot)       == [t \in Targets |-> IdOf(slot[t])]
IdsIn(commits)  == {commits[c].id : c \in DOMAIN commits}
SavedIds(saved) == [t \in Targets |-> IdsIn(saved[t])]

Ledger == INSTANCE RunLedger WITH
    closed    <- draining # "none",
    scheduled <- runs,
    waiting   <- Ids(pending),
    executing <- Ids(active),
    approved  <- {t \in Targets : phase[t] \in Approved},
    told      <- reported,
    committed <- SavedIds(persisted)

\* The mediator keeps RunLedger's promises: whatever the interleaving of its
\* handlers, runs are scheduled, superseded, started as slots allow, told
\* canceled and committed as written there, and nothing else happens to them.
ImplementsLedger == Ledger!Spec

\* Verdicts are committed in the order in which their runs were scheduled and
\* their generations opened: none twice, none after a newer one.
VerdictsInOrder ==
    \A t \in Targets : \A j \in 1 .. Len(persisted[t]) : \A i \in 1 .. j - 1 :
        /\ persisted[t][i].id < persisted[t][j].id
        /\ persisted[t][i].generation <= persisted[t][j].generation

InFlight == activeSlots > 0 \/ \E t \in Targets : rescan[t] # "none"

\* A drain that finds runs or rescans in flight resolves once the last of them
\* has ended, whichever it is.
BusyDrainCompletes ==
    (draining = "waiting" /\ InFlight) ~> (draining = "resolved")

\* While a drain waits for what is in flight, the step that ends the last of it
\* resolves the promise: the drain is never left with nobody to resolve it.
DrainIsHandedOn ==
    [][draining = "waiting" /\ InFlight => InFlight' \/ draining' = "resolved"]_vars

\* drain() always resolves, whatever is or is not in flight.
DrainCompletes == (draining = "waiting") ~> (draining = "resolved")

\* Once the user stops saving, the content on disk is the one last committed.
LatestIsJudged ==
    \A t \in Targets :
        <>[](\/ draining # "none"
             \/ /\ persisted[t] # <<>>
                /\ persisted[t][Len(persisted[t])].snapshot = disk[t])

\* What will lead to one more rescan of t: a fact, a timer or a deferred hint.
Hinted(t) == notify[t] \/ timer[t] \/ (deferred[t] /\ rescan[t] # "none")

\* What is on its way for a content of t that was not scanned yet: a hint, or a
\* rescan that has still to read it or will find that it was changing.
Alerted(t) ==
    \/ Hinted(t)
    \/ rescan[t] \in {"scanning", "stabilizing"}
    \/ rescan[t] = "resuming" /\ seen[t] \in {0, disk[t]}

\* The scheduled snapshot of t waits, executes uncanceled, or was the last one
\* that was committed.
Judging(t) ==
    \/ pending[t] # NoRun
    \/ active[t] # NoRun /\ ~canceled[t]
    \/ /\ persisted[t] # <<>>
       /\ persisted[t][Len(persisted[t])].snapshot = snapshot[t]

\* While it observes, the mediator answers for every content: what is on disk is
\* on its way to be scanned, or was scheduled, and then its run waits, executes
\* or was judged, or a watch.cancel fact has said that it will not be.  Files may
\* be saved and restored in any phase, and runs and commits may fail.
ChangesAreAnswered ==
    observing /\ StartOver =>
        \A t \in Targets :
            \/ Alerted(t)
            \/ disk[t] = snapshot[t] /\ (Judging(t) \/ runs[t] \in reported[t])

\* When nothing is restored and nothing fails, the last alternative is not
\* needed: the content on disk is on its way to be judged.
ChangesAreTracked ==
    observing /\ StartOver =>
        \A t \in Targets : Alerted(t) \/ (disk[t] = snapshot[t] /\ Judging(t))

-----------------------------------------------------------------------------
(* The inductive invariant behind the theorems of WatchMediatorProofs.     *)

\* ah describes a queue q without duplicates: who is ahead of whom is a strict
\* total order on the members.
Ordered(q, ah) ==
    /\ \A t \in Targets : ah[t] \subseteq q /\ t \notin ah[t]
    /\ \A t, u \in q : t # u => t \in ah[u] \/ u \in ah[t]
    /\ \A t, u \in q : u \in ah[t] => ah[u] \subseteq ah[t]

\* A run is in some phase exactly while it is active, and a target is queued
\* exactly while it has a pending run.
PhasesMatch  == \A t \in Targets : phase[t] = "idle" <=> active[t] = NoRun
QueueMatches == \A t \in Targets : t \in queue <=> pending[t] # NoRun

SlotPart ==
    /\ SlotTypeOK
    /\ SlotsExact
    /\ Ordered(queue, ahead)
    /\ PhasesMatch
    /\ QueueMatches

SlotInv == EnvTypeOK /\ StateTypeOK /\ FactTypeOK /\ SlotPart

\* Nothing waits once the mediator has stopped observing, what it learned about
\* a run ends with the run, and a resolved drain has waited for every run and every rescan.
DrainPart ==
    /\ observing => draining = "none"
    /\ ~observing => queue = {}
    /\ draining = "resolved" => activeSlots = 0 /\ \A t \in Targets : rescan[t] = "none"
    /\ \A t \in Targets : active[t] = NoRun => ~canceled[t] /\ inputs[t] = {}

\* Without restored contents versions only grow, so what was scanned, scheduled
\* or started is never newer than the disk.
VersionPart ==
    \A t \in Targets :
        /\ disk[t] <= edits + 1
        /\ first[t] <= disk[t] /\ snapshot[t] <= disk[t] /\ seen[t] <= disk[t]
        /\ pending[t] # NoRun => pending[t].snapshot <= disk[t]
        /\ active[t] # NoRun => active[t].snapshot <= disk[t]

\* A run reads nothing older than its snapshot, so a freshness scan that still
\* finds the snapshot vouches for everything the run has read.
InputsPart ==
    \A t \in Targets :
        /\ \A i \in inputs[t] : active[t].snapshot <= i /\ i <= disk[t]
        /\ phase[t] \in Approved => inputs[t] # {}
        /\ phase[t] \in {"current", "committing"} =>
              inputs[t] = {active[t].snapshot}
        /\ phase[t] = "changed" => disk[t] # active[t].snapshot

\* Ids order a target's runs, committed, then executing, then waiting, and so do
\* their generations; and a run that executes is canceled exactly when a fact has
\* named it.  p waits, a executes, dead: canceled, named: by facts, last: the
\* newest id, gen: the newest generation, saved: what was committed.
IdsOk(p, a, dead, named, last, gen, saved) ==
    /\ named \subseteq 1 .. last
    /\ p # NoRun => /\ p.id = last /\ last > 0 /\ p.generation = gen
                    /\ p.id \notin named
    /\ a # NoRun => /\ a.id \in 1 .. last /\ a.generation <= gen
                    /\ a.id \in named <=> dead
                    /\ p # NoRun => a.id < p.id
    /\ \A c \in 1 .. Len(saved) :
          /\ saved[c].id \in 1 .. last /\ saved[c].generation <= gen
          /\ p # NoRun => saved[c].id < p.id
          /\ a # NoRun => /\ saved[c].id < a.id
                          /\ saved[c].generation <= a.generation

IdPart ==
    \A t \in Targets : IdsOk(pending[t], active[t], canceled[t], reported[t],
                             runs[t], generation[t], persisted[t])

\* When nothing happens before start() is over, nothing is under way until then,
\* and start() schedules what is on disk.
StartPart ==
    /\ ~observing /\ draining = "none" => \A t \in Targets : start[t] = "idle"
    /\ ~StartOver => \A t \in Targets :
          /\ ~notify[t] /\ ~timer[t] /\ rescan[t] = "none" /\ seen[t] = 0
          /\ active[t] = NoRun
          /\ start[t] = "scanned" => first[t] = disk[t]

\* What was canceled has its replacement waiting, what executes uncanceled is
\* what was scheduled last, a rescan that did not read the content on disk will be
\* followed by another, and the content on disk is on its way or was scheduled;
\* what was scheduled is judged or announced.
Tracked(t) ==
    /\ canceled[t] => pending[t] # NoRun
    /\ active[t] # NoRun /\ ~canceled[t] => /\ active[t].snapshot = snapshot[t]
                                          /\ active[t].id = runs[t]
    /\ start[t] \in {"placed", "done"} =>
          /\ rescan[t] = "resuming" => Hinted(t) \/ seen[t] \in {0, disk[t]}
          /\ Alerted(t) \/ disk[t] = snapshot[t]
          /\ Judging(t) \/ runs[t] \in reported[t]
          /\ ~MayRestore /\ ~MayFail /\ disk[t] = snapshot[t] => Judging(t)

TrackPart == observing => \A t \in Targets : Tracked(t)
=============================================================================
