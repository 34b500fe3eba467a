------------------------ MODULE WatchMediatorProofs ------------------------
(***************************************************************************)
(* Theorems about the watch mediator, for every set of targets, number of  *)
(* slots and bound on the environment.  First its slots, queue and drain   *)
(* (SlotInv, DrainInv):                                                    *)
(*   - slots are counted exactly, and none is idle while a target could    *)
(*     use it;                                                             *)
(*   - a drain that waits is never orphaned, and after it nothing moves.   *)
(* Then, on top of these, the runs that it schedules:                      *)
(*   - the latest generation wins, and no run disappears without a fact;   *)
(*   - a verdict belongs to the snapshot it names (InputsPart);            *)
(*   - verdicts are committed in the order of their runs (OrderInv);       *)
(*   - no change is lost, and what was scheduled is judged (TrackPart);    *)
(*   - the mediator implements RunLedger, step by step.                    *)
(***************************************************************************)
EXTENDS WatchMediator, FiniteSetTheorems, TLAPS

\* The assumptions on the constants, in the form the provers need them.
LEMMA SlotsPositive == Slots \in Nat /\ Slots > 0
  BY SlotsAssumption

\* In an ordered queue the members ahead of t and of u are different in number.
LEMMA RanksDiffer ==
  ASSUME NEW q \in SUBSET Targets, NEW ah \in [Targets -> SUBSET Targets],
         Ordered(q, ah), NEW E \in SUBSET q, NEW t \in E, NEW u \in E, t # u
  PROVE  Cardinality(ah[t] \cap E) # Cardinality(ah[u] \cap E)
<1>1. ASSUME NEW x \in E, NEW y \in E, y \in ah[x]
      PROVE  Cardinality(ah[x] \cap E) # Cardinality(ah[y] \cap E)
  <2>1. IsFiniteSet(ah[x] \cap E)
    <3>1. ah[x] \cap E \in SUBSET Targets
      OBVIOUS
    <3>. QED  BY <3>1, FS_Subset, TargetsAssumption
  <2>2. ah[y] \cap E \in SUBSET (ah[x] \cap E)
    BY <1>1 DEF Ordered
  <2>3. y \in ah[x] \cap E /\ y \notin ah[y] \cap E
    BY <1>1 DEF Ordered
  <2>. QED  BY <2>1, <2>2, <2>3, FS_Subset
<1>2. t \in ah[u] \/ u \in ah[t]
  BY DEF Ordered
<1>. QED  BY <1>1, <1>2

\* pump() never starts more runs than there are free slots.
LEMMA StartedBound ==
  ASSUME NEW pend, NEW act, NEW n \in Nat, n <= Slots,
         NEW q \in SUBSET Targets, NEW ah \in [Targets -> SUBSET Targets],
         Ordered(q, ah)
  PROVE  /\ IsFiniteSet(Started(pend, act, n, q, ah))
         /\ Cardinality(Started(pend, act, n, q, ah)) \in Nat
         /\ n + Cardinality(Started(pend, act, n, q, ah)) <= Slots
<1> DEFINE E == Eligible(pend, act, q)
           S == Started(pend, act, n, q, ah)
           rank == [t \in S |-> Cardinality(ah[t] \cap E)]
           R == 0 .. (Slots - n - 1)
<1>1. E \in SUBSET q /\ S \in SUBSET E
  BY DEF Eligible, Started
<1>2. IsFiniteSet(S) /\ Cardinality(S) \in Nat
  <2>1. S \in SUBSET Targets
    BY <1>1
  <2>. QED  BY <2>1, FS_Subset, FS_CardinalityType, TargetsAssumption
<1>3. \A t \in S : /\ Cardinality(ah[t] \cap E) \in Nat
                   /\ Cardinality(ah[t] \cap E) + n < Slots
  <2> TAKE t \in S
  <2>1. ah[t] \cap E \in SUBSET Targets
    BY <1>1
  <2>2. Cardinality(ah[t] \cap E) \in Nat
    BY <2>1, FS_Subset, FS_CardinalityType, TargetsAssumption
  <2>. QED  BY <2>2 DEF Started
<1>4. rank \in [S -> R]
  BY <1>3, SlotsPositive
<1>5. IsFiniteSet(R) /\ Cardinality(R) = Slots - n
  <2>1. Slots - n - 1 \in Int
    BY SlotsPositive
  <2>. QED  BY <2>1, FS_Interval, SlotsPositive
<1>6. ASSUME Cardinality(R) < Cardinality(S)
      PROVE  FALSE
  <2>1. \E x, y \in S : x # y /\ rank[x] = rank[y]
    <3> HIDE DEF S, R, rank
    <3>. QED  BY <1>2, <1>4, <1>5, <1>6, FS_PigeonHole
  <2>2. PICK x, y \in S : x # y /\ rank[x] = rank[y]
    BY <2>1
  <2>3. x \in E /\ y \in E
    BY <1>1
  <2>4. Cardinality(ah[x] \cap E) = Cardinality(ah[y] \cap E)
    BY <2>2
  <2> HIDE DEF E
  <2>. QED  BY <1>1, <2>2, <2>3, <2>4, RanksDiffer
<1>. QED  BY <1>2, <1>5, <1>6, SlotsPositive

\* What every call of pump() establishes, from what its caller hands it.
LEMMA PumpKeeps ==
  ASSUME NEW pend \in [Targets -> Run \cup {NoRun}],
         NEW act \in [Targets -> Run \cup {NoRun}],
         NEW cancel \in [Targets -> BOOLEAN],
         NEW n \in Nat, n <= Slots,
         n = Cardinality({t \in Targets : act[t] # NoRun}),
         NEW q \in SUBSET Targets, NEW ah \in [Targets -> SUBSET Targets],
         Ordered(q, ah),
         \A t \in Targets : t \in q <=> pend[t] # NoRun,
         phase \in [Targets -> RunPhases],
         inputs \in [Targets -> SUBSET Nat],
         \A t \in Targets : act[t] # NoRun => phase[t] # "idle",
         Pump(pend, act, cancel, n, q, ah)
  PROVE  SlotPart'
<1> DEFINE go == Started(pend, act, n, q, ah)
           busy == {t \in Targets : act[t] # NoRun}
<1>1. /\ go \subseteq q
      /\ \A t \in go : act[t] = NoRun /\ pend[t] \in Run
  BY DEF Started, Eligible
<1>2. /\ IsFiniteSet(go) /\ Cardinality(go) \in Nat
      /\ n + Cardinality(go) <= Slots
  BY StartedBound
<1>3. /\ pending' = [t \in Targets |-> IF t \in go THEN NoRun ELSE pend[t]]
      /\ active' = [t \in Targets |-> IF t \in go THEN pend[t] ELSE act[t]]
      /\ canceled' = [t \in Targets |-> act[t] # NoRun /\ cancel[t]]
      /\ phase' = [t \in Targets |->
                      IF t \in go THEN "running"
                      ELSE IF act[t] = NoRun THEN "idle" ELSE phase[t]]
      /\ inputs' = [t \in Targets |-> IF act[t] = NoRun THEN {} ELSE inputs[t]]
      /\ activeSlots' = n + Cardinality(go)
      /\ queue' = q \ go
      /\ ahead' = [t \in Targets |-> IF t \in go THEN {} ELSE ah[t] \ go]
  BY DEF Pump
<1> HIDE DEF go
<1>4. /\ pending' \in [Targets -> Run \cup {NoRun}]
      /\ active' \in [Targets -> Run \cup {NoRun}]
  BY <1>1, <1>3
<1>5. canceled' \in [Targets -> BOOLEAN]
  BY <1>3
<1>6. phase' \in [Targets -> RunPhases] /\ inputs' \in [Targets -> SUBSET Nat]
  BY <1>3 DEF RunPhases
<1>7. queue' \in SUBSET Targets /\ ahead' \in [Targets -> SUBSET Targets]
  BY <1>3
<1>8. activeSlots' \in 0 .. Slots
  BY <1>2, <1>3, SlotsPositive
<1>9. SlotsExact'
  <2>1. Running' = busy \cup go
    BY <1>1, <1>3, NoRunAssumption DEF Running
  <2>2. busy \cap go = {}
    BY <1>1
  <2>3. IsFiniteSet(busy)
    <3>1. busy \in SUBSET Targets
      OBVIOUS
    <3>. QED  BY <3>1, FS_Subset, TargetsAssumption
  <2>4. Cardinality(busy \cup go) = n + Cardinality(go)
    <3>1. Cardinality(busy \cup go)
            = Cardinality(busy) + Cardinality(go) - Cardinality(busy \cap go)
      <4> HIDE DEF busy
      <4>. QED  BY <1>2, <2>3, FS_Union
    <3>2. Cardinality(busy \cap go) = 0
      BY <2>2, FS_EmptySet
    <3>3. n = Cardinality(busy)
      OBVIOUS
    <3> HIDE DEF busy
    <3>. QED  BY <1>2, <3>1, <3>2, <3>3
  <2>. QED  BY <1>2, <1>3, <2>1, <2>4 DEF SlotsExact
<1>10. Ordered(queue', ahead')
  BY <1>1, <1>3 DEF Ordered
<1>11. PhasesMatch'
  BY <1>1, <1>3, NoRunAssumption DEF PhasesMatch
<1>12. QueueMatches'
  BY <1>1, <1>3 DEF QueueMatches
<1>. QED
  BY <1>4, <1>5, <1>6, <1>7, <1>8, <1>9, <1>10, <1>11, <1>12
  DEF SlotPart, SlotTypeOK

\* A step that leaves the scheduling state alone keeps its part of the invariant.
LEMMA SlotsUnchanged ==
  SlotPart /\ UNCHANGED slots => SlotPart'
BY DEF slots, SlotPart, SlotTypeOK, SlotsExact, Running, Ordered, PhasesMatch,
       QueueMatches

\* An await inside execute() changes the phase of an active run only.
LEMMA PhaseKeeps ==
  ASSUME SlotPart, NEW t \in Targets, active[t] # NoRun,
         NEW p \in RunPhases \ {"idle"}, NEW i \in SUBSET Nat,
         phase' = [phase EXCEPT ![t] = p], inputs' = [inputs EXCEPT ![t] = i],
         UNCHANGED <<pending, active, canceled, queue, ahead, activeSlots>>
  PROVE  SlotPart'
<1>1. SlotTypeOK' /\ PhasesMatch'
  BY DEF SlotPart, SlotTypeOK, PhasesMatch
<1>2. SlotsExact' /\ Ordered(queue, ahead)' /\ QueueMatches'
  BY DEF SlotPart, SlotsExact, Running, Ordered, QueueMatches
<1>. QED  BY <1>1, <1>2 DEF SlotPart

\* A target that joins the queue joins it behind everyone else.
LEMMA EnqueueKeeps ==
  ASSUME SlotPart, NEW t \in Targets
  PROVE  /\ EnqueuedAhead(t) \in [Targets -> SUBSET Targets]
         /\ Ordered(queue \cup {t}, EnqueuedAhead(t))
<1>1. CASE t \in queue
  <2>1. queue \cup {t} = queue
    BY <1>1
  <2>. QED  BY <1>1, <2>1 DEF SlotPart, SlotTypeOK, EnqueuedAhead
<1>2. CASE t \notin queue
  <2> DEFINE ah == [ahead EXCEPT ![t] = queue]
  <2>1. /\ EnqueuedAhead(t) = ah /\ ah \in [Targets -> SUBSET Targets]
        /\ ah[t] = queue /\ \A u \in Targets \ {t} : ah[u] = ahead[u]
    BY <1>2 DEF SlotPart, SlotTypeOK, EnqueuedAhead
  <2>2. /\ queue \subseteq Targets
        /\ \A u \in Targets : ahead[u] \subseteq queue /\ u \notin ahead[u]
        /\ \A u, v \in queue : u # v => u \in ahead[v] \/ v \in ahead[u]
        /\ \A u, v \in queue : v \in ahead[u] => ahead[v] \subseteq ahead[u]
    BY DEF SlotPart, SlotTypeOK, Ordered
  <2> HIDE DEF ah
  <2>. QED  BY <1>2, <2>1, <2>2 DEF Ordered
<1>. QED  BY <1>1, <1>2

\* The end of execute() releases exactly the slot of its run.
LEMMA SettleKeeps ==
  ASSUME SlotPart, NEW t \in Targets, active[t] # NoRun, Settle(t)
  PROVE  SlotPart'
<1> DEFINE act == [active EXCEPT ![t] = NoRun]
           busy == {u \in Targets : act[u] # NoRun}
<1>1. act \in [Targets -> Run \cup {NoRun}]
  BY DEF SlotPart, SlotTypeOK
<1>2. busy = Running \ {t} /\ t \in Running
  BY DEF SlotPart, SlotTypeOK, Running
<1>3. IsFiniteSet(Running)
  <2>1. Running \in SUBSET Targets
    BY DEF Running
  <2>. QED  BY <2>1, FS_Subset, TargetsAssumption
<1>4. Cardinality(busy) = activeSlots - 1
  BY <1>2, <1>3, FS_RemoveElement DEF SlotPart, SlotsExact
<1>5. activeSlots - 1 \in Nat /\ activeSlots - 1 <= Slots
  <2>1. Cardinality(busy) \in Nat
    <3>1. IsFiniteSet(busy)
      BY <1>2, <1>3, FS_RemoveElement
    <3> HIDE DEF busy
    <3>. QED  BY <3>1, FS_CardinalityType
  <2>. QED  BY <1>4, <2>1, SlotsPositive DEF SlotPart, SlotTypeOK
<1>6. \A u \in Targets : act[u] # NoRun => phase[u] # "idle"
  BY DEF SlotPart, SlotTypeOK, PhasesMatch
<1>7. Pump(pending, act, canceled, activeSlots - 1, queue, ahead)
  BY DEF Settle
<1> HIDE DEF act
<1>. QED
  BY <1>1, <1>4, <1>5, <1>6, <1>7, PumpKeeps
  DEF SlotPart, SlotTypeOK, QueueMatches

\* Initially nothing is scheduled.
LEMMA InitSlotInv == Init => SlotInv
<1> SUFFICES ASSUME Init PROVE SlotInv
  OBVIOUS
<1>1. EnvTypeOK /\ StateTypeOK /\ FactTypeOK
  <2>1. <<>> \in Seq(Commit)
    OBVIOUS
  <2>2. FactTypeOK
    BY <2>1 DEF Init, FactTypeOK
  <2>3. EnvTypeOK
    <3>1. /\ disk \in [Targets -> Nat \ {0}]
          /\ edits \in Nat /\ overflows \in Nat
          /\ first \in [Targets -> Nat]
      BY DEF Init
    <3>2. /\ notify \in [Targets -> BOOLEAN] /\ observing \in BOOLEAN
          /\ start \in [Targets -> StartPhases]
          /\ draining \in {"none", "waiting", "resolved"}
      BY DEF Init, StartPhases
    <3>. QED  BY <3>1, <3>2 DEF EnvTypeOK
  <2>4. StateTypeOK
    BY DEF Init, StateTypeOK, RescanPhases
  <2>. QED  BY <2>2, <2>3, <2>4
<1>2. SlotTypeOK
  BY SlotsPositive DEF Init, SlotTypeOK, RunPhases
<1>3. SlotsExact
  <2>1. Running = {}
    BY DEF Init, Running
  <2>. QED  BY <2>1, FS_EmptySet, SlotsPositive DEF Init, SlotsExact
<1>4. Ordered(queue, ahead) /\ PhasesMatch /\ QueueMatches
  BY DEF Init, Ordered, PhasesMatch, QueueMatches
<1>. QED  BY <1>1, <1>2, <1>3, <1>4 DEF SlotInv, SlotPart

\* Ids of runs are numbers, so the facts about canceled runs are well typed.
LEMMA IdsAreNumbers ==
  ASSUME NEW run \in Run \cup {NoRun}
  PROVE  IdOf(run) \subseteq Nat
BY DEF IdOf, Run

\* Whatever ends a run, the types of the facts and of the drain are kept.
LEMMA DiscardKeeps ==
  ASSUME SlotInv, NEW t \in Targets, active[t] # NoRun, Discard(t)
  PROVE  SlotInv'
<1>1. SlotPart'
  BY SettleKeeps DEF SlotInv, Discard
<1>2. EnvTypeOK'
  BY DEF SlotInv, Discard, Settle, FinishDrainIfIdle, EnvTypeOK, env, started
<1>3. StateTypeOK'
  BY DEF SlotInv, Discard, Settle, StateTypeOK, states
<1>4. FactTypeOK'
  <2>1. IdOf(active[t]) \subseteq Nat
    BY IdsAreNumbers DEF SlotInv, SlotPart, SlotTypeOK
  <2>. QED  BY <2>1 DEF SlotInv, Discard, Settle, FactTypeOK
<1>. QED  BY <1>1, <1>2, <1>3, <1>4 DEF SlotInv

\* Every step of the mediator and of its environment keeps the invariant.
LEMMA NextSlotInv == SlotInv /\ [Next]_vars => SlotInv'
<1> SUFFICES ASSUME SlotInv, [Next]_vars
             PROVE  SlotInv'
  OBVIOUS
<1> USE DEF SlotInv
<1>1. ASSUME NEW t \in Targets, Edit(t)
      PROVE  SlotInv'
  <2>1. SlotPart'
    BY <1>1, SlotsUnchanged DEF Edit
  <2>2. EnvTypeOK'
    BY <1>1 DEF Edit, EnvTypeOK, started
  <2>. QED  BY <1>1, <2>1, <2>2 DEF Edit, StateTypeOK, states, FactTypeOK, facts
<1>2. ASSUME NEW t \in Targets, Hint(t)
      PROVE  SlotInv'
  <2>1. SlotPart'
    BY <1>2, SlotsUnchanged DEF Hint
  <2>2. EnvTypeOK' /\ StateTypeOK'
    BY <1>2 DEF Hint, EnvTypeOK, StateTypeOK, started
  <2>. QED  BY <1>2, <2>1, <2>2 DEF Hint, FactTypeOK, facts
<1>3. CASE HintAll
  <2>1. SlotPart'
    BY <1>3, SlotsUnchanged DEF HintAll
  <2>2. EnvTypeOK' /\ StateTypeOK'
    BY <1>3 DEF HintAll, EnvTypeOK, StateTypeOK, started
  <2>. QED  BY <1>3, <2>1, <2>2 DEF HintAll, FactTypeOK, facts
<1>4. CASE Start
  <2>1. SlotPart'
    BY <1>4, SlotsUnchanged DEF Start
  <2>2. EnvTypeOK'
    BY <1>4 DEF Start, EnvTypeOK, env, StartPhases
  <2>. QED  BY <1>4, <2>1, <2>2 DEF Start, StateTypeOK, states, FactTypeOK, facts
<1>5. ASSUME NEW t \in Targets, StartScan(t)
      PROVE  SlotInv'
  <2>1. SlotPart'
    BY <1>5, SlotsUnchanged DEF StartScan
  <2>2. EnvTypeOK'
    BY <1>5 DEF StartScan, EnvTypeOK, env, StartPhases
  <2>. QED
    BY <1>5, <2>1, <2>2 DEF StartScan, StateTypeOK, states, FactTypeOK, facts
<1>6. ASSUME NEW t \in Targets, StartPlace(t)
      PROVE  SlotInv'
  <2>1. EnvTypeOK'
    BY <1>6 DEF StartPlace, EnvTypeOK, env, StartPhases
  <2>2. CASE ~observing
    <3>1. UNCHANGED slots
      BY <1>6, <2>2 DEF StartPlace, slots
    <3>. QED
      BY <1>6, <2>1, <2>2, <3>1, SlotsUnchanged
      DEF StartPlace, StateTypeOK, FactTypeOK
  <2>3. CASE observing
    <3> DEFINE run == NewRun(t, generation[t], "initial", first[t])
    <3>1. run \in Run
      BY DEF NewRun, Run, EnvTypeOK, StateTypeOK, FactTypeOK
    <3>2. StateTypeOK'
      BY <1>6, <2>3 DEF StartPlace, StateTypeOK, EnvTypeOK
    <3>3. FactTypeOK'
      <4>1. IdOf(pending[t]) \subseteq Nat
        BY IdsAreNumbers DEF SlotPart, SlotTypeOK
      <4>2. reported' = [reported EXCEPT ![t] = @ \cup IdOf(pending[t])]
        BY <1>6, <2>3 DEF StartPlace
      <4>3. UNCHANGED persisted /\ runs' = [runs EXCEPT ![t] = @ + 1]
        BY <1>6, <2>3 DEF StartPlace
      <4>. QED  BY <4>1, <4>2, <4>3 DEF FactTypeOK
    <3>4. /\ pending' = [pending EXCEPT ![t] = run]
          /\ queue' = queue \cup {t} /\ ahead' = EnqueuedAhead(t)
          /\ UNCHANGED <<active, canceled, phase, inputs, activeSlots>>
      BY <1>6, <2>3 DEF StartPlace
    <3> HIDE DEF run
    <3>5. SlotTypeOK'
      BY <3>1, <3>4, EnqueueKeeps DEF SlotPart, SlotTypeOK
    <3>6. Ordered(queue, ahead)'
      <4>1. Ordered(queue \cup {t}, EnqueuedAhead(t))
        BY EnqueueKeeps
      <4>. QED  BY <3>4, <4>1 DEF Ordered
    <3>7. SlotsExact' /\ PhasesMatch'
      BY <3>4 DEF SlotPart, SlotsExact, Running, PhasesMatch
    <3>8. QueueMatches'
      BY <3>1, <3>4, NoRunAssumption DEF SlotPart, SlotTypeOK, QueueMatches
    <3>. QED
      BY <2>1, <3>2, <3>3, <3>5, <3>6, <3>7, <3>8 DEF SlotPart
  <2>. QED  BY <2>2, <2>3
<1>7. CASE StartPump
  <2>1. EnvTypeOK' /\ StateTypeOK' /\ FactTypeOK'
    BY <1>7 DEF StartPump, EnvTypeOK, env, StartPhases, StateTypeOK, states,
                FactTypeOK, facts
  <2>2. SlotPart'
    <3>1. Pump(pending, active, canceled, activeSlots, queue, ahead)
      BY <1>7 DEF StartPump
    <3>2. activeSlots \in Nat /\ activeSlots <= Slots
      BY SlotsPositive DEF SlotPart, SlotTypeOK
    <3>. QED
      BY <3>1, <3>2, PumpKeeps
      DEF SlotPart, SlotTypeOK, SlotsExact, Running, PhasesMatch, QueueMatches
  <2>. QED  BY <2>1, <2>2
<1>8. ASSUME NEW t \in Targets, TimerFires(t)
      PROVE  SlotInv'
  <2>1. SlotPart'
    BY <1>8, SlotsUnchanged DEF TimerFires
  <2>2. EnvTypeOK' /\ StateTypeOK'
    BY <1>8 DEF TimerFires, EnvTypeOK, env, started, StateTypeOK, RescanPhases
  <2>. QED  BY <1>8, <2>1, <2>2 DEF TimerFires, FactTypeOK, facts
<1>9. ASSUME NEW t \in Targets, RescanReads(t)
      PROVE  SlotInv'
  <2>1. SlotPart'
    BY <1>9, SlotsUnchanged DEF RescanReads
  <2>2. EnvTypeOK' /\ StateTypeOK'
    BY <1>9 DEF RescanReads, EnvTypeOK, env, started, StateTypeOK, RescanPhases
  <2>. QED  BY <1>9, <2>1, <2>2 DEF RescanReads, FactTypeOK, facts
<1>10. ASSUME NEW t \in Targets, StableReads(t)
      PROVE  SlotInv'
  <2>1. SlotPart'
    BY <1>10, SlotsUnchanged DEF StableReads
  <2>2. EnvTypeOK' /\ StateTypeOK'
    BY <1>10 DEF StableReads, EnvTypeOK, env, started, StateTypeOK, RescanPhases
  <2>. QED  BY <1>10, <2>1, <2>2 DEF StableReads, FactTypeOK, facts
<1>11. ASSUME NEW t \in Targets, RescanIgnored(t) \/ RescanUnstable(t)
      PROVE  SlotInv'
  <2>1. SlotPart'
    BY <1>11, SlotsUnchanged DEF RescanIgnored, RescanUnstable
  <2>2. EnvTypeOK' /\ StateTypeOK'
    <3>1. RescanEnds(t)
      BY <1>11 DEF RescanIgnored, RescanUnstable
    <3>2. EnvTypeOK'
      BY <3>1 DEF RescanEnds, FinishDrainIfIdle, EnvTypeOK, env, started
    <3>3. StateTypeOK'
      BY <1>11, <3>1
      DEF RescanIgnored, RescanUnstable, RescanEnds, StateTypeOK, RescanPhases
    <3>. QED  BY <3>2, <3>3
  <2>. QED
    BY <1>11, <2>1, <2>2
    DEF RescanIgnored, RescanUnstable, RescanEnds, FactTypeOK
<1>12. ASSUME NEW t \in Targets, RescanConfirms(t)
      PROVE  SlotInv'
  <2> DEFINE run  == NewRun(t, NextGeneration(generation[t]), "change", seen[t])
             pend == [pending EXCEPT ![t] = run]
  <2>1. EnvTypeOK' /\ StateTypeOK'
    <3>1. EnvTypeOK'
      BY <1>12 DEF RescanConfirms, RescanEnds, FinishDrainIfIdle, EnvTypeOK, env,
                   started
    <3>2. StateTypeOK'
      BY <1>12 DEF RescanConfirms, RescanEnds, NextGeneration, StateTypeOK,
             RescanPhases
    <3>. QED  BY <3>1, <3>2
  <2>2. FactTypeOK'
    <3>1. IdOf(pending[t]) \subseteq Nat /\ IdOf(active[t]) \subseteq Nat
      BY IdsAreNumbers DEF SlotPart, SlotTypeOK
    <3>. QED
      BY <1>12, <3>1 DEF RescanConfirms, RescanEnds, CanceledRuns, FactTypeOK
  <2>3. run \in Run
    BY DEF NewRun, NextGeneration, Run, StateTypeOK, FactTypeOK
  <2>4. Pump(pend, active, [canceled EXCEPT ![t] = TRUE], activeSlots,
             queue \cup {t}, EnqueuedAhead(t))
    BY <1>12 DEF RescanConfirms
  <2> HIDE DEF run
  <2>5. /\ pend \in [Targets -> Run \cup {NoRun}]
        /\ \A u \in Targets : u \in queue \cup {t} <=> pend[u] # NoRun
    BY <2>3, NoRunAssumption DEF SlotPart, SlotTypeOK, QueueMatches
  <2>6. /\ [canceled EXCEPT ![t] = TRUE] \in [Targets -> BOOLEAN]
        /\ queue \cup {t} \in SUBSET Targets
        /\ activeSlots \in Nat /\ activeSlots <= Slots
    BY SlotsPositive DEF SlotPart, SlotTypeOK
  <2> HIDE DEF pend
  <2>7. /\ EnqueuedAhead(t) \in [Targets -> SUBSET Targets]
        /\ Ordered(queue \cup {t}, EnqueuedAhead(t))
    BY EnqueueKeeps
  <2>8. /\ active \in [Targets -> Run \cup {NoRun}]
        /\ activeSlots = Cardinality({u \in Targets : active[u] # NoRun})
        /\ phase \in [Targets -> RunPhases] /\ inputs \in [Targets -> SUBSET Nat]
        /\ \A u \in Targets : active[u] # NoRun => phase[u] # "idle"
    BY DEF SlotPart, SlotTypeOK, SlotsExact, Running, PhasesMatch
  <2>9. SlotPart'
    <3> DEFINE cancel == [canceled EXCEPT ![t] = TRUE]
               q == queue \cup {t}
    <3> HIDE DEF cancel, q
    <3>. QED  BY <2>4, <2>5, <2>6, <2>7, <2>8, PumpKeeps DEF cancel, q
  <2>. QED  BY <2>1, <2>2, <2>9
<1>13. ASSUME NEW t \in Targets,
              RunReads(t) \/ RunResolves(t) \/ CheckReads(t) \/ CommitBegins(t)
      PROVE  SlotInv'
  <2>1. EnvTypeOK' /\ StateTypeOK' /\ FactTypeOK'
    BY <1>13 DEF RunReads, RunResolves, CheckReads, CommitBegins, EnvTypeOK, env,
                 started, StateTypeOK, states, FactTypeOK, facts
  <2>2. active[t] # NoRun
    BY <1>13 DEF RunReads, RunResolves, CheckReads, CommitBegins, SlotPart,
                 PhasesMatch
  <2>3. \E p \in RunPhases \ {"idle"} : \E i \in SUBSET Nat :
           /\ phase' = [phase EXCEPT ![t] = p]
           /\ inputs' = [inputs EXCEPT ![t] = i]
    <3>1. /\ phase \in [Targets -> RunPhases] /\ phase = [phase EXCEPT ![t] = @]
          /\ inputs \in [Targets -> SUBSET Nat] /\ inputs = [inputs EXCEPT ![t] = @]
          /\ disk[t] \in Nat
      BY DEF SlotPart, SlotTypeOK, EnvTypeOK
    <3>. QED
      BY <1>13, <3>1
      DEF RunReads, RunResolves, CheckReads, CommitBegins, RunPhases
  <2>4. UNCHANGED <<pending, active, canceled, queue, ahead, activeSlots>>
    BY <1>13 DEF RunReads, RunResolves, CheckReads, CommitBegins
  <2>. QED  BY <2>1, <2>2, <2>3, <2>4, PhaseKeeps
<1>14. ASSUME NEW t \in Targets,
              RunIsStale(t) \/ RunRejects(t) \/ CheckFails(t) \/ CommitRejects(t)
      PROVE  SlotInv'
  <2>1. active[t] # NoRun /\ Discard(t)
    BY <1>14 DEF RunIsStale, RunRejects, CheckFails, CommitRejects, SlotPart,
                 PhasesMatch
  <2>. QED  BY <2>1, DiscardKeeps
<1>15. ASSUME NEW t \in Targets, CommitResolves(t)
      PROVE  SlotInv'
  <2>1. active[t] \in Run /\ active[t] # NoRun /\ Settle(t)
    BY <1>15 DEF CommitResolves, SlotPart, SlotTypeOK, PhasesMatch
  <2>2. SlotPart'
    BY <2>1, SettleKeeps
  <2>3. EnvTypeOK'
    BY <2>1 DEF Settle, FinishDrainIfIdle, EnvTypeOK, env, started
  <2>4. StateTypeOK'
    BY <2>1 DEF Settle, StateTypeOK, states
  <2>5. FactTypeOK'
    <3> DEFINE c == [id |-> active[t].id, generation |-> active[t].generation,
                     snapshot |-> active[t].snapshot, inputs |-> inputs[t]]
    <3>1. c \in Commit
      BY <2>1 DEF Run, Commit, SlotPart, SlotTypeOK
    <3>2. persisted' = [persisted EXCEPT ![t] = Append(@, c)]
      BY <1>15 DEF CommitResolves
    <3>3. UNCHANGED <<runs, reported>>
      BY <1>15 DEF CommitResolves, Settle
    <3> HIDE DEF c
    <3>. QED  BY <3>1, <3>2, <3>3 DEF FactTypeOK
  <2>. QED  BY <2>2, <2>3, <2>4, <2>5
<1>16. CASE Drain
  <2>1. EnvTypeOK' /\ StateTypeOK'
    BY <1>16 DEF Drain, EnvTypeOK, env, started, StateTypeOK
  <2>2. FactTypeOK'
    <3>1. \A t \in Targets : CanceledRuns(t) \subseteq Nat
      BY IdsAreNumbers DEF CanceledRuns, SlotPart, SlotTypeOK
    <3>. QED  BY <1>16, <3>1 DEF Drain, FactTypeOK
  <2>3. SlotPart'
    <3>1. SlotTypeOK' /\ PhasesMatch' /\ QueueMatches' /\ Ordered(queue, ahead)'
      BY <1>16 DEF Drain, SlotPart, SlotTypeOK, PhasesMatch, QueueMatches, Ordered
    <3>2. SlotsExact'
      BY <1>16 DEF Drain, SlotPart, SlotsExact, Running
    <3>. QED  BY <3>1, <3>2 DEF SlotPart
  <2>. QED  BY <2>1, <2>2, <2>3
<1>17. CASE UNCHANGED vars
  BY <1>17, SlotsUnchanged
  DEF vars, env, started, states, facts, EnvTypeOK, StateTypeOK, FactTypeOK
<1>. QED
  BY <1>1, <1>2, <1>3, <1>4, <1>5, <1>6, <1>7, <1>8, <1>9, <1>10, <1>11, <1>12,
     <1>13, <1>14, <1>15, <1>16, <1>17
  DEF Next, System, Rescan, Execute

\* The scheduling invariant holds in every reachable state of the mediator.
THEOREM SlotInvariant == Spec => []SlotInv
<1>. QED  BY InitSlotInv, NextSlotInv, PTL DEF Spec

\* Every variable keeps its type, and activeSlots stays between 0 and the
\* configured number of slots, for any targets, slots and environment.
THEOREM TypeCorrect == Spec => []TypeOK
<1>1. SlotInv => TypeOK
  BY DEF SlotInv, SlotPart, TypeOK
<1>. QED  BY <1>1, SlotInvariant, PTL

\* activeSlots counts exactly the active runs and never exceeds the slots: pump()
\* and the finally block of execute() account for every slot on every path.
THEOREM SlotsAreExact == Spec => []SlotsExact
<1>1. SlotInv => SlotsExact
  BY DEF SlotInv, SlotPart
<1>. QED  BY <1>1, SlotInvariant, PTL
-----------------------------------------------------------------------------
(* pump() is work-conserving, and a drained mediator is quiet.             *)

\* pump() starts every run that could start, or it fills the last slot.
LEMMA PumpIsMaximal ==
  ASSUME NEW pend, NEW act, NEW n \in Nat, n <= Slots,
         NEW q \in SUBSET Targets, NEW ah \in [Targets -> SUBSET Targets],
         Ordered(q, ah)
  PROVE  \/ Started(pend, act, n, q, ah) = Eligible(pend, act, q)
         \/ n + Cardinality(Started(pend, act, n, q, ah)) = Slots
<1> DEFINE E == Eligible(pend, act, q)
           S == Started(pend, act, n, q, ah)
           m == Cardinality(E)
           k == Slots - n
           rank == [t \in E |-> Cardinality(ah[t] \cap E)]
<1>1. E \in SUBSET q /\ S \in SUBSET E /\ E \in SUBSET Targets
  BY DEF Eligible, Started
<1>2. IsFiniteSet(E) /\ m \in Nat
  BY <1>1, FS_Subset, FS_CardinalityType, TargetsAssumption
<1>3. \A t \in E : rank[t] \in 0 .. (m - 1)
  <2> TAKE t \in E
  <2>1. ah[t] \cap E \in SUBSET (E \ {t})
    BY <1>1 DEF Ordered
  <2>2. IsFiniteSet(E \ {t}) /\ Cardinality(E \ {t}) = m - 1
    BY <1>2, FS_RemoveElement
  <2> HIDE DEF E
  <2>3. /\ Cardinality(ah[t] \cap E) \in Nat
        /\ Cardinality(ah[t] \cap E) <= m - 1
    BY <2>1, <2>2, FS_Subset, FS_CardinalityType
  <2>. QED  BY <1>2, <2>3
<1>4. rank \in Surjection(E, 0 .. (m - 1))
  <2>1. rank \in Injection(E, 0 .. (m - 1))
    <3>1. \A t, u \in E : t # u => rank[t] # rank[u]
      <4> TAKE t, u \in E
      <4> HIDE DEF E
      <4>1. t # u => Cardinality(ah[t] \cap E) # Cardinality(ah[u] \cap E)
        BY <1>1, RanksDiffer
      <4>. QED  BY <4>1
    <3> HIDE DEF E
    <3>2. rank \in [E -> 0 .. (m - 1)]
      BY <1>3
    <3>. QED  BY <3>1, <3>2 DEF Injection, IsInjective
  <2>2. IsFiniteSet(0 .. (m - 1)) /\ Cardinality(0 .. (m - 1)) = m
    <3> HIDE DEF m
    <3>1. 0 \in Int /\ m - 1 \in Int
      BY <1>2
    <3>. QED  BY <1>2, <3>1, FS_Interval
  <2> HIDE DEF E, rank, m
  <2>. QED  BY <1>2, <2>1, <2>2, FS_Injection DEF m
<1>5. S = {t \in E : rank[t] < k}
  <2>1. \A t \in E : Cardinality(ah[t] \cap E) + n < Slots <=> rank[t] < k
    <3> HIDE DEF E, m
    <3>. QED  BY <1>2, <1>3, SlotsPositive
  <2>. QED  BY <2>1 DEF Started
<1>6. ASSUME S # E, n + Cardinality(S) # Slots
      PROVE  FALSE
  <2>1. PICK u \in E : rank[u] >= k
    <3>1. PICK u \in E : u \notin S
      BY <1>1, <1>6
    <3> HIDE DEF E, S, rank, m
    <3>. QED  BY <1>2, <1>3, <1>5, <3>1, SlotsPositive DEF k
  <2>2. k \in Nat /\ k <= m - 1
    <3> HIDE DEF E, S, rank, m
    <3>. QED  BY <1>2, <1>3, <2>1, SlotsPositive
  <2> DEFINE f == [t \in S |-> rank[t]]
  <2>3. f \in Surjection(S, 0 .. (k - 1))
    <3> HIDE DEF E, S, rank, m
    <3>1. f \in [S -> 0 .. (k - 1)]
      BY <1>2, <1>3, <1>5, <2>2
    <3>2. \A i \in 0 .. (k - 1) : \E t \in S : f[t] = i
      <4> TAKE i \in 0 .. (k - 1)
      <4>1. i \in 0 .. (m - 1) /\ i < k
        BY <1>2, <2>2
      <4>2. PICK t \in E : rank[t] = i
        BY <1>4, <4>1 DEF Surjection
      <4>. QED  BY <1>5, <4>1, <4>2
    <3>. QED  BY <3>1, <3>2 DEF Surjection
  <2>4. IsFiniteSet(S)
    BY <1>1, <1>2, FS_Subset
  <2>5. Cardinality(0 .. (k - 1)) = k
    BY <2>2, FS_Interval
  <2>6. k <= Cardinality(S)
    <3> HIDE DEF S, f, k
    <3>. QED  BY <2>3, <2>4, <2>5, FS_Surjection
  <2>7. Cardinality(S) \in Nat /\ n + Cardinality(S) <= Slots
    BY StartedBound
  <2> HIDE DEF S
  <2>. QED  BY <1>6, <2>6, <2>7, SlotsPositive
<1>. QED  BY <1>6

\* So it leaves no eligible run behind while a slot is free.
LEMMA PumpLeavesNoIdle ==
  ASSUME NEW pend, NEW act, NEW cancel, NEW n \in Nat, n <= Slots,
         NEW q \in SUBSET Targets, NEW ah \in [Targets -> SUBSET Targets],
         Ordered(q, ah),
         \A t \in Targets : t \in q <=> pend[t] # NoRun,
         ~observing => q = {},
         Pump(pend, act, cancel, n, q, ah)
  PROVE  /\ activeSlots' < Slots => \A t \in queue' : active'[t] # NoRun
         /\ ~observing => queue' = {}
<1> DEFINE E == Eligible(pend, act, q)
           S == Started(pend, act, n, q, ah)
<1>1. /\ queue' = q \ S /\ activeSlots' = n + Cardinality(S)
      /\ active' = [t \in Targets |-> IF t \in S THEN pend[t] ELSE act[t]]
  BY DEF Pump
<1>2. S = E \/ n + Cardinality(S) = Slots
  BY PumpIsMaximal
<1>3. observing => \A t \in q \ E : act[t] # NoRun
  BY DEF Eligible
<1> HIDE DEF E, S
<1>. QED  BY <1>1, <1>2, <1>3, SlotsPositive

\* What every call of pump() establishes about the runs that do not execute.
LEMMA PumpForgets ==
  ASSUME NEW pend, NEW act, NEW cancel, NEW n, NEW q, NEW ah,
         ~observing => q = {},
         Pump(pend, act, cancel, n, q, ah)
  PROVE  /\ \A t \in Targets : active'[t] = NoRun => ~canceled'[t] /\ inputs'[t] = {}
         /\ ~observing => activeSlots' = n + Cardinality({})
<1>1. \A t \in Started(pend, act, n, q, ah) : pend[t] # NoRun /\ t \in q
  BY DEF Started, Eligible
<1>2. ~observing => Started(pend, act, n, q, ah) = {}
  BY <1>1
<1>. QED  BY <1>1, <1>2 DEF Pump

\* The scheduling invariant together with what is proved here.
DrainInv == SlotInv /\ NoIdleSlot /\ DrainPart

\* The end of execute(): the next runs start, and a waiting drain is resolved by
\* the last of them.
LEMMA SettleDrains ==
  ASSUME DrainInv, NEW t \in Targets, active[t] # NoRun, Settle(t)
  PROVE  (NoIdleSlot /\ DrainPart)'
<1> USE DEF DrainInv, SlotInv
<1> DEFINE act == [active EXCEPT ![t] = NoRun]
           n   == activeSlots - 1
<1>1. SlotPart'
  BY SettleKeeps
<1>2. n \in Nat /\ n <= Slots
  <2>1. t \in Running /\ IsFiniteSet(Running)
    <3>1. Running \in SUBSET Targets
      BY DEF Running
    <3>. QED  BY <3>1, FS_Subset, TargetsAssumption DEF Running
  <2>2. activeSlots # 0
    BY <2>1, FS_EmptySet DEF SlotPart, SlotsExact
  <2>. QED  BY <2>2, SlotsPositive DEF SlotPart, SlotTypeOK
<1>3. Pump(pending, act, canceled, n, queue, ahead) /\ FinishDrainIfIdle(n, rescan)
      /\ UNCHANGED <<observing, start>>
  BY DEF Settle, started
<1>4. ~observing => queue = {}
  BY DEF DrainPart
<1> HIDE DEF act, n
<1>5. /\ activeSlots' < Slots => \A u \in queue' : active'[u] # NoRun
      /\ ~observing => queue' = {}
  BY <1>2, <1>3, <1>4, PumpLeavesNoIdle
  DEF SlotPart, SlotTypeOK, QueueMatches
<1>6. /\ \A u \in Targets : active'[u] = NoRun => ~canceled'[u] /\ inputs'[u] = {}
      /\ ~observing => activeSlots' = n
  BY <1>2, <1>3, <1>4, PumpForgets, FS_EmptySet
<1>7. NoIdleSlot'
  BY <1>1, <1>3, <1>5 DEF NoIdleSlot, StartOver, SlotPart, QueueMatches
<1>8. DrainPart'
  <2>1. draining = "resolved" => FALSE
    <3>1. activeSlots # 0
      BY <1>2 DEF n, SlotPart, SlotTypeOK
    <3>. QED  BY <3>1 DEF DrainPart
  <2>2. UNCHANGED rescan
    BY DEF Settle, states
  <2>3. draining' = "resolved" => n = 0 /\ ~observing /\ \A u \in Targets : rescan[u] = "none"
    BY <1>3, <2>1 DEF DrainPart, FinishDrainIfIdle
  <2>. QED
    BY <1>3, <1>5, <1>6, <2>1, <2>2, <2>3 DEF DrainPart, FinishDrainIfIdle
<1>. QED  BY <1>7, <1>8

\* Every step of the mediator and of its environment keeps the invariant.
LEMMA NextDrainInv == DrainInv /\ [Next]_vars => DrainInv'
<1> SUFFICES ASSUME DrainInv, [Next]_vars
             PROVE  (NoIdleSlot /\ DrainPart)'
  BY NextSlotInv DEF DrainInv
<1> USE DEF DrainInv
<1>0. SlotInv'
  BY NextSlotInv
<1>1. ASSUME UNCHANGED <<observing, start, draining, pending, active, canceled,
                         inputs, queue, activeSlots>>,
             draining = "resolved" => UNCHANGED rescan
      PROVE  (NoIdleSlot /\ DrainPart)'
  BY <1>1 DEF NoIdleSlot, StartOver, DrainPart
<1>2. ASSUME NEW t \in Targets,
             \/ Edit(t) \/ Hint(t) \/ TimerFires(t) \/ RescanReads(t)
             \/ StableReads(t) \/ RunResolves(t) \/ CheckReads(t)
             \/ CommitBegins(t)
      PROVE  (NoIdleSlot /\ DrainPart)'
  <2>1. UNCHANGED <<observing, start, draining, pending, active, canceled, inputs,
                    queue, activeSlots>>
    BY <1>2
    DEF Edit, Hint, TimerFires, RescanReads, StableReads, RunResolves, CheckReads,
        CommitBegins, started, slots
  <2>2. CASE Edit(t) \/ Hint(t) \/ RunResolves(t) \/ CheckReads(t) \/ CommitBegins(t)
    BY <1>1, <2>1, <2>2 DEF Edit, Hint, RunResolves, CheckReads, CommitBegins, states
  <2>3. CASE TimerFires(t) \/ RescanReads(t) \/ StableReads(t)
    <3>1. draining = "resolved" => ~observing /\ rescan[t] = "none"
      BY DEF DrainPart
    <3>2. draining = "resolved" => UNCHANGED rescan
      BY <2>3, <3>1 DEF TimerFires, RescanReads, StableReads, SlotInv, StateTypeOK
    <3>. QED  BY <1>1, <2>1, <3>2
  <2>. QED  BY <1>2, <2>2, <2>3
<1>3. CASE HintAll \/ UNCHANGED vars
  BY <1>1, <1>3 DEF HintAll, vars, started, slots, states
<1>4. CASE Start
  <2>1. \A t \in Targets : start'[t] = "scanning"
    BY <1>4 DEF Start
  <2>2. observing' /\ UNCHANGED <<draining, slots>> /\ draining = "none"
    BY <1>4 DEF Start
  <2>3. NoIdleSlot'
    BY <2>1, <2>2 DEF NoIdleSlot, StartOver, slots, SlotInv, SlotPart, SlotTypeOK
  <2>. QED  BY <2>2, <2>3 DEF DrainPart, slots
<1>5. ASSUME NEW t \in Targets, StartScan(t) \/ StartPlace(t)
      PROVE  (NoIdleSlot /\ DrainPart)'
  <2>1. start'[t] # "done"
    BY <1>5 DEF StartScan, StartPlace, SlotInv, EnvTypeOK
  <2>2. UNCHANGED <<observing, draining, active, canceled, inputs, activeSlots, rescan>>
    BY <1>5 DEF StartScan, StartPlace, slots, states
  <2>3. ~observing => UNCHANGED queue
    BY <1>5 DEF StartScan, StartPlace, slots
  <2>4. NoIdleSlot'
    BY <1>0, <2>1 DEF NoIdleSlot, StartOver, SlotInv, SlotPart, QueueMatches
  <2>. QED  BY <2>2, <2>3, <2>4 DEF DrainPart
<1>6. CASE StartPump
  <2>1. Pump(pending, active, canceled, activeSlots, queue, ahead)
        /\ UNCHANGED <<observing, draining, rescan>>
    BY <1>6 DEF StartPump, states
  <2>2. activeSlots \in Nat /\ activeSlots <= Slots /\ (~observing => queue = {})
    BY SlotsPositive DEF SlotInv, SlotPart, SlotTypeOK, DrainPart
  <2>3. /\ activeSlots' < Slots => \A u \in queue' : active'[u] # NoRun
        /\ ~observing => queue' = {}
    BY <2>1, <2>2, PumpLeavesNoIdle
    DEF SlotInv, SlotPart, SlotTypeOK, QueueMatches
  <2>4. /\ \A u \in Targets :
              active'[u] = NoRun => ~canceled'[u] /\ inputs'[u] = {}
        /\ ~observing => activeSlots' = activeSlots
    BY <2>1, <2>2, PumpForgets, FS_EmptySet
  <2>5. NoIdleSlot'
    BY <1>0, <2>3 DEF NoIdleSlot, SlotInv, SlotPart, QueueMatches
  <2>. QED  BY <2>1, <2>3, <2>4, <2>5 DEF DrainPart
<1>7. ASSUME NEW t \in Targets, RescanIgnored(t) \/ RescanUnstable(t)
      PROVE  (NoIdleSlot /\ DrainPart)'
  <2>1. UNCHANGED <<observing, start, slots>> /\ FinishDrainIfIdle(activeSlots,
            [rescan EXCEPT ![t] = "none"])
    BY <1>7 DEF RescanIgnored, RescanUnstable, RescanEnds, started
  <2>2. rescan[t] = "resuming"
    BY <1>7 DEF RescanIgnored, RescanUnstable, RescanEnds
  <2>3. ~observing => rescan' = [rescan EXCEPT ![t] = "none"]
    BY <1>7 DEF RescanIgnored, RescanUnstable, RescanEnds
  <2>4. draining' = "resolved" =>
           /\ ~observing /\ activeSlots = 0
           /\ \A u \in Targets : [rescan EXCEPT ![t] = "none"][u] = "none"
    BY <2>1, <2>2 DEF DrainPart, FinishDrainIfIdle
  <2>. QED
    BY <2>1, <2>3, <2>4 DEF NoIdleSlot, StartOver, DrainPart, FinishDrainIfIdle, slots
<1>8. ASSUME NEW t \in Targets, RescanConfirms(t)
      PROVE  (NoIdleSlot /\ DrainPart)'
  <2> DEFINE run  == NewRun(t, NextGeneration(generation[t]), "change", seen[t])
             pend == [pending EXCEPT ![t] = run]
             cancel == [canceled EXCEPT ![t] = TRUE]
             q == queue \cup {t}
  <2>1. Pump(pend, active, cancel, activeSlots, q, EnqueuedAhead(t))
    BY <1>8 DEF RescanConfirms
  <2>2. /\ observing /\ UNCHANGED <<observing, start>>
        /\ FinishDrainIfIdle(activeSlots, [rescan EXCEPT ![t] = "none"])
    BY <1>8 DEF RescanConfirms, RescanEnds, started
  <2>3. run \in Run
    BY DEF NewRun, NextGeneration, Run, SlotInv, StateTypeOK, FactTypeOK
  <2> HIDE DEF run
  <2>4. /\ \A u \in Targets : u \in q <=> pend[u] # NoRun
        /\ q \in SUBSET Targets
        /\ activeSlots \in Nat /\ activeSlots <= Slots
    BY <2>3, NoRunAssumption, SlotsPositive
    DEF SlotInv, SlotPart, SlotTypeOK, QueueMatches
  <2>5. /\ EnqueuedAhead(t) \in [Targets -> SUBSET Targets]
        /\ Ordered(q, EnqueuedAhead(t))
    BY EnqueueKeeps DEF SlotInv
  <2> HIDE DEF pend, cancel, q
  <2>6. activeSlots' < Slots => \A u \in queue' : active'[u] # NoRun
    BY <2>1, <2>2, <2>4, <2>5, PumpLeavesNoIdle
  <2>7. \A u \in Targets : active'[u] = NoRun => ~canceled'[u] /\ inputs'[u] = {}
    BY <2>1, <2>2, PumpForgets
  <2>8. NoIdleSlot'
    BY <1>0, <2>6 DEF NoIdleSlot, SlotInv, SlotPart, QueueMatches
  <2>. QED  BY <2>2, <2>7, <2>8 DEF DrainPart, FinishDrainIfIdle
<1>9. ASSUME NEW t \in Targets, RunReads(t)
      PROVE  (NoIdleSlot /\ DrainPart)'
  <2>1. active[t] # NoRun
    BY <1>9 DEF RunReads, SlotInv, SlotPart, PhasesMatch
  <2>2. /\ UNCHANGED <<observing, start, draining, pending, active, canceled,
                       queue, activeSlots, rescan>>
        /\ \A u \in Targets : u # t => inputs'[u] = inputs[u]
    BY <1>9 DEF RunReads, started, states
  <2>. QED  BY <2>1, <2>2 DEF NoIdleSlot, StartOver, DrainPart
<1>10. ASSUME NEW t \in Targets,
              \/ RunIsStale(t) \/ RunRejects(t) \/ CheckFails(t)
              \/ CommitRejects(t) \/ CommitResolves(t)
       PROVE  (NoIdleSlot /\ DrainPart)'
  <2>1. active[t] # NoRun /\ Settle(t)
    BY <1>10 DEF RunIsStale, RunRejects, CheckFails, CommitRejects,
                 CommitResolves, Discard, SlotInv, SlotPart, PhasesMatch
  <2>. QED  BY <2>1, SettleDrains
<1>11. CASE Drain
  <2>1. /\ ~observing' /\ draining' = "waiting" /\ queue' = {}
        /\ \A t \in Targets : canceled'[t] = (active[t] # NoRun)
        /\ UNCHANGED <<active, inputs>>
    BY <1>11 DEF Drain
  <2>2. NoIdleSlot'
    BY <1>0, <2>1 DEF NoIdleSlot, SlotInv, SlotPart, QueueMatches
  <2>. QED  BY <2>1, <2>2 DEF DrainPart
<1>. QED
  BY <1>2, <1>3, <1>4, <1>5, <1>6, <1>7, <1>8, <1>9, <1>10, <1>11
  DEF Next, System, Rescan, Execute

LEMMA InitDrainInv == Init => DrainInv
<1> SUFFICES ASSUME Init PROVE NoIdleSlot /\ DrainPart
  BY InitSlotInv DEF DrainInv
<1>. QED  BY DEF Init, NoIdleSlot, DrainPart

THEOREM DrainInvariant == Spec => []DrainInv
<1>. QED  BY InitDrainInv, NextDrainInv, PTL DEF Spec

\* While a slot is free, every queued run waits only for its own predecessor:
\* pump() neither drops a run nor lets one block the others.
THEOREM NoSlotIsIdle == Spec => []NoIdleSlot
<1>1. DrainInv => NoIdleSlot
  BY DEF DrainInv
<1>. QED  BY <1>1, DrainInvariant, PTL

\* Once drain()'s promise has resolved, no run executes, no rescan is in flight, and no
\* handler schedules, starts, reports or commits anything or begins a rescan.
THEOREM DrainedStaysQuiet == Spec => DrainedIsQuiet
<1>1. DrainInv /\ [Next]_vars =>
         (draining = "resolved" =>
            /\ \A t \in Targets : active[t] = NoRun /\ rescan[t] = "none"
            /\ UNCHANGED <<facts, slots, rescan>>)
  <2> SUFFICES ASSUME DrainInv, [Next]_vars, draining = "resolved"
               PROVE  /\ \A t \in Targets : active[t] = NoRun /\ rescan[t] = "none"
                      /\ UNCHANGED <<facts, slots, rescan>>
    OBVIOUS
  <2>1. /\ ~observing /\ queue = {} /\ activeSlots = 0
        /\ \A t \in Targets : rescan[t] = "none"
    BY DEF DrainInv, DrainPart
  <2>2. \A t \in Targets : active[t] = NoRun /\ phase[t] = "idle"
    <3>1. Running \in SUBSET Targets
      BY DEF Running
    <3>2. IsFiniteSet(Running)
      BY <3>1, FS_Subset, TargetsAssumption
    <3>3. Running = {}
      BY <2>1, <3>2, FS_EmptySet DEF DrainInv, SlotInv, SlotPart, SlotsExact
    <3>. QED
      BY <3>3 DEF Running, DrainInv, SlotInv, SlotPart, PhasesMatch
  <2>3. CASE StartPump
    <3>1. Started(pending, active, activeSlots, queue, ahead) = {}
      BY <2>1 DEF Started, Eligible
    <3>2. /\ pending' = pending /\ active' = active /\ queue' = queue
          /\ ahead' = ahead /\ phase' = phase
      BY <2>2, <2>3, <3>1
      DEF StartPump, Pump, DrainInv, SlotInv, SlotPart, SlotTypeOK
    <3>3. canceled' = canceled /\ inputs' = inputs
      BY <2>2, <2>3
      DEF StartPump, Pump, DrainInv, DrainPart, SlotInv, SlotPart, SlotTypeOK
    <3>4. activeSlots' = activeSlots
      BY <2>1, <2>3, PumpForgets, FS_EmptySet DEF StartPump
    <3>. QED  BY <2>1, <2>2, <2>3, <3>2, <3>3, <3>4 DEF StartPump, slots, states
  <2>4. ASSUME NEW t \in Targets, Execute(t)
        PROVE  FALSE
    BY <2>2, <2>4 DEF Execute, RunReads, RunResolves, RunIsStale, RunRejects,
       CheckReads, CheckFails, CommitBegins, CommitResolves, CommitRejects
  <2>5. ASSUME NEW t \in Targets,
               \/ RescanReads(t) \/ StableReads(t) \/ RescanIgnored(t)
               \/ RescanUnstable(t) \/ RescanConfirms(t)
        PROVE  FALSE
    BY <2>1, <2>5 DEF RescanReads, StableReads, RescanIgnored, RescanUnstable,
       RescanConfirms, RescanEnds
  <2>6. ASSUME NEW t \in Targets, TimerFires(t)
        PROVE  UNCHANGED <<facts, slots, rescan>>
    BY <2>1, <2>6 DEF TimerFires, DrainInv, SlotInv, StateTypeOK
  <2>7. ASSUME \/ \E t \in Targets : Edit(t) \/ Hint(t) \/ StartScan(t) \/ StartPlace(t)
               \/ HintAll \/ Start \/ Drain \/ UNCHANGED vars
        PROVE  UNCHANGED <<facts, slots, rescan>>
    BY <2>1, <2>7
    DEF Edit, Hint, HintAll, Start, StartScan, StartPlace, Drain, slots, facts, states, vars
  <2>. QED
    BY <2>1, <2>2, <2>3, <2>4, <2>5, <2>6, <2>7 DEF Next, System, Rescan
<1>. QED  BY <1>1, DrainInvariant, PTL DEF DrainedIsQuiet, Spec

\* A drain that waits is resolved by the step that ends the last run or rescan:
\* finishDrainIfIdle() is called with the counts as they are after that step.
THEOREM DrainIsNeverOrphaned == Spec => DrainIsHandedOn
<1>1. DrainInv /\ [Next]_vars =>
         (draining = "waiting" /\ InFlight => InFlight' \/ draining' = "resolved")
  <2> SUFFICES ASSUME DrainInv, [Next]_vars, draining = "waiting", InFlight,
                      draining' # "resolved"
               PROVE  InFlight'
    OBVIOUS
  <2>1. ~observing /\ queue = {} /\ activeSlots \in Nat
        /\ rescan \in [Targets -> RescanPhases]
    BY SlotsPositive DEF DrainInv, DrainPart, SlotInv, StateTypeOK, SlotPart,
       SlotTypeOK
  <2>2. ASSUME UNCHANGED <<activeSlots, rescan>>
        PROVE  InFlight'
    BY <2>2 DEF InFlight
  <2>3. CASE StartPump
    <3>1. activeSlots' = activeSlots /\ rescan' = rescan
      BY <2>1, <2>3, PumpForgets, FS_EmptySet DEF StartPump, states
    <3>. QED  BY <2>2, <3>1
  <2>4. ASSUME NEW t \in Targets,
               RescanReads(t) \/ StableReads(t) \/ TimerFires(t)
        PROVE  InFlight'
    <3>1. CASE RescanReads(t) \/ StableReads(t)
      BY <2>1, <2>4, <3>1 DEF RescanReads, StableReads, InFlight
    <3>2. CASE TimerFires(t)
      BY <2>1, <2>2, <3>2 DEF TimerFires, slots
    <3>. QED  BY <2>4, <3>1, <3>2
  <2>5. ASSUME NEW t \in Targets, RescanIgnored(t)
        PROVE  InFlight'
    BY <2>1, <2>5
    DEF RescanIgnored, RescanEnds, FinishDrainIfIdle, slots, InFlight
  <2>6. ASSUME NEW t \in Targets, active[t] # NoRun, Settle(t)
        PROVE  InFlight'
    <3>1. activeSlots' = activeSlots - 1 /\ rescan' = rescan
          /\ FinishDrainIfIdle(activeSlots - 1, rescan)
      BY <2>1, <2>6, PumpForgets, FS_EmptySet DEF Settle, states
    <3>2. activeSlots' \in Nat
      BY <2>6, SettleKeeps, SlotsPositive
      DEF DrainInv, SlotInv, SlotPart, SlotTypeOK
    <3>3. activeSlots' # 0 \/ \E u \in Targets : rescan'[u] # "none"
      BY <3>1 DEF FinishDrainIfIdle
    <3>. QED  BY <3>2, <3>3 DEF InFlight
  <2>7. ASSUME NEW t \in Targets, Execute(t)
        PROVE  InFlight'
    <3>1. active[t] # NoRun
      BY <2>7 DEF Execute, RunReads, RunResolves, RunIsStale, RunRejects,
         CheckReads, CheckFails, CommitBegins, CommitResolves, CommitRejects,
         DrainInv, SlotInv, SlotPart, PhasesMatch
    <3>2. Settle(t) \/ UNCHANGED <<activeSlots, rescan>>
      BY <2>7 DEF Execute, RunReads, RunResolves, RunIsStale, RunRejects,
         CheckReads, CheckFails, CommitBegins, CommitResolves, CommitRejects,
         Discard, states
    <3>. QED  BY <2>2, <2>6, <3>1, <3>2
  <2>. QED
    BY <2>1, <2>2, <2>3, <2>4, <2>5, <2>7
    DEF Next, System, Rescan, Edit, Hint, HintAll, Start, StartScan, StartPlace,
        TimerFires, RescanUnstable, RescanConfirms, Drain, slots, states, vars
<1>. QED  BY <1>1, DrainInvariant, PTL DEF DrainIsHandedOn, Spec

-----------------------------------------------------------------------------
(* The runs that are scheduled: what waits, what executes, what is          *)
(* committed.                                                              *)

\* pump() moves a pending run to an idle target's active slot or leaves the
\* target alone, and it keeps the cancellation of what was running.
LEMMA PumpMoves ==
  ASSUME NEW pend, NEW act, NEW cancel, NEW n, NEW q, NEW ah, NEW t \in Targets,
         Pump(pend, act, cancel, n, q, ah)
  PROVE  /\ canceled'[t] = (act[t] # NoRun /\ cancel[t])
         /\ \/ pending'[t] = pend[t] /\ active'[t] = act[t]
            \/ /\ act[t] = NoRun
               /\ pending'[t] = NoRun /\ active'[t] = pend[t]
<1>1. \A u \in Started(pend, act, n, q, ah) : act[u] = NoRun
  BY DEF Started, Eligible
<1>. QED  BY <1>1 DEF Pump

\* So the ids of the runs that wait or execute stay the same.
LEMMA PumpKeepsIds ==
  ASSUME NEW pend, NEW act, NEW cancel, NEW n, NEW q, NEW ah, NEW t \in Targets,
         Pump(pend, act, cancel, n, q, ah)
  PROVE  IdOf(pending'[t]) \cup IdOf(active'[t]) = IdOf(pend[t]) \cup IdOf(act[t])
<1>1. \/ pending'[t] = pend[t] /\ active'[t] = act[t]
      \/ act[t] = NoRun /\ pending'[t] = NoRun /\ active'[t] = pend[t]
  BY PumpMoves
<1>. QED  BY <1>1 DEF IdOf

\* The actions that neither schedule, start, settle nor report a run.
Quiet(t) ==
  \/ Edit(t) \/ Hint(t) \/ StartScan(t) \/ TimerFires(t) \/ RescanReads(t)
  \/ StableReads(t) \/ RescanIgnored(t) \/ RescanUnstable(t) \/ RunReads(t)
  \/ RunResolves(t) \/ CheckReads(t) \/ CommitBegins(t)

\* They leave everything the two properties are about unchanged.
LEMMA QuietKeeps ==
  ASSUME NEW t \in Targets,
         Quiet(t) \/ HintAll \/ Start \/ UNCHANGED vars
  PROVE  UNCHANGED <<generation, snapshot, pending, active, canceled, facts>>
BY DEF Quiet, Edit, Hint, StartScan, TimerFires, RescanReads, StableReads,
       RescanIgnored, RescanUnstable, RescanEnds, RunReads, RunResolves,
       CheckReads, CommitBegins, HintAll, Start, vars, states, slots, facts

\* Every step keeps the latest generation winning.
LEMMA NextLatestWins ==
  SlotInv /\ LatestWins /\ [Next]_vars => LatestWins'
<1> SUFFICES ASSUME SlotInv, LatestWins, [Next]_vars, NEW u \in Targets
             PROVE  /\ pending'[u] # NoRun
                         => /\ pending'[u].generation = generation'[u]
                            /\ pending'[u].snapshot = snapshot'[u]
                    /\ active'[u] # NoRun /\ active'[u].generation # generation'[u]
                         => canceled'[u]
  BY DEF LatestWins
<1> DEFINE Goal == /\ pending'[u] # NoRun
                        => /\ pending'[u].generation = generation'[u]
                           /\ pending'[u].snapshot = snapshot'[u]
                   /\ active'[u] # NoRun /\ active'[u].generation # generation'[u]
                        => canceled'[u]
<1> USE DEF SlotInv, StateTypeOK, SlotPart, SlotTypeOK
<1>1. ASSUME NEW t \in Targets, Quiet(t) \/ HintAll \/ Start \/ UNCHANGED vars
      PROVE  Goal
  BY <1>1, QuietKeeps DEF LatestWins
<1>2. ASSUME NEW t \in Targets, StartPlace(t) PROVE Goal
  BY <1>2 DEF StartPlace, NewRun, LatestWins, EnvTypeOK
<1>3. CASE StartPump
  <2>1. Pump(pending, active, canceled, activeSlots, queue, ahead)
    BY <1>3 DEF StartPump
  <2>2. UNCHANGED <<generation, snapshot>>
    BY <1>3 DEF StartPump, states
  <2>. QED  BY <2>1, <2>2, PumpMoves DEF LatestWins
<1>4. ASSUME NEW t \in Targets, RescanConfirms(t) PROVE Goal
  <2> DEFINE run == NewRun(t, NextGeneration(generation[t]), "change", seen[t])
  <2>1. Pump([pending EXCEPT ![t] = run], active, [canceled EXCEPT ![t] = TRUE],
             activeSlots, queue \cup {t}, EnqueuedAhead(t))
    BY <1>4 DEF RescanConfirms
  <2>2. /\ generation' = [generation EXCEPT ![t] = NextGeneration(generation[t])]
        /\ snapshot' = [snapshot EXCEPT ![t] = seen[t]]
    BY <1>4 DEF RescanConfirms
  <2>3. /\ run.generation = NextGeneration(generation[t])
        /\ run.snapshot = seen[t]
    BY DEF NewRun
  <2> DEFINE pend   == [pending EXCEPT ![t] = run]
             cancel == [canceled EXCEPT ![t] = TRUE]
  <2>4. /\ pend[u] = IF u = t THEN run ELSE pending[u]
        /\ cancel[u] = IF u = t THEN TRUE ELSE canceled[u]
    OBVIOUS
  <2> HIDE DEF run, pend, cancel
  <2>5. /\ canceled'[u] = (active[u] # NoRun /\ cancel[u])
        /\ \/ pending'[u] = pend[u] /\ active'[u] = active[u]
           \/ /\ active[u] = NoRun
              /\ pending'[u] = NoRun /\ active'[u] = pend[u]
    BY <2>1, PumpMoves DEF pend, cancel
  <2>. QED  BY ZenonT(30), <2>2, <2>3, <2>4, <2>5 DEF LatestWins
<1>5. ASSUME NEW t \in Targets, Settle(t) PROVE Goal
  <2> DEFINE act == [active EXCEPT ![t] = NoRun]
             n   == activeSlots - 1
  <2>1. Pump(pending, act, canceled, n, queue, ahead)
    BY <1>5 DEF Settle
  <2>2. UNCHANGED <<generation, snapshot>>
    BY <1>5 DEF Settle, states
  <2>3. act[u] = NoRun \/ act[u] = active[u]
    OBVIOUS
  <2> HIDE DEF act, n
  <2>4. /\ canceled'[u] = (act[u] # NoRun /\ canceled[u])
        /\ \/ pending'[u] = pending[u] /\ active'[u] = act[u]
           \/ /\ act[u] = NoRun
              /\ pending'[u] = NoRun /\ active'[u] = pending[u]
    BY <2>1, PumpMoves
  <2>. QED  BY <2>2, <2>3, <2>4 DEF LatestWins
<1>6. CASE Drain
  BY <1>6 DEF Drain, LatestWins
<1>. QED
  BY <1>1, <1>2, <1>3, <1>4, <1>5, <1>6
  DEF Next, System, Rescan, Execute, Quiet, RunIsStale, RunRejects, CheckFails,
      CommitRejects, CommitResolves, Discard

\* Every step keeps every scheduled run accounted for.
LEMMA NextNoSilentDrop ==
  SlotInv /\ NoSilentDrop /\ [Next]_vars => NoSilentDrop'
<1> DEFINE Held(u) == IdOf(pending[u]) \cup IdOf(active[u])
           Saved(u, i) == \E c \in 1 .. Len(persisted[u]) : persisted[u][c].id = i
<1> SUFFICES ASSUME SlotInv, NoSilentDrop, [Next]_vars, NEW u \in Targets,
                    NEW i \in 1 .. runs'[u]
             PROVE  i \in Held(u)' \cup reported'[u] \/ Saved(u, i)'
  BY DEF NoSilentDrop
<1> DEFINE Goal == i \in Held(u)' \cup reported'[u] \/ Saved(u, i)'
<1>0. /\ i \in 1 .. runs[u] => i \in Held(u) \cup reported[u] \/ Saved(u, i)
      /\ runs \in [Targets -> Nat] /\ reported \in [Targets -> SUBSET Nat]
      /\ persisted \in [Targets -> Seq(Commit)]
      /\ pending \in [Targets -> Run \cup {NoRun}]
      /\ active \in [Targets -> Run \cup {NoRun}]
  BY DEF NoSilentDrop, SlotInv, FactTypeOK, SlotPart, SlotTypeOK
<1>1. ASSUME NEW t \in Targets, Quiet(t) \/ HintAll \/ Start \/ UNCHANGED vars
      PROVE  Goal
  <2>1. UNCHANGED <<pending, active, runs, reported, persisted>>
    BY <1>1, QuietKeeps DEF facts
  <2>. QED  BY <1>0, <2>1
<1>2. ASSUME NEW t \in Targets, StartPlace(t) PROVE Goal
  <2>1. CASE observing
    <3>1. pending'[t].id = runs[t] + 1 /\ pending'[t] \in Run
      <4>1. pending'[t] = NewRun(t, generation[t], "initial", first[t])
        BY <1>0, <1>2, <2>1 DEF StartPlace
      <4>2. generation[t] \in Nat /\ first[t] \in Nat /\ runs[t] \in Nat
        BY <1>0 DEF SlotInv, EnvTypeOK, StateTypeOK
      <4>. QED  BY <4>1, <4>2 DEF NewRun, Run
    <3>2. /\ pending' = [pending EXCEPT ![t] = pending'[t]]
          /\ runs' = [runs EXCEPT ![t] = @ + 1]
          /\ reported' = [reported EXCEPT ![t] = @ \cup IdOf(pending[t])]
          /\ UNCHANGED <<active, persisted>>
      BY <1>0, <1>2, <2>1 DEF StartPlace
    <3>. QED  BY <1>0, <3>1, <3>2, NoRunAssumption DEF IdOf
  <2>2. CASE ~observing
    BY <1>0, <1>2, <2>2 DEF StartPlace
  <2>. QED  BY <2>1, <2>2
<1>3. CASE StartPump
  <2>1. Held(u)' = Held(u)
    BY <1>3, PumpKeepsIds DEF StartPump
  <2>2. UNCHANGED <<runs, reported, persisted>>
    BY <1>3 DEF StartPump, facts
  <2>. QED  BY <1>0, <2>1, <2>2
<1>4. ASSUME NEW t \in Targets, RescanConfirms(t) PROVE Goal
  <2> DEFINE run  == NewRun(t, NextGeneration(generation[t]), "change", seen[t])
             pend == [pending EXCEPT ![t] = run]
  <2>1. /\ runs' = [runs EXCEPT ![t] = @ + 1]
        /\ reported' = [reported EXCEPT ![t] = @ \cup CanceledRuns(t)]
        /\ UNCHANGED persisted
    BY <1>4 DEF RescanConfirms, RescanEnds
  <2>2. run.id = runs[t] + 1 /\ run # NoRun
    BY <1>0, NoRunAssumption
    DEF NewRun, NextGeneration, Run, SlotInv, StateTypeOK
  <2>3. Pump(pend, active, [canceled EXCEPT ![t] = TRUE], activeSlots,
             queue \cup {t}, EnqueuedAhead(t))
    BY <1>4 DEF RescanConfirms
  <2>4. pend[u] = IF u = t THEN run ELSE pending[u]
    BY <1>0
  <2> HIDE DEF run, pend
  <2>5. Held(u)' = IdOf(pend[u]) \cup IdOf(active[u])
    BY <2>3, PumpKeepsIds
  <2>6. CASE u = t
    <3>1. runs[u] + 1 \in Held(u)' /\ Held(u) \subseteq reported'[u]
      BY <1>0, <2>1, <2>2, <2>4, <2>5, <2>6 DEF IdOf, CanceledRuns
    <3>. QED  BY <1>0, <2>1, <2>6, <3>1
  <2>7. CASE u # t
    BY <1>0, <2>1, <2>4, <2>5, <2>7
  <2>. QED  BY <2>6, <2>7
<1>5. ASSUME NEW t \in Targets, Settle(t),
             \/ /\ reported' = [reported EXCEPT ![t] = @ \cup IdOf(active[t])]
                /\ UNCHANGED persisted
             \/ CommitResolves(t)
      PROVE  Goal
  <2> DEFINE act == [active EXCEPT ![t] = NoRun]
             n   == activeSlots - 1
  <2>1. act[u] = IF u = t THEN NoRun ELSE active[u]
    BY <1>0
  <2>2. Pump(pending, act, canceled, n, queue, ahead)
    BY <1>5 DEF Settle
  <2> HIDE DEF act, n
  <2>3. Held(u)' = IdOf(pending[u]) \cup IdOf(act[u])
    <3>1. \/ pending'[u] = pending[u] /\ active'[u] = act[u]
          \/ act[u] = NoRun /\ pending'[u] = NoRun /\ active'[u] = pending[u]
      BY <2>2, PumpMoves
    <3>. QED  BY <3>1 DEF IdOf
  <2>4. UNCHANGED runs
    BY <1>5 DEF Settle
  <2>5. CASE reported' = [reported EXCEPT ![t] = @ \cup IdOf(active[t])]
             /\ UNCHANGED persisted
    BY <1>0, <2>1, <2>3, <2>4, <2>5 DEF IdOf
  <2>6. CASE CommitResolves(t)
    <3>1. UNCHANGED reported
      BY <2>6 DEF CommitResolves
    <3> DEFINE c == [id |-> active[t].id, generation |-> active[t].generation,
                     snapshot |-> active[t].snapshot, inputs |-> inputs[t]]
    <3>2. persisted' = [persisted EXCEPT ![t] = Append(@, c)]
      BY <2>6 DEF CommitResolves
    <3>5. c.id = active[t].id
      OBVIOUS
    <3> HIDE DEF c
    <3>3. CASE u = t
      <4> DEFINE last == Len(persisted[u]) + 1
      <4>1. /\ last \in Nat \ {0}
            /\ Len(persisted'[u]) = last
            /\ persisted'[u][last] = c
            /\ \A k \in 1 .. (last - 1) : persisted'[u][k] = persisted[u][k]
        BY <1>0, <3>2, <3>3
      <4>2. last \in 1 .. Len(persisted'[u]) /\ persisted'[u][last].id = active[t].id
        BY <3>5, <4>1
      <4>3. ASSUME NEW k \in 1 .. Len(persisted[u])
            PROVE  k \in 1 .. Len(persisted'[u]) /\ persisted'[u][k] = persisted[u][k]
        BY <4>1
      <4> HIDE DEF last
      <4>4. active[t].id = i => Saved(u, i)'
        BY <4>2
      <4>5. Saved(u, i) => Saved(u, i)'
        BY <4>3
      <4>. QED
        BY <1>0, <2>1, <2>3, <2>4, <3>1, <3>3, <4>4, <4>5 DEF IdOf
    <3>4. CASE u # t
      <4>1. persisted'[u] = persisted[u]
        BY <1>0, <3>2, <3>4
      <4>. QED  BY <1>0, <2>1, <2>3, <2>4, <3>1, <3>4, <4>1
    <3>. QED  BY <3>3, <3>4
  <2>. QED  BY <1>5, <2>5, <2>6
<1>6. CASE Drain
  <2>1. /\ Held(u) \subseteq reported'[u] /\ reported[u] \subseteq reported'[u]
        /\ UNCHANGED <<runs, persisted>>
    BY <1>0, <1>6 DEF Drain, CanceledRuns
  <2>. QED  BY <1>0, <2>1
<1> HIDE DEF Goal
<1>7. \A t \in Targets :
         /\ RunIsStale(t) \/ RunRejects(t) \/ CheckFails(t) \/ CommitRejects(t)
               => Discard(t)
         /\ Discard(t) => /\ Settle(t) /\ UNCHANGED persisted
                          /\ reported' = [reported EXCEPT
                                            ![t] = @ \cup IdOf(active[t])]
         /\ CommitResolves(t) => Settle(t)
  BY DEF RunIsStale, RunRejects, CheckFails, CommitRejects, CommitResolves, Discard
<1>. QED
  BY <1>1, <1>2, <1>3, <1>4, <1>5, <1>6, <1>7
  DEF Next, System, Rescan, Execute, Quiet, Goal

\* The run that waits is the newest, and an older one that still executes has
\* been canceled, whatever the user, the disk and the runs do.
THEOREM LatestAlwaysWins == Spec => []LatestWins
<1>1. Init => LatestWins
  BY DEF Init, LatestWins
<1>. QED  BY <1>1, SlotInvariant, NextLatestWins, PTL DEF Spec

\* Every scheduled run waits, executes, is committed or is named in a
\* watch.cancel fact.
THEOREM NothingDropsSilently == Spec => []NoSilentDrop
<1>1. Init => NoSilentDrop
  BY DEF Init, NoSilentDrop
<1>. QED  BY <1>1, SlotInvariant, NextNoSilentDrop, PTL DEF Spec

-----------------------------------------------------------------------------
(* What the steps do to one target, as the proofs below use it.            *)

\* pump(), handed the run p waiting and the run a executing, leaves target u as
\* it is or moves p into the slot of u.
Moves(u, p, a) ==
  \/ /\ pending'[u] = p /\ active'[u] = a
     /\ IF a = NoRun THEN phase'[u] = "idle" /\ inputs'[u] = {}
                     ELSE phase'[u] = phase[u] /\ inputs'[u] = inputs[u]
  \/ /\ a = NoRun /\ p # NoRun
     /\ pending'[u] = NoRun /\ active'[u] = p
     /\ phase'[u] = "running" /\ inputs'[u] = {}

LEMMA PumpRuns ==
  ASSUME NEW pend, NEW act, NEW cancel, NEW n, NEW q, NEW ah, NEW u \in Targets,
         Pump(pend, act, cancel, n, q, ah)
  PROVE  Moves(u, pend[u], act[u])
<1> DEFINE go == Started(pend, act, n, q, ah)
<1>1. \A t \in go : act[t] = NoRun /\ pend[t] # NoRun
  BY DEF Started, Eligible
<1>2. /\ pending'[u] = IF u \in go THEN NoRun ELSE pend[u]
      /\ active'[u] = IF u \in go THEN pend[u] ELSE act[u]
      /\ phase'[u] = IF u \in go THEN "running"
                     ELSE IF act[u] = NoRun THEN "idle" ELSE phase[u]
      /\ inputs'[u] = IF act[u] = NoRun THEN {} ELSE inputs[u]
  BY DEF Pump
<1> HIDE DEF go
<1>. QED  BY <1>1, <1>2 DEF Moves

\* The end of execute() frees t and no other target.
LEMMA SettleMoves ==
  ASSUME SlotInv, NEW t \in Targets, NEW u \in Targets, Settle(t)
  PROVE  /\ Moves(u, pending[u], IF u = t THEN NoRun ELSE active[u])
         /\ canceled'[u] = (u # t /\ active[u] # NoRun /\ canceled[u])
         /\ UNCHANGED <<env, observing, started, states, runs>>
<1> DEFINE act == [active EXCEPT ![t] = NoRun]
           n   == activeSlots - 1
<1>1. Pump(pending, act, canceled, n, queue, ahead)
  BY DEF Settle
<1>2. act[u] = IF u = t THEN NoRun ELSE active[u]
  BY DEF SlotInv, SlotPart, SlotTypeOK
<1> HIDE DEF act, n
<1>3. Moves(u, pending[u], act[u]) /\ canceled'[u] = (act[u] # NoRun /\ canceled[u])
  BY <1>1, PumpRuns, PumpMoves
<1>. QED  BY <1>2, <1>3 DEF Settle

\* The end of start() starts what it has placed.
LEMMA StartPumpMoves ==
  ASSUME NEW u \in Targets, StartPump
  PROVE  /\ Moves(u, pending[u], active[u])
         /\ canceled'[u] = (active[u] # NoRun /\ canceled[u])
         /\ UNCHANGED <<env, observing, first, draining, states, facts>>
BY PumpRuns, PumpMoves DEF StartPump

\* A confirmed change gives t a new run, and cancels the one that executes.
LEMMA ConfirmMoves ==
  ASSUME SlotInv, NEW t \in Targets, NEW u \in Targets, RescanConfirms(t)
  PROVE  \E run \in Run :
           /\ run.id = runs[t] + 1
           /\ run.generation = generation[t] + 1
           /\ run.snapshot = seen[t]
           /\ Moves(u, IF u = t THEN run ELSE pending[u], active[u])
           /\ canceled'[u] = (active[u] # NoRun /\ (u = t \/ canceled[u]))
<1> DEFINE run    == NewRun(t, NextGeneration(generation[t]), "change", seen[t])
           pend   == [pending EXCEPT ![t] = run]
           cancel == [canceled EXCEPT ![t] = TRUE]
           q      == queue \cup {t}
<1>1. Pump(pend, active, cancel, activeSlots, q, EnqueuedAhead(t))
  BY DEF RescanConfirms
<1>2. /\ run \in Run
      /\ run.id = runs[t] + 1
      /\ run.generation = generation[t] + 1
      /\ run.snapshot = seen[t]
  BY DEF NewRun, NextGeneration, Run, SlotInv, StateTypeOK, FactTypeOK
<1> HIDE DEF run
<1>3. /\ pend[u] = IF u = t THEN run ELSE pending[u]
      /\ cancel[u] = (u = t \/ canceled[u])
  BY DEF SlotInv, SlotPart, SlotTypeOK
<1> HIDE DEF pend, cancel, q
<1>4. Moves(u, pend[u], active[u]) /\ canceled'[u] = (active[u] # NoRun /\ cancel[u])
  BY <1>1, PumpRuns, PumpMoves
<1>. QED  BY <1>2, <1>3, <1>4

\* What a step does besides, in the vocabulary of the code: the run of t is
\* over, with a verdict or without.
Ends(t) ==
  \/ RunIsStale(t) \/ RunRejects(t) \/ CheckFails(t) \/ CommitRejects(t)
  \/ CommitResolves(t)

LEMMA EndSettles ==
  ASSUME SlotInv, NEW t \in Targets, Ends(t)
  PROVE  active[t] \in Run /\ active[t] # NoRun /\ Settle(t)
BY DEF Ends, RunIsStale, RunRejects, CheckFails, CommitRejects, CommitResolves,
       Discard, SlotInv, SlotPart, SlotTypeOK, PhasesMatch

\* Every step is one of these.
LEMMA StepCases ==
  ASSUME [Next]_vars
  PROVE  \/ HintAll \/ Start \/ StartPump \/ Drain \/ UNCHANGED vars
         \/ \E t \in Targets :
               Quiet(t) \/ StartPlace(t) \/ RescanConfirms(t) \/ Ends(t)
BY DEF Next, System, Rescan, Execute, Quiet, Ends

-----------------------------------------------------------------------------
(* Verdicts on snapshots.                                                  *)

\* Without restored contents nothing is ever newer than the disk.
LEMMA NextVersionPart ==
  ASSUME ~MayRestore, SlotInv, VersionPart, [Next]_vars
  PROVE  VersionPart'
<1> DEFINE Goal(u) ==
       /\ disk'[u] <= edits' + 1
       /\ first'[u] <= disk'[u] /\ snapshot'[u] <= disk'[u] /\ seen'[u] <= disk'[u]
       /\ pending'[u] # NoRun => pending'[u].snapshot <= disk'[u]
       /\ active'[u] # NoRun => active'[u].snapshot <= disk'[u]
<1> SUFFICES ASSUME NEW u \in Targets
             PROVE  Goal(u)
  BY DEF VersionPart
<1>0. /\ disk[u] \in Nat /\ edits \in Nat /\ first[u] \in Nat
      /\ snapshot[u] \in Nat /\ seen[u] \in Nat
      /\ pending[u] # NoRun => pending[u].snapshot \in Nat
      /\ active[u] # NoRun => active[u].snapshot \in Nat
  BY DEF SlotInv, EnvTypeOK, StateTypeOK, SlotPart, SlotTypeOK, Run
<1>1. /\ disk[u] <= edits + 1
      /\ first[u] <= disk[u] /\ snapshot[u] <= disk[u] /\ seen[u] <= disk[u]
      /\ pending[u] # NoRun => pending[u].snapshot <= disk[u]
      /\ active[u] # NoRun => active[u].snapshot <= disk[u]
  BY DEF VersionPart
<1>t. /\ disk \in [Targets -> Nat] /\ first \in [Targets -> Nat]
      /\ snapshot \in [Targets -> Nat] /\ seen \in [Targets -> Nat]
      /\ pending \in [Targets -> Run \cup {NoRun}]
  BY DEF SlotInv, EnvTypeOK, StateTypeOK, SlotPart, SlotTypeOK
<1>2. ASSUME UNCHANGED <<disk, edits, first, snapshot, seen, pending, active>>
      PROVE  Goal(u)
  BY <1>1, <1>2
<1>3. ASSUME NEW t \in Targets, Edit(t)
      PROVE  Goal(u)
  <2>1. /\ edits' = edits + 1 /\ disk' = [disk EXCEPT ![t] = edits + 2]
        /\ UNCHANGED <<first, snapshot, seen, pending, active>>
    BY <1>3 DEF Edit, started, states, slots
  <2>2. disk'[u] = IF u = t THEN edits + 2 ELSE disk[u]
    BY <1>t, <2>1
  <2>. QED  BY <1>0, <1>1, <2>1, <2>2
<1>4. ASSUME NEW t \in Targets, StartScan(t)
      PROVE  Goal(u)
  BY <1>1, <1>4, <1>t, <1>0 DEF StartScan, env, states, slots
<1>5. ASSUME NEW t \in Targets,
             \/ RescanReads(t) \/ StableReads(t)
             \/ RescanIgnored(t) \/ RescanUnstable(t)
      PROVE  Goal(u)
  <2>1. seen'[u] \in {seen[u], disk[u], 0}
    BY <1>5, <1>t
    DEF RescanReads, StableReads, RescanIgnored, RescanUnstable, RescanEnds
  <2>2. UNCHANGED <<disk, edits, first, snapshot, pending, active>>
    BY <1>5 DEF RescanReads, StableReads, RescanIgnored, RescanUnstable,
                RescanEnds, env, started, slots
  <2>. QED  BY <1>0, <1>1, <2>1, <2>2
<1>6. ASSUME NEW t \in Targets, Quiet(t) \/ HintAll \/ Start \/ UNCHANGED vars
      PROVE  Goal(u)
  <2>1. CASE \/ Hint(t) \/ TimerFires(t) \/ RunReads(t) \/ RunResolves(t)
             \/ CheckReads(t) \/ CommitBegins(t) \/ HintAll \/ Start
             \/ UNCHANGED vars
    BY <1>2, <2>1 DEF Hint, TimerFires, RunReads, RunResolves, CheckReads,
       CommitBegins, HintAll, Start, vars, env, started, states, slots
  <2>. QED  BY <1>3, <1>4, <1>5, <1>6, <2>1 DEF Quiet
<1>7. ASSUME NEW t \in Targets, StartPlace(t)
      PROVE  Goal(u)
  <2>1. UNCHANGED <<disk, edits, first, seen, active>>
    BY <1>7 DEF StartPlace, env
  <2>2. CASE ~observing
    BY <1>2, <1>7, <2>1, <2>2 DEF StartPlace
  <2>3. CASE observing
    <3>1. /\ snapshot'[u] = IF u = t THEN first[u] ELSE snapshot[u]
          /\ u # t => pending'[u] = pending[u]
          /\ u = t => pending'[u].snapshot = first[u]
      BY <1>7, <1>t, <2>3 DEF StartPlace, NewRun
    <3>. QED  BY <1>1, <2>1, <3>1
  <2>. QED  BY <2>2, <2>3
<1>8. CASE StartPump
  <2>1. Moves(u, pending[u], active[u])
        /\ UNCHANGED <<disk, edits, first, snapshot, seen>>
    BY <1>8, StartPumpMoves DEF env, states
  <2>. QED  BY <1>1, <2>1 DEF Moves
<1>9. ASSUME NEW t \in Targets, RescanConfirms(t)
      PROVE  Goal(u)
  <2>1. PICK run \in Run :
           /\ run.snapshot = seen[t]
           /\ Moves(u, IF u = t THEN run ELSE pending[u], active[u])
    BY <1>9, ConfirmMoves
  <2>2. /\ snapshot'[u] = IF u = t THEN seen[u] ELSE snapshot[u]
        /\ seen'[u] = IF u = t THEN 0 ELSE seen[u]
        /\ UNCHANGED <<disk, edits, first>>
    BY <1>9, <1>t DEF RescanConfirms, RescanEnds, env, started
  <2>. QED  BY <1>0, <1>1, <2>1, <2>2 DEF Moves
<1>10. ASSUME NEW t \in Targets, Ends(t)
       PROVE  Goal(u)
  <2>1. /\ Moves(u, pending[u], IF u = t THEN NoRun ELSE active[u])
        /\ UNCHANGED <<disk, edits, first, snapshot, seen>>
    BY <1>10, EndSettles, SettleMoves DEF env, started, states
  <2>. QED  BY <1>1, <2>1 DEF Moves
<1>11. CASE Drain
  BY <1>1, <1>11 DEF Drain, env, started
<1> HIDE DEF Goal
<1>. QED
  BY <1>6, <1>7, <1>8, <1>9, <1>10, <1>11, StepCases

\* What a run reads lies between its snapshot and the disk.
LEMMA NextInputsPart ==
  ASSUME ~MayRestore, DrainInv, VersionPart, InputsPart, [Next]_vars
  PROVE  InputsPart'
<1> DEFINE Goal(u) ==
       /\ \A i \in inputs'[u] : active'[u].snapshot <= i /\ i <= disk'[u]
       /\ phase'[u] \in Approved => inputs'[u] # {}
       /\ phase'[u] \in {"current", "committing"} =>
             inputs'[u] = {active'[u].snapshot}
       /\ phase'[u] = "changed" => disk'[u] # active'[u].snapshot
<1> SUFFICES ASSUME NEW u \in Targets
             PROVE  Goal(u)
  BY DEF InputsPart
<1> USE DEF DrainInv
<1>0. /\ disk[u] \in Nat /\ edits \in Nat /\ inputs[u] \in SUBSET Nat
      /\ active[u] # NoRun => active[u].snapshot \in Nat
      /\ active[u] = NoRun => inputs[u] = {} /\ phase[u] = "idle"
      /\ disk[u] <= edits + 1
      /\ active[u] # NoRun => active[u].snapshot <= disk[u]
  BY DEF SlotInv, EnvTypeOK, SlotPart, SlotTypeOK, Run, DrainPart, PhasesMatch,
         VersionPart
<1>1. /\ \A i \in inputs[u] : active[u].snapshot <= i /\ i <= disk[u]
      /\ phase[u] \in Approved => inputs[u] # {}
      /\ phase[u] \in {"current", "committing"} =>
            inputs[u] = {active[u].snapshot}
      /\ phase[u] = "changed" => disk[u] # active[u].snapshot
  BY DEF InputsPart
<1>t. /\ disk \in [Targets -> Nat] /\ phase \in [Targets -> RunPhases]
      /\ inputs \in [Targets -> SUBSET Nat]
  BY DEF SlotInv, EnvTypeOK, SlotPart, SlotTypeOK
<1>2. ASSUME UNCHANGED <<disk, active, inputs, phase>>
      PROVE  Goal(u)
  BY <1>1, <1>2
<1>3. ASSUME NEW t \in Targets, Edit(t)
      PROVE  Goal(u)
  <2>1. disk' = [disk EXCEPT ![t] = edits + 2] /\ UNCHANGED <<active, inputs, phase>>
    BY <1>3 DEF Edit, slots
  <2>2. disk'[u] = IF u = t THEN edits + 2 ELSE disk[u]
    BY <1>t, <2>1
  <2>3. \A i \in inputs[u] : i <= disk'[u]
    BY <1>0, <1>1, <2>2
  <2>4. phase[u] = "changed" => disk'[u] # active[u].snapshot
    BY <1>0, <1>1, <2>2
  <2>. QED  BY <1>1, <2>1, <2>3, <2>4
<1>4. ASSUME NEW t \in Targets, RunReads(t)
      PROVE  Goal(u)
  <2>1. /\ inputs'[u] = IF u = t THEN inputs[u] \cup {disk[u]} ELSE inputs[u]
        /\ UNCHANGED <<disk, active, phase>> /\ phase[t] = "running"
    BY <1>4, <1>t DEF RunReads, env
  <2>. QED  BY <1>0, <1>1, <2>1 DEF Approved
<1>5. ASSUME NEW t \in Targets, RunResolves(t)
      PROVE  Goal(u)
  <2>1. /\ phase'[u] = IF u = t THEN "checking" ELSE phase[u]
        /\ UNCHANGED <<disk, active, inputs>> /\ inputs[t] # {}
    BY <1>5, <1>t DEF RunResolves, env
  <2>. QED  BY <1>1, <2>1
<1>6. ASSUME NEW t \in Targets, CheckReads(t)
      PROVE  Goal(u)
  <2>1. /\ phase'[u] = IF u # t THEN phase[u]
                       ELSE IF disk[u] = active[u].snapshot THEN "current"
                       ELSE "changed"
        /\ UNCHANGED <<disk, active, inputs>> /\ phase[t] = "checking"
    BY <1>6, <1>t DEF CheckReads, env
  <2>2. CASE u = t /\ disk[u] = active[u].snapshot
    <3>1. \A i \in inputs[u] : i = active[u].snapshot
      BY <1>0, <1>1, <2>2
    <3>. QED  BY <1>0, <1>1, <2>1, <2>2, <3>1 DEF Approved
  <2>. QED  BY <1>1, <2>1, <2>2 DEF Approved
<1>7. ASSUME NEW t \in Targets, CommitBegins(t)
      PROVE  Goal(u)
  <2>1. /\ phase'[u] = IF u = t THEN "committing" ELSE phase[u]
        /\ UNCHANGED <<disk, active, inputs>> /\ phase[t] = "current"
    BY <1>7, <1>t DEF CommitBegins, env
  <2>. QED  BY <1>1, <2>1 DEF Approved
<1>8. ASSUME NEW t \in Targets, Quiet(t) \/ HintAll \/ Start \/ UNCHANGED vars
      PROVE  Goal(u)
  <2>1. CASE \/ Hint(t) \/ TimerFires(t) \/ StartScan(t) \/ RescanReads(t)
             \/ StableReads(t) \/ RescanIgnored(t) \/ RescanUnstable(t)
             \/ HintAll \/ Start \/ UNCHANGED vars
    BY <1>2, <2>1 DEF Hint, TimerFires, StartScan, RescanReads, StableReads,
       RescanIgnored, RescanUnstable, RescanEnds, HintAll, Start, vars, env, slots
  <2>. QED  BY <1>3, <1>4, <1>5, <1>6, <1>7, <1>8, <2>1 DEF Quiet
<1>9. ASSUME NEW a \in {NoRun, active[u]}, NEW p, Moves(u, p, a), UNCHANGED disk
      PROVE  Goal(u)
  BY <1>0, <1>1, <1>9 DEF Moves, Approved
<1>10. ASSUME NEW t \in Targets, StartPlace(t)
      PROVE  Goal(u)
  BY <1>2, <1>10 DEF StartPlace, env
<1>11. CASE StartPump
  BY <1>9, <1>11, StartPumpMoves DEF env
<1>12. ASSUME NEW t \in Targets, RescanConfirms(t)
       PROVE  Goal(u)
  <2>1. \E p : Moves(u, p, active[u])
    BY <1>12, ConfirmMoves
  <2>. QED  BY <1>9, <1>12, <2>1 DEF RescanConfirms, RescanEnds, env
<1>13. ASSUME NEW t \in Targets, Ends(t)
       PROVE  Goal(u)
  BY <1>9, <1>13, EndSettles, SettleMoves DEF env
<1>14. CASE Drain
  BY <1>2, <1>14 DEF Drain, env
<1> HIDE DEF Goal
<1>. QED
  BY <1>8, <1>10, <1>11, <1>12, <1>13, <1>14, StepCases

\* Only commit() appends to what was committed, and it appends the run.
LEMMA PersistedChanges ==
  ASSUME SlotInv, [Next]_vars, NEW u \in Targets
  PROVE  \/ persisted'[u] = persisted[u]
         \/ /\ CommitResolves(u)
            /\ persisted'[u] = Append(persisted[u],
                                      [id         |-> active[u].id,
                                       generation |-> active[u].generation,
                                       snapshot   |-> active[u].snapshot,
                                       inputs     |-> inputs[u]])
<1>1. ASSUME NEW t \in Targets, CommitResolves(t)
      PROVE  IF u = t
             THEN persisted'[u] = Append(persisted[u],
                                         [id         |-> active[u].id,
                                          generation |-> active[u].generation,
                                          snapshot   |-> active[u].snapshot,
                                          inputs     |-> inputs[u]])
             ELSE persisted'[u] = persisted[u]
  BY <1>1 DEF CommitResolves, SlotInv, FactTypeOK
<1>2. ASSUME NEW t \in Targets, Quiet(t) \/ HintAll \/ Start \/ UNCHANGED vars
      PROVE  persisted'[u] = persisted[u]
  BY <1>2, QuietKeeps DEF facts
<1>3. ASSUME NEW t \in Targets, StartPlace(t) \/ RescanConfirms(t)
      PROVE  persisted'[u] = persisted[u]
  BY <1>3 DEF StartPlace, RescanConfirms, RescanEnds
<1>4. ASSUME NEW t \in Targets,
             RunIsStale(t) \/ RunRejects(t) \/ CheckFails(t) \/ CommitRejects(t)
      PROVE  persisted'[u] = persisted[u]
  BY <1>4 DEF RunIsStale, RunRejects, CheckFails, CommitRejects, Discard
<1>5. StartPump \/ Drain => persisted'[u] = persisted[u]
  BY DEF StartPump, Drain, facts
<1>. QED
  BY <1>1, <1>2, <1>3, <1>4, <1>5, StepCases DEF Ends

\* The entries of a sequence to which one was appended.
LEMMA AppendedEntries ==
  ASSUME NEW S, NEW s \in Seq(S), NEW c \in S
  PROVE  /\ Len(Append(s, c)) = Len(s) + 1 /\ Len(s) \in Nat
         /\ \A i \in 1 .. Len(s) : Append(s, c)[i] = s[i]
         /\ Append(s, c)[Len(s) + 1] = c
OBVIOUS

LEMMA NextVerdictOnSnapshot ==
  ASSUME SlotInv, InputsPart, VerdictOnSnapshot, [Next]_vars
  PROVE  VerdictOnSnapshot'
<1> SUFFICES ASSUME NEW u \in Targets, NEW i \in 1 .. Len(persisted'[u])
             PROVE  persisted'[u][i].inputs = {persisted'[u][i].snapshot}
  BY DEF VerdictOnSnapshot
<1> DEFINE c == [id         |-> active[u].id,
                 generation |-> active[u].generation,
                 snapshot   |-> active[u].snapshot,
                 inputs     |-> inputs[u]]
<1>1. CASE persisted'[u] = persisted[u]
  BY <1>1 DEF VerdictOnSnapshot
<1>2. CASE CommitResolves(u) /\ persisted'[u] = Append(persisted[u], c)
  <2>1. c \in Commit /\ persisted[u] \in Seq(Commit)
    <3>1. active[u] \in Run
      BY <1>2, EndSettles DEF Ends
    <3>. QED
      BY <3>1 DEF Run, Commit, SlotInv, FactTypeOK, SlotPart, SlotTypeOK
  <2>2. c.inputs = {c.snapshot}
    BY <1>2 DEF CommitResolves, InputsPart
  <2> HIDE DEF c
  <2>3. i \in 1 .. Len(persisted[u]) \/ i = Len(persisted[u]) + 1
    BY <1>2, <2>1, AppendedEntries
  <2>. QED
    BY <1>2, <2>1, <2>2, <2>3, AppendedEntries DEF VerdictOnSnapshot
<1>. QED  BY <1>1, <1>2, PersistedChanges

\* Unless an old content is restored while a run executes, a committed verdict
\* was computed from the content its snapshot names: the one freshness scan
\* before commit() vouches for every read of the run.
THEOREM VerdictsAreOnSnapshots ==
  ASSUME ~MayRestore
  PROVE  Spec => []VerdictOnSnapshot
<1> DEFINE Inv == VersionPart /\ InputsPart /\ VerdictOnSnapshot
<1>1. Init => Inv
  BY DEF Init, VersionPart, InputsPart, VerdictOnSnapshot, Approved
<1>2. DrainInv /\ Inv /\ [Next]_vars => Inv'
  BY NextVersionPart, NextInputsPart, NextVerdictOnSnapshot DEF DrainInv
<1>3. Inv => VerdictOnSnapshot
  OBVIOUS
<1> HIDE DEF Inv
<1>. QED  BY <1>1, <1>2, <1>3, DrainInvariant, PTL DEF Spec

-----------------------------------------------------------------------------
(* The order of a target's runs.                                           *)

\* A run that moves from waiting to executing keeps its place.
LEMMA MovesKeepOrder ==
  ASSUME NEW u \in Targets, NEW p \in Run \cup {NoRun}, NEW a \in Run \cup {NoRun},
         NEW dead \in BOOLEAN, NEW named, NEW last \in Nat, NEW gen \in Nat,
         NEW saved, IdsOk(p, a, dead, named, last, gen, saved),
         Moves(u, p, a), canceled'[u] = (a # NoRun /\ dead)
  PROVE  IdsOk(pending'[u], active'[u], canceled'[u], named, last, gen, saved)
<1>1. CASE pending'[u] = p /\ active'[u] = a
  BY <1>1 DEF IdsOk
<1>2. CASE a = NoRun /\ p # NoRun /\ pending'[u] = NoRun /\ active'[u] = p
  <2>1. /\ p.id \in 1 .. last /\ p.generation <= gen /\ p.id \notin named
        /\ named \subseteq 1 .. last
    BY <1>2 DEF IdsOk, Run
  <2>2. \A c \in 1 .. Len(saved) :
           /\ saved[c].id \in 1 .. last /\ saved[c].generation <= gen
           /\ saved[c].id < p.id /\ saved[c].generation <= p.generation
    BY <1>2 DEF IdsOk
  <2>3. canceled'[u] = FALSE
    BY <1>2
  <2>. QED  BY <1>2, <2>1, <2>2, <2>3 DEF IdsOk
<1>. QED  BY <1>1, <1>2 DEF Moves

\* A new run comes last; what it replaces is named by a fact.
LEMMA NewRunsComeLast ==
  ASSUME SlotInv, IdPart, NEW u \in Targets,
         NEW run \in Run, NEW next \in Nat, generation[u] <= next,
         run.id = runs[u] + 1, run.generation = next,
         NEW stopped \in BOOLEAN, NEW told,
         told \subseteq reported[u] \cup IdOf(pending[u]) \cup IdOf(active[u]),
         active[u] # NoRun => (active[u].id \in told <=> stopped)
  PROVE  IdsOk(run, active[u], stopped, told, runs[u] + 1, next, persisted[u])
<1> DEFINE p     == pending[u]
           a     == active[u]
           last  == runs[u]
           saved == persisted[u]
           gen   == generation[u]
<1>0. /\ IdsOk(p, a, canceled[u], reported[u], last, gen, saved)
      /\ p \in Run \cup {NoRun} /\ a \in Run \cup {NoRun}
      /\ last \in Nat /\ gen \in Nat /\ saved \in Seq(Commit)
  BY DEF IdPart, SlotInv, SlotPart, SlotTypeOK, FactTypeOK, StateTypeOK
<1>a. /\ gen <= next /\ run.id = last + 1 /\ run.generation = next
      /\ told \subseteq reported[u] \cup IdOf(p) \cup IdOf(a)
      /\ a # NoRun => (a.id \in told <=> stopped)
  OBVIOUS
<1> HIDE DEF p, a, last, saved, gen
<1>1. /\ p # NoRun => p.id \in 1 .. last
      /\ a # NoRun => a.id \in 1 .. last /\ a.id \in Nat /\ a.generation \in Nat
  BY <1>0 DEF IdsOk, Run
<1>2. told \subseteq 1 .. last
  BY <1>0, <1>1, <1>a DEF IdsOk, IdOf
<1>3. \A c \in 1 .. Len(saved) : saved[c].id \in Nat /\ saved[c].generation \in Nat
  <2>1. \A c \in 1 .. Len(saved) : saved[c] \in Commit
    BY <1>0
  <2>. QED  BY <2>1 DEF Commit
<1>4. IdsOk(run, a, stopped, told, last + 1, next, saved)
  BY <1>0, <1>1, <1>2, <1>3, <1>a, NoRunAssumption DEF IdsOk
<1>. QED  BY <1>4 DEF a, last, saved

\* A run that ends is committed after the earlier ones, or named by a fact.
LEMMA EndsKeepOrder ==
  ASSUME NEW p \in Run \cup {NoRun}, NEW a \in Run, a # NoRun,
         NEW dead \in BOOLEAN, NEW named, NEW last \in Nat, NEW gen \in Nat,
         NEW saved \in Seq(Commit),
         IdsOk(p, a, dead, named, last, gen, saved)
  PROVE  /\ IdsOk(p, NoRun, FALSE, named \cup IdOf(a), last, gen, saved)
         /\ \A c \in Commit : c.id = a.id /\ c.generation = a.generation =>
               IdsOk(p, NoRun, FALSE, named, last, gen, Append(saved, c))
<1>1. IdsOk(p, NoRun, FALSE, named \cup IdOf(a), last, gen, saved)
  <2>1. p # NoRun => p.id # a.id
    BY DEF IdsOk, Run
  <2>. QED  BY <2>1 DEF IdsOk, IdOf
<1>2. ASSUME NEW c \in Commit, c.id = a.id, c.generation = a.generation
      PROVE  IdsOk(p, NoRun, FALSE, named, last, gen, Append(saved, c))
  <2> DEFINE after == Append(saved, c)
  <2>1. /\ Len(after) = Len(saved) + 1 /\ Len(saved) \in Nat
        /\ \A i \in 1 .. Len(saved) : after[i] = saved[i]
        /\ after[Len(saved) + 1] = c
    BY AppendedEntries
  <2> HIDE DEF after
  <2>2. \A i \in 1 .. Len(after) : i \in 1 .. Len(saved) \/ i = Len(saved) + 1
    BY <2>1
  <2>. QED  BY <1>2, <2>1, <2>2 DEF IdsOk, after
<1>. QED  BY <1>1, <1>2

\* Every step keeps the order.
LEMMA NextIdPart ==
  ASSUME SlotInv, IdPart, [Next]_vars
  PROVE  IdPart'
<1> DEFINE Goal(u) == IdsOk(pending'[u], active'[u], canceled'[u], reported'[u],
                            runs'[u], generation'[u], persisted'[u])
<1> SUFFICES ASSUME NEW u \in Targets
             PROVE  Goal(u)
  BY DEF IdPart, IdsOk
<1>1. IdsOk(pending[u], active[u], canceled[u], reported[u], runs[u],
            generation[u], persisted[u])
  BY DEF IdPart
<1>2. /\ pending[u] \in Run \cup {NoRun} /\ active[u] \in Run \cup {NoRun}
      /\ canceled[u] \in BOOLEAN /\ runs[u] \in Nat /\ generation[u] \in Nat
      /\ persisted[u] \in Seq(Commit) /\ first[u] \in Nat
  BY DEF SlotInv, SlotPart, SlotTypeOK, FactTypeOK, StateTypeOK, EnvTypeOK
<1>t. /\ pending \in [Targets -> Run \cup {NoRun}] /\ runs \in [Targets -> Nat]
      /\ reported \in [Targets -> SUBSET Nat] /\ generation \in [Targets -> Nat]
  BY DEF SlotInv, SlotPart, SlotTypeOK, FactTypeOK, StateTypeOK
<1>3. ASSUME UNCHANGED <<pending[u], active[u], canceled[u], reported[u], runs[u],
                         generation[u], persisted[u]>>
      PROVE  Goal(u)
  BY <1>1, <1>3
<1> HIDE DEF Goal
<1>4. ASSUME NEW t \in Targets, Quiet(t) \/ HintAll \/ Start \/ UNCHANGED vars
      PROVE  Goal(u)
  BY <1>3, <1>4, QuietKeeps DEF facts
<1>5. ASSUME NEW t \in Targets, StartPlace(t)
      PROVE  Goal(u)
  <2>1. CASE ~observing \/ u # t
    BY <1>3, <1>5, <1>t, <2>1 DEF StartPlace
  <2>2. CASE observing /\ u = t
    <3>1. /\ pending'[u] = NewRun(u, generation[u], "initial", first[u])
          /\ reported'[u] = reported[u] \cup IdOf(pending[u])
          /\ runs'[u] = runs[u] + 1
          /\ UNCHANGED <<active, canceled, generation, persisted>>
      BY <1>5, <1>t, <2>2 DEF StartPlace
    <3>2. /\ pending'[u] \in Run /\ pending'[u].id = runs[u] + 1
          /\ pending'[u].generation = generation[u]
      BY <1>2, <3>1 DEF NewRun, Run
    <3>3. active[u] # NoRun =>
             (active[u].id \in reported[u] \cup IdOf(pending[u]) <=> canceled[u])
      BY <1>1, <1>2 DEF IdsOk, IdOf, Run
    <3>4. IdsOk(pending'[u], active[u], canceled[u], reported'[u], runs'[u],
                generation[u], persisted[u])
      <4> DEFINE run  == pending'[u]
                 told == reported'[u]
      <4>1. /\ run \in Run /\ run.id = runs[u] + 1 /\ run.generation = generation[u]
            /\ told \subseteq reported[u] \cup IdOf(pending[u]) \cup IdOf(active[u])
            /\ generation[u] <= generation[u] /\ generation[u] \in Nat
            /\ active[u] # NoRun => (active[u].id \in told <=> canceled[u])
        BY <1>2, <3>1, <3>2, <3>3
      <4> HIDE DEF run, told
      <4>2. IdsOk(run, active[u], canceled[u], told, runs[u] + 1, generation[u],
                  persisted[u])
        BY <1>2, <4>1, NewRunsComeLast
      <4>. QED  BY <3>1, <4>2 DEF run, told
    <3>. QED  BY <3>1, <3>4 DEF Goal
  <2>. QED  BY <2>1, <2>2
<1>6. CASE StartPump
  <2>1. UNCHANGED <<reported, runs, generation, persisted>>
    BY <1>6 DEF StartPump, states, facts
  <2>. QED  BY ZenonT(30), <1>1, <1>2, <1>6, <2>1, StartPumpMoves, MovesKeepOrder DEF Goal
<1>7. ASSUME NEW t \in Targets, RescanConfirms(t)
      PROVE  Goal(u)
  <2>1. PICK run \in Run :
           /\ run.id = runs[t] + 1
           /\ run.generation = generation[t] + 1
           /\ Moves(u, IF u = t THEN run ELSE pending[u], active[u])
           /\ canceled'[u] = (active[u] # NoRun /\ (u = t \/ canceled[u]))
    BY <1>7, ConfirmMoves
  <2>2. UNCHANGED persisted
    BY <1>7 DEF RescanConfirms, RescanEnds
  <2>3. CASE u # t
    <3>1. UNCHANGED <<reported[u], runs[u], generation[u]>>
      BY <1>7, <1>t, <2>3 DEF RescanConfirms
    <3>2. /\ Moves(u, pending[u], active[u])
          /\ canceled'[u] = (active[u] # NoRun /\ canceled[u])
      BY <2>1, <2>3
    <3>. QED  BY <1>1, <1>2, <2>2, <3>1, <3>2, MovesKeepOrder DEF Goal
  <2>4. CASE u = t
    <3>1. /\ reported'[u] = reported[u] \cup IdOf(pending[u]) \cup IdOf(active[u])
          /\ runs'[u] = runs[u] + 1 /\ generation'[u] = generation[u] + 1
      BY <1>7, <1>t, <2>4 DEF RescanConfirms, CanceledRuns, NextGeneration
    <3>3. IdsOk(run, active[u], TRUE, reported'[u], runs'[u], generation'[u],
                persisted[u])
      <4> DEFINE next == generation[u] + 1
                 told == reported'[u]
                 dead == TRUE
      <4>1. /\ run.id = runs[u] + 1 /\ run.generation = next
            /\ next \in Nat /\ generation[u] <= next /\ dead \in BOOLEAN
            /\ told \subseteq reported[u] \cup IdOf(pending[u]) \cup IdOf(active[u])
        BY <1>2, <2>1, <2>4, <3>1
      <4>2. active[u] # NoRun => (active[u].id \in told <=> dead)
        BY <3>1 DEF IdOf
      <4> HIDE DEF next, told, dead
      <4>3. IdsOk(run, active[u], dead, told, runs[u] + 1, next, persisted[u])
        BY <4>1, <4>2, NewRunsComeLast
      <4>. QED  BY <3>1, <4>3 DEF next, told, dead
    <3>4. /\ Moves(u, run, active[u]) /\ canceled'[u] = (active[u] # NoRun /\ TRUE)
          /\ runs'[u] \in Nat /\ generation'[u] \in Nat
      BY <1>2, <2>1, <2>4, <3>1
    <3>. QED  BY <1>2, <2>2, <3>3, <3>4, MovesKeepOrder DEF Goal
  <2>. QED  BY <2>3, <2>4
<1>8. ASSUME NEW t \in Targets, Ends(t)
      PROVE  Goal(u)
  <2>1. active[t] \in Run /\ active[t] # NoRun /\ Settle(t)
    BY <1>8, EndSettles
  <2>2. /\ Moves(u, pending[u], IF u = t THEN NoRun ELSE active[u])
        /\ canceled'[u] = (u # t /\ active[u] # NoRun /\ canceled[u])
        /\ UNCHANGED <<runs, generation>>
    BY <2>1, SettleMoves DEF states
  <2>3. CASE u # t
    <3>1. reported'[u] = reported[u] /\ persisted'[u] = persisted[u]
      BY <1>8, <1>t, <2>3 DEF Ends, RunIsStale, RunRejects, CheckFails,
         CommitRejects, CommitResolves, Discard, SlotInv, FactTypeOK
    <3>. QED  BY SMTT(30), <1>1, <1>2, <2>2, <2>3, <3>1, MovesKeepOrder DEF Goal
  <2>4. CASE u = t
    <3>1. IdsOk(pending[u], NoRun, FALSE, reported'[u], runs[u], generation[u],
                persisted'[u])
      <4>1. CASE CommitResolves(t)
        <5> DEFINE c == [id         |-> active[u].id,
                         generation |-> active[u].generation,
                         snapshot   |-> active[u].snapshot,
                         inputs     |-> inputs[u]]
        <5>1. c \in Commit /\ c.id = active[u].id
              /\ c.generation = active[u].generation
          BY <2>1, <2>4 DEF Run, Commit, SlotInv, SlotPart, SlotTypeOK
        <5>2. reported'[u] = reported[u] /\ persisted'[u] = Append(persisted[u], c)
          BY <2>4, <4>1 DEF CommitResolves, SlotInv, FactTypeOK
        <5> HIDE DEF c
        <5>3. active[u] \in Run /\ active[u] # NoRun
          BY <2>1, <2>4
        <5>4. IdsOk(pending[u], NoRun, FALSE, reported[u], runs[u],
                    generation[u], Append(persisted[u], c))
          BY <1>1, <1>2, <5>1, <5>3, EndsKeepOrder
        <5>. QED  BY <5>2, <5>4
      <4>2. CASE ~CommitResolves(t)
        <5>1. /\ reported'[u] = reported[u] \cup IdOf(active[u])
              /\ persisted'[u] = persisted[u]
          BY <1>8, <1>t, <2>4, <4>2 DEF Ends, RunIsStale, RunRejects, CheckFails,
             CommitRejects, Discard
        <5>2. active[u] \in Run /\ active[u] # NoRun
          BY <2>1, <2>4
        <5>3. IdsOk(pending[u], NoRun, FALSE, reported[u] \cup IdOf(active[u]),
                    runs[u], generation[u], persisted[u])
          BY <1>1, <1>2, <5>2, EndsKeepOrder
        <5>. QED  BY <5>1, <5>3
      <4>. QED  BY <4>1, <4>2
    <3>2. Moves(u, pending[u], NoRun) /\ canceled'[u] = (NoRun # NoRun /\ FALSE)
      BY <2>2, <2>4
    <3>. QED  BY <1>2, <2>2, <3>1, <3>2, MovesKeepOrder DEF Goal
  <2>. QED  BY <2>3, <2>4
<1>9. CASE Drain
  <2>1. /\ pending'[u] = NoRun /\ canceled'[u] = (active[u] # NoRun)
        /\ reported'[u] = reported[u] \cup IdOf(pending[u]) \cup IdOf(active[u])
        /\ UNCHANGED <<active, runs, generation, persisted>>
    BY <1>9 DEF Drain, CanceledRuns
  <2>2. /\ pending[u] # NoRun => pending[u].id \in 1 .. runs[u]
        /\ active[u] # NoRun => active[u].id \in 1 .. runs[u]
    BY <1>1, <1>2 DEF IdsOk
  <2>. QED  BY <1>1, <2>1, <2>2 DEF Goal, IdsOk, IdOf
<1>. QED
  BY <1>4, <1>5, <1>6, <1>7, <1>8, <1>9, StepCases

\* A verdict is committed after those of older runs.
LEMMA NextVerdictsInOrder ==
  ASSUME SlotInv, IdPart, VerdictsInOrder, [Next]_vars
  PROVE  VerdictsInOrder'
<1> SUFFICES ASSUME NEW u \in Targets, NEW j \in 1 .. Len(persisted'[u]),
                    NEW i \in 1 .. j - 1
             PROVE  /\ persisted'[u][i].id < persisted'[u][j].id
                    /\ persisted'[u][i].generation <= persisted'[u][j].generation
  BY DEF VerdictsInOrder
<1> DEFINE c == [id         |-> active[u].id,
                 generation |-> active[u].generation,
                 snapshot   |-> active[u].snapshot,
                 inputs     |-> inputs[u]]
<1>1. CASE persisted'[u] = persisted[u]
  BY <1>1 DEF VerdictsInOrder
<1>2. CASE CommitResolves(u) /\ persisted'[u] = Append(persisted[u], c)
  <2>0. active[u] \in Run /\ active[u] # NoRun
    BY <1>2, EndSettles DEF Ends
  <2>1. c \in Commit /\ persisted[u] \in Seq(Commit)
    BY <2>0 DEF Run, Commit, SlotInv, FactTypeOK, SlotPart, SlotTypeOK
  <2>2. \A k \in 1 .. Len(persisted[u]) :
           persisted[u][k].id < c.id /\ persisted[u][k].generation <= c.generation
    BY <2>0 DEF IdPart, IdsOk
  <2> HIDE DEF c
  <2>3. j \in 1 .. Len(persisted[u]) \/ j = Len(persisted[u]) + 1
    BY <1>2, <2>1, AppendedEntries
  <2>4. Len(persisted[u]) \in Nat /\ i \in 1 .. Len(persisted[u])
    BY <2>1, <2>3
  <2>5. persisted'[u][i] = persisted[u][i]
    BY <1>2, <2>1, <2>4, AppendedEntries
  <2>6. CASE j \in 1 .. Len(persisted[u])
    <3>1. persisted'[u][j] = persisted[u][j]
      BY <1>2, <2>1, <2>6, AppendedEntries
    <3>. QED  BY <2>5, <2>6, <3>1 DEF VerdictsInOrder
  <2>7. CASE j = Len(persisted[u]) + 1
    <3>1. persisted'[u][j] = c
      BY <1>2, <2>1, <2>7, AppendedEntries
    <3>. QED  BY <2>2, <2>4, <2>5, <3>1
  <2>. QED  BY <2>3, <2>6, <2>7
<1>. QED  BY <1>1, <1>2, PersistedChanges

\* The inductive invariant of the ledger.
OrderInv == DrainInv /\ IdPart

THEOREM OrderInvariant == Spec => []OrderInv
<1>1. Init => IdPart
  BY DEF Init, IdPart, IdsOk
<1>2. DrainInv /\ IdPart /\ [Next]_vars => IdPart'
  BY NextIdPart DEF DrainInv
<1>. QED  BY <1>1, <1>2, DrainInvariant, PTL DEF Spec, OrderInv

\* Verdicts reach the store in the order of their runs and generations, however
\* runs overlap, are superseded or canceled.
THEOREM VerdictsAreInOrder == Spec => []VerdictsInOrder
<1>1. Init => VerdictsInOrder
  BY DEF Init, VerdictsInOrder
<1>2. OrderInv /\ VerdictsInOrder /\ [Next]_vars => VerdictsInOrder'
  BY NextVerdictsInOrder DEF OrderInv, DrainInv
<1>. QED  BY <1>1, <1>2, OrderInvariant, PTL DEF Spec

-----------------------------------------------------------------------------
(* Changes are tracked.                                                    *)

\* Before start() is over nothing is under way, and start() runs once.
LEMMA NextStartPart ==
  ASSUME ~BusyStart, DrainInv, StartPart, [Next]_vars
  PROVE  StartPart'
<1> USE DEF DrainInv
<1>0. /\ start \in [Targets -> StartPhases] /\ first \in [Targets -> Nat]
      /\ phase \in [Targets -> RunPhases]
  BY DEF SlotInv, EnvTypeOK, SlotPart, SlotTypeOK
<1>1. ~observing' /\ draining' = "none" => \A t \in Targets : start'[t] = "idle"
  <2> SUFFICES ASSUME ~observing', draining' = "none"
               PROVE  \A t \in Targets : start'[t] = "idle"
    OBVIOUS
  <2>1. ~Start /\ ~Drain
    BY DEF Start, Drain
  <2>2. UNCHANGED observing /\ draining = "none"
    <3>1. ASSUME NEW t \in Targets, Quiet(t) \/ StartPlace(t) \/ RescanConfirms(t)
                                    \/ Ends(t)
          PROVE  UNCHANGED observing /\ draining = "none"
      BY <3>1 DEF Quiet, Edit, Hint, StartScan, TimerFires, RescanReads,
         StableReads, RescanIgnored, RescanUnstable, RescanEnds, RunReads,
         RunResolves, CheckReads, CommitBegins, StartPlace, RescanConfirms, Ends,
         RunIsStale, RunRejects, CheckFails, CommitRejects, CommitResolves,
         Discard, Settle, FinishDrainIfIdle
    <3>2. HintAll \/ StartPump \/ UNCHANGED vars
             => UNCHANGED observing /\ draining = "none"
      BY DEF HintAll, StartPump, vars
    <3>. QED  BY <2>1, <3>1, <3>2, StepCases
  <2>3. \A t \in Targets : start[t] = "idle"
    BY <2>2 DEF StartPart
  <2>4. start' = start
    <3>1. ASSUME NEW t \in Targets, Quiet(t) \/ StartPlace(t) \/ RescanConfirms(t)
                                    \/ Ends(t)
          PROVE  start' = start
      BY <2>3, <3>1 DEF Quiet, Edit, Hint, StartScan, TimerFires, RescanReads,
         StableReads, RescanIgnored, RescanUnstable, RescanEnds, RunReads,
         RunResolves, CheckReads, CommitBegins, StartPlace, RescanConfirms, Ends,
         RunIsStale, RunRejects, CheckFails, CommitRejects, CommitResolves,
         Discard, Settle, started
    <3>2. HintAll \/ StartPump \/ UNCHANGED vars => start' = start
      BY <2>3 DEF HintAll, StartPump, vars, started
    <3>. QED  BY <2>1, <3>1, <3>2, StepCases
  <2>. QED  BY <2>3, <2>4
<1> DEFINE Before(u) ==
       /\ ~notify[u] /\ ~timer[u] /\ rescan[u] = "none" /\ seen[u] = 0
       /\ active[u] = NoRun
       /\ start[u] = "scanned" => first[u] = disk[u]
<1>2. ASSUME ~StartOver', NEW u \in Targets
      PROVE  Before(u)'
  <2>1. CASE Start
    <3>1. ~StartOver
      BY <1>2, <2>1 DEF Start, StartPart, StartOver
    <3>2. start'[u] = "scanning"
      BY <2>1 DEF Start
    <3>. QED
      BY <2>1, <3>1, <3>2 DEF Start, StartPart, env, states, slots
  <2>2. CASE ~Start
    <3>1. ~StartOver
      <4>1. ASSUME NEW t \in Targets, StartScan(t) \/ StartPlace(t)
            PROVE  ~StartOver
        BY <4>1 DEF StartScan, StartPlace, StartOver
      <4>2. ~StartPump
        BY <1>2 DEF StartPump, StartOver
      <4>3. ASSUME UNCHANGED start
            PROVE  ~StartOver
        BY <1>2, <4>3 DEF StartOver
      <4>4. ASSUME NEW t \in Targets, Quiet(t) \/ RescanConfirms(t) \/ Ends(t),
                   ~StartScan(t)
            PROVE  UNCHANGED start
        BY <4>4 DEF Quiet, Edit, Hint, TimerFires, RescanReads,
           StableReads, RescanIgnored, RescanUnstable, RescanEnds, RunReads,
           RunResolves, CheckReads, CommitBegins, RescanConfirms, Ends,
           RunIsStale, RunRejects, CheckFails, CommitRejects, CommitResolves,
           Discard, Settle, started
      <4>5. HintAll \/ Drain \/ UNCHANGED vars => UNCHANGED start
        BY DEF HintAll, Drain, vars, started
      <4>. QED  BY <2>2, <4>1, <4>2, <4>3, <4>4, <4>5, StepCases
    <3>2. \A t \in Targets : Before(t)
      BY <3>1 DEF StartPart
    <3>3. \A t \in Targets : phase[t] = "idle"
      BY <3>2 DEF SlotInv, SlotPart, PhasesMatch
    <3>4. ASSUME NEW t \in Targets, StartScan(t)
          PROVE  Before(u)'
      BY <1>0, <3>2, <3>4 DEF StartScan, env, states, slots
    <3>5. ASSUME NEW t \in Targets, StartPlace(t)
          PROVE  Before(u)'
      BY <1>0, <3>2, <3>5 DEF StartPlace, env
    <3>6. ASSUME NEW t \in Targets, Quiet(t) \/ RescanConfirms(t) \/ Ends(t)
          PROVE  StartScan(t)
      BY <3>1, <3>2, <3>3, <3>6
      DEF Quiet, Edit, Hint, TimerFires, RescanReads, StableReads, RescanIgnored,
          RescanUnstable, RescanEnds, RunReads, RunResolves, CheckReads,
          CommitBegins, RescanConfirms, Ends, RunIsStale, RunRejects, CheckFails,
          CommitRejects, CommitResolves
    <3>7. ~HintAll /\ ~StartPump
      BY <1>2, <3>1 DEF HintAll, StartPump, StartOver
    <3>8. Drain \/ UNCHANGED vars => Before(u)'
      BY <3>2 DEF Drain, vars, env, started, states, slots
    <3>. QED
      BY <2>2, <3>4, <3>5, <3>6, <3>7, <3>8, StepCases
  <2>. QED  BY <2>1, <2>2
<1>. QED  BY <1>1, <1>2 DEF StartPart

\* A verdict that is committed is the last one.
LEMMA LastOfAppend ==
  ASSUME NEW S, NEW s \in Seq(S), NEW c \in S
  PROVE  Append(s, c) # <<>> /\ Append(s, c)[Len(Append(s, c))] = c
<1>1. Len(Append(s, c)) = Len(s) + 1 /\ Append(s, c)[Len(s) + 1] = c
      /\ Len(s) \in Nat
  BY AppendedEntries
<1>2. Append(s, c) # <<>>
  BY <1>1
<1>. QED  BY <1>1, <1>2

\* pump() does not lose what it is handed: a waiting run waits on or executes
\* uncanceled.
LEMMA MovesKeepTrack ==
  ASSUME NEW u \in Targets, NEW p, NEW a, NEW dead \in BOOLEAN, Moves(u, p, a),
         canceled'[u] = (a # NoRun /\ dead)
  PROVE  /\ p # NoRun => pending'[u] # NoRun \/ (active'[u] # NoRun /\ ~canceled'[u])
         /\ a # NoRun => pending'[u] = p /\ active'[u] = a /\ canceled'[u] = dead
         /\ active'[u] \in {a, p}
         /\ canceled'[u] => a # NoRun /\ pending'[u] = p
         /\ active'[u] # NoRun /\ a = NoRun => active'[u] = p /\ ~canceled'[u]
BY DEF Moves

\* Every step keeps track of the content on disk.
LEMMA NextTrackPart ==
  ASSUME ~BusyStart, DrainInv, LatestWins, IdPart, StartPart, TrackPart,
         ~MayRestore => VersionPart /\ InputsPart, [Next]_vars
  PROVE  TrackPart'
<1> SUFFICES ASSUME observing', NEW u \in Targets
             PROVE  Tracked(u)'
  BY DEF TrackPart
<1> USE DEF DrainInv
<1>0. /\ disk \in [Targets -> Nat] /\ notify \in [Targets -> BOOLEAN]
      /\ timer \in [Targets -> BOOLEAN] /\ start \in [Targets -> StartPhases]
      /\ rescan \in [Targets -> RescanPhases] /\ deferred \in [Targets -> BOOLEAN]
      /\ seen \in [Targets -> Nat] /\ snapshot \in [Targets -> Nat]
      /\ pending \in [Targets -> Run \cup {NoRun}] /\ canceled[u] \in BOOLEAN
      /\ first \in [Targets -> Nat] /\ persisted[u] \in Seq(Commit)
      /\ edits \in Nat /\ runs \in [Targets -> Nat]
      /\ reported \in [Targets -> SUBSET Nat]
  BY DEF SlotInv, EnvTypeOK, StateTypeOK, SlotPart, SlotTypeOK, FactTypeOK
<1>w. /\ pending[u] # NoRun => /\ pending[u].snapshot = snapshot[u]
                               /\ pending[u].id = runs[u]
      /\ active[u] # NoRun /\ active[u].generation # generation[u] => canceled[u]
      /\ active[u] = NoRun => ~canceled[u]
  BY DEF LatestWins, DrainPart, IdPart, IdsOk
<1>1. CASE Start
  <2>1. start'[u] = "scanning" /\ start[u] = "idle"
    BY <1>1 DEF Start, StartPart
  <2>2. active[u] = NoRun
    BY <2>1 DEF StartPart, StartOver
  <2>3. UNCHANGED <<pending, active, canceled>>
    BY <1>1 DEF Start, slots
  <2>. QED  BY <1>w, <2>1, <2>2, <2>3 DEF Tracked
<1>2. CASE ~observing
  <2>1. observing' => Start
    <3>1. ASSUME NEW t \in Targets, Quiet(t) \/ StartPlace(t) \/ RescanConfirms(t)
                                    \/ Ends(t)
          PROVE  UNCHANGED observing
      BY <3>1 DEF Quiet, Edit, Hint, StartScan, TimerFires, RescanReads,
         StableReads, RescanIgnored, RescanUnstable, RescanEnds, RunReads,
         RunResolves, CheckReads, CommitBegins, StartPlace, RescanConfirms, Ends,
         RunIsStale, RunRejects, CheckFails, CommitRejects, CommitResolves,
         Discard, Settle
    <3>2. HintAll \/ StartPump \/ UNCHANGED vars => UNCHANGED observing
      BY DEF HintAll, StartPump, vars
    <3>3. Drain => ~observing'
      BY DEF Drain
    <3>. QED  BY <1>2, <3>1, <3>2, <3>3, StepCases
  <2>. QED  BY <1>1, <2>1
<1>3. CASE observing
  <2> USE <1>3
  <2>1. Tracked(u)
    BY DEF TrackPart
  <2>2. ASSUME UNCHANGED <<disk[u], notify[u], timer[u], start[u], rescan[u],
                  deferred[u], seen[u], snapshot[u], pending[u], active[u],
                  canceled[u], runs[u], reported[u], persisted[u]>>
        PROVE  Tracked(u)'
    BY <2>1, <2>2 DEF Tracked, Alerted, Hinted, Judging
  \* What the files, the hints and the rescans do.
  <2>3. ASSUME UNCHANGED <<start[u], snapshot[u], pending[u], active[u],
                           canceled[u], runs[u], reported[u], persisted[u]>>,
               rescan'[u] = "resuming" => Hinted(u)' \/ seen'[u] \in {0, disk'[u]},
               Alerted(u)' \/ disk'[u] = snapshot[u],
               ~MayRestore /\ disk'[u] = snapshot[u] => disk[u] = snapshot[u]
        PROVE  Tracked(u)'
    BY <2>1, <2>3 DEF Tracked, Judging
  \* What pump() does to a target whose runs it is handed as they are.
  <2>p. ASSUME Moves(u, pending[u], active[u]),
               canceled'[u] = (active[u] # NoRun /\ canceled[u]),
               UNCHANGED <<snapshot[u], disk[u], runs[u], reported[u],
                           persisted[u]>>,
               Alerted(u)' = Alerted(u),
               rescan'[u] = "resuming" =>
                  /\ rescan[u] = "resuming" /\ seen'[u] = seen[u]
                  /\ Hinted(u)' = Hinted(u),
               start'[u] \in {"placed", "done"} => start[u] \in {"placed", "done"}
        PROVE  Tracked(u)'
    <3>1. start[u] \in {"placed", "done"} /\ Judging(u) => Judging(u)'
      BY <1>0, <2>p, MovesKeepTrack DEF Judging
    <3>. QED  BY <1>0, <1>w, <2>1, <2>p, <3>1, MovesKeepTrack DEF Tracked
  <2>4. ASSUME NEW t \in Targets, Edit(t)
        PROVE  Tracked(u)'
    <3>1. /\ notify' = [notify EXCEPT ![t] = TRUE]
          /\ u # t => disk'[u] = disk[u]
          /\ ~MayRestore => disk' = [disk EXCEPT ![t] = edits + 2]
          /\ UNCHANGED <<start, states, slots, facts>>
      BY <1>0, <2>4 DEF Edit, started
    <3>2. CASE u = t
      <4>1. Hinted(u)'
        BY <1>0, <3>1, <3>2 DEF Hinted
      <4>2. ~MayRestore => disk'[u] # snapshot[u]
        BY <1>0, <3>1, <3>2 DEF VersionPart
      <4>. QED
        BY <2>3, <3>1, <4>1, <4>2 DEF Alerted, states, slots, facts
    <3>3. CASE u # t
      BY <1>0, <2>2, <3>1, <3>3 DEF states, slots, facts
    <3>. QED  BY <3>2, <3>3
  <2>5. ASSUME NEW t \in Targets, Hint(t)
        PROVE  Tracked(u)'
    <3>1. /\ notify' = [notify EXCEPT ![t] = FALSE]
          /\ timer' = [timer EXCEPT ![t] = TRUE]
          /\ UNCHANGED <<disk, start, snapshot, rescan, seen, deferred, slots,
                         facts>>
      BY <1>0, <2>5 DEF Hint, started
    <3>2. CASE u = t
      <4>1. Hinted(u)'
        BY <1>0, <3>1, <3>2 DEF Hinted
      <4>. QED
        BY <2>3, <3>1, <4>1 DEF Alerted, slots, facts
    <3>3. CASE u # t
      BY <1>0, <2>2, <3>1, <3>3 DEF slots, facts
    <3>. QED  BY <3>2, <3>3
  <2>6. CASE HintAll
    <3>1. /\ timer'[u]
          /\ UNCHANGED <<disk, start, snapshot, rescan, seen, deferred, slots,
                         facts>>
      BY <2>6 DEF HintAll, started
    <3>. QED  BY <2>3, <3>1 DEF Alerted, Hinted, slots, facts
  <2>7. ASSUME NEW t \in Targets, StartScan(t)
        PROVE  Tracked(u)'
    <3>1. /\ start' = [start EXCEPT ![t] = "scanned"]
          /\ UNCHANGED <<env, states, slots, facts>>
      BY <2>7 DEF StartScan
    <3>2. CASE u = t
      <4>1. start'[u] = "scanned"
        BY <1>0, <3>1, <3>2
      <4>. QED  BY <2>1, <3>1, <4>1 DEF Tracked, states, slots, facts
    <3>3. CASE u # t
      BY <1>0, <2>2, <3>1, <3>3 DEF env, states, slots, facts
    <3>. QED  BY <3>2, <3>3
  <2>8. ASSUME NEW t \in Targets, TimerFires(t)
        PROVE  Tracked(u)'
    <3>1. /\ UNCHANGED <<disk, notify, start, snapshot, seen, slots, facts>>
          /\ u # t => UNCHANGED <<timer[u], rescan[u], deferred[u]>>
      BY <1>0, <2>8 DEF TimerFires, env, started
    <3>2. u = t => IF rescan[u] = "none" THEN rescan'[u] = "scanning"
                   ELSE rescan'[u] = rescan[u] /\ deferred'[u]
      BY <1>0, <2>8 DEF TimerFires
    <3>3. CASE u = t
      <4>1. rescan'[u] = "scanning" \/ Hinted(u)'
        BY <3>2, <3>3 DEF Hinted
      <4>. QED  BY <2>3, <3>1, <4>1 DEF Alerted, slots, facts
    <3>4. CASE u # t
      BY <2>2, <3>1, <3>4 DEF slots, facts
    <3>. QED  BY <3>3, <3>4
  <2>9. ASSUME NEW t \in Targets, RescanReads(t) \/ StableReads(t)
        PROVE  Tracked(u)'
    <3>1. /\ UNCHANGED <<disk, notify, start, snapshot, timer, deferred, slots,
                         facts>>
          /\ u # t => UNCHANGED <<rescan[u], seen[u]>>
      BY <1>0, <2>9 DEF RescanReads, StableReads, env, started
    <3>2. u = t => \/ rescan'[u] = "stabilizing" /\ seen'[u] = disk[u]
                   \/ rescan'[u] = "resuming" /\ seen'[u] \in {0, disk[u]}
      BY <1>0, <2>9 DEF RescanReads, StableReads
    <3>3. CASE u = t
      BY <2>3, <3>1, <3>2, <3>3 DEF Alerted, slots, facts
    <3>4. CASE u # t
      BY <2>2, <3>1, <3>4 DEF slots, facts
    <3>. QED  BY <3>3, <3>4
  <2>10. ASSUME NEW t \in Targets, RescanEnds(t)
         PROVE  /\ u # t => UNCHANGED <<rescan[u], deferred[u], seen[u]>>
                /\ u = t => /\ seen'[u] = 0 /\ rescan[u] = "resuming"
                            /\ rescan'[u] \in {"none", "scanning"}
                            /\ deferred[u] => rescan'[u] = "scanning"
                /\ UNCHANGED <<disk, notify, start, persisted>>
    BY <1>0, <2>10 DEF RescanEnds, env, started
  <2>11. ASSUME NEW t \in Targets, RescanIgnored(t) \/ RescanUnstable(t)
         PROVE  Tracked(u)'
    <3>1. RescanEnds(t) /\ UNCHANGED <<snapshot, slots, runs, reported>>
      BY <2>11 DEF RescanIgnored, RescanUnstable
    <3>2. u # t => timer'[u] = timer[u]
      BY <1>0, <2>11 DEF RescanIgnored, RescanUnstable
    <3>3. CASE u # t
      BY <2>2, <2>10, <3>1, <3>2, <3>3 DEF slots
    <3>4. CASE u = t
      <4>1. start[u] \in {"placed", "done"} => Alerted(u)' \/ disk[u] = snapshot[u]
        <5>1. CASE RescanUnstable(t)
          BY <1>0, <3>4, <5>1 DEF RescanUnstable, Alerted, Hinted
        <5>2. CASE RescanIgnored(t)
          <6>1. timer'[u] = timer[u] /\ seen[u] # 0 /\ seen[u] = snapshot[u]
            BY <3>4, <5>2 DEF RescanIgnored
          <6>. QED
            BY <2>1, <2>10, <3>1, <3>4, <6>1 DEF Alerted, Hinted, Tracked
        <5>. QED  BY <2>11, <5>1, <5>2
      <4>. QED
        BY <2>1, <2>10, <3>1, <3>4, <4>1 DEF Tracked, Judging, slots
    <3>. QED  BY <3>3, <3>4
  <2>12. ASSUME NEW t \in Targets,
                RunReads(t) \/ RunResolves(t) \/ CheckReads(t) \/ CommitBegins(t)
         PROVE  Tracked(u)'
    BY <2>2, <2>12 DEF RunReads, RunResolves, CheckReads, CommitBegins, env,
       started, states, facts
  <2>13. ASSUME NEW t \in Targets, StartPlace(t)
         PROVE  Tracked(u)'
    <3>1. ~StartOver
      BY <2>13 DEF StartPlace, StartOver
    <3>2. CASE u # t
      BY <1>0, <2>2, <2>13, <3>2 DEF StartPlace, env
    <3>3. CASE u = t
      <4>1. /\ active[u] = NoRun /\ rescan[u] = "none" /\ first[u] = disk[u]
        BY <2>13, <3>1, <3>3 DEF StartPlace, StartPart
      <4>2. /\ UNCHANGED <<active, canceled, rescan, disk>>
            /\ snapshot'[u] = first[u] /\ u \in queue'
        BY <1>0, <2>13, <3>3 DEF StartPlace, env
      <4>3. pending'[u] # NoRun
        BY <4>2, NextSlotInv DEF SlotInv, SlotPart, QueueMatches
      <4>. QED  BY <1>w, <4>1, <4>2, <4>3 DEF Tracked, Judging
    <3>. QED  BY <3>2, <3>3
  <2>14. CASE StartPump
    <3>1. /\ Moves(u, pending[u], active[u])
          /\ canceled'[u] = (active[u] # NoRun /\ canceled[u])
          /\ UNCHANGED <<env, states, facts>>
      BY <2>14, StartPumpMoves
    <3>2. start[u] = "placed"
      BY <2>14 DEF StartPump
    <3>3. Alerted(u)' = Alerted(u) /\ Hinted(u)' = Hinted(u)
      BY <3>1 DEF Alerted, Hinted, env, states
    <3>. QED
      BY <2>p, <3>1, <3>2, <3>3 DEF env, states, facts
  <2>15. ASSUME NEW t \in Targets, RescanConfirms(t)
         PROVE  Tracked(u)'
    <3>1. PICK run \in Run :
             /\ run.id = runs[t] + 1 /\ run.snapshot = seen[t]
             /\ Moves(u, IF u = t THEN run ELSE pending[u], active[u])
             /\ canceled'[u] = (active[u] # NoRun /\ (u = t \/ canceled[u]))
      BY <2>15, ConfirmMoves
    <3>2. /\ RescanEnds(t) /\ UNCHANGED timer /\ seen[t] # 0
          /\ snapshot'[u] = IF u = t THEN seen[u] ELSE snapshot[u]
          /\ runs'[u] = IF u = t THEN runs[u] + 1 ELSE runs[u]
          /\ u # t => reported'[u] = reported[u]
      BY <1>0, <2>15 DEF RescanConfirms
    <3>3. CASE u # t
      <4>1. Moves(u, pending[u], active[u])
            /\ canceled'[u] = (active[u] # NoRun /\ canceled[u])
        BY <3>1, <3>3
      <4>2. /\ Alerted(u)' = Alerted(u) /\ Hinted(u)' = Hinted(u)
            /\ UNCHANGED <<snapshot[u], disk[u], start[u], rescan[u], seen[u],
                           runs[u], reported[u], persisted[u]>>
        BY <2>10, <3>2, <3>3 DEF Alerted, Hinted
      <4>. QED
        BY <2>p, <4>1, <4>2
    <3>4. CASE u = t
      <4>1. Moves(u, run, active[u]) /\ canceled'[u] = (active[u] # NoRun /\ TRUE)
        BY <3>1, <3>4
      <4>2. run # NoRun /\ run.snapshot = snapshot'[u] /\ run.id = runs'[u]
        BY <3>1, <3>2, <3>4, NoRunAssumption
      <4>3. start[u] \in {"placed", "done"} => Alerted(u)' \/ disk'[u] = snapshot'[u]
        <5>1. start[u] \in {"placed", "done"} => Hinted(u) \/ seen[u] = disk[u]
          BY <2>1, <2>10, <3>2, <3>4 DEF Tracked
        <5>2. Hinted(u) => Alerted(u)'
          BY <2>10, <3>2, <3>4 DEF Alerted, Hinted
        <5>. QED
          BY <2>10, <3>2, <3>4, <5>1, <5>2
      <4>4. Judging(u)'
        BY <4>1, <4>2, MovesKeepTrack DEF Judging
      <4>. QED
        BY <2>10, <3>2, <3>4, <4>1, <4>2, <4>3, <4>4, MovesKeepTrack DEF Tracked
    <3>. QED  BY <3>3, <3>4
  <2>16. ASSUME NEW t \in Targets, Ends(t)
         PROVE  Tracked(u)'
    <3>1. /\ active[t] \in Run /\ active[t] # NoRun
          /\ Moves(u, pending[u], IF u = t THEN NoRun ELSE active[u])
          /\ canceled'[u] = (u # t /\ active[u] # NoRun /\ canceled[u])
          /\ UNCHANGED <<env, start, states, runs>>
      BY <2>16, EndSettles, SettleMoves DEF started
    <3>2. Alerted(u)' = Alerted(u) /\ Hinted(u)' = Hinted(u)
      BY <3>1 DEF Alerted, Hinted, env, states
    <3>3. CASE u # t
      <4>1. Moves(u, pending[u], active[u])
            /\ canceled'[u] = (active[u] # NoRun /\ canceled[u])
        BY <3>1, <3>3
      <4>2. persisted'[u] = persisted[u] /\ reported'[u] = reported[u]
        BY <2>16, <3>3 DEF Ends, RunIsStale, RunRejects, CheckFails, CommitRejects,
           CommitResolves, Discard, SlotInv, FactTypeOK
      <4>. QED
        BY <2>p, <3>1, <3>2, <4>1, <4>2 DEF env, states
    <3>4. CASE u = t
      <4>1. Moves(u, pending[u], NoRun) /\ canceled'[u] = (NoRun # NoRun /\ FALSE)
        BY <3>1, <3>4
      <4>2. CASE pending[u] # NoRun
        <5>1. Judging(u)'
          BY <4>1, <4>2, MovesKeepTrack DEF Judging
        <5>. QED
          BY <1>w, <2>1, <3>1, <3>2, <4>1, <5>1, MovesKeepTrack
          DEF Tracked, env, states
      <4>3. CASE pending[u] = NoRun
        <5>1. /\ ~canceled[u] /\ active[u].snapshot = snapshot[u]
              /\ active[u].id = runs[u]
          BY <2>1, <3>1, <3>4, <4>3 DEF Tracked
        <5>2. CASE CommitResolves(t)
          <6> DEFINE c == [id         |-> active[u].id,
                           generation |-> active[u].generation,
                           snapshot   |-> active[u].snapshot,
                           inputs     |-> inputs[u]]
          <6>1. c \in Commit /\ c.snapshot = snapshot[u]
            BY <3>1, <3>4, <5>1 DEF Run, Commit, SlotInv, SlotPart, SlotTypeOK
          <6>2. persisted'[u] = Append(persisted[u], c)
            BY <3>4, <5>2 DEF CommitResolves, SlotInv, FactTypeOK
          <6> HIDE DEF c
          <6>3. /\ persisted'[u] # <<>>
                /\ persisted'[u][Len(persisted'[u])].snapshot = snapshot[u]
            <7> DEFINE after == Append(persisted[u], c)
            <7>0. persisted[u] \in Seq(Commit) /\ c \in Commit
              BY <1>0, <6>1
            <7>1. after # <<>> /\ after[Len(after)] = c
              BY <7>0, LastOfAppend
            <7> HIDE DEF after
            <7>2. persisted'[u] = after
              BY <6>2 DEF after
            <7>. QED  BY <6>1, <7>1, <7>2
          <6>. QED
            BY <2>1, <3>1, <3>2, <4>1, <4>3, <6>3, MovesKeepTrack
            DEF Tracked, Judging, env, states
        <5>3. CASE ~CommitResolves(t)
          <6>1. ~RunIsStale(t)
            BY <1>w, <3>1, <3>4, <5>1 DEF RunIsStale, MayCommit
          <6>2. Discard(t)
            BY <2>16, <5>3, <6>1 DEF Ends, RunRejects, CheckFails, CommitRejects
          <6>3. runs'[u] \in reported'[u]
            BY <1>0, <3>1, <3>4, <5>1, <6>2 DEF Discard, IdOf
          <6>4. ~MayRestore /\ ~MayFail => disk[u] # snapshot[u]
            BY <2>16, <3>4, <5>1, <5>3, <6>1
            DEF Ends, RunRejects, CheckFails, CommitRejects, InputsPart
          <6>. QED
            BY <2>1, <3>1, <3>2, <4>1, <4>3, <6>3, <6>4, MovesKeepTrack
            DEF Tracked, env, states
        <5>. QED  BY <5>2, <5>3
      <4>. QED  BY <4>2, <4>3
    <3>. QED  BY <3>3, <3>4
  <2>17. UNCHANGED vars => Tracked(u)'
    BY <2>2 DEF vars, env, started, states, slots, facts
  <2>18. ~Drain /\ ~Start
    BY DEF Drain, Start
  <2>. QED
    BY <2>4, <2>5, <2>6, <2>7, <2>8, <2>9, <2>11, <2>12, <2>13, <2>14, <2>15,
       <2>16, <2>17, <2>18, StepCases DEF Quiet
<1>. QED  BY <1>2, <1>3

\* What the two theorems below share.  Only saves need versions to grow.
TrackInv ==
  /\ OrderInv /\ LatestWins /\ StartPart /\ TrackPart
  /\ ~MayRestore => VersionPart /\ InputsPart

LEMMA TrackInvariant ==
  ASSUME ~BusyStart
  PROVE  Spec => []TrackInv
<1> DEFINE Inv == /\ StartPart /\ TrackPart
                  /\ ~MayRestore => VersionPart /\ InputsPart
<1>1. Init => Inv
  BY DEF Init, VersionPart, InputsPart, Approved, StartPart, TrackPart
<1>2. OrderInv /\ LatestWins /\ Inv /\ [Next]_vars => Inv'
  BY NextVersionPart, NextInputsPart, NextStartPart, NextTrackPart
  DEF OrderInv, DrainInv
<1>. QED
  BY <1>1, <1>2, OrderInvariant, LatestAlwaysWins, PTL DEF Spec, TrackInv

\* While it observes, the mediator answers for every content, whatever is saved
\* and restored and whichever runs fail: it is on its way to be scanned, or its
\* run waits, executes, was committed or was announced as canceled.  The only
\* assumption is that nothing changes before start() is over.
THEOREM ChangesAreAlwaysAnswered ==
  ASSUME ~BusyStart
  PROVE  Spec => []ChangesAreAnswered
<1>1. TrackInv => ChangesAreAnswered
  BY DEF TrackInv, TrackPart, Tracked, ChangesAreAnswered, StartOver
<1>. QED  BY <1>1, TrackInvariant, PTL

\* While it observes, the mediator loses no change: whatever is on disk is on
\* its way to be scanned, or is scheduled, executing or judged.  This is the
\* safety core of LatestIsJudged, under what that run assumes: no change before
\* start() is over, no restored content, no failing run.
THEOREM ChangesAreNeverLost ==
  ASSUME ~BusyStart, ~MayRestore, ~MayFail
  PROVE  Spec => []ChangesAreTracked
<1>1. TrackInv => ChangesAreTracked
  BY DEF TrackInv, TrackPart, Tracked, ChangesAreTracked, StartOver
<1>. QED  BY <1>1, TrackInvariant, PTL

-----------------------------------------------------------------------------
(* The mediator implements RunLedger.                                      *)

LEMMA IdsTell ==
  ASSUME NEW run
  PROVE  IdOf(run) = {} <=> run = NoRun
BY DEF IdOf

\* The ledger counts with its own instance of Cardinality.
LEMMA SameCardinality ==
  ASSUME NEW S
  PROVE  Ledger!Cardinality(S) = Cardinality(S)
BY DEF Ledger!Cardinality, Cardinality

\* What pump() is called with: n counts the active runs, and q, in the order
\* of ah, holds the targets whose run waits.
Ready(pend, act, n, q, ah) ==
    /\ pend \in [Targets -> Run \cup {NoRun}]
    /\ act \in [Targets -> Run \cup {NoRun}]
    /\ n \in Nat /\ n <= Slots
    /\ n = Cardinality({t \in Targets : act[t] # NoRun})
    /\ q \in SUBSET Targets /\ ah \in [Targets -> SUBSET Targets]
    /\ Ordered(q, ah)
    /\ \A t \in Targets : t \in q <=> pend[t] # NoRun
    /\ observing => draining = "none"
    /\ ~observing => q = {}

\* pump() begins runs as the ledger allows: in place of those that ended, as
\* many as there are slots for, and none once it is closed.
LEMMA PumpBegins ==
  ASSUME NEW pend, NEW act, NEW cancel, NEW n, NEW q, NEW ah,
         Ready(pend, act, n, q, ah),
         Pump(pend, act, cancel, n, q, ah)
  PROVE  Ledger!Begin(Ids(pend), Ids(act))
<1> USE DEF Ready
<1> DEFINE go   == Started(pend, act, n, q, ah)
           E    == Eligible(pend, act, q)
           busy == {t \in Targets : act[t] # NoRun}
           W    == Ids(pend)
           X    == Ids(act)
<1>1. /\ go \subseteq E /\ E \subseteq Targets
      /\ \A t \in E : act[t] = NoRun /\ pend[t] # NoRun
      /\ ~observing => E = {}
      /\ observing => E = {t \in Targets : act[t] = NoRun /\ pend[t] # NoRun}
  BY DEF Started, Eligible
<1>2. go = E \/ n + Cardinality(go) = Slots
  BY PumpIsMaximal
<1>3. IsFiniteSet(go) /\ Cardinality(go) \in Nat /\ n + Cardinality(go) <= Slots
  BY StartedBound
<1>4. \A t \in Targets : /\ W[t] = IdOf(pend[t]) /\ X[t] = IdOf(act[t])
                         /\ W[t] # {} <=> pend[t] # NoRun
                         /\ X[t] = {} <=> act[t] = NoRun
  BY IdsTell DEF Ids
<1>5. Ledger!Busy(X) = busy
  BY <1>4 DEF Ledger!Busy
<1>6. Ledger!Startable(W, X) = {t \in Targets : act[t] = NoRun /\ pend[t] # NoRun}
  BY <1>4 DEF Ledger!Startable
<1>7. go \in SUBSET Ledger!Startable(W, X)
  BY <1>1, <1>6
<1>8. Cardinality(busy \cup go) = n + Cardinality(go)
  <2>1. busy \cap go = {}
    BY <1>1
  <2>2. IsFiniteSet(busy)
    <3>1. busy \in SUBSET Targets
      OBVIOUS
    <3>. QED  BY <3>1, FS_Subset, TargetsAssumption
  <2>3. n = Cardinality(busy)
    OBVIOUS
  <2> HIDE DEF busy, go
  <2>4. Cardinality(busy \cup go)
          = Cardinality(busy) + Cardinality(go) - Cardinality(busy \cap go)
    BY <1>3, <2>2, FS_Union
  <2>5. Cardinality(busy \cap go) = 0
    BY <2>1, FS_EmptySet
  <2>. QED  BY <1>3, <2>3, <2>4, <2>5
<1>9. /\ pending' = [t \in Targets |-> IF t \in go THEN NoRun ELSE pend[t]]
      /\ active' = [t \in Targets |-> IF t \in go THEN pend[t] ELSE act[t]]
      /\ phase' = [t \in Targets |->
                      IF t \in go THEN "running"
                      ELSE IF act[t] = NoRun THEN "idle" ELSE phase[t]]
  BY DEF Pump
<1> HIDE DEF go
<1>10. /\ Ids(pending') = [t \in Targets |-> IF t \in go THEN {} ELSE W[t]]
       /\ Ids(active') = [t \in Targets |-> IF t \in go THEN W[t] ELSE X[t]]
  <2>1. \A t \in Targets :
           /\ IdOf(pending'[t]) = IF t \in go THEN {} ELSE W[t]
           /\ IdOf(active'[t]) = IF t \in go THEN W[t] ELSE X[t]
    BY <1>4, <1>9, IdsTell
  <2>. QED  BY <2>1 DEF Ids
<1>11. {t \in Targets : phase'[t] \in Approved}
          = {t \in Targets : phase[t] \in Approved} \cap busy
  BY <1>1, <1>9 DEF Approved
<1>12. draining # "none" => go = {}
  BY <1>1
<1>13. draining = "none" /\ go # Ledger!Startable(W, X)
          => Cardinality(busy \cup go) = Slots
  <2>1. CASE observing
    BY <1>1, <1>2, <1>6, <1>8, <2>1
  <2>2. CASE ~observing
    <3>1. \A t \in Targets : pend[t] = NoRun
      BY <2>2
    <3>2. Ledger!Startable(W, X) = {} /\ go = {}
      BY <1>1, <1>6, <2>2, <3>1
    <3>. QED  BY <3>2
  <2>. QED  BY <2>1, <2>2
<1>14. Cardinality(busy \cup go) <= Slots
  BY <1>3, <1>8
<1>15. Ledger!Cardinality(busy \cup go) = Cardinality(busy \cup go)
  BY SameCardinality
<1> HIDE DEF busy, E, W, X
<1>16. Ledger!Begin(W, X)
  BY <1>5, <1>7, <1>10, <1>11, <1>12, <1>13, <1>14, <1>15 DEF Ledger!Begin
<1>. QED  BY <1>16 DEF W, X

\* Initially the ledger is empty.
LEMMA InitLedger == Init => Ledger!Init
<1> SUFFICES ASSUME Init PROVE Ledger!Init
  OBVIOUS
<1>1. /\ draining = "none" /\ runs = [t \in Targets |-> 0]
      /\ reported = [t \in Targets |-> {}]
      /\ \A t \in Targets : /\ pending[t] = NoRun /\ active[t] = NoRun
                            /\ phase[t] = "idle" /\ persisted[t] = <<>>
  BY DEF Init
<1>2. /\ Ids(pending) = [t \in Targets |-> {}]
      /\ Ids(active) = [t \in Targets |-> {}]
  BY <1>1, IdsTell DEF Ids
<1>3. {t \in Targets : phase[t] \in Approved} = {}
  BY <1>1 DEF Approved
<1>4. SavedIds(persisted) = [t \in Targets |-> {}]
  <2>1. \A t \in Targets : IdsIn(persisted[t]) = {}
    BY <1>1 DEF IdsIn
  <2>. QED  BY <2>1 DEF SavedIds
<1>. QED  BY <1>1, <1>2, <1>3, <1>4 DEF Ledger!Init

\* The end of a run frees its slot, and the next runs begin.
LEMMA SettleBegins ==
  ASSUME DrainInv, NEW t \in Targets, active[t] # NoRun, Settle(t)
  PROVE  /\ Ledger!Begin(Ids(pending), Ids([active EXCEPT ![t] = NoRun]))
         /\ UNCHANGED runs
         /\ (draining' # "none") = (draining # "none")
<1> USE DEF DrainInv, SlotInv
<1> DEFINE act  == [active EXCEPT ![t] = NoRun]
           n    == activeSlots - 1
           busy == {u \in Targets : act[u] # NoRun}
<1>1. act \in [Targets -> Run \cup {NoRun}]
  BY DEF SlotPart, SlotTypeOK
<1>2. busy = Running \ {t} /\ t \in Running
  BY DEF SlotPart, SlotTypeOK, Running
<1>3. IsFiniteSet(Running)
  <2>1. Running \in SUBSET Targets
    BY DEF Running
  <2>. QED  BY <2>1, FS_Subset, TargetsAssumption
<1>4. Cardinality(busy) = n
  BY <1>2, <1>3, FS_RemoveElement DEF SlotPart, SlotsExact
<1>5. n \in Nat /\ n <= Slots
  <2>1. Cardinality(busy) \in Nat
    <3>1. IsFiniteSet(busy)
      BY <1>2, <1>3, FS_RemoveElement
    <3> HIDE DEF busy
    <3>. QED  BY <3>1, FS_CardinalityType
  <2>. QED  BY <1>4, <2>1, SlotsPositive DEF SlotPart, SlotTypeOK
<1>6. Pump(pending, act, canceled, n, queue, ahead)
  BY DEF Settle
<1>7. n = Cardinality({u \in Targets : act[u] # NoRun})
  BY <1>4
<1> HIDE DEF act, n, busy
<1>8. Ready(pending, act, n, queue, ahead)
  BY <1>1, <1>5, <1>7 DEF Ready, SlotPart, SlotTypeOK, QueueMatches, DrainPart
<1>9. Ledger!Begin(Ids(pending), Ids(act))
  BY <1>6, <1>8, PumpBegins DEF Ledger!Begin
<1>10. UNCHANGED runs /\ (draining' # "none") = (draining # "none")
  BY DEF Settle, FinishDrainIfIdle
<1>. QED  BY <1>9, <1>10 DEF act

\* What the ids say about a run that executes.
LEMMA ExecutingIds ==
  ASSUME OrderInv, NEW t \in Targets, active[t] # NoRun
  PROVE  /\ Ids(active)[t] = {active[t].id}
         /\ active[t].id \in reported[t] <=> canceled[t]
         /\ \A c \in 1 .. Len(persisted[t]) : persisted[t][c].id < active[t].id
BY DEF Ids, IdOf, OrderInv, IdPart, IdsOk

\* A step that touches nothing of the ledger.
LEMMA LedgerStutters ==
  ASSUME UNCHANGED <<runs, pending, active, reported, persisted>>,
         (draining' # "none") = (draining # "none"),
         {t \in Targets : phase'[t] \in Approved}
            = {t \in Targets : phase[t] \in Approved}
  PROVE  UNCHANGED Ledger!vars
BY DEF Ledger!vars, Ids, SavedIds

\* Every step of the mediator is a step of the ledger, or none of its business.
LEMMA StepsImplement ==
  OrderInv /\ [Next]_vars => [Ledger!Next]_(Ledger!vars)
<1> SUFFICES ASSUME OrderInv, [Next]_vars
             PROVE  Ledger!Next \/ UNCHANGED Ledger!vars
  OBVIOUS
<1> USE DEF OrderInv, DrainInv
<1> DEFINE Goal == Ledger!Next \/ UNCHANGED Ledger!vars
<1> HIDE DEF Goal
<1>0. /\ phase \in [Targets -> RunPhases] /\ runs \in [Targets -> Nat]
      /\ pending \in [Targets -> Run \cup {NoRun}]
      /\ active \in [Targets -> Run \cup {NoRun}]
      /\ reported \in [Targets -> SUBSET Nat]
      /\ persisted \in [Targets -> Seq(Commit)]
  BY DEF SlotInv, SlotPart, SlotTypeOK, FactTypeOK
<1>p. Ready(pending, active, activeSlots, queue, ahead)
  BY SlotsPositive
  DEF Ready, SlotInv, SlotPart, SlotTypeOK, DrainPart, SlotsExact, Running,
      QueueMatches
<1>o. observing => draining = "none"
  BY DEF DrainPart
<1>1. ASSUME UNCHANGED <<runs, pending, active, reported, persisted, phase>>,
             (draining' # "none") = (draining # "none")
      PROVE  Goal
  BY <1>1, LedgerStutters DEF Goal
<1>2. ASSUME NEW t \in Targets,
             \/ Edit(t) \/ Hint(t) \/ StartScan(t) \/ TimerFires(t)
             \/ RescanReads(t) \/ StableReads(t) \/ RunReads(t)
      PROVE  Goal
  BY <1>1, <1>2 DEF Edit, Hint, StartScan, TimerFires, RescanReads, StableReads,
     RunReads, slots, facts
<1>3. ASSUME HintAll \/ Start \/ UNCHANGED vars
      PROVE  Goal
  BY <1>1, <1>3 DEF HintAll, Start, vars, slots, facts
<1>4. ASSUME NEW t \in Targets, RescanIgnored(t) \/ RescanUnstable(t)
      PROVE  Goal
  <2>1. UNCHANGED <<slots, runs, reported, persisted>>
    BY <1>4 DEF RescanIgnored, RescanUnstable, RescanEnds
  <2>2. (draining' # "none") = (draining # "none")
    BY <1>4 DEF RescanIgnored, RescanUnstable, RescanEnds, FinishDrainIfIdle
  <2>. QED  BY <1>1, <2>1, <2>2 DEF slots
<1>5. ASSUME NEW t \in Targets, CheckReads(t) \/ CommitBegins(t)
      PROVE  Goal
  <2>1. UNCHANGED <<runs, pending, active, reported, persisted, draining>>
    BY <1>5 DEF CheckReads, CommitBegins, facts
  <2>2. {u \in Targets : phase'[u] \in Approved}
           = {u \in Targets : phase[u] \in Approved}
    BY <1>0, <1>5 DEF CheckReads, CommitBegins, Approved
  <2>. QED  BY <2>1, <2>2, LedgerStutters DEF Goal
<1>6. ASSUME NEW t \in Targets, RunResolves(t)
      PROVE  Goal
  <2>1. /\ observing /\ ~canceled[t] /\ active[t] # NoRun
        /\ UNCHANGED <<runs, pending, active, reported, persisted, draining>>
        /\ phase' = [phase EXCEPT ![t] = "checking"]
    BY <1>6 DEF RunResolves, MayCommit, facts, SlotInv, SlotPart, PhasesMatch
  <2>2. Ids(active)[t] # {} /\ Ids(active)[t] \cap reported[t] = {}
    BY <2>1, ExecutingIds
  <2>3. {u \in Targets : phase'[u] \in Approved}
           = {u \in Targets : phase[u] \in Approved} \cup {t}
    BY <1>0, <2>1 DEF Approved
  <2>4. Ids(pending)' = Ids(pending) /\ Ids(active)' = Ids(active)
        /\ SavedIds(persisted)' = SavedIds(persisted)
    BY <2>1 DEF Ids, SavedIds
  <2>5. draining = "none" /\ (draining' # "none") = (draining # "none")
    BY <1>o, <2>1
  <2>6. Ledger!Approve(t)
    BY <2>1, <2>2, <2>3, <2>4, <2>5 DEF Ledger!Approve
  <2>. QED  BY <2>6 DEF Goal, Ledger!Next
<1>7. ASSUME NEW t \in Targets, StartPlace(t)
      PROVE  Goal
  <2>1. UNCHANGED <<active, phase, persisted, draining>>
    BY <1>7 DEF StartPlace
  <2>2. CASE ~observing
    BY <1>1, <1>7, <2>1, <2>2 DEF StartPlace
  <2>3. CASE observing
    <3> DEFINE run == NewRun(t, generation[t], "initial", first[t])
    <3>1. /\ pending' = [pending EXCEPT ![t] = run]
          /\ reported' = [reported EXCEPT ![t] = @ \cup IdOf(pending[t])]
          /\ runs' = [runs EXCEPT ![t] = @ + 1]
      BY <1>7, <2>3 DEF StartPlace
    <3>2. run \in Run /\ run.id = runs[t] + 1
      BY <1>0 DEF NewRun, Run, SlotInv, EnvTypeOK, StateTypeOK
    <3> HIDE DEF run
    <3>3. IdOf(run) = {runs[t] + 1}
      BY <3>2, NoRunAssumption DEF IdOf
    <3>4. Ids(pending') = [Ids(pending) EXCEPT ![t] = {runs[t] + 1}]
      <4>1. \A u \in Targets : IdOf(pending'[u])
                                 = IF u = t THEN {runs[t] + 1} ELSE IdOf(pending[u])
        BY <1>0, <3>1, <3>3
      <4>. QED  BY <4>1 DEF Ids
    <3>5. reported' = [reported EXCEPT ![t] = @ \cup Ids(pending)[t]]
      BY <3>1 DEF Ids
    <3>6. /\ Ids(active)' = Ids(active)
          /\ SavedIds(persisted)' = SavedIds(persisted)
          /\ {u \in Targets : phase'[u] \in Approved}
                = {u \in Targets : phase[u] \in Approved}
      BY <2>1 DEF Ids, SavedIds
    <3>7. draining = "none" /\ (draining' # "none") = (draining # "none")
      BY <1>o, <2>1, <2>3
    <3>8. Ledger!Place(t)
      BY <3>1, <3>4, <3>5, <3>6, <3>7 DEF Ledger!Place
    <3>. QED  BY <3>8 DEF Goal, Ledger!Next
  <2>. QED  BY <2>2, <2>3
<1>8. CASE StartPump
  <2>1. /\ Pump(pending, active, canceled, activeSlots, queue, ahead)
        /\ UNCHANGED <<draining, runs, reported, persisted>>
    BY <1>8 DEF StartPump, facts
  <2>2. Ledger!Begin(Ids(pending), Ids(active))
    BY <1>p, <2>1, PumpBegins DEF Ledger!Begin
  <2>3. SavedIds(persisted)' = SavedIds(persisted)
    BY <2>1 DEF SavedIds
  <2>4. Ledger!BeginWaiting
    BY <2>1, <2>2, <2>3 DEF Ledger!BeginWaiting
  <2>. QED  BY <2>4 DEF Goal, Ledger!Next
<1>9. ASSUME NEW t \in Targets, RescanConfirms(t)
      PROVE  Goal
  <2> DEFINE run    == NewRun(t, NextGeneration(generation[t]), "change", seen[t])
             pend   == [pending EXCEPT ![t] = run]
             cancel == [canceled EXCEPT ![t] = TRUE]
             q      == queue \cup {t}
             W      == [Ids(pending) EXCEPT ![t] = {runs[t] + 1}]
             ah     == EnqueuedAhead(t)
  <2>1. /\ Pump(pend, active, cancel, activeSlots, q, ah)
        /\ observing /\ UNCHANGED persisted
        /\ runs' = [runs EXCEPT ![t] = @ + 1]
        /\ reported' = [reported EXCEPT ![t] = @ \cup CanceledRuns(t)]
    BY <1>9 DEF RescanConfirms, RescanEnds
  <2>2. draining = "none" /\ UNCHANGED draining
    BY <1>o, <1>9 DEF RescanConfirms, RescanEnds, FinishDrainIfIdle
  <2>3. run \in Run /\ run.id = runs[t] + 1
    BY <1>0 DEF NewRun, NextGeneration, Run, SlotInv, StateTypeOK
  <2> HIDE DEF run
  <2>4. IdOf(run) = {runs[t] + 1} /\ run # NoRun
    BY <2>3, NoRunAssumption DEF IdOf
  <2>5. /\ pend \in [Targets -> Run \cup {NoRun}]
        /\ \A u \in Targets : u \in q <=> pend[u] # NoRun
        /\ q \in SUBSET Targets
    BY <1>p, <2>3, <2>4 DEF Ready
  <2>6. Ids(pend) = W
    <3>1. \A u \in Targets : IdOf(pend[u])
                               = IF u = t THEN {runs[t] + 1} ELSE IdOf(pending[u])
      BY <1>0, <2>4
    <3> HIDE DEF pend
    <3>. QED  BY <3>1 DEF Ids
  <2>7. ah \in [Targets -> SUBSET Targets] /\ Ordered(q, ah)
    BY EnqueueKeeps DEF SlotInv
  <2> HIDE DEF pend, cancel, q, ah, W
  <2>8. Ready(pend, active, activeSlots, q, ah)
    BY <1>p, <2>1, <2>5, <2>7 DEF Ready
  <2>9. Ledger!Begin(W, Ids(active))
    <3>1. Ledger!Begin(Ids(pend), Ids(active))
      BY <2>1, <2>8, PumpBegins DEF Ledger!Begin
    <3>. QED  BY <2>6, <3>1
  <2>10. reported' = [reported EXCEPT
                        ![t] = @ \cup Ids(pending)[t] \cup Ids(active)[t]]
    BY <1>0, <2>1 DEF CanceledRuns, Ids
  <2>11. SavedIds(persisted)' = SavedIds(persisted)
    BY <2>1 DEF SavedIds
  <2>12. Ledger!Supersede(t)
    BY <2>1, <2>2, <2>9, <2>10, <2>11 DEF Ledger!Supersede, W
  <2>. QED  BY <2>12 DEF Goal, Ledger!Next
<1>10. ASSUME NEW t \in Targets, Ends(t)
      PROVE  Goal
  <2> DEFINE X == [Ids(active) EXCEPT ![t] = {}]
  <2>1. active[t] \in Run /\ active[t] # NoRun /\ Settle(t)
    BY <1>10, EndSettles
  <2>2. /\ Ledger!Begin(Ids(pending), X)
        /\ UNCHANGED runs
        /\ (draining' # "none") = (draining # "none")
    <3> DEFINE act == [active EXCEPT ![t] = NoRun]
    <3>1. Ids(act) = X
      <4>1. \A u \in Targets : IdOf(act[u]) = IF u = t THEN {} ELSE IdOf(active[u])
        BY <1>0, IdsTell
      <4> HIDE DEF act
      <4>. QED  BY <4>1 DEF Ids
    <3>2. /\ Ledger!Begin(Ids(pending), Ids(act))
          /\ UNCHANGED runs
          /\ (draining' # "none") = (draining # "none")
      BY <2>1, SettleBegins
    <3> HIDE DEF act, X
    <3>3. Ledger!Begin(Ids(pending), X)
      <4> DEFINE W == Ids(pending)
                 Y == Ids(act)
      <4>1. Y = X
        BY <3>1
      <4> HIDE DEF W, Y
      <4>2. /\ Ledger!Startable(W, Y) = Ledger!Startable(W, X)
            /\ Ledger!Busy(Y) = Ledger!Busy(X)
        BY <4>1 DEF Ledger!Startable, Ledger!Busy
      <4>3. [u \in Targets |-> Y[u]] = [u \in Targets |-> X[u]]
        BY <4>1
      <4>4. Ledger!Begin(W, Y)
        BY <3>2 DEF W, Y
      <4>5. Ledger!Begin(W, X)
        <5>1. PICK go \in SUBSET Ledger!Startable(W, Y) : Ledger!Begin(W, Y)!(go)
          BY <4>4 DEF Ledger!Begin
        <5>2. Ledger!Busy(Y) \cup go = Ledger!Busy(X) \cup go
          BY <4>2
        <5>3. Ledger!Cardinality(Ledger!Busy(Y) \cup go)
                = Ledger!Cardinality(Ledger!Busy(X) \cup go)
          BY <5>2
        <5>4. Ledger!Begin(W, X)!(go)
          BY <4>1, <4>2, <5>1, <5>3
        <5>. QED  BY <4>2, <5>4 DEF Ledger!Begin
      <4>. QED  BY <4>5 DEF W
    <3>. QED  BY <3>2, <3>3
  <2>3. Ids(active)[t] = {active[t].id}
    BY <2>1, ExecutingIds
  <2>4. CASE CommitResolves(t)
    <3> DEFINE c == [id         |-> active[t].id,
                     generation |-> active[t].generation,
                     snapshot   |-> active[t].snapshot,
                     inputs     |-> inputs[t]]
               s == persisted[t]
               after == Append(s, c)
    <3>1. UNCHANGED reported /\ t \in {u \in Targets : phase[u] \in Approved}
      BY <2>4 DEF CommitResolves, Approved
    <3>2. persisted' = [persisted EXCEPT ![t] = after]
      BY <2>4 DEF CommitResolves
    <3>3. c \in Commit /\ c.id = active[t].id
      BY <2>1 DEF Run, Commit, SlotInv, SlotPart, SlotTypeOK
    <3>4. s \in Seq(Commit) /\ DOMAIN s = 1 .. Len(s)
      BY <1>0
    <3> HIDE DEF c
    <3>5. SavedIds(persisted)[t] = IdsIn(s)
      BY DEF SavedIds
    <3>6. \A i \in SavedIds(persisted)[t], j \in Ids(active)[t] : i < j
      <4>1. \A k \in DOMAIN s : s[k].id < active[t].id
        BY <2>1, <3>4, ExecutingIds
      <4>. QED  BY <2>3, <3>5, <4>1 DEF IdsIn
    <3>7. IdsIn(after) = IdsIn(s) \cup {c.id}
      <4>1. /\ Len(after) = Len(s) + 1 /\ Len(s) \in Nat
            /\ \A i \in 1 .. Len(s) : after[i] = s[i]
            /\ after[Len(s) + 1] = c
        BY <3>3, <3>4, AppendedEntries
      <4>2. DOMAIN after = 1 .. (Len(s) + 1)
        BY <3>3, <3>4
      <4> HIDE DEF s, after
      <4>. QED  BY <3>4, <4>1, <4>2 DEF IdsIn
    <3> HIDE DEF after
    <3>8. SavedIds(persisted') = [SavedIds(persisted) EXCEPT ![t] = @ \cup Ids(active)[t]]
      <4>1. /\ persisted'[t] = after
            /\ \A u \in Targets : u # t => persisted'[u] = persisted[u]
        BY <1>0, <3>2
      <4>2. SavedIds(persisted')[t] = SavedIds(persisted)[t] \cup Ids(active)[t]
        BY <2>3, <3>3, <3>5, <3>7, <4>1 DEF SavedIds
      <4>3. \A u \in Targets : u # t => SavedIds(persisted')[u] = SavedIds(persisted)[u]
        BY <4>1 DEF SavedIds
      <4>. QED  BY <4>2, <4>3 DEF SavedIds
    <3>9. Ledger!Commit(t)
      BY <2>2, <3>1, <3>6, <3>8 DEF Ledger!Commit
    <3>. QED  BY <3>9 DEF Goal, Ledger!Next
  <2>5. CASE ~CommitResolves(t)
    <3>1. /\ reported' = [reported EXCEPT ![t] = @ \cup IdOf(active[t])]
          /\ UNCHANGED persisted
      BY <1>10, <2>5 DEF Ends, RunIsStale, RunRejects, CheckFails, CommitRejects,
         Discard
    <3>2. reported' = [reported EXCEPT ![t] = @ \cup Ids(active)[t]]
      BY <3>1 DEF Ids
    <3>3. Ids(active)[t] # {} /\ SavedIds(persisted)' = SavedIds(persisted)
      BY <2>3, <3>1 DEF SavedIds
    <3>4. Ledger!Discard(t)
      BY <2>2, <3>2, <3>3 DEF Ledger!Discard
    <3>. QED  BY <3>4 DEF Goal, Ledger!Next
  <2>. QED  BY <2>4, <2>5
<1>11. CASE Drain
  <2>1. /\ draining = "none" /\ draining' = "waiting"
        /\ UNCHANGED <<runs, active, phase, persisted>>
        /\ reported' = [t \in Targets |-> reported[t] \cup CanceledRuns(t)]
        /\ pending' = [t \in Targets |-> NoRun]
    BY <1>11 DEF Drain
  <2>2. Ids(pending') = [t \in Targets |-> {}]
    BY <2>1, IdsTell DEF Ids
  <2>3. reported' = [t \in Targets |->
                       reported[t] \cup Ids(pending)[t] \cup Ids(active)[t]]
    BY <2>1 DEF CanceledRuns, Ids
  <2>4. /\ Ids(active)' = Ids(active)
        /\ SavedIds(persisted)' = SavedIds(persisted)
        /\ {u \in Targets : phase'[u] \in Approved}
              = {u \in Targets : phase[u] \in Approved}
    BY <2>1 DEF Ids, SavedIds
  <2>5. Ledger!Close
    BY <2>1, <2>2, <2>3, <2>4 DEF Ledger!Close
  <2>. QED  BY <2>5 DEF Goal, Ledger!Next
<1>12. Goal
  <2>1. CASE HintAll \/ Start \/ UNCHANGED vars
    BY <1>3, <2>1
  <2>2. CASE StartPump
    BY <1>8, <2>2 DEF Goal
  <2>3. CASE Drain
    BY <1>11, <2>3 DEF Goal
  <2>4. CASE \E t \in Targets :
               Quiet(t) \/ StartPlace(t) \/ RescanConfirms(t) \/ Ends(t)
    <3>1. PICK t \in Targets :
             Quiet(t) \/ StartPlace(t) \/ RescanConfirms(t) \/ Ends(t)
      BY <2>4
    <3>2. CASE Quiet(t)
      BY <1>2, <1>4, <1>5, <1>6, <3>2 DEF Quiet
    <3>. QED  BY <1>7, <1>9, <1>10, <3>1, <3>2
  <2>. QED  BY <2>1, <2>2, <2>3, <2>4, StepCases
<1>. QED  BY <1>12 DEF Goal

\* The mediator keeps the ledger's promises, for every number of targets, slots
\* and edits: runs wait, execute, are superseded, committed and told canceled as
\* written in RunLedger, and in no other way.
THEOREM MediatorKeepsLedger == Spec => ImplementsLedger
<1>. QED
  BY InitLedger, StepsImplement, OrderInvariant, PTL
  DEF Spec, ImplementsLedger, Ledger!Spec
=============================================================================
