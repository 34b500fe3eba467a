--------------------------- MODULE TestRunProofs ---------------------------
(***************************************************************************)
(* Theorems about one test run, for any number of jobs and cases, whatever *)
(* the cases do and whenever the user interrupts.                          *)
(*                                                                         *)
(* RunInv is inductive.  Until a signal arrives every claimed case is      *)
(* recorded or in some worker's hands (ClaimPart), so a pool that comes to *)
(* rest without one has recorded every case; only from there does the      *)
(* command go on to the store, and nothing changes the results after that. *)
(* Pool, command, store and drain never wait for each other in a circle.   *)
(***************************************************************************)
EXTENDS TestRun, TLAPS

\* The initial state satisfies the invariant.
LEMMA InitRunInv == Init => RunInv
<1> SUFFICES ASSUME Init PROVE RunInv
  OBVIOUS
<1> USE JobsAssumption, CasesAssumption
<1>1. 1 \in Workers
  BY DEF Workers
<1>2. TypeOK
  <2>1. /\ stage \in [Workers -> Stages] /\ ordinal \in [Workers -> Nat]
        /\ \A w \in Workers : stage[w] = "idle"
        /\ completed \in [Cases -> Statuses \cup {"none"}]
    BY DEF Init, Stages
  <2>2. answer \in [status : Codes, artifact : BOOLEAN, saved : BOOLEAN]
    BY DEF Init, NoAnswer, AnswerOf, Codes
  <2>3. rows \in [{"run"} -> 0 .. 1] /\ told \in [{"run"} -> Store!Outcomes]
    BY DEF Init, Store!Init, Store!Outcomes
  <2>4. /\ phase \in Phases /\ handled \in Codes /\ artifact \in {"none", "written", "failed"}
        /\ leased \in BOOLEAN /\ signal \in BOOLEAN /\ storeOpen \in BOOLEAN
    BY DEF Init, Phases, Codes
  <2>5. \A w \in Workers : stage[w] \in {"running", "threw"} => ordinal[w] < loaded
    BY <2>1
  <2>6. outcome \in [Cases -> Outcomes]
    BY DEF Init
  <2>7. loaded \in 0 .. CaseCount /\ nextOrdinal \in 0 .. loaded
    BY DEF Init
  <2> QED
    BY <2>1, <2>2, <2>3, <2>4, <2>5, <2>6, <2>7 DEF TypeOK
<1>3. LoadedPart /\ ClaimPart
  BY <1>1 DEF Init, LoadedPart, ClaimPart, Started, Cases
<1>4. StorePart /\ HandledPart /\ LifePart /\ AnswerIsTrue
  BY DEF Init, StorePart, HandledPart, LifePart, AnswerIsTrue, Statuses, Store!Init
<1> QED
  BY <1>2, <1>3, <1>4 DEF RunInv

\* The order of severity.
LEMMA RankValues ==
    /\ Rank["stopped"] = 1 /\ Rank["protocol_error"] = 2
    /\ Rank["wrong_answer"] = 5 /\ Rank["passed"] = 6
BY DEF Rank, Statuses

\* aggregateStatus() returns the most severe status among the results.
LEMMA AggregateWorst ==
    ASSUME TypeOK
    PROVE  /\ Aggregate \in Statuses
           /\ \A c \in Results : Rank[Aggregate] <= Rank[completed[c]]
<1>1. CASE Results = {}
  BY <1>1 DEF Aggregate, Statuses
<1>2. CASE Results # {}
  <2> DEFINE Worst(s) == /\ \E c \in Results : completed[c] = s
                         /\ \A c \in Results : Rank[s] <= Rank[completed[c]]
  <2>1. \A c \in Results : completed[c] \in Statuses
    BY DEF TypeOK, Results
  <2>2. \E s \in Statuses : Worst(s)
    <3>1. CASE \E c \in Results : completed[c] = "stopped"
      <4>1. Worst("stopped")
        BY <2>1, <3>1, RankValues DEF Statuses
      <4> QED
        BY <4>1 DEF Statuses
    <3>2. CASE /\ ~ \E c \in Results : completed[c] = "stopped"
               /\ \E c \in Results : completed[c] = "protocol_error"
      <4>1. Worst("protocol_error")
        BY <2>1, <3>2, RankValues DEF Statuses
      <4> QED
        BY <4>1 DEF Statuses
    <3>3. CASE /\ ~ \E c \in Results : completed[c] \in {"stopped", "protocol_error"}
               /\ \E c \in Results : completed[c] = "wrong_answer"
      <4>1. Worst("wrong_answer")
        BY <2>1, <3>3, RankValues DEF Statuses
      <4> QED
        BY <4>1 DEF Statuses
    <3>4. CASE \A c \in Results : completed[c] = "passed"
      <4>1. Worst("passed")
        BY <1>2, <3>4, RankValues
      <4> QED
        BY <4>1 DEF Statuses
    <3> QED
      BY <2>1, <3>1, <3>2, <3>3, <3>4 DEF Statuses
  <2>3. Aggregate = CHOOSE s \in Statuses : Worst(s)
    BY <1>2 DEF Aggregate
  <2> QED
    BY <2>2, <2>3
<1> QED
  BY <1>1, <1>2

\* The worker's next claim, if it makes one, is a case below the last one loaded.
LEMMA LoopType ==
    ASSUME TypeOK, NEW w \in Workers, Loop(w)
    PROVE  /\ stage' \in [Workers -> Stages] /\ ordinal' \in [Workers -> Nat]
           /\ nextOrdinal' \in 0 .. loaded
           /\ \A v \in Workers : stage'[v] \in {"running", "threw"} => ordinal'[v] < loaded
<1> USE JobsAssumption, CasesAssumption DEF Stages, Claimed
<1>1. CASE signal \/ nextOrdinal >= loaded
  BY <1>1 DEF Loop, TypeOK
<1>2. CASE ~(signal \/ nextOrdinal >= loaded)
  <2>1. /\ ordinal' = [ordinal EXCEPT ![w] = nextOrdinal]
        /\ nextOrdinal' = nextOrdinal + 1
        /\ stage' = [stage EXCEPT ![w] = Claimed(nextOrdinal)]
    BY <1>2 DEF Loop
  <2> QED
    BY <1>2, <2>1 DEF TypeOK
<1> QED
  BY <1>1, <1>2

\* Every step keeps the types.
LEMMA TypeStep == RunInv /\ [Next]_vars => TypeOK'
<1> SUFFICES ASSUME RunInv, [Next]_vars PROVE TypeOK'
  OBVIOUS
<1> USE JobsAssumption, CasesAssumption
<1>0. TypeOK
  BY DEF RunInv
<1>1. CASE Load
  BY <1>0, <1>1 DEF Load, Finishes, TypeOK, Phases, Codes, life
<1>2. CASE PrepareFails
  BY <1>0, <1>2 DEF PrepareFails, Finishes, TypeOK, Phases, Codes, work, life
<1>3. CASE StartPool
  BY <1>0, <1>3 DEF StartPool, Claimed, TypeOK, Phases, Stages, Workers, life
<1>4. CASE PoolFails
  BY <1>0, <1>4 DEF PoolFails, Finishes, TypeOK, Phases, Codes, work, life
<1>5. CASE PoolCanceled
  BY <1>0, <1>5 DEF PoolCanceled, Finishes, TypeOK, Phases, Codes, work, life
<1>6. CASE PoolEnds
  <2>1. handled' \in Codes
    BY <1>0, <1>6, AggregateWorst DEF PoolEnds, Codes
  <2>2. phase' \in Phases
    BY <1>6 DEF PoolEnds, Phases
  <2> QED
    BY <1>0, <1>6, <2>1, <2>2 DEF PoolEnds, TypeOK, work, life
<1>7. CASE WriteArtifact
  BY <1>0, <1>7 DEF WriteArtifact, TypeOK, Phases, work, life
<1>8. CASE ReadSource
  BY <1>0, <1>8 DEF ReadSource, TypeOK, Phases, work, life, Store!Submit, Store!Outcomes
<1>9. CASE Settle
  BY <1>0, <1>9 DEF Settle, TypeOK, Phases, work, life, Store!Resolve, Store!Reject,
                    Store!Outcomes
<1>10. CASE Apply
  BY <1>0, <1>10 DEF Apply, TypeOK, work, life, Store!Apply
<1>11. CASE Complete
  BY <1>0, <1>11 DEF Complete, TypeOK, Phases, work
<1>12. CASE CleanUp
  BY <1>0, <1>12 DEF CleanUp, TypeOK, work
<1>13. CASE Render
  BY <1>0, <1>13 DEF Render, AnswerOf, TypeOK, Phases, Codes, work
<1>14. CASE Signal
  BY <1>0, <1>14 DEF Signal, TypeOK, work
<1>15. ASSUME NEW w \in Workers, RunEnds(w) PROVE TypeOK'
  <2>1. stage[w] = "running" /\ ordinal[w] \in Cases /\ outcome[ordinal[w]] \in Statuses
    BY <1>0, <1>15 DEF RunEnds, RunInv, LoadedPart, TypeOK, Cases
  <2>2. completed' \in [Cases -> Statuses \cup {"none"}]
    BY <1>0, <1>15, <2>1 DEF RunEnds, TypeOK
  <2>3. /\ stage' \in [Workers -> Stages] /\ ordinal' \in [Workers -> Nat]
        /\ nextOrdinal' \in 0 .. loaded
        /\ \A v \in Workers : stage'[v] \in {"running", "threw"} => ordinal'[v] < loaded
    BY <1>0, <1>15, LoopType DEF RunEnds
  <2> QED
    BY <1>0, <1>15, <2>2, <2>3 DEF RunEnds, TypeOK, life
<1>16. CASE UNCHANGED vars
  BY <1>0, <1>16 DEF TypeOK, vars, work, life
<1>17. ASSUME NEW w \in Workers, RunThrows(w) PROVE TypeOK'
  BY <1>0, <1>17 DEF RunThrows, TypeOK, Stages, life
<1> QED
  BY <1>1, <1>2, <1>3, <1>4, <1>5, <1>6, <1>7, <1>8, <1>9, <1>10, <1>11, <1>12, <1>13,
     <1>14, <1>15, <1>16, <1>17 DEF Next, Command

\* What a step other than Load, StartPool, RunEnds and RunThrows may not touch.
LEMMA PoolFrame ==
    ASSUME [Next]_vars, ~Load, ~StartPool,
           \A w \in Workers : ~RunEnds(w) /\ ~RunThrows(w)
    PROVE  UNCHANGED <<outcome, work>>
BY DEF Next, Command, PrepareFails, PoolFails, PoolCanceled, PoolEnds, WriteArtifact,
       ReadSource, Settle, Apply, Complete, CleanUp, Render, Signal, vars, work

\* The phases that a step other than those four may lead to.
LEMMA PhaseFrame ==
    ASSUME [Next]_vars, ~Load, ~StartPool,
           \A w \in Workers : ~RunEnds(w) /\ ~RunThrows(w)
    PROVE  /\ phase' = "loading" => phase = "loading"
           /\ phase' \in {"pool", "artifact", "reading", "committing"} =>
                 phase \in {"pool", "artifact", "reading", "committing"}
           /\ ~signal' => ~signal
<1>1. CASE PrepareFails \/ PoolFails \/ PoolCanceled
  BY <1>1 DEF PrepareFails, PoolFails, PoolCanceled, Finishes, life
<1>2. CASE PoolEnds \/ WriteArtifact
  BY <1>2 DEF PoolEnds, WriteArtifact, life
<1>3. CASE ReadSource \/ Settle \/ Apply
  BY <1>3 DEF ReadSource, Settle, Apply, life
<1>4. CASE Complete
  BY <1>4 DEF Complete
<1>5. CASE CleanUp
  BY <1>5 DEF CleanUp
<1>6. CASE Render
  BY <1>6 DEF Render
<1>7. CASE Signal
  BY <1>7 DEF Signal
<1>8. CASE UNCHANGED vars
  BY <1>8 DEF vars, life
<1> QED
  BY <1>1, <1>2, <1>3, <1>4, <1>5, <1>6, <1>7, <1>8 DEF Next, Command

\* What runs stays within the input limit.
LEMMA LoadedStep == RunInv /\ [Next]_vars => LoadedPart'
<1> SUFFICES ASSUME RunInv, [Next]_vars PROVE LoadedPart'
  OBVIOUS
<1> USE JobsAssumption, CasesAssumption
<1>0. TypeOK /\ LoadedPart
  BY DEF RunInv
<1>1. CASE Load
  BY <1>0, <1>1 DEF Load, Finishes, LoadedPart, Started, TypeOK, Cases
<1>2. CASE StartPool
  <2>1. \A w \in Workers : stage'[w] = "running" =>
          /\ stage'[w] = Claimed(w - 1) /\ ordinal'[w] = w - 1 /\ w - 1 \in Cases
          /\ w - 1 < loaded
    BY <1>0, <1>2 DEF StartPool, TypeOK, Workers, Cases
  <2>2. \A w \in Workers : stage'[w] = "running" => outcome[ordinal'[w]] \in Statuses
    BY <1>0, <2>1 DEF Claimed, LoadedPart, TypeOK, Outcomes
  <2>3. Started'
    BY <1>2 DEF StartPool, Started, Claimed
  <2> QED
    BY <1>0, <1>2, <2>2, <2>3 DEF StartPool, LoadedPart
<1>3. ASSUME NEW w \in Workers, RunEnds(w) PROVE LoadedPart'
  <2>1. \A v \in Workers : stage'[v] = "running" => outcome[ordinal'[v]] \in Statuses
    <3>1. CASE signal \/ nextOrdinal >= loaded
      BY <1>0, <1>3, <3>1 DEF RunEnds, Loop, LoadedPart, TypeOK
    <3>2. CASE ~(signal \/ nextOrdinal >= loaded)
      <4>1. nextOrdinal \in Cases /\ nextOrdinal < loaded
        BY <1>0, <3>2 DEF TypeOK, Cases
      <4>2. stage'[w] = "running" => outcome[nextOrdinal] \in Statuses
        BY <1>0, <1>3, <3>2, <4>1
           DEF RunEnds, Loop, Claimed, LoadedPart, TypeOK, Outcomes
      <4> QED
        BY <1>0, <1>3, <3>2, <4>2 DEF RunEnds, Loop, LoadedPart, TypeOK
    <3> QED
      BY <3>1, <3>2
  <2>2. \A v \in Workers : stage[v] # "idle" => stage'[v] # "idle"
    BY <1>0, <1>3 DEF RunEnds, Loop, Claimed, TypeOK
  <2>3. phase # "loading"
    BY <1>0, <1>3 DEF RunEnds, LoadedPart
  <2> QED
    BY <1>0, <1>3, <2>1, <2>2, <2>3 DEF RunEnds, LoadedPart, Started
<1>4. CASE ~Load /\ ~StartPool /\ \A w \in Workers : ~RunEnds(w) /\ ~RunThrows(w)
  BY <1>0, <1>4, PoolFrame, PhaseFrame DEF LoadedPart, Started, work
<1>5. ASSUME NEW w \in Workers, RunThrows(w) PROVE LoadedPart'
  BY <1>0, <1>5 DEF RunThrows, LoadedPart, Started, TypeOK, Stages
<1> QED
  BY <1>1, <1>2, <1>3, <1>4, <1>5

\* A claim is followed by a record, unless somebody interrupts.
LEMMA ClaimStep == RunInv /\ [Next]_vars => ClaimPart'
<1> SUFFICES ASSUME RunInv, [Next]_vars, Started', ~signal'
             PROVE  /\ loaded' = CaseCount
                    /\ \A w \in Workers : stage'[w] = "left" => nextOrdinal' = loaded'
                    /\ \A c \in Cases : c < nextOrdinal' =>
                          \/ completed'[c] = outcome'[c]
                          \/ \E w \in Workers :
                                stage'[w] \in {"running", "threw"} /\ ordinal'[w] = c
  BY DEF ClaimPart
<1> USE JobsAssumption, CasesAssumption
<1>0. TypeOK /\ LoadedPart /\ ClaimPart
  BY DEF RunInv
<1>1. CASE Load
  <2>1. \A w \in Workers : stage'[w] = "idle"
    BY <1>0, <1>1 DEF Load, LoadedPart
  <2>2. 1 \in Workers
    BY DEF Workers
  <2> QED
    BY <2>1, <2>2 DEF Started
<1>2. CASE StartPool
  <2>1. ~signal /\ loaded = CaseCount
    BY <1>0, <1>2 DEF StartPool, TypeOK, life
  <2>2. \A w \in Workers : stage'[w] = "left" => nextOrdinal' = loaded
    BY <1>0, <1>2, <2>1 DEF StartPool, Claimed, TypeOK, Workers
  <2>3. ASSUME NEW c \in Cases, c < nextOrdinal'
        PROVE  \E w \in Workers :
                  stage'[w] \in {"running", "threw"} /\ ordinal'[w] = c
    <3>1. c + 1 \in Workers /\ (c + 1) - 1 = c
      BY <1>0, <1>2, <2>1, <2>3 DEF StartPool, TypeOK, Workers, Cases
    <3>2. stage'[c + 1] = Claimed(c) /\ ordinal'[c + 1] = c
      BY <1>0, <1>2, <2>1, <2>3, <3>1 DEF StartPool, TypeOK, Cases
    <3> QED
      BY <3>1, <3>2 DEF Claimed
  <2> QED
    BY <1>2, <2>1, <2>2, <2>3 DEF StartPool
<1>3. ASSUME NEW w \in Workers, RunEnds(w)
      PROVE  /\ loaded' = CaseCount
             /\ \A v \in Workers : stage'[v] = "left" => nextOrdinal' = loaded'
             /\ \A c \in Cases : c < nextOrdinal' =>
                   \/ completed'[c] = outcome'[c]
                   \/ \E v \in Workers :
                         stage'[v] \in {"running", "threw"} /\ ordinal'[v] = c
  <2>0. ~signal /\ UNCHANGED <<loaded, outcome>>
    BY <1>3 DEF RunEnds, life
  <2>1. Started
    BY <1>0, <1>3 DEF RunEnds, Loop, Started, TypeOK
  <2>2. /\ loaded = CaseCount
        /\ \A v \in Workers : stage[v] = "left" => nextOrdinal = loaded
        /\ \A c \in Cases : c < nextOrdinal =>
              \/ completed[c] = outcome[c]
              \/ \E v \in Workers : stage[v] \in {"running", "threw"} /\ ordinal[v] = c
    BY <1>0, <2>0, <2>1 DEF ClaimPart
  <2>3. /\ completed' = [completed EXCEPT ![ordinal[w]] = outcome[ordinal[w]]]
        /\ ordinal[w] \in Cases
    BY <1>0, <1>3, <2>0 DEF RunEnds, TypeOK, Cases
  <2>4. \A v \in Workers \ {w} : stage'[v] = stage[v] /\ ordinal'[v] = ordinal[v]
    BY <1>0, <1>3 DEF RunEnds, Loop, TypeOK
  <2>5. \A c \in Cases : c < nextOrdinal =>
              \/ completed'[c] = outcome[c]
              \/ \E v \in Workers : stage'[v] \in {"running", "threw"} /\ ordinal'[v] = c
    BY <1>0, <2>2, <2>3, <2>4 DEF TypeOK
  <2>6. CASE nextOrdinal >= loaded
    <3>1. nextOrdinal' = nextOrdinal /\ nextOrdinal = loaded
      BY <1>0, <1>3, <2>0, <2>6 DEF RunEnds, Loop, TypeOK
    <3> QED
      BY <2>0, <2>2, <2>5, <3>1
  <2>7. CASE ~(nextOrdinal >= loaded)
    <3>1. /\ nextOrdinal' = nextOrdinal + 1
          /\ stage'[w] = Claimed(nextOrdinal) /\ ordinal'[w] = nextOrdinal
      BY <1>0, <1>3, <2>0, <2>7 DEF RunEnds, Loop, TypeOK
    <3>2. stage'[w] \in {"running", "threw"}
      BY <3>1 DEF Claimed
    <3>3. \A v \in Workers : stage'[v] # "left"
      BY <1>0, <2>2, <2>4, <2>7, <3>2 DEF TypeOK
    <3>4. \A c \in Cases : c < nextOrdinal' => c < nextOrdinal \/ c = nextOrdinal
      BY <1>0, <3>1 DEF TypeOK, Cases
    <3> QED
      BY <2>0, <2>2, <2>5, <3>1, <3>2, <3>3, <3>4
  <2> QED
    BY <2>6, <2>7
<1>4. CASE ~Load /\ ~StartPool /\ \A w \in Workers : ~RunEnds(w) /\ ~RunThrows(w)
  BY <1>0, <1>4, PoolFrame, PhaseFrame DEF ClaimPart, Started, work
<1>5. ASSUME NEW w \in Workers, RunThrows(w)
      PROVE  /\ loaded' = CaseCount
             /\ \A v \in Workers : stage'[v] = "left" => nextOrdinal' = loaded'
             /\ \A c \in Cases : c < nextOrdinal' =>
                   \/ completed'[c] = outcome'[c]
                   \/ \E v \in Workers :
                         stage'[v] \in {"running", "threw"} /\ ordinal'[v] = c
  <2>1. Started /\ ~signal
    BY <1>0, <1>5 DEF RunThrows, Started, TypeOK, life
  <2> QED
    BY <1>0, <1>5, <2>1 DEF RunThrows, ClaimPart, TypeOK
<1> QED
  BY <1>1, <1>2, <1>3, <1>4, <1>5

\* What the command asks of the store, and what it is told.
LEMMA StoreStep == RunInv /\ [Next]_vars => StorePart'
<1> SUFFICES ASSUME RunInv, [Next]_vars PROVE StorePart'
  OBVIOUS
<1>0. TypeOK /\ StorePart
  BY DEF RunInv
<1>1. CASE Load \/ PrepareFails \/ StartPool
  BY <1>0, <1>1 DEF Load, PrepareFails, StartPool, Finishes, StorePart
<1>2. CASE PoolFails \/ PoolCanceled \/ PoolEnds \/ WriteArtifact
  BY <1>0, <1>2 DEF PoolFails, PoolCanceled, PoolEnds, WriteArtifact, Finishes, StorePart
<1>3. CASE ReadSource
  BY <1>0, <1>3 DEF ReadSource, Store!Submit, TypeOK, StorePart
<1>4. CASE Settle
  BY <1>0, <1>4 DEF Settle, Store!Resolve, Store!Reject, TypeOK, StorePart
<1>5. CASE Apply
  BY <1>0, <1>5 DEF Apply, Store!Apply, TypeOK, StorePart
<1>6. CASE Complete \/ CleanUp \/ Render
  BY <1>0, <1>6 DEF Complete, CleanUp, Render, StorePart
<1>7. CASE Signal
  BY <1>0, <1>7 DEF Signal, StorePart
<1>8. ASSUME NEW w \in Workers, RunEnds(w) \/ RunThrows(w) PROVE StorePart'
  BY <1>0, <1>8 DEF RunEnds, RunThrows, StorePart
<1>9. CASE UNCHANGED vars
  BY <1>0, <1>9 DEF vars, StorePart
<1> QED
  BY <1>1, <1>2, <1>3, <1>4, <1>5, <1>6, <1>7, <1>8, <1>9 DEF Next, Command

\* The work is released, and the store closed, after the command has returned.
LEMMA LifeStep == RunInv /\ [Next]_vars => LifePart'
<1> SUFFICES ASSUME RunInv, [Next]_vars PROVE LifePart'
  OBVIOUS
<1>0. LifePart
  BY DEF RunInv
<1>1. CASE Load \/ PrepareFails \/ StartPool
  BY <1>0, <1>1 DEF Load, PrepareFails, StartPool, LifePart, life
<1>2. CASE PoolFails \/ PoolCanceled \/ PoolEnds \/ WriteArtifact
  BY <1>0, <1>2 DEF PoolFails, PoolCanceled, PoolEnds, WriteArtifact, LifePart, life
<1>3. CASE ReadSource \/ Settle \/ Apply
  BY <1>0, <1>3 DEF ReadSource, Settle, Apply, LifePart, life
<1>4. CASE Complete \/ CleanUp \/ Render
  BY <1>0, <1>4 DEF Complete, CleanUp, Render, LifePart
<1>5. CASE Signal
  BY <1>0, <1>5 DEF Signal, LifePart
<1>6. ASSUME NEW w \in Workers, RunEnds(w) \/ RunThrows(w) PROVE LifePart'
  BY <1>0, <1>6 DEF RunEnds, RunThrows, LifePart, life
<1>7. CASE UNCHANGED vars
  BY <1>0, <1>7 DEF vars, LifePart, life
<1> QED
  BY <1>1, <1>2, <1>3, <1>4, <1>5, <1>6, <1>7 DEF Next, Command

\* A pool that has come to rest without a signal has recorded every case.
LEMMA RestIsWhole ==
    ASSUME RunInv, phase = "pool", ~signal, \A w \in Workers : stage[w] = "left"
    PROVE  Whole
<1> USE JobsAssumption, CasesAssumption
<1>1. TypeOK /\ ClaimPart
  BY DEF RunInv
<1>2. Started /\ 1 \in Workers
  BY DEF Started, Workers
<1>3. loaded = CaseCount /\ nextOrdinal = loaded
  BY <1>1, <1>2 DEF ClaimPart
<1>4. \A c \in Cases : completed[c] = outcome[c]
  BY <1>1, <1>2, <1>3 DEF ClaimPart, Cases
<1> QED
  BY <1>3, <1>4 DEF Whole

\* A whole run stays as it is.
LEMMA WholeStays ==
    ASSUME RunInv, [Next]_vars, Whole, phase # "loading"
    PROVE  Whole' /\ UNCHANGED outcome
<1>1. ~Load /\ ~StartPool
  BY DEF Load, StartPool
<1>2. \A w \in Workers : ~RunEnds(w) /\ ~RunThrows(w)
  BY DEF RunEnds, RunThrows, Whole
<1> QED
  BY <1>1, <1>2, PoolFrame DEF Whole, work

\* The most severe status of a whole run is that of its most severe case.
LEMMA WholeAggregate ==
    ASSUME TypeOK, Whole
    PROVE  \A c \in Cases : outcome[c] \in Statuses /\ Rank[Aggregate] <= Rank[outcome[c]]
<1>1. ASSUME NEW c \in Cases
      PROVE  outcome[c] \in Statuses /\ c \in Results
  BY DEF TypeOK, Whole, Results, Outcomes, Statuses
<1> QED
  BY <1>1, AggregateWorst DEF Whole

\* What the command will answer, and on what grounds.
LEMMA HandledStep == RunInv /\ [Next]_vars => HandledPart'
<1> SUFFICES ASSUME RunInv, [Next]_vars PROVE HandledPart'
  OBVIOUS
<1>0. TypeOK /\ StorePart /\ HandledPart
  BY DEF RunInv
<1>1. handled \in Statuses => Whole' /\ UNCHANGED outcome
  BY <1>0, WholeStays DEF HandledPart, Statuses
<1>2. CASE Load \/ PrepareFails
  BY <1>0, <1>2 DEF Load, PrepareFails, Finishes, HandledPart, StorePart, Statuses, life
<1>3. CASE StartPool
  BY <1>0, <1>3 DEF StartPool, HandledPart, StorePart, Statuses, life
<1>4. CASE PoolFails \/ PoolCanceled
  BY <1>0, <1>4 DEF PoolFails, PoolCanceled, Finishes, HandledPart, StorePart, Statuses, life
<1>5. CASE PoolEnds
  <2>1. Whole /\ Whole' /\ UNCHANGED outcome
    BY <1>5, RestIsWhole, WholeStays DEF PoolEnds
  <2>2. Aggregate \in Statuses /\ \A c \in Cases : Rank[Aggregate] <= Rank[outcome[c]]
    BY <1>0, <2>1, AggregateWorst, WholeAggregate
  <2>3. (\E c \in Results : completed[c] # "passed") => \E c \in Cases : outcome[c] # "passed"
    BY <2>1 DEF Whole, Results
  <2>4. handled' = Aggregate /\ UNCHANGED <<artifact, told>>
    BY <1>5 DEF PoolEnds
  <2>5. /\ phase' \in {"artifact", "reading"} /\ artifact = "none"
        /\ phase' = "artifact" => \E c \in Results : completed[c] # "passed"
    BY <1>0, <1>5 DEF PoolEnds, HandledPart
  <2>6. Aggregate # "canceled"
    BY <2>2 DEF Statuses
  <2> QED
    BY <2>1, <2>2, <2>3, <2>4, <2>5, <2>6 DEF HandledPart
<1>6. CASE WriteArtifact
  BY <1>0, <1>1, <1>6 DEF WriteArtifact, HandledPart, life
<1>7. CASE ReadSource
  BY <1>0, <1>1, <1>7 DEF ReadSource, HandledPart, Statuses, life
<1>8. CASE Settle
  BY <1>0, <1>1, <1>8 DEF Settle, HandledPart, StorePart, Statuses, life
<1>9. CASE Apply
  BY <1>0, <1>1, <1>9 DEF Apply, Store!Apply, HandledPart, life
<1>10. CASE Complete
  BY <1>0, <1>1, <1>10 DEF Complete, HandledPart
<1>11. CASE CleanUp
  BY <1>0, <1>1, <1>11 DEF CleanUp, HandledPart
<1>12. CASE Render
  BY <1>0, <1>1, <1>12 DEF Render, HandledPart
<1>13. CASE Signal
  BY <1>0, <1>1, <1>13 DEF Signal, HandledPart
<1>14. ASSUME NEW w \in Workers, RunEnds(w) \/ RunThrows(w) PROVE HandledPart'
  BY <1>0, <1>1, <1>14 DEF RunEnds, RunThrows, HandledPart, life
<1>15. CASE UNCHANGED vars
  BY <1>0, <1>1, <1>15 DEF vars, life, HandledPart
<1> QED
  BY <1>2, <1>3, <1>4, <1>5, <1>6, <1>7, <1>8, <1>9, <1>10, <1>11, <1>12, <1>13, <1>14,
     <1>15 DEF Next, Command

\* Rows are there exactly if the store said so, once it has said anything.
LEMMA RowsAreTold ==
    ASSUME RunInv, phase # "committing"
    PROVE  rows["run"] = 1 <=> told["run"] = "resolved"
BY DEF RunInv, StorePart, TypeOK

\* What is rendered is what was handled, or a cancellation.
LEMMA AnswerStep == RunInv /\ [Next]_vars => AnswerIsTrue'
<1> SUFFICES ASSUME RunInv, [Next]_vars, phase' = "done" PROVE AnswerIsTrue'
  BY DEF AnswerIsTrue
<1>0. TypeOK /\ StorePart /\ HandledPart /\ AnswerIsTrue
  BY DEF RunInv
<1>1. CASE Render
  <2>1. /\ phase = "completed" /\ UNCHANGED <<outcome, rows, told, signal, handled>>
        /\ IF signal THEN answer' = AnswerOf("canceled", FALSE, FALSE)
                     ELSE answer' = AnswerOf(handled, artifact = "written",
                                             told["run"] = "resolved")
    BY <1>1 DEF Render
  <2>2. CASE signal
    <3>1. answer'.status = "canceled"
      BY <2>1, <2>2 DEF AnswerOf
    <3>2. handled = "canceled" => rows["run"] = 0
      BY <1>0, <2>1 DEF HandledPart, StorePart, Statuses
    <3> QED
      BY <2>1, <2>2, <3>1, <3>2 DEF AnswerIsTrue, Statuses
  <2>3. CASE ~signal
    <3>1. /\ answer'.status = handled
          /\ answer'.artifact = (artifact = "written")
          /\ answer'.saved = (told["run"] = "resolved")
      BY <2>1, <2>3 DEF AnswerOf
    <3>2. handled \in Statuses =>
            \A c \in Cases : outcome[c] \in Statuses /\ Rank[handled] <= Rank[outcome[c]]
      BY <1>0, WholeAggregate DEF HandledPart
    <3>3. answer'.artifact => \E c \in Cases : outcome[c] # "passed"
      BY <1>0, <3>1 DEF HandledPart
    <3>4. answer'.saved <=> rows["run"] = 1
      BY <2>1, <3>1, RowsAreTold
    <3>5. handled # "canceled" /\ (handled = "invalid_input" => rows["run"] = 0)
      BY <1>0, <2>1, <2>3 DEF HandledPart, StorePart, Statuses
    <3> QED
      BY <2>1, <2>3, <3>1, <3>2, <3>3, <3>4, <3>5 DEF AnswerIsTrue
  <2> QED
    BY <2>2, <2>3
<1>2. CASE ~Render
  <2>1. phase = "done"
    BY <1>2 DEF Next, Command, Load, PrepareFails, StartPool, PoolFails, PoolCanceled,
       PoolEnds, WriteArtifact, ReadSource, Settle, Apply, Complete, CleanUp, Signal,
       RunEnds, RunThrows, Finishes, vars
  <2>2. UNCHANGED <<outcome, rows, signal, handled, answer>>
    <3>1. CASE \E w \in Workers : RunEnds(w) \/ RunThrows(w)
      BY <3>1 DEF RunEnds, RunThrows, life
    <3>2. CASE CleanUp
      BY <3>2 DEF CleanUp
    <3>3. CASE UNCHANGED vars
      BY <3>3 DEF vars, life
    <3>4. ~Apply
      BY <1>0, <2>1 DEF Apply, Store!Apply, StorePart
    <3> QED
      BY <1>2, <2>1, <3>1, <3>2, <3>3, <3>4 DEF Next, Command, Load, PrepareFails,
         StartPool, PoolFails, PoolCanceled, PoolEnds, WriteArtifact, ReadSource, Settle,
         Complete, Signal
  <2> QED
    BY <1>0, <2>1, <2>2 DEF AnswerIsTrue
<1> QED
  BY <1>1, <1>2

\* RunInv holds in every reachable state.
THEOREM RunInvariant == Spec => []RunInv
<1>1. RunInv /\ [Next]_vars => RunInv'
  BY TypeStep, LoadedStep, ClaimStep, StoreStep, HandledStep, LifeStep, AnswerStep
     DEF RunInv
<1> QED
  BY <1>1, InitRunInv, PTL DEF Spec

\* Every variable keeps its type, and no worker claims a case that was not loaded.
THEOREM RunTypeCorrect == Spec => []TypeOK
<1>1. RunInv => TypeOK
  BY DEF RunInv
<1> QED
  BY <1>1, RunInvariant, PTL

\* A run that is in the store is a whole run (executeTestCommandDeferred()).
THEOREM PersistedRunIsWhole == Spec => []PersistedIsComplete
<1>1. RunInv => PersistedIsComplete
  BY DEF RunInv, PersistedIsComplete, StorePart, HandledPart, Whole, Statuses
<1> QED
  BY <1>1, RunInvariant, PTL

\* The answer agrees with the cases, with the store and with the signals received.
THEOREM AnswerAgrees == Spec => []AnswerIsTrue
<1>1. RunInv => AnswerIsTrue
  BY DEF RunInv
<1> QED
  BY <1>1, RunInvariant, PTL

\* The store is not closed under a transaction (drain(), waitForActiveWork()).
THEOREM StoreIsClosedLast == Spec => []StoreOutlivesWork
<1>1. RunInv => StoreOutlivesWork
  BY DEF RunInv, StoreOutlivesWork, StorePart, LifePart
<1> QED
  BY <1>1, RunInvariant, PTL

-----------------------------------------------------------------------------
(* Every test can go on.                                                   *)

\* The dispatch gives its work back whatever the command answers.
Released == phase \in {"completed", "done"} => ~leased

\* Every step keeps it: only Complete leads to the end of a command.
LEMMA ReleasedStep == Released /\ [Next]_vars => Released'
<1> SUFFICES ASSUME Released, [Next]_vars PROVE Released'
  OBVIOUS
<1> USE DEF Released, life, Finishes
<1>1. CASE Load \/ PrepareFails \/ StartPool
  BY <1>1 DEF Load, PrepareFails, StartPool
<1>2. CASE PoolFails \/ PoolCanceled \/ PoolEnds \/ WriteArtifact
  BY <1>2 DEF PoolFails, PoolCanceled, PoolEnds, WriteArtifact
<1>3. CASE ReadSource \/ Settle \/ Apply
  BY <1>3 DEF ReadSource, Settle, Apply
<1>4. CASE Complete \/ CleanUp \/ Render
  BY <1>4 DEF Complete, CleanUp, Render
<1>5. CASE Signal
  BY <1>5 DEF Signal
<1>6. ASSUME NEW w \in Workers, RunEnds(w) \/ RunThrows(w) PROVE Released'
  BY <1>6 DEF RunEnds, RunThrows
<1>7. CASE UNCHANGED vars
  BY <1>7 DEF vars
<1> QED
  BY <1>1, <1>2, <1>3, <1>4, <1>5, <1>6, <1>7 DEF Next, Command

\* The command, its pool, its transaction and the shutdown coordinator never wait
\* for each other in a circle: until the answer is rendered one of them has a
\* step to take that needs none of the others.
THEOREM TestNeverDeadlocks == Spec => []TestIsNeverStuck
<1>1. Init => Released
  BY DEF Init, Released
<1>2. Spec => []Released
  BY <1>1, ReleasedStep, PTL DEF Spec
<1>3. RunInv /\ Released => TestIsNeverStuck
  <2> SUFFICES ASSUME RunInv, Released, phase # "done" PROVE Due
    BY DEF TestIsNeverStuck
  <2>1. phase \in Phases /\ stage \in [Workers -> Stages] /\ rows["run"] \in 0 .. 1
    BY DEF RunInv, TypeOK
  <2>2. CASE phase = "pool"
    BY <2>1, <2>2 DEF RunInv, LoadedPart, Started, Stages, Due
  <2>3. CASE phase = "committing"
    BY <2>1, <2>3 DEF RunInv, StorePart, Due
  <2>4. CASE phase = "completed"
    BY <2>4 DEF Released, Due
  <2> QED
    BY <2>1, <2>2, <2>3, <2>4 DEF Phases, Due
<1> QED
  BY <1>2, <1>3, RunInvariant, PTL
=============================================================================
