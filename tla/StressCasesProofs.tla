------------------------- MODULE StressCasesProofs -------------------------
(***************************************************************************)
(* Theorems about the stress-test pool, for any number of jobs and cases   *)
(* and whatever the programs do.                                           *)
(*                                                                         *)
(* PoolInv is inductive: every index below nextIndex is in flight at one   *)
(* worker, or its case agreed, or it is among the findings.  When every    *)
(* worker has left, nothing is in flight, and so the least of the findings *)
(* is the first case that fails.  Answers blame the right party, and until *)
(* there is one somebody is at work.                                       *)
(***************************************************************************)
EXTENDS StressCases, FiniteSetTheorems, WellFoundedInduction, TLAPS

\* There is a worker, and no more workers than cases.
LEMMA WorkersFinite ==
    /\ WorkerCount \in 1 .. MaxCases
    /\ Workers \subseteq Nat
    /\ IsFiniteSet(Workers) /\ Cardinality(Workers) = WorkerCount
<1>1. WorkerCount \in 1 .. MaxCases
  BY JobsAssumption, CasesAssumption DEF WorkerCount
<1>2. IsFiniteSet(Workers) /\ Cardinality(Workers) = WorkerCount
  BY <1>1, FS_Interval, CasesAssumption DEF Workers
<1> QED
  BY <1>1, <1>2 DEF Workers

\* The workers in flight are finitely many, and one fewer when one of them stops.
LEMMA InFlightFinite ==
    /\ IsFiniteSet(InFlight) /\ Cardinality(InFlight) \in Nat
    /\ \A w \in InFlight :
          Cardinality(InFlight \ {w}) = Cardinality(InFlight) - 1
<1>1. IsFiniteSet(InFlight)
  BY WorkersFinite, FS_Subset DEF InFlight
<1> QED
  BY <1>1, FS_CardinalityType, FS_RemoveElement

\* The initial state satisfies the invariant.
LEMMA InitPoolInv == Init => PoolInv
<1> SUFFICES ASSUME Init PROVE PoolInv
  OBVIOUS
<1> USE JobsAssumption, CasesAssumption
<1>1. InFlight = {}
  BY DEF Init, InFlight, Running
<1>2. TypeOK
  <2>1. 0 \in Cases
    BY DEF Cases
  <2>2. answer \in [kind : Answers, index : Cases,
                    predicate : Predicates \cup {"none"}, completed : Nat]
    BY <2>1 DEF Init, NoAnswer, AnswerOf, Answers
  <2>3. /\ stage \in [Workers -> Stages] /\ index \in [Workers -> Cases]
        /\ oracle \in [Workers -> BOOLEAN]
    BY <2>1 DEF Init, Stages
  <2> QED
    BY <2>1, <2>2, <2>3, 0 \in 0 .. MaxCases, {} \subseteq Cases \X Predicates
       DEF Init, TypeOK
<1>3. ClaimsAreExact
  BY <1>1, FS_EmptySet DEF Init, ClaimsAreExact
<1>4. IdlePart /\ OraclePart /\ FindingsPart /\ StoppedPart
  BY DEF Init, IdlePart, OraclePart, FindingsPart, StoppedPart
<1>5. AccountedPart /\ BelowPart
  BY <1>1 DEF Init, AccountedPart, BelowPart, Cases
<1> QED
  BY <1>2, <1>3, <1>4, <1>5 DEF PoolInv

\* A step between two awaits of one case: the worker stays in flight.
LEMMA StageKeeps ==
    ASSUME PoolInv, NEW w \in Workers, stage[w] \in Running,
           NEW next \in {"naive", "solution", "threw"},
           stage' = [stage EXCEPT ![w] = next],
           UNCHANGED <<outcome, index, pool, token, expired>>
    PROVE  ClaimsAreExact' /\ IdlePart' /\ AccountedPart' /\ FindingsPart'
           /\ BelowPart' /\ StoppedPart'
<1> USE DEF PoolInv, TypeOK, pool
<1>1. InFlight' = InFlight
  BY DEF InFlight, Running
<1>2. ClaimsAreExact' /\ AccountedPart' /\ FindingsPart' /\ BelowPart'
  BY <1>1 DEF ClaimsAreExact, AccountedPart, FindingsPart, BelowPart
<1>3. IdlePart' /\ StoppedPart'
  BY DEF IdlePart, StoppedPart, Running
<1> QED
  BY <1>2, <1>3

\* Start: the first cases are claimed, by as many workers as come before the duration
\* has passed, or none.
LEMMA StartKeeps == PoolInv /\ Start => PoolInv'
<1> SUFFICES ASSUME PoolInv, Start PROVE PoolInv'
  OBVIOUS
<1> USE JobsAssumption, CasesAssumption
<1>0. /\ nextIndex = 0 /\ completedCases = 0 /\ findings = {}
      /\ ~stopped /\ ~canceled /\ \A w \in Workers : ~oracle[w]
      /\ UNCHANGED <<outcome, oracle, completedCases, findings, token, answer>>
  BY WorkersFinite DEF PoolInv, Start, IdlePart, OraclePart, Workers
<1>1. ASSUME token, ~expired, canceled' = TRUE, stopped' = TRUE,
             stage' = [w \in Workers |-> "left"],
             UNCHANGED <<index, nextIndex, expired>>
      PROVE  PoolInv'
  <2>1. InFlight' = {}
    BY <1>1 DEF InFlight, Running
  <2>2. TypeOK'
    BY <1>0, <1>1 DEF PoolInv, TypeOK, Stages
  <2>3. ClaimsAreExact'
    BY <1>0, <1>1, <2>1, FS_EmptySet DEF ClaimsAreExact
  <2>4. IdlePart' /\ OraclePart' /\ FindingsPart' /\ StoppedPart'
    BY <1>0, <1>1 DEF IdlePart, OraclePart, FindingsPart, StoppedPart
  <2>5. AccountedPart' /\ BelowPart'
    BY <1>0, <1>1, <2>1 DEF AccountedPart, BelowPart, Cases
  <2> QED
    BY <2>2, <2>3, <2>4, <2>5 DEF PoolInv
<1>2. ASSUME NEW n \in 0 .. WorkerCount,
             expired' = (n < WorkerCount),
             stage' = [w \in Workers |-> IF w <= n THEN "generator" ELSE "left"],
             index' = [w \in Workers |-> IF w <= n THEN w - 1 ELSE index[w]],
             nextIndex' = n,
             UNCHANGED <<canceled, stopped>>
      PROVE  PoolInv'
  <2>0. n \in Nat /\ n <= WorkerCount /\ n <= MaxCases
    BY WorkersFinite
  <2>1. InFlight' = 1 .. n
    BY <1>2, <2>0, WorkersFinite DEF InFlight, Running, Workers
  <2>2. \A w \in Workers : w \in Nat /\ (w <= n => w - 1 \in Cases /\ w - 1 < n)
    BY <2>0 DEF Workers, Cases
  <2>3. TypeOK'
    <3>1. stage' \in [Workers -> Stages]
      BY <1>2 DEF Stages, Running
    <3>2. index' \in [Workers -> Cases]
      BY <1>2, <2>2 DEF PoolInv, TypeOK
    <3>3. nextIndex' \in 0 .. MaxCases /\ expired' \in BOOLEAN
      BY <1>2, <2>0
    <3> QED
      BY <1>0, <1>2, <3>1, <3>2, <3>3 DEF PoolInv, TypeOK
  <2>4. ClaimsAreExact'
    <3>1. \A v, w \in 1 .. n : v # w => index'[v] # index'[w]
      BY <1>2, <2>0, WorkersFinite DEF Workers
    <3>2. Cardinality(1 .. n) = n
      BY <2>0, FS_Interval
    <3> QED
      BY <1>0, <1>2, <2>0, <2>1, <3>1, <3>2 DEF ClaimsAreExact
  <2>5. IdlePart' /\ OraclePart' /\ FindingsPart'
    BY <1>0, <1>2 DEF IdlePart, OraclePart, FindingsPart
  <2>6. StoppedPart'
    <3>1. ASSUME NEW w \in Workers, stage'[w] = "left" PROVE expired'
      <4>1. w > n
        BY <1>2, <2>0, <3>1, WorkersFinite
      <4>2. n < WorkerCount
        BY <2>0, <4>1, WorkersFinite DEF Workers
      <4> QED
        BY <1>2, <4>2
    <3>2. ~stopped' /\ ~canceled'
      BY <1>0, <1>2
    <3> QED
      BY <3>1, <3>2 DEF StoppedPart
  <2>7. BelowPart'
    BY <1>2, <2>0, <2>1, WorkersFinite DEF BelowPart, Workers
  <2>8. AccountedPart'
    <3> SUFFICES ASSUME NEW i \in Cases, i < n PROVE \E w \in 1 .. n : index'[w] = i
      BY <1>2, <2>1 DEF AccountedPart
    <3>1. i + 1 \in 1 .. n /\ i + 1 \in Workers
      BY <2>0, WorkersFinite DEF Workers, Cases
    <3>2. index'[i + 1] = i
      BY <1>2, <3>1 DEF Cases
    <3> QED
      BY <3>1, <3>2
  <2> QED
    BY <2>3, <2>4, <2>5, <2>6, <2>7, <2>8 DEF PoolInv
<1> QED
  BY <1>1, <1>2 DEF Start

\* An execution that throws rejects the whole pool, and its worker stays where it is.
LEMMA ThrowKeeps ==
    ASSUME PoolInv, NEW w \in Workers, stage[w] \in Running, Throw(w),
           oracle' \in {oracle, [oracle EXCEPT ![w] = FALSE]},
           oracle[w] => stage[w] = "solution" /\ ~oracle'[w],
           UNCHANGED <<outcome, index, pool, token, expired>>
    PROVE  PoolInv'
<1>1. /\ stage' = [stage EXCEPT ![w] = "threw"]
      /\ answer' \in {answer, AnswerOf("error", 0, "none", 0)}
  BY DEF Throw
<1>2. TypeOK'
  <2>1. AnswerOf("error", 0, "none", 0)
           \in [kind : Answers, index : Cases,
                predicate : Predicates \cup {"none"}, completed : Nat]
    BY CasesAssumption DEF AnswerOf, Answers, Cases
  <2> QED
    BY <1>1, <2>1 DEF PoolInv, TypeOK, Stages, Running, pool
<1>3. OraclePart'
  BY <1>1 DEF PoolInv, TypeOK, OraclePart
<1>4. ClaimsAreExact' /\ IdlePart' /\ AccountedPart' /\ FindingsPart'
      /\ BelowPart' /\ StoppedPart'
  BY <1>1, StageKeeps
<1> QED
  BY <1>2, <1>3, <1>4 DEF PoolInv

\* The end of the generator's run.
LEMMA GeneratorKeeps ==
    ASSUME PoolInv, NEW w \in Workers, GeneratorEnds(w)
    PROVE  PoolInv'
<1>1. /\ UNCHANGED <<outcome, index, oracle, pool, token, expired>>
      /\ stage[w] = "generator" /\ ~oracle[w]
  BY DEF GeneratorEnds, PoolInv, OraclePart
<1>2. CASE Throw(w)
  BY <1>1, <1>2, ThrowKeeps DEF Running
<1>3. CASE /\ stage' = [stage EXCEPT ![w] = "naive"] /\ UNCHANGED answer
           /\ outcome[index[w]] # "unusable"
  <2>1. TypeOK'
    BY <1>1, <1>3 DEF PoolInv, TypeOK, Stages, Running, pool
  <2>2. OraclePart'
    BY <1>1, <1>3 DEF PoolInv, TypeOK, OraclePart
  <2>3. ClaimsAreExact' /\ IdlePart' /\ AccountedPart' /\ FindingsPart'
        /\ BelowPart' /\ StoppedPart'
    BY <1>1, <1>3, StageKeeps DEF Running
  <2> QED
    BY <2>1, <2>2, <2>3 DEF PoolInv
<1> QED
  BY <1>2, <1>3 DEF GeneratorEnds

\* The end of the naive run, whose failure is remembered, or which rejects the pool.
LEMMA NaiveKeeps ==
    ASSUME PoolInv, NEW w \in Workers, NaiveEnds(w)
    PROVE  PoolInv'
<1>1. /\ UNCHANGED <<outcome, index, pool, token, expired>>
      /\ stage[w] = "naive" /\ ~oracle[w]
  BY DEF NaiveEnds, PoolInv, OraclePart
<1>2. PICK killed \in Killed :
          IF ~killed /\ outcome[index[w]] = "naive_throws"
          THEN Throw(w) /\ UNCHANGED oracle
          ELSE /\ oracle' = [oracle EXCEPT ![w] = killed \/ outcome[index[w]] = "oracle"]
               /\ stage' = [stage EXCEPT ![w] = "solution"]
               /\ UNCHANGED answer
  BY DEF NaiveEnds
<1>3. killed \in BOOLEAN /\ (killed => token)
  BY DEF Killed
<1>4. CASE ~killed /\ outcome[index[w]] = "naive_throws"
  BY <1>1, <1>2, <1>4, ThrowKeeps DEF Running
<1>5. CASE ~(~killed /\ outcome[index[w]] = "naive_throws")
  <2>1. /\ oracle' = [oracle EXCEPT ![w] = killed \/ outcome[index[w]] = "oracle"]
        /\ stage' = [stage EXCEPT ![w] = "solution"]
        /\ UNCHANGED answer
    BY <1>2, <1>5
  <2>2. TypeOK'
    BY <1>1, <1>3, <2>1 DEF PoolInv, TypeOK, Stages, Running, pool
  <2>3. OraclePart'
    BY <1>1, <1>3, <1>5, <2>1 DEF PoolInv, TypeOK, OraclePart
  <2>4. ClaimsAreExact' /\ IdlePart' /\ AccountedPart' /\ FindingsPart'
        /\ BelowPart' /\ StoppedPart'
    BY <1>1, <2>1, StageKeeps DEF Running
  <2> QED
    BY <2>2, <2>3, <2>4 DEF PoolInv
<1> QED
  BY <1>4, <1>5

\* The end of a case, whose finding is recorded, and the next claim or the
\* departure of its worker.
LEMMA CaseKeeps ==
    ASSUME PoolInv, NEW w \in Workers, stage[w] = "solution",
           NEW killed \in BOOLEAN, killed => token,
           killed \/ outcome[index[w]] # "solution_throws",
           EndCase(w, PredicateOf(w, killed)),
           oracle' = [oracle EXCEPT ![w] = FALSE],
           UNCHANGED <<outcome, token, expired>>
    PROVE  PoolInv'
<1> USE JobsAssumption, CasesAssumption
<1>1. /\ findings' = IF PredicateOf(w, killed) = "none" THEN findings
                     ELSE findings \cup {<<index[w], PredicateOf(w, killed)>>}
      /\ Loop(w, stopped \/ PredicateOf(w, killed) # "none")
  BY DEF EndCase
<1> DEFINE predicate == PredicateOf(w, killed)
           halt == stopped \/ predicate # "none"
<1>2. /\ stage[w] = "solution" /\ w \in InFlight
      /\ completedCases' = completedCases + 1
      /\ oracle' = [oracle EXCEPT ![w] = FALSE]
      /\ UNCHANGED <<outcome, token, expired, answer>>
  BY DEF EndCase, InFlight, Running
<1>3. killed \in BOOLEAN /\ (killed => token)
  OBVIOUS
<1>4. /\ predicate \in Predicates \cup {"none"}
      /\ ~token => (predicate = "none" <=> outcome[index[w]] = "agrees")
  BY <1>2, <1>3 DEF PoolInv, TypeOK, OraclePart, PredicateOf, Predicates, Outcomes, Throwing
<1>5. index[w] \in Cases /\ index[w] < nextIndex
  BY <1>2 DEF PoolInv, TypeOK, BelowPart
<1>6. /\ findings' \subseteq Cases \X Predicates
      /\ findings \subseteq findings'
      /\ predicate # "none" => <<index[w], predicate>> \in findings'
      /\ \A f \in findings' : f \in findings \/ (f[1] = index[w] /\ predicate # "none")
  BY <1>1, <1>4, <1>5 DEF PoolInv, TypeOK
<1>7. halt => findings' # {} \/ canceled
  BY <1>6 DEF PoolInv, StoppedPart
<1>8. Loop(w, halt)
  BY <1>1
<1> HIDE DEF predicate, halt
<1>9. halt \in BOOLEAN
  BY DEF halt, PoolInv, TypeOK
<1>10. nextIndex' \in {nextIndex, nextIndex + 1} /\ nextIndex \in 0 .. MaxCases
       /\ nextIndex' \in 0 .. MaxCases
  BY <1>8 DEF PoolInv, TypeOK, Loop, Claims, MayClaim
<1>11. FindingsPart'
  BY <1>2, <1>4, <1>5, <1>6, <1>10 DEF PoolInv, FindingsPart, TypeOK, Cases
<1>12. CASE nextIndex' = nextIndex + 1
  <2>1. /\ nextIndex < MaxCases /\ ~halt /\ ~token
        /\ index' = [index EXCEPT ![w] = nextIndex]
        /\ stage' = [stage EXCEPT ![w] = "generator"]
        /\ stopped' = halt /\ UNCHANGED canceled
    BY <1>8, <1>10, <1>12 DEF Loop, Claims, MayClaim
  <2>2. InFlight' = InFlight
    BY <1>2, <2>1 DEF InFlight, Running, PoolInv, TypeOK
  <2>3. nextIndex \in Cases
    BY <1>10, <2>1 DEF Cases
  <2>4. TypeOK'
    BY <1>2, <1>6, <1>9, <1>10, <2>1, <2>3 DEF PoolInv, TypeOK, Stages, Running
  <2>5. BelowPart'
    BY <1>10, <1>12, <2>1, <2>2 DEF PoolInv, BelowPart, TypeOK, Cases, InFlight
  <2>6. ClaimsAreExact'
    <3>1. \A v, u \in InFlight : v # u => index'[v] # index'[u]
      BY <1>10, <2>1 DEF PoolInv, ClaimsAreExact, BelowPart, TypeOK, Cases, InFlight
    <3>2. completedCases' + Cardinality(InFlight) = nextIndex'
      BY <1>2, <1>12, InFlightFinite DEF PoolInv, ClaimsAreExact, TypeOK
    <3> QED
      BY <2>2, <3>1, <3>2 DEF ClaimsAreExact
  <2>7. AccountedPart'
    <3> SUFFICES ASSUME NEW i \in Cases, i < nextIndex', ~token
                 PROVE  \/ \E v \in InFlight : index'[v] = i
                        \/ outcome[i] = "agrees"
                        \/ \E f \in findings' : f[1] = i
      BY <1>2, <2>2 DEF AccountedPart
    <3>1. CASE i = nextIndex
      BY <1>2, <2>1, <3>1 DEF PoolInv, TypeOK
    <3>2. CASE i = index[w]
      BY <1>4, <1>6, <3>2
    <3>3. CASE i # nextIndex /\ i # index[w]
      <4>1. i < nextIndex
        BY <1>10, <1>12, <3>3 DEF Cases
      <4>2. \/ \E v \in InFlight : index[v] = i
            \/ outcome[i] = "agrees"
            \/ \E f \in findings : f[1] = i
        BY <4>1 DEF PoolInv, AccountedPart
      <4> QED
        BY <1>6, <2>1, <3>3, <4>2 DEF PoolInv, TypeOK, InFlight
    <3> QED
      BY <3>1, <3>2, <3>3
  <2>8. IdlePart' /\ OraclePart'
    BY <1>2, <2>1 DEF PoolInv, TypeOK, IdlePart, OraclePart
  <2>9. StoppedPart'
    BY <1>2, <1>6, <1>7, <1>9, <1>10, <2>1 DEF PoolInv, TypeOK, StoppedPart, halt
  <2> QED
    BY <1>11, <2>4, <2>5, <2>6, <2>7, <2>8, <2>9 DEF PoolInv
<1>13. CASE nextIndex' = nextIndex
  <2>1. /\ UNCHANGED index
        /\ stage' = [stage EXCEPT ![w] = "left"]
        /\ \/ stopped' = TRUE /\ canceled' = TRUE /\ token
           \/ stopped' = halt /\ UNCHANGED canceled
              /\ (halt \/ expired \/ nextIndex = MaxCases)
    BY <1>8, <1>10, <1>13 DEF Loop, Claims, MayClaim
  <2>2. InFlight' = InFlight \ {w}
    BY <1>2, <2>1 DEF InFlight, Running, PoolInv, TypeOK
  <2>3. TypeOK'
    <3>1. stopped' \in BOOLEAN /\ canceled' \in BOOLEAN
      BY <1>9, <2>1 DEF PoolInv, TypeOK
    <3>2. stage' \in [Workers -> Stages]
      BY <2>1 DEF PoolInv, TypeOK, Stages
    <3> QED
      BY <1>2, <1>6, <1>10, <2>1, <3>1, <3>2 DEF PoolInv, TypeOK
  <2>4. BelowPart'
    BY <1>13, <2>1, <2>2 DEF PoolInv, BelowPart
  <2>5. ClaimsAreExact'
    <3>1. completedCases' + Cardinality(InFlight \ {w}) = nextIndex'
      BY <1>2, <1>13, InFlightFinite DEF PoolInv, ClaimsAreExact, TypeOK
    <3> QED
      BY <2>1, <2>2, <3>1 DEF PoolInv, ClaimsAreExact
  <2>6. AccountedPart'
    <3> SUFFICES ASSUME NEW i \in Cases, i < nextIndex, ~token
                 PROVE  \/ \E v \in InFlight \ {w} : index[v] = i
                        \/ outcome[i] = "agrees"
                        \/ \E f \in findings' : f[1] = i
      BY <1>2, <1>13, <2>1, <2>2 DEF AccountedPart
    <3>1. CASE i = index[w]
      BY <1>4, <1>6, <3>1
    <3>2. CASE i # index[w]
      BY <1>6, <3>2 DEF PoolInv, AccountedPart
    <3> QED
      BY <3>1, <3>2
  <2>7. IdlePart' /\ OraclePart'
    BY <1>2, <2>1 DEF PoolInv, TypeOK, IdlePart, OraclePart
  <2>8. StoppedPart'
    <3>1. (stopped' => findings' # {} \/ canceled') /\ (canceled' => token')
      BY <1>2, <1>6, <1>7, <2>1 DEF PoolInv, StoppedPart
    <3>2. stopped' \/ expired' \/ nextIndex' = MaxCases
      BY <1>2, <1>13, <2>1
    <3>3. stopped => stopped'
      BY <2>1 DEF halt
    <3> QED
      BY <1>2, <1>13, <2>1, <3>1, <3>2, <3>3 DEF PoolInv, TypeOK, StoppedPart
  <2> QED
    BY <1>11, <2>3, <2>4, <2>5, <2>6, <2>7, <2>8 DEF PoolInv
<1> QED
  BY <1>10, <1>12, <1>13

\* The end of the solution's run ends the case, or rejects the pool.
LEMMA SolutionKeeps ==
    ASSUME PoolInv, NEW w \in Workers, SolutionEnds(w)
    PROVE  PoolInv'
<1>1. PICK killed \in Killed :
          IF ~killed /\ outcome[index[w]] = "solution_throws"
          THEN Throw(w) /\ UNCHANGED <<index, pool>>
          ELSE EndCase(w, PredicateOf(w, killed))
  BY DEF SolutionEnds
<1>2. /\ stage[w] = "solution" /\ oracle' = [oracle EXCEPT ![w] = FALSE]
      /\ UNCHANGED <<outcome, token, expired>>
      /\ killed \in BOOLEAN /\ (killed => token)
  BY DEF SolutionEnds, Killed
<1>3. CASE ~killed /\ outcome[index[w]] = "solution_throws"
  <2>1. ~oracle'[w]
    BY <1>2 DEF PoolInv, TypeOK
  <2> QED
    BY <1>1, <1>2, <1>3, <2>1, ThrowKeeps DEF Running
<1>4. CASE ~(~killed /\ outcome[index[w]] = "solution_throws")
  BY <1>1, <1>2, <1>4, CaseKeeps
<1> QED
  BY <1>3, <1>4

\* The answer, the cancellation and the clock leave the pool alone.
LEMMA OthersKeep ==
    ASSUME PoolInv, Answer \/ Cancel \/ Expire \/ UNCHANGED vars
    PROVE  PoolInv'
<1> USE DEF PoolInv
<1>1. /\ UNCHANGED <<outcome, stage, index, oracle, pool>>
      /\ token' = token \/ token' = TRUE
      /\ expired' = expired \/ expired' = TRUE
  BY DEF Answer, Cancel, Expire, vars
<1>2. TypeOK'
  <2>1. CASE Answer
    <3>1. \A f \in findings : f[1] \in Cases /\ f[2] \in Predicates
      BY DEF TypeOK
    <3>2. answer' \in [kind : Answers, index : Cases,
                       predicate : Predicates \cup {"none"}, completed : Nat]
      BY <2>1, <3>1, CasesAssumption
         DEF Answer, TypeOK, NoAnswer, AnswerOf, Answers, Cases, Reported
    <3> QED
      BY <1>1, <3>2 DEF TypeOK, pool
  <2>2. CASE Cancel \/ Expire \/ UNCHANGED vars
    BY <1>1, <2>2 DEF TypeOK, pool, Cancel, Expire, vars
  <2> QED
    BY <2>1, <2>2
<1>3. InFlight' = InFlight
  BY <1>1 DEF InFlight
<1>4. ClaimsAreExact' /\ IdlePart' /\ BelowPart'
  BY <1>1, <1>3 DEF ClaimsAreExact, IdlePart, BelowPart, pool
<1>5. FindingsPart' /\ AccountedPart'
  BY <1>1, <1>3 DEF FindingsPart, AccountedPart, pool
<1>6. OraclePart'
  BY <1>1 DEF OraclePart
<1>7. StoppedPart'
  BY <1>1 DEF StoppedPart, pool
<1> QED
  BY <1>2, <1>4, <1>5, <1>6, <1>7

-----------------------------------------------------------------------------
(* The theorems.                                                           *)

\* Every step preserves the invariant.
LEMMA NextPoolInv == PoolInv /\ [Next]_vars => PoolInv'
<1> SUFFICES ASSUME PoolInv, [Next]_vars PROVE PoolInv'
  OBVIOUS
<1>1. CASE Start
  BY <1>1, StartKeeps
<1>2. ASSUME NEW w \in Workers, Step(w) PROVE PoolInv'
  BY <1>2, GeneratorKeeps, NaiveKeeps, SolutionKeeps DEF Step
<1>3. CASE Answer \/ Cancel \/ Expire \/ UNCHANGED vars
  BY <1>3, OthersKeep
<1> QED
  BY <1>1, <1>2, <1>3 DEF Next

\* The invariant of the pool of executeCases().
THEOREM PoolInvariant == Spec => []PoolInv
  BY InitPoolInv, NextPoolInv, PTL DEF Spec

\* Every variable keeps its type: no worker claims a case beyond the last.
THEOREM PoolTypeCorrect == Spec => []TypeOK
<1>1. PoolInv => TypeOK
  BY DEF PoolInv
<1> QED
  BY <1>1, PoolInvariant, PTL

\* The claims of executeCases() are exact: no case twice, none left out.
THEOREM EachCaseOnce == Spec => []ClaimsAreExact
<1>1. PoolInv => ClaimsAreExact
  BY DEF PoolInv
<1> QED
  BY <1>1, PoolInvariant, PTL

\* An answer is one of five, and says what it was made of.
LEMMA AnswerTypes ==
    /\ NoAnswer.kind = "none"
    /\ \A c, p, n : \A k \in {"error", "canceled", "passed", "finding"} :
          /\ AnswerOf(k, c, p, n) # NoAnswer
          /\ AnswerOf(k, c, p, n).kind = k
          /\ AnswerOf(k, c, p, n).index = c
          /\ AnswerOf(k, c, p, n).predicate = p
  BY DEF NoAnswer, AnswerOf

\* A worker answers nothing but an error.
LEMMA StepAnswers ==
    ASSUME NEW w \in Workers, Step(w)
    PROVE  /\ UNCHANGED <<outcome, token, expired>>
           /\ UNCHANGED answer \/ answer'.kind = "error"
<1>1. CASE GeneratorEnds(w)
  BY <1>1, AnswerTypes DEF GeneratorEnds, Throw
<1>2. CASE NaiveEnds(w)
  BY <1>2, AnswerTypes DEF NaiveEnds, Throw
<1>3. CASE SolutionEnds(w)
  BY <1>3, AnswerTypes DEF SolutionEnds, EndCase, Throw
<1> QED
  BY <1>1, <1>2, <1>3 DEF Step

\* The finding that the pool reports is the one a single worker would report.
THEOREM FirstFailureWins == Spec => []FirstFailureReported
<1> DEFINE P == FirstFailureReported
<1>1. Init => P
  BY DEF Init, FirstFailureReported, NoAnswer, AnswerOf
<1>2. PoolInv /\ P /\ [Next]_vars => P'
  <2> SUFFICES ASSUME PoolInv, P, [Next]_vars, answer'.kind = "finding", ~token'
               PROVE  /\ outcome'[answer'.index] # "agrees"
                      /\ \A i \in 0 .. answer'.index - 1 : outcome'[i] = "agrees"
    BY DEF FirstFailureReported
  <2>1. UNCHANGED outcome /\ ~token
    BY StepAnswers DEF Next, Start, Answer, Cancel, Expire, vars, PoolInv, TypeOK
  <2>2. CASE UNCHANGED answer
    BY <2>1, <2>2 DEF FirstFailureReported
  <2>3. CASE Answer
    <3>1. PICK f \in findings : Reported(f) /\ answer'.index = f[1]
      BY <2>3 DEF Answer, NoAnswer, AnswerOf
    <3>2. f[1] \in Cases /\ f[1] < nextIndex /\ outcome[f[1]] # "agrees"
      BY <2>1, <3>1 DEF PoolInv, FindingsPart, TypeOK
    <3>3. InFlight = {}
      BY <2>3 DEF Answer, InFlight, Running
    <3>4. ASSUME NEW i \in 0 .. f[1] - 1 PROVE outcome[i] = "agrees"
      <4>1. i \in Cases /\ i < nextIndex /\ i < f[1]
        BY <3>2, CasesAssumption DEF Cases, PoolInv, TypeOK
      <4>2. outcome[i] = "agrees" \/ \E g \in findings : g[1] = i
        BY <2>1, <3>3, <4>1 DEF PoolInv, AccountedPart
      <4> QED
        BY <3>1, <3>2, <4>1, <4>2 DEF Reported, Cases
    <3> QED
      BY <2>1, <3>1, <3>2, <3>4
  <2>4. CASE \E w \in Workers : Step(w)
    BY <2>2, <2>4, StepAnswers
  <2> QED
    BY <2>2, <2>3, <2>4 DEF Next, Start, Cancel, Expire, vars
<1> QED
  BY <1>1, <1>2, PoolInvariant, PTL DEF Spec

\* "Passed" is answered only after every case was run, unless the run was cut short.
THEOREM PassedMeansAll == Spec => []PassedIsComplete
<1> DEFINE P == PassedIsComplete
<1>1. Init => P
  BY DEF Init, PassedIsComplete, NoAnswer, AnswerOf
<1>2. PoolInv /\ P /\ [Next]_vars => P'
  <2> SUFFICES ASSUME PoolInv, P, [Next]_vars,
                      answer'.kind = "passed", ~expired', ~token'
               PROVE  /\ answer'.completed = MaxCases
                      /\ \A i \in Cases : outcome'[i] = "agrees"
    BY DEF PassedIsComplete
  <2>1. UNCHANGED outcome /\ ~token /\ ~expired
    <3>1. CASE Start
      <4>1. 0 < WorkerCount
        BY WorkersFinite
      <4> QED
        BY <3>1, <4>1 DEF Start, PoolInv, TypeOK
    <3> QED
      BY <3>1, StepAnswers DEF Next, Answer, Cancel, Expire, vars, PoolInv, TypeOK
  <2>2. CASE UNCHANGED answer
    BY <2>1, <2>2 DEF PassedIsComplete
  <2>3. CASE Answer
    <3>1. findings = {} /\ ~canceled /\ answer'.completed = completedCases
      BY <2>3 DEF Answer, NoAnswer, AnswerOf
    <3>2. InFlight = {}
      BY <2>3 DEF Answer, InFlight, Running
    <3>3. 1 \in Workers
      BY WorkersFinite, CasesAssumption DEF Workers
    <3>4. nextIndex = MaxCases
      BY <2>1, <2>3, <3>1, <3>3 DEF Answer, PoolInv, StoppedPart
    <3>5. completedCases = MaxCases
      BY <3>2, <3>4, FS_EmptySet DEF PoolInv, TypeOK, ClaimsAreExact
    <3>6. \A i \in Cases : outcome[i] = "agrees"
      BY <2>1, <3>1, <3>2, <3>4, CasesAssumption DEF PoolInv, AccountedPart, Cases
    <3> QED
      BY <2>1, <3>1, <3>5, <3>6
  <2>4. CASE \E w \in Workers : Step(w)
    BY <2>2, <2>4, StepAnswers
  <2> QED
    BY <2>2, <2>3, <2>4 DEF Next, Start, Cancel, Expire, vars
<1> QED
  BY <1>1, <1>2, PoolInvariant, PTL DEF Spec

-----------------------------------------------------------------------------
(* Whom an answer blames.                                                  *)

\* An execution that throws is answered with an error, unless another one was before.
LEMMA ThrowBlame ==
    ASSUME PoolInv, BlamePart, NEW w \in Workers, stage[w] \in Running, Throw(w),
           ~token => outcome[index[w]] \in Throwing,
           \A v \in Workers : oracle'[v] => oracle[v],
           UNCHANGED <<outcome, index, pool, token>>
    PROVE  BlamePart'
<1>1. \A v \in Workers : stage'[v] = IF v = w THEN "threw" ELSE stage[v]
  BY DEF Throw, PoolInv, TypeOK
<1>2. answer' # NoAnswer /\ (answer # NoAnswer => answer' = answer)
      /\ (answer = NoAnswer => answer'.kind = "error")
  BY AnswerTypes DEF Throw
<1>3. answer = NoAnswer \/ answer.kind = "error"
  <2>1. ~(\A v \in Workers : stage[v] = "left")
    BY DEF Running
  <2> QED
    BY <2>1 DEF BlamePart
<1>4. answer'.kind = "error"
  BY <1>2, <1>3
<1> QED
  BY <1>1, <1>4 DEF BlamePart, FailsAs, pool

\* The end of a generator's run, which is the generator's fault unless the user
\* has killed it.
LEMMA GeneratorBlame ==
    ASSUME PoolInv, BlamePart, NEW w \in Workers, GeneratorEnds(w)
    PROVE  BlamePart'
<1>1. /\ UNCHANGED <<outcome, index, oracle, pool, token>>
      /\ stage[w] = "generator"
  BY DEF GeneratorEnds
<1>2. CASE Throw(w) /\ (token \/ outcome[index[w]] = "unusable")
  BY <1>1, <1>2, ThrowBlame DEF Running, Throwing
<1>3. CASE stage' = [stage EXCEPT ![w] = "naive"] /\ UNCHANGED answer
  BY <1>1, <1>3 DEF BlamePart, FailsAs, PoolInv, TypeOK, pool
<1> QED
  BY <1>2, <1>3 DEF GeneratorEnds, Killed

\* The end of a naive run: only its own failure, or the user, makes it one.
LEMMA NaiveBlame ==
    ASSUME PoolInv, BlamePart, NEW w \in Workers, NaiveEnds(w)
    PROVE  BlamePart'
<1>1. UNCHANGED <<outcome, index, pool, token>> /\ stage[w] = "naive"
  BY DEF NaiveEnds
<1>2. CASE Throw(w) /\ UNCHANGED oracle /\ outcome[index[w]] = "naive_throws"
  BY <1>1, <1>2, ThrowBlame DEF Running, Throwing
<1>3. ASSUME NEW killed \in Killed,
             oracle' = [oracle EXCEPT ![w] = killed \/ outcome[index[w]] = "oracle"],
             stage' = [stage EXCEPT ![w] = "solution"], UNCHANGED answer
      PROVE  BlamePart'
  <2>1. ~token => \A v \in Workers : oracle'[v] => outcome[index[v]] = "oracle"
    <3> SUFFICES ASSUME ~token, NEW v \in Workers, oracle'[v]
                 PROVE  outcome[index[v]] = "oracle"
      OBVIOUS
    <3>1. killed = FALSE
      BY DEF Killed
    <3>2. CASE v = w
      BY <1>3, <3>1, <3>2 DEF PoolInv, TypeOK
    <3>3. CASE v # w
      BY <1>3, <3>3 DEF PoolInv, TypeOK, BlamePart
    <3> QED
      BY <3>2, <3>3
  <2> QED
    BY <1>1, <1>3, <2>1 DEF BlamePart, FailsAs, PoolInv, TypeOK, pool
<1> QED
  BY <1>2, <1>3 DEF NaiveEnds

\* The end of a case: predicateOf() puts it down to the program that failed.
LEMMA CaseBlame ==
    ASSUME PoolInv, BlamePart, NEW w \in Workers, stage[w] = "solution",
           NEW killed \in BOOLEAN, killed => token,
           killed \/ outcome[index[w]] # "solution_throws",
           EndCase(w, PredicateOf(w, killed)),
           oracle' = [oracle EXCEPT ![w] = FALSE],
           UNCHANGED <<outcome, token>>
    PROVE  BlamePart'
<1>1. UNCHANGED answer
  BY DEF EndCase
<1>2. /\ findings' = IF PredicateOf(w, killed) = "none" THEN findings
                     ELSE findings \cup {<<index[w], PredicateOf(w, killed)>>}
      /\ Loop(w, stopped \/ PredicateOf(w, killed) # "none")
  BY DEF EndCase
<1>3. ~token => \A f \in findings' : f[2] = FailsAs(f[1])
  <2> SUFFICES ASSUME ~token, PredicateOf(w, killed) # "none"
               PROVE  PredicateOf(w, killed) = FailsAs(index[w])
    BY <1>2 DEF BlamePart
  <2>1. killed = FALSE
    OBVIOUS
  <2>2. outcome[index[w]] \in Outcomes \ Throwing
    BY <2>1 DEF PoolInv, TypeOK, OraclePart, Throwing
  <2>3. oracle[w] <=> outcome[index[w]] = "oracle"
    BY DEF PoolInv, OraclePart, BlamePart
  <2> QED
    BY <2>1, <2>2, <2>3 DEF PredicateOf, FailsAs, Outcomes
<1>4. \A v \in Workers : stage'[v] = "threw" <=> stage[v] = "threw"
  BY <1>2 DEF Loop, PoolInv, TypeOK
<1>5. \A v \in Workers : v # w => index'[v] = index[v]
  BY <1>2 DEF Loop, Claims, PoolInv, TypeOK
<1>6. \A v \in Workers : oracle'[v] => v # w /\ oracle[v]
  BY DEF PoolInv, TypeOK
<1>7. FailsAs(answer.index)' = FailsAs(answer.index)
      /\ \A f \in findings' : FailsAs(f[1])' = FailsAs(f[1])
  BY <1>1 DEF FailsAs
<1>8. \A v \in Workers : stage[v] = "threw" => v # w
  OBVIOUS
<1> QED
  BY <1>1, <1>3, <1>4, <1>5, <1>6, <1>7, <1>8 DEF BlamePart

\* The end of the solution's run.
LEMMA SolutionBlame ==
    ASSUME PoolInv, BlamePart, NEW w \in Workers, SolutionEnds(w)
    PROVE  BlamePart'
<1>1. PICK killed \in Killed :
          IF ~killed /\ outcome[index[w]] = "solution_throws"
          THEN Throw(w) /\ UNCHANGED <<index, pool>>
          ELSE EndCase(w, PredicateOf(w, killed))
  BY DEF SolutionEnds
<1>2. /\ stage[w] = "solution" /\ oracle' = [oracle EXCEPT ![w] = FALSE]
      /\ UNCHANGED <<outcome, token>>
      /\ killed \in BOOLEAN /\ (killed => token)
  BY DEF SolutionEnds, Killed
<1>3. CASE ~killed /\ outcome[index[w]] = "solution_throws"
  <2>1. \A v \in Workers : oracle'[v] => oracle[v]
    BY <1>2 DEF PoolInv, TypeOK
  <2> QED
    BY <1>1, <1>2, <1>3, <2>1, ThrowBlame DEF Running, Throwing
<1>4. CASE ~(~killed /\ outcome[index[w]] = "solution_throws")
  BY <1>1, <1>2, <1>4, CaseBlame
<1> QED
  BY <1>3, <1>4

\* Every step blames the right party.
LEMMA NextBlame == PoolInv /\ BlamePart /\ [Next]_vars => BlamePart'
<1> SUFFICES ASSUME PoolInv, BlamePart, [Next]_vars PROVE BlamePart'
  OBVIOUS
<1>1. CASE Start
  <2>1. \A w \in Workers : stage'[w] # "threw"
    BY <1>1 DEF Start
  <2>2. \A w \in Workers : ~oracle[w]
    BY <1>1 DEF Start, PoolInv, OraclePart
  <2> QED
    BY <1>1, <2>1, <2>2 DEF Start, BlamePart, FailsAs
<1>2. ASSUME NEW w \in Workers, Step(w) PROVE BlamePart'
  BY <1>2, GeneratorBlame, NaiveBlame, SolutionBlame DEF Step
<1>3. CASE Answer
  <2>1. /\ UNCHANGED <<outcome, stage, index, oracle, findings, token>>
        /\ \A w \in Workers : stage[w] = "left"
    BY <1>3 DEF Answer, pool
  <2>2. \/ canceled /\ answer'.kind = "canceled"
        \/ answer'.kind = "passed"
        \/ \E f \in findings : answer'.kind = "finding" /\ answer'.index = f[1]
                               /\ answer'.predicate = f[2]
    BY <1>3, AnswerTypes DEF Answer
  <2>3. canceled => token
    BY DEF PoolInv, StoppedPart
  <2> QED
    BY <2>1, <2>2, <2>3 DEF BlamePart, FailsAs
<1>4. CASE Cancel
  BY <1>4 DEF Cancel, BlamePart
<1>5. CASE Expire \/ UNCHANGED vars
  BY <1>5 DEF Expire, vars, pool, BlamePart, FailsAs
<1> QED
  BY <1>1, <1>2, <1>3, <1>4, <1>5 DEF Next

\* The invariant behind the blame and the progress of the pool.
LEMMA BlameInvariant == Spec => [](PoolInv /\ BlamePart)
<1>1. Init => BlamePart
  BY AnswerTypes DEF Init, BlamePart
<1> QED
  BY <1>1, NextBlame, PoolInvariant, PTL DEF Spec

\* What the command answers is the fault of whom it names: the generator, the
\* oracle, the solution, or the user.
THEOREM AnswersBlameTheRightParty == Spec => []BlameIsRight
<1> DEFINE Named == answer.kind = "finding" /\ ~token =>
                        /\ answer.index \in Cases
                        /\ answer.predicate \in Predicates
<1>1. Init => Named
  BY AnswerTypes DEF Init
<1>2. PoolInv /\ Named /\ [Next]_vars => Named'
  <2> SUFFICES ASSUME PoolInv, Named, [Next]_vars, answer'.kind = "finding", ~token'
               PROVE  answer'.index \in Cases /\ answer'.predicate \in Predicates
    OBVIOUS
  <2>1. ~token
    BY StepAnswers DEF Next, Start, Answer, Cancel, Expire, vars, PoolInv, TypeOK
  <2>2. CASE UNCHANGED answer
    BY <2>1, <2>2
  <2>3. CASE Answer
    <3>1. PICK f \in findings : answer' = AnswerOf("finding", f[1], f[2], completedCases)
      BY <2>3, AnswerTypes DEF Answer
    <3> QED
      BY <3>1, AnswerTypes DEF PoolInv, TypeOK
  <2>4. CASE \E w \in Workers : Step(w)
    BY <2>2, <2>4, StepAnswers
  <2> QED
    BY <2>2, <2>3, <2>4 DEF Next, Start, Cancel, Expire, vars
<1>3. Spec => []Named
  BY <1>1, <1>2, PoolInvariant, PTL DEF Spec
<1>4. BlamePart /\ Named => BlameIsRight
  BY DEF BlamePart, BlameIsRight, Predicates
<1> QED
  BY <1>3, <1>4, BlameInvariant, PTL

-----------------------------------------------------------------------------
(* Every execution of the pool can go on.                                  *)

\* A set of numbers that is not empty has a least one.
LEMMA Least == \A S \in SUBSET Nat : S # {} => \E m \in S : \A n \in S : m <= n
<1> SUFFICES ASSUME NEW S \in SUBSET Nat, S # {} PROVE \E m \in S : \A n \in S : m <= n
  OBVIOUS
<1>1. PICK m \in S : \A n \in S : <<n, m>> \notin OpToRel(<, Nat)
  <2> DEFINE R == OpToRel(<, Nat)
  <2>1. IsWellFoundedOn(R, Nat)
    BY NatLessThanWellFounded
  <2> HIDE DEF R
  <2>2. \E x \in S : \A n \in S : <<n, x>> \notin R
    BY <2>1, WFMin
  <2> QED
    BY <2>2 DEF R
<1>2. \A n \in S : ~(n < m)
  <2> TAKE n \in S
  <2>1. <<n, m>> \in Nat \X Nat
    OBVIOUS
  <2> QED
    BY <1>1, <2>1 DEF OpToRel
<1> QED
  BY <1>2

\* executeCases() and the command are never stuck: before the answer some
\* execution is running, or the pool is about to start, or everyone has left it
\* and there is something to answer.
THEOREM ThePoolIsNeverStuck == Spec => []PoolIsNeverStuck
<1>1. PoolInv /\ BlamePart => PoolIsNeverStuck
  <2> SUFFICES ASSUME PoolInv, BlamePart, answer = NoAnswer,
                      ~(\A w \in Workers : stage[w] = "idle"),
                      ~(\E w \in Workers : stage[w] \in Running),
                      findings # {}
               PROVE  /\ \A w \in Workers : stage[w] = "left"
                      /\ \E f \in findings : Reported(f)
    <3>1. PoolInv /\ BlamePart /\ answer = NoAnswer
          /\ ~(\A w \in Workers : stage[w] = "idle")
          /\ ~(\E w \in Workers : stage[w] \in Running)
             => \A w \in Workers : stage[w] = "left"
      BY DEF PoolInv, TypeOK, Stages, IdlePart, BlamePart, NoAnswer, AnswerOf
    <3> QED
      BY <3>1 DEF PoolIsNeverStuck, Due
  <2>1. \A w \in Workers : stage[w] = "left"
    BY DEF PoolInv, TypeOK, Stages, IdlePart, BlamePart, NoAnswer, AnswerOf
  <2>2. \E f \in findings : Reported(f)
    <3> DEFINE S == {f[1] : f \in findings}
    <3>1. S \in SUBSET Nat /\ S # {}
      BY CasesAssumption DEF PoolInv, TypeOK, Cases
    <3>2. PICK m \in S : \A n \in S : m <= n
      BY <3>1, Least
    <3> QED
      BY <3>2 DEF Reported
  <2> QED
    BY <2>1, <2>2
<1> QED
  BY <1>1, BlameInvariant, PTL
=============================================================================
