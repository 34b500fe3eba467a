---------------------------- MODULE StressCases ----------------------------
(***************************************************************************)
(* The cases of stress-test (src/src/application/stress-test-command.ts):  *)
(* executeCases() and its pool of workers, runCase() with its three awaits *)
(* on the runner, and the answer that executeStressTestCommand() gives.    *)
(*                                                                         *)
(* A case is named by its index, from which its seed is derived, so what   *)
(* its three programs do is a function of the index: outcome.  A worker    *)
(* runs without interruption from one await to the next; in between, other *)
(* workers run, the user cancels and the duration runs out.                *)
(***************************************************************************)
EXTENDS Naturals, FiniteSets

CONSTANTS
    Jobs,      \* --jobs
    MaxCases   \* --cases

ASSUME JobsAssumption  == Jobs \in Nat \ {0}
ASSUME CasesAssumption == MaxCases \in Nat \ {0}

Cases   == 0 .. MaxCases - 1

WorkerCount == IF Jobs < MaxCases THEN Jobs ELSE MaxCases
Workers     == 1 .. WorkerCount

\* What the executions of a case come to when nobody interferes: the generator yields
\* no input (or one beyond the input limit, or its execution throws), the execution
\* of the naive oracle throws (the runner rejects, or the response is beyond the
\* limits of the codec), that of the solution does, the oracle fails, the solution
\* fails, their outputs differ, or they agree.
Throwing   == {"unusable", "naive_throws", "solution_throws"}
Outcomes   == Throwing \cup {"oracle", "fails", "differs", "agrees"}
Running    == {"generator", "naive", "solution"}
Stages     == {"idle", "left", "threw"} \cup Running
Predicates == {"oracle_failure", "optimized_failure", "mismatch"}

VARIABLES
    outcome,    \* what each case does
    stage,      \* which await of runCase() a worker is at
    index,      \* the case it has claimed
    oracle,     \* the naive execution of its case has failed
    nextIndex, completedCases, stopped, canceled,  \* executeCases()
    findings,   \* executeCases(): pairs of an index and a predicate
    token,      \* the cancellation token
    expired,    \* the duration has passed
    answer      \* what the command answers

pool == <<nextIndex, completedCases, stopped, canceled, findings>>
vars == <<outcome, stage, index, oracle, pool, token, expired, answer>>

AnswerOf(kind, case, predicate, completed) ==
    [kind |-> kind, index |-> case, predicate |-> predicate, completed |-> completed]

NoAnswer == AnswerOf("none", 0, "none", 0)
Answers  == {"none", "error", "canceled", "passed", "finding"}

Init ==
    /\ outcome \in [Cases -> Outcomes]
    /\ stage = [w \in Workers |-> "idle"]
    /\ index = [w \in Workers |-> 0]
    /\ oracle = [w \in Workers |-> FALSE]
    /\ nextIndex = 0 /\ completedCases = 0
    /\ stopped = FALSE /\ canceled = FALSE
    /\ findings = {}
    /\ token = FALSE /\ expired = FALSE
    /\ answer = NoAnswer

-----------------------------------------------------------------------------
(* The loop of a worker.                                                   *)

\* Mutant of MayClaim: an off-by-one in the bound.
MayClaimFewer(halt) == ~halt /\ nextIndex + 1 < MaxCases /\ ~expired

\* The condition of the loop, given the value of stopped that it reads.
MayClaim(halt) == ~halt /\ nextIndex < MaxCases /\ ~expired

\* The claim of an index and its count are one step.
Claims(w) ==
    /\ index' = [index EXCEPT ![w] = nextIndex]
    /\ nextIndex' = nextIndex + 1

\* From the end of a case to the next claim and the first await of that case, or
\* out of the loop.
Loop(w, halt) ==
    \/ /\ MayClaim(halt)
       /\ ~token
       /\ Claims(w)
       /\ stage' = [stage EXCEPT ![w] = "generator"]
       /\ stopped' = halt
       /\ UNCHANGED canceled
    \/ /\ MayClaim(halt)
       /\ token
       /\ canceled' = TRUE
       /\ stopped' = TRUE
       /\ stage' = [stage EXCEPT ![w] = "left"]
       /\ UNCHANGED <<index, nextIndex>>
    \/ /\ ~MayClaim(halt)
       /\ stopped' = halt
       /\ stage' = [stage EXCEPT ![w] = "left"]
       /\ UNCHANGED <<index, nextIndex, canceled>>

\* The workers are started one after the other, up to their first await, and each
\* looks at the clock: the first n of them come before the duration has passed.  There
\* are no more workers than cases, and the first that sees the token stops the others.
Start ==
    /\ \A w \in Workers : stage[w] = "idle"
    /\ \/ \E n \in 0 .. WorkerCount :
             /\ token \/ expired => n = 0
             /\ expired' = (n < WorkerCount)
             /\ stage' = [w \in Workers |-> IF w <= n THEN "generator" ELSE "left"]
             /\ index' = [w \in Workers |-> IF w <= n THEN w - 1 ELSE index[w]]
             /\ nextIndex' = n
             /\ UNCHANGED <<canceled, stopped>>
       \/ /\ token /\ ~expired
          /\ canceled' = TRUE
          /\ stopped' = TRUE
          /\ stage' = [w \in Workers |-> "left"]
          /\ UNCHANGED <<index, nextIndex, expired>>
    /\ UNCHANGED <<outcome, oracle, completedCases, findings, token, answer>>

-----------------------------------------------------------------------------
(* runCase().  A run that is canceled is killed, unless it is over already. *)

Killed == IF token THEN BOOLEAN ELSE {FALSE}

\* Mutant of Throw: the other workers are waited for, and the error is lost.
ThrowQuietly(w) ==
    /\ stage' = [stage EXCEPT ![w] = "threw"]
    /\ UNCHANGED answer

\* Promise.all rejects with the first error, and the command answers at once.
Throw(w) ==
    /\ stage' = [stage EXCEPT ![w] = "threw"]
    /\ answer' = IF answer = NoAnswer THEN AnswerOf("error", 0, "none", 0) ELSE answer

GeneratorEnds(w) ==
    /\ stage[w] = "generator"
    /\ \E killed \in Killed :
          IF killed \/ outcome[index[w]] = "unusable"
          THEN Throw(w)
          ELSE stage' = [stage EXCEPT ![w] = "naive"] /\ UNCHANGED answer
    /\ UNCHANGED <<outcome, index, oracle, pool, token, expired>>

NaiveEnds(w) ==
    /\ stage[w] = "naive"
    /\ \E killed \in Killed :
          IF ~killed /\ outcome[index[w]] = "naive_throws"
          THEN Throw(w) /\ UNCHANGED oracle
          ELSE /\ oracle' = [oracle EXCEPT ![w] = killed \/ outcome[index[w]] = "oracle"]
               /\ stage' = [stage EXCEPT ![w] = "solution"]
               /\ UNCHANGED answer
    /\ UNCHANGED <<outcome, index, pool, token, expired>>

\* predicateOf(): null, or the first of the three failures that applies.
PredicateOf(w, killed) ==
    CASE oracle[w]                                 -> "oracle_failure"
      [] ~oracle[w] /\ (killed \/ outcome[index[w]] = "fails") -> "optimized_failure"
      [] ~oracle[w] /\ ~killed /\ outcome[index[w]] = "differs" -> "mismatch"
      [] OTHER                                     -> "none"

\* The case is over: it is counted, its finding recorded, and the loop goes on.
EndCase(w, predicate) ==
    /\ completedCases' = completedCases + 1
    /\ findings' = IF predicate = "none" THEN findings
                   ELSE findings \cup {<<index[w], predicate>>}
    /\ Loop(w, stopped \/ predicate # "none")
    /\ UNCHANGED answer

SolutionEnds(w) ==
    /\ stage[w] = "solution"
    /\ \E killed \in Killed :
          IF ~killed /\ outcome[index[w]] = "solution_throws"
          THEN Throw(w) /\ UNCHANGED <<index, pool>>
          ELSE EndCase(w, PredicateOf(w, killed))
    /\ oracle' = [oracle EXCEPT ![w] = FALSE]
    /\ UNCHANGED <<outcome, token, expired>>

-----------------------------------------------------------------------------
(* executeStressTestCommand().                                             *)

\* Mutant of Reported: the findings are not sorted.
ReportedUnsorted(f) == f \in findings

\* findings[0] after the sort by index.
Reported(f) == f \in findings /\ \A g \in findings : f[1] <= g[1]

\* Promise.all resolves when every worker has left its loop.
Answer ==
    /\ answer = NoAnswer
    /\ \A w \in Workers : stage[w] = "left"
    /\ \/ /\ canceled
          /\ answer' = AnswerOf("canceled", 0, "none", completedCases)
       \/ /\ ~canceled /\ findings = {}
          /\ answer' = AnswerOf("passed", 0, "none", completedCases)
       \/ /\ ~canceled
          /\ \E f \in findings :
                /\ Reported(f)
                /\ answer' = AnswerOf("finding", f[1], f[2], completedCases)
    /\ UNCHANGED <<outcome, stage, index, oracle, pool, token, expired>>

\* The user cancels; or the command has answered and the program closes.
Cancel ==
    /\ ~token
    /\ token' = TRUE
    /\ UNCHANGED <<outcome, stage, index, oracle, pool, expired, answer>>

Expire ==
    /\ ~expired
    /\ expired' = TRUE
    /\ UNCHANGED <<outcome, stage, index, oracle, pool, token, answer>>

-----------------------------------------------------------------------------

Step(w) == GeneratorEnds(w) \/ NaiveEnds(w) \/ SolutionEnds(w)

Next == (\E w \in Workers : Step(w)) \/ Start \/ Answer \/ Cancel \/ Expire

Spec == Init /\ [][Next]_vars

\* Every execution ends, because the sandbox has a wall limit, and Node runs the
\* continuations.
FairSpec == Spec /\ WF_vars(Start \/ Answer) /\ \A w \in Workers : WF_vars(Step(w))

-----------------------------------------------------------------------------
(* Properties.                                                             *)

\* The type of every variable.
TypeOK ==
    /\ outcome \in [Cases -> Outcomes]
    /\ stage \in [Workers -> Stages]
    /\ index \in [Workers -> Cases]
    /\ oracle \in [Workers -> BOOLEAN]
    /\ nextIndex \in 0 .. MaxCases
    /\ completedCases \in Nat
    /\ stopped \in BOOLEAN /\ canceled \in BOOLEAN
    /\ findings \subseteq Cases \X Predicates
    /\ token \in BOOLEAN /\ expired \in BOOLEAN
    /\ answer \in [kind : Answers, index : Cases, predicate : Predicates \cup {"none"},
                   completed : Nat]

InFlight == {w \in Workers : stage[w] \in Running \cup {"threw"}}

\* No case is run by two workers, none is skipped, and every claimed case that is
\* not in flight has been counted.
ClaimsAreExact ==
    /\ \A v, w \in InFlight : v # w => index[v] # index[w]
    /\ completedCases + Cardinality(InFlight) = nextIndex

\* The finding that is reported is the one that a run with one job would report:
\* no case of a lower index fails, whichever worker finished first.
FirstFailureReported ==
    answer.kind = "finding" /\ ~token =>
        /\ outcome[answer.index] # "agrees"
        /\ \A i \in 0 .. answer.index - 1 : outcome[i] = "agrees"

\* "No differential mismatch" is the answer only when every case was run and
\* agreed, or the duration or the user cut the run short.
PassedIsComplete ==
    answer.kind = "passed" /\ ~expired /\ ~token =>
        /\ answer.completed = MaxCases
        /\ \A i \in Cases : outcome[i] = "agrees"

\* The command answers, whatever its programs, its user and its workers do.
CommandAnswers == <>(answer.kind # "none")

-----------------------------------------------------------------------------
(* The inductive invariant of the pool.                                    *)

\* Before Start nothing has happened.
IdlePart ==
    (\E w \in Workers : stage[w] = "idle") =>
        /\ \A w \in Workers : stage[w] = "idle"
        /\ nextIndex = 0 /\ completedCases = 0 /\ findings = {}
        /\ ~stopped /\ ~canceled

\* What the earlier executions of a worker's case have shown of it.
OraclePart ==
    \A w \in Workers :
        /\ oracle[w] => stage[w] = "solution" /\ (token \/ outcome[index[w]] # "agrees")
        /\ stage[w] \in {"naive", "solution"} /\ ~token => outcome[index[w]] # "unusable"
        /\ stage[w] = "solution" /\ ~token => outcome[index[w]] # "naive_throws"
        /\ stage[w] = "solution" /\ ~oracle[w] /\ ~token => outcome[index[w]] # "oracle"

\* Every claimed case is in flight, agreed, or is among the findings.
AccountedPart ==
    \A i \in Cases : i < nextIndex /\ ~token =>
        \/ \E w \in InFlight : index[w] = i
        \/ outcome[i] = "agrees"
        \/ \E f \in findings : f[1] = i

\* Findings are of claimed cases that fail.
FindingsPart ==
    \A f \in findings : f[1] < nextIndex /\ (token \/ outcome[f[1]] # "agrees")

BelowPart == \A w \in InFlight : index[w] < nextIndex

\* The pool is stopped by a finding or by a cancellation, and a worker leaves it
\* for these reasons, when the cases are exhausted or when the duration has passed.
StoppedPart ==
    /\ stopped => findings # {} \/ canceled
    /\ canceled => token
    /\ \A w \in Workers : stage[w] = "left" =>
           stopped \/ expired \/ nextIndex = MaxCases

PoolInv ==
    /\ TypeOK /\ ClaimsAreExact
    /\ IdlePart /\ OraclePart /\ AccountedPart /\ FindingsPart /\ BelowPart
    /\ StoppedPart

-----------------------------------------------------------------------------
(* What only a proof establishes: see StressCasesProofs.                   *)

\* The predicate under which a case fails when nobody interferes.
FailsAs(i) ==
    CASE outcome[i] = "oracle"  -> "oracle_failure"
      [] outcome[i] = "fails"   -> "optimized_failure"
      [] outcome[i] = "differs" -> "mismatch"
      [] OTHER                  -> "none"

\* A worker has thrown if and only if the answer is an error, any other answer comes
\* when all have left, and without the user every failure of a program is put down to
\* that program.
BlamePart ==
    /\ answer.kind = "error" <=> \E w \in Workers : stage[w] = "threw"
    /\ \/ answer = NoAnswer \/ answer.kind = "error"
       \/ \A w \in Workers : stage[w] = "left"
    /\ answer.kind = "canceled" => token
    /\ ~token =>
          /\ \A w \in Workers : stage[w] = "threw" => outcome[index[w]] \in Throwing
          /\ \A w \in Workers : oracle[w] => outcome[index[w]] = "oracle"
          /\ \A f \in findings : f[2] = FailsAs(f[1])
          /\ answer.kind = "finding" => answer.predicate = FailsAs(answer.index)

\* No answer blames the wrong party.  The command answers an error exactly when an
\* execution has thrown, be it of the generator, the naive or the solution, and
\* whatever the other workers have found.  Unless the user has interfered, every
\* worker that threw is at a case that does, a finding names the program of its case
\* that failed, and only the user cancels.
BlameIsRight ==
    /\ answer.kind = "error" <=> \E w \in Workers : stage[w] = "threw"
    /\ answer.kind = "canceled" => token
    /\ ~token =>
          /\ \A w \in Workers : stage[w] = "threw" => outcome[index[w]] \in Throwing
          /\ answer.kind = "finding" =>
                /\ FailsAs(answer.index) # "none"
                /\ answer.predicate = FailsAs(answer.index)

\* Something that will happen: the pool is started, an execution ends, or
\* Promise.all resolves and there is something to answer.
Due ==
    \/ \A w \in Workers : stage[w] = "idle"
    \/ \E w \in Workers : stage[w] \in Running
    \/ /\ \A w \in Workers : stage[w] = "left"
       /\ canceled \/ findings = {} \/ \E f \in findings : Reported(f)

\* The pool never waits for nobody: no worker is left behind that has not been
\* started, and none has thrown, while the command has not answered.
PoolIsNeverStuck == answer # NoAnswer \/ Due
=============================================================================
