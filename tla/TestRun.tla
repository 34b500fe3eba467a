------------------------------ MODULE TestRun ------------------------------
(***************************************************************************)
(* One palestra test, from dispatch to the rendered answer: the cases are  *)
(* loaded and run by a pool of workers, the result is written as artifact  *)
(* and as one transaction (src/src/application/test-command.ts), while the *)
(* user may interrupt at any await (src/src/cli/main.ts, shutdown.ts).     *)
(*                                                                         *)
(* The store is AtomicStore, which SqliteStore implements: a run is one    *)
(* unit of work.  Signals that arrive before the command is dispatched are *)
(* not modelled, because nothing is awaited until then.                    *)
(***************************************************************************)
EXTENDS Naturals, FiniteSets

CONSTANTS
    Jobs,       \* --jobs
    CaseCount   \* case files of the problem

ASSUME JobsAssumption  == Jobs \in Nat \ {0}
ASSUME CasesAssumption == CaseCount \in Nat

Cases   == 0 .. CaseCount - 1
Workers == 1 .. Jobs

\* What becomes of a case when nobody interferes: its file cannot be loaded, its
\* request exceeds the input limit, or it is executed with one of the statuses,
\* of which "stopped" stands for the limits.
Statuses == {"stopped", "protocol_error", "wrong_answer", "passed"}
Outcomes == {"malformed", "oversized"} \cup Statuses

Rank == [status \in Statuses |->
           CASE status = "stopped" -> 1 [] status = "protocol_error" -> 2
             [] status = "wrong_answer" -> 5 [] status = "passed" -> 6]

VARIABLES
    outcome,       \* what becomes of each case
    phase,         \* which await of the command it is at
    loaded,        \* fixedCases: how many have been loaded
    stage,         \* where each worker is
    ordinal,       \* the case it has claimed
    nextOrdinal,   \* executeFixedCases()
    completed,     \* completed[c], "none" for undefined
    handled,       \* the status the command will answer
    artifact,      \* the mismatch artifact: none, written or failed
    rows, told,    \* AtomicStore: the run's rows, and what transact() said
    leased,        \* shutdown: the command's active work is not complete
    signal,        \* SIGINT or SIGTERM was received, so the token is canceled
    storeOpen,     \* the store has not been closed
    answer         \* what was rendered

work == <<loaded, stage, ordinal, nextOrdinal, completed>>
life == <<leased, signal, storeOpen, answer>>
vars == <<outcome, phase, work, handled, artifact, rows, told, life>>

Store == INSTANCE AtomicStore WITH Jobs <- {"run"}, Parts <- 1, outcome <- told

Phases == {"loading", "pool", "artifact", "reading", "committing", "returning",
           "completed", "done"}
Stages == {"idle", "running", "left", "threw"}
Codes  == Statuses \cup {"none", "canceled", "invalid_input"}

AnswerOf(status, art, saved) == [status |-> status, artifact |-> art, saved |-> saved]

NoAnswer == AnswerOf("none", FALSE, FALSE)

Init ==
    /\ outcome \in [Cases -> Outcomes]
    /\ phase = "loading"
    /\ loaded = 0
    /\ stage = [w \in Workers |-> "idle"]
    /\ ordinal = [w \in Workers |-> 0]
    /\ nextOrdinal = 0
    /\ completed = [c \in Cases |-> "none"]
    /\ handled = "none"
    /\ artifact = "none"
    /\ Store!Init
    /\ leased = TRUE /\ signal = FALSE /\ storeOpen = TRUE
    /\ answer = NoAnswer

Finishes(status) == phase' = "returning" /\ handled' = status

-----------------------------------------------------------------------------
(* Loading and the pool.                                                   *)

\* streamFixedCases() yields the next case, or throws at a malformed one; the
\* loop ends early when the run is canceled.
Load ==
    /\ phase = "loading"
    /\ loaded < CaseCount
    /\ IF outcome[loaded] = "malformed"
       THEN Finishes("invalid_input") /\ UNCHANGED loaded
       ELSE /\ ~signal
            /\ loaded' = loaded + 1
            /\ UNCHANGED <<phase, handled>>
    /\ UNCHANGED <<outcome, stage, ordinal, nextOrdinal, completed, artifact, rows,
                   told, life>>

\* prepare() throws: the configuration or the runtime cannot be used.
PrepareFails ==
    /\ phase = "loading"
    /\ loaded = 0
    /\ Finishes("invalid_input")
    /\ UNCHANGED <<outcome, work, artifact, rows, told, life>>

\* A worker that has claimed a case: its request is encoded, and executed.
Claimed(c) == IF outcome[c] = "oversized" THEN "threw" ELSE "running"

\* executeFixedCases(): no more workers than cases are started, one after the
\* other up to their first await.
StartPool ==
    LET count == IF Jobs < loaded THEN Jobs ELSE loaded
        start == IF signal THEN 0 ELSE count
    IN  /\ phase = "loading"
        /\ loaded < CaseCount => signal /\ outcome[loaded] # "malformed"
        /\ phase' = "pool"
        /\ stage' = [w \in Workers |-> IF w <= start THEN Claimed(w - 1) ELSE "left"]
        /\ ordinal' = [w \in Workers |-> IF w <= start THEN w - 1 ELSE 0]
        /\ nextOrdinal' = start
        /\ UNCHANGED <<outcome, loaded, completed, handled, artifact, rows, told, life>>

\* The loop of a worker: the claim of an ordinal and its count are one step.
Loop(w) ==
    IF signal \/ nextOrdinal >= loaded
    THEN stage' = [stage EXCEPT ![w] = "left"] /\ UNCHANGED <<ordinal, nextOrdinal>>
    ELSE /\ ordinal' = [ordinal EXCEPT ![w] = nextOrdinal]
         /\ nextOrdinal' = nextOrdinal + 1
         /\ stage' = [stage EXCEPT ![w] = Claimed(nextOrdinal)]

\* Mutant of RunEnds: cancellation is looked at between cases only, so that an
\* execution which it killed is classified.
RunEndsKilled(w) ==
    /\ stage[w] = "running"
    /\ completed' = [completed EXCEPT
                       ![ordinal[w]] = IF signal THEN "stopped" ELSE outcome[ordinal[w]]]
    /\ Loop(w)
    /\ UNCHANGED <<outcome, phase, loaded, handled, artifact, rows, told, life>>

\* Runner.run() resolves.  A result that a cancellation may have caused is
\* dropped; workers go on also when the pool has already been given up.
RunEnds(w) ==
    /\ stage[w] = "running"
    /\ completed' = IF signal THEN completed
                    ELSE [completed EXCEPT ![ordinal[w]] = outcome[ordinal[w]]]
    /\ Loop(w)
    /\ UNCHANGED <<outcome, phase, loaded, handled, artifact, rows, told, life>>

\* executeOne() throws: the runner rejects, or what the target has answered is over
\* a limit of the decoder, which is looked at only when nobody has interrupted.
RunThrows(w) ==
    /\ stage[w] = "running"
    /\ stage' = [stage EXCEPT ![w] = "threw"]
    /\ UNCHANGED <<outcome, phase, loaded, ordinal, nextOrdinal, completed, handled,
                   artifact, rows, told, life>>

\* Promise.all rejects: the command answers, and does not wait for the others.
PoolFails ==
    /\ phase = "pool"
    /\ \E w \in Workers : stage[w] = "threw"
    /\ Finishes("invalid_input")
    /\ UNCHANGED <<outcome, work, artifact, rows, told, life>>

PoolCanceled ==
    /\ phase = "pool"
    /\ \A w \in Workers : stage[w] = "left"
    /\ signal
    /\ Finishes("canceled")
    /\ UNCHANGED <<outcome, work, artifact, rows, told, life>>

Results == {c \in Cases : completed[c] # "none"}

\* aggregateStatus() with mostSevere(); no case at all is a protocol error.
Aggregate ==
    IF Results = {} THEN "protocol_error"
    ELSE CHOOSE s \in Statuses :
            /\ \E c \in Results : completed[c] = s
            /\ \A c \in Results : Rank[s] <= Rank[completed[c]]

\* Mutant of PoolEnds: the cancellation check before the commit is missing.
PoolEndsCanceled ==
    /\ phase = "pool"
    /\ \A w \in Workers : stage[w] = "left"
    /\ handled' = Aggregate
    /\ phase' = IF \E c \in Results : completed[c] # "passed" THEN "artifact" ELSE "reading"
    /\ UNCHANGED <<outcome, work, artifact, rows, told, life>>

\* Promise.all resolves; a failing case gets an artifact first.
PoolEnds ==
    /\ phase = "pool"
    /\ \A w \in Workers : stage[w] = "left"
    /\ ~signal
    /\ handled' = Aggregate
    /\ phase' = IF \E c \in Results : completed[c] # "passed" THEN "artifact" ELSE "reading"
    /\ UNCHANGED <<outcome, work, artifact, rows, told, life>>

-----------------------------------------------------------------------------
(* commitDeferredTest() and persist().  Failures become diagnostics.       *)

WriteArtifact ==
    /\ phase = "artifact"
    /\ artifact' \in {"written", "failed"}
    /\ phase' = "reading"
    /\ UNCHANGED <<outcome, work, handled, rows, told, life>>

ReadSource ==
    /\ phase = "reading"
    /\ \/ phase' = "committing" /\ Store!Submit("run")
       \/ phase' = "returning" /\ UNCHANGED <<rows, told>>
    /\ UNCHANGED <<outcome, work, handled, artifact, life>>

\* The store at work, as long as it is open; once closed it can only reject.
Apply ==
    /\ storeOpen
    /\ Store!Apply("run")
    /\ UNCHANGED <<outcome, phase, work, handled, artifact, life>>

Settle ==
    /\ phase = "committing"
    /\ Store!Resolve("run") \/ Store!Reject("run")
    /\ phase' = "returning"
    /\ UNCHANGED <<outcome, work, handled, artifact, life>>

-----------------------------------------------------------------------------
(* bootstrap() and the shutdown coordinator.                               *)

\* The first signal cancels the token and starts the drain; more change nothing.
Signal ==
    /\ ~signal
    /\ phase # "done"
    /\ signal' = TRUE
    /\ UNCHANGED <<outcome, phase, work, handled, artifact, rows, told, leased,
                   storeOpen, answer>>

\* Mutant of Complete: the work is released after a success only.
CompleteOnSuccess ==
    /\ phase = "returning"
    /\ phase' = "completed"
    /\ leased' = (handled \notin Statuses)
    /\ UNCHANGED <<outcome, work, handled, artifact, rows, told, signal, storeOpen,
                   answer>>

\* work.complete() in the finally block of the dispatch.
Complete ==
    /\ phase = "returning"
    /\ phase' = "completed"
    /\ leased' = FALSE
    /\ UNCHANGED <<outcome, work, handled, artifact, rows, told, signal, storeOpen,
                   answer>>

\* Mutant of CleanUp: the drain does not wait for the active work.
CleanUpEarly ==
    /\ signal
    /\ storeOpen
    /\ storeOpen' = FALSE
    /\ UNCHANGED <<outcome, phase, work, handled, artifact, rows, told, leased, signal,
                   answer>>

\* drain(): once the active work is complete the clean-ups run; the store's close
\* is the one that the application registers.
CleanUp ==
    /\ signal
    /\ ~leased
    /\ storeOpen
    /\ storeOpen' = FALSE
    /\ UNCHANGED <<outcome, phase, work, handled, artifact, rows, told, leased, signal,
                   answer>>

\* Mutant of Render: a failed transaction is not mentioned.
RenderSaved ==
    /\ phase = "completed"
    /\ signal => ~storeOpen
    /\ answer' = IF signal THEN AnswerOf("canceled", FALSE, FALSE)
                 ELSE AnswerOf(handled, artifact = "written", handled \in Statuses)
    /\ phase' = "done"
    /\ storeOpen' = FALSE
    /\ UNCHANGED <<outcome, work, handled, artifact, rows, told, leased, signal>>

\* A signal wins, after the drain; otherwise the command's outcome is rendered.
\* "saved": it carries no persistence_failed diagnostic.
Render ==
    /\ phase = "completed"
    /\ signal => ~storeOpen
    /\ answer' = IF signal THEN AnswerOf("canceled", FALSE, FALSE)
                 ELSE AnswerOf(handled, artifact = "written", told["run"] = "resolved")
    /\ phase' = "done"
    /\ storeOpen' = FALSE
    /\ UNCHANGED <<outcome, work, handled, artifact, rows, told, leased, signal>>

-----------------------------------------------------------------------------

Command ==
    \/ Load \/ PrepareFails \/ StartPool
    \/ PoolFails \/ PoolCanceled \/ PoolEnds
    \/ WriteArtifact \/ ReadSource \/ Settle
    \/ Complete \/ CleanUp \/ Render

Next ==
    \/ Command \/ Apply \/ Signal
    \/ \E w \in Workers : RunEnds(w) \/ RunThrows(w)

Spec == Init /\ [][Next]_vars

\* Node runs the continuations, I/O ends, transact() settles, and executions end
\* because the sandbox has a wall limit.
FairSpec == Spec /\ WF_vars(Command) /\ \A w \in Workers : WF_vars(RunEnds(w) \/ RunThrows(w))

-----------------------------------------------------------------------------
(* Properties.                                                             *)

\* The type of every variable.
TypeOK ==
    /\ outcome \in [Cases -> Outcomes]
    /\ phase \in Phases
    /\ loaded \in 0 .. CaseCount
    /\ stage \in [Workers -> Stages]
    /\ ordinal \in [Workers -> Nat]
    /\ \A w \in Workers : stage[w] \in {"running", "threw"} => ordinal[w] < loaded
    /\ nextOrdinal \in 0 .. loaded
    /\ completed \in [Cases -> Statuses \cup {"none"}]
    /\ handled \in Codes
    /\ artifact \in {"none", "written", "failed"}
    /\ rows \in [{"run"} -> 0 .. 1]
    /\ told \in [{"run"} -> Store!Outcomes]
    /\ leased \in BOOLEAN /\ signal \in BOOLEAN /\ storeOpen \in BOOLEAN
    /\ answer \in [status : Codes, artifact : BOOLEAN, saved : BOOLEAN]

\* A run that is in the store is a whole run: every case was loaded, executed to
\* its own end and recorded with the status it earned, although the user may have
\* interrupted it at any await, also after the last case.
PersistedIsComplete ==
    rows["run"] = 1 =>
        /\ loaded = CaseCount
        /\ \A c \in Cases : completed[c] = outcome[c]

\* The answer is true: a status is that of the most severe case of all, and the
\* rows are in the store exactly if no failure to write them is reported; an
\* error or a cancellation before the pool was done leaves nothing there.
AnswerIsTrue ==
    phase = "done" =>
        /\ answer.status \in Statuses =>
              /\ \A c \in Cases : outcome[c] \in Statuses
                                  /\ Rank[answer.status] <= Rank[outcome[c]]
              /\ answer.saved <=> rows["run"] = 1
              /\ answer.artifact => \E c \in Cases : outcome[c] # "passed"
        /\ answer.status = "invalid_input" \/ handled = "canceled" => rows["run"] = 0
        /\ answer.status = "canceled" <=> signal

\* Shutdown never closes the store under a transaction that is under way.
StoreOutlivesWork == told["run"] = "waiting" => storeOpen

\* Every test is answered, whatever its cases, its store and its user do.
TestAnswers == <>(phase = "done")
-----------------------------------------------------------------------------
(* The inductive invariant behind the theorems of TestRunProofs.           *)

Started == \A w \in Workers : stage[w] # "idle"

\* Every case was loaded, executed to its own end and recorded.
Whole ==
    /\ loaded = CaseCount
    /\ \A w \in Workers : stage[w] = "left"
    /\ \A c \in Cases : completed[c] = outcome[c]

\* What was loaded is well-formed, and what runs is within the input limit.
LoadedPart ==
    /\ \A c \in Cases : c < loaded => outcome[c] # "malformed"
    /\ \A w \in Workers : stage[w] = "running" => outcome[ordinal[w]] \in Statuses
    /\ phase = "loading" => \A w \in Workers : stage[w] = "idle"
    /\ phase \in {"pool", "artifact", "reading", "committing"} => Started

\* As long as nobody interrupts, a claimed case is recorded or in some worker's
\* hands, and a worker leaves only when every case is claimed.
ClaimPart ==
    Started /\ ~signal =>
        /\ loaded = CaseCount
        /\ \A w \in Workers : stage[w] = "left" => nextOrdinal = loaded
        /\ \A c \in Cases : c < nextOrdinal =>
              \/ completed[c] = outcome[c]
              \/ \E w \in Workers : stage[w] \in {"running", "threw"} /\ ordinal[w] = c

\* Where the command is, what the store was asked, and what it holds.
StorePart ==
    /\ phase = "committing" <=> told["run"] = "waiting"
    /\ told["run"] \in {"none", "waiting", "resolved", "rejected"}
    /\ phase \in {"loading", "pool", "artifact", "reading"} => told["run"] = "none"
    /\ told["run"] \in {"none", "rejected"} => rows["run"] = 0
    /\ told["run"] = "resolved" => rows["run"] = 1

\* A status is that of the most severe case of a whole run.
HandledPart ==
    /\ phase \in {"loading", "pool"} => handled = "none" /\ artifact = "none"
    /\ phase \in {"artifact", "reading", "committing"} => handled \in Statuses
    /\ phase \in {"returning", "completed", "done"} => handled # "none"
    /\ told["run"] # "none" => handled \in Statuses
    /\ handled \in Statuses =>
          Whole /\ \A c \in Cases : Rank[handled] <= Rank[outcome[c]]
    /\ handled = "canceled" => signal
    /\ phase = "artifact" \/ artifact = "written" =>
          \E c \in Cases : outcome[c] # "passed"

\* The work is released, and the store closed, after the command has returned.
LifePart == ~leased \/ ~storeOpen => phase \in {"completed", "done"}

RunInv ==
    /\ TypeOK /\ LoadedPart /\ ClaimPart /\ StorePart /\ HandledPart /\ LifePart
    /\ AnswerIsTrue

-----------------------------------------------------------------------------
(* What only a proof establishes: see TestRunProofs.                       *)

\* The guards of Command and of the workers' executions, state by state.
Due ==
    \/ phase \in {"loading", "artifact", "reading", "returning"}
    \/ phase = "pool" /\ \/ \A w \in Workers : stage[w] = "left"
                         \/ \E w \in Workers : stage[w] \in {"running", "threw"}
    \/ phase = "committing" /\ told["run"] = "waiting" /\ rows["run"] \in 0 .. 1
    \/ phase = "completed" /\ (signal /\ storeOpen => ~leased)

\* Nobody waits for anybody for ever: neither the command for a worker that was
\* never started, nor the drain for work that the command has not given back
\* while the command waits for the drain.
TestIsNeverStuck == phase = "done" \/ Due
=============================================================================
