----------------------------- MODULE Benchmark -----------------------------
(***************************************************************************)
(* palestra benchmark (src/src/application/benchmark-command.ts) of        *)
(* solution.py and an alternative that holds what naive.py does, on one    *)
(* case whose expected output is the naive's: the sources are hashed, the  *)
(* implementations validated, warmed up and measured in turn, and the      *)
(* samples persisted.  Times, and what is computed from them, are left out.*)
(***************************************************************************)
EXTENDS Workspace

CONSTANTS
    Warmups,   \* --warmup
    Samples    \* --samples

ASSUME RepetitionsAssumption == Warmups \in Nat /\ Samples \in Nat \ {0}

\* The implementations, in the order of --solutions.
Paths == <<"solution", "alternative">>

Ordinals == 0 .. Warmups + Samples - 1

ContentOf(path) == IF path = "solution" THEN solution ELSE Naive

\* Mutant of Hashed: the source is hashed when it is persisted.
HashedLate(w, path) == ContentOf(path)

\* The content under which a path was registered at the start.
Hashed(w, path) == IF path = "solution" THEN w.hashed ELSE Naive

SampleOf(path, ordinal, status, ran, when) ==
    [path |-> path, ordinal |-> ordinal, status |-> status, ran |-> ran, when |-> when]

WithSample(w, sample) == [w EXCEPT !.samples = Append(@, sample)]

\* The status of a sample: its output is decoded and not compared.
Exit(outcome) == IF outcome \in Outputs THEN "passed" ELSE outcome

\* Whether the next execution is canceled, and the token after it.
Interrupts(p) == {c \in [during : BOOLEAN, after : BOOLEAN] :
                    (token[p] => c.during) /\ (c.during => c.after)}

\* At least two solutions are selected, and the assets are there.
PrepareBenchmark(p) ==
    /\ Begins(p, "benchmark")
    /\ \/ /\ directory # "ready"
          /\ Returns(p, "invalid_input", FALSE)
          /\ UNCHANGED work
       \/ /\ directory = "ready"
          /\ work' = [work EXCEPT ![p] = [hashed |-> solution, start |-> edits,
                                          validated |-> <<>>, samples |-> <<>>]]
          /\ Goes(p, "validate")
    /\ UNCHANGED <<project, disk, store, token>>

WithValidated(w, content) == [w EXCEPT !.validated = Append(@, content)]

\* The output must be the expected one.
Validated(outcome) == outcome = Outcome[Naive][Whole]

\* One implementation after the other; the first that does not pass ends it, and
\* whether the user canceled is asked once at the end.
ValidateOutput(p) ==
    /\ at[p] = "validate"
    /\ \E c \in Interrupts(p) :
         LET w       == work[p]
             path    == Paths[Len(w.validated) + 1]
             outcome == Status(c.during, ContentOf(path), Whole)
             done    == WithValidated(w, ContentOf(path))
         IN /\ token' = [token EXCEPT ![p] = c.after]
            /\ \/ /\ Validated(outcome)
                  /\ Len(done.validated) < Len(Paths)
                  /\ work' = [work EXCEPT ![p] = done]
                  /\ UNCHANGED <<at, answer>>
               \/ /\ Validated(outcome)
                  /\ Len(done.validated) = Len(Paths)
                  /\ IF c.after
                     THEN Returns(p, "canceled", FALSE) /\ Forgets(p)
                     ELSE Goes(p, "measure") /\ work' = [work EXCEPT ![p] = done]
               \/ /\ ~Validated(outcome)
                  /\ Returns(p, IF c.after THEN "canceled" ELSE "not_validated", FALSE)
                  /\ Forgets(p)
    /\ UNCHANGED <<project, disk, store, command>>

\* The repetition under way, and the paths that it has not run yet.
Repetition(w) == Len(w.samples) \div Len(Paths)

Sampled(w) == {w.samples[i].path : i \in Repetition(w) * Len(Paths) + 1 .. Len(w.samples)}

\* The order of a repetition is a permutation that the seed determines.
Unsampled(w) == {"solution", "alternative"} \ Sampled(w)

AtRepetition(w) == Sampled(w) = {}

\* One execution.
TakeSample(p) ==
    /\ at[p] = "measure"
    /\ LET w == work[p] IN
         /\ Repetition(w) \in Ordinals
         /\ ~(AtRepetition(w) /\ token[p])
         /\ \E c \in Interrupts(p), path \in Unsampled(w) :
              /\ token' = [token EXCEPT ![p] = c.after]
              /\ work' = [work EXCEPT ![p] = WithSample(w,
                   SampleOf(path, Repetition(w),
                            Exit(Status(c.during, ContentOf(path), Whole)),
                            ContentOf(path), edits))]
    /\ UNCHANGED <<project, disk, store, command, at, answer>>

\* Mutant of Canceled: it was asked at the start of every repetition.
CanceledEarly(p) == FALSE

\* Asked when the measurement has returned, be it for a cancellation or complete.
Canceled(p) == token[p]

EndMeasurement(p) ==
    /\ at[p] = "measure"
    /\ LET w == work[p] IN
         /\ AtRepetition(w)
         /\ Repetition(w) \notin Ordinals \/ token[p]
    /\ IF Canceled(p)
       THEN Returns(p, "canceled", FALSE) /\ Forgets(p)
       ELSE Goes(p, "persist") /\ UNCHANGED work
    /\ UNCHANGED <<project, disk, store, command, token>>

\* The first sample that did not pass decides.
Aggregate(samples) ==
    LET failed == {i \in DOMAIN samples : samples[i].status # "passed"} IN
    IF failed = {} THEN "passed"
    ELSE samples[CHOOSE i \in failed : \A j \in failed : i <= j].status

BenchmarkRow(p, w) ==
    [by |-> p, start |-> w.start, samples |-> w.samples, status |-> Aggregate(w.samples),
     recorded |-> [i \in DOMAIN Paths |-> Hashed(w, Paths[i])]]

PersistBenchmark(p) ==
    /\ at[p] = "persist"
    /\ command[p] = "benchmark"
    /\ problemRow' = Registered
    /\ implementations' = implementations \cup
         {ByPath(Paths[i], Hashed(work[p], Paths[i])) : i \in DOMAIN Paths}
    /\ benchmarkRows' = benchmarkRows \cup {BenchmarkRow(p, work[p])}
    /\ Returns(p, Aggregate(work[p].samples), TRUE)
    /\ Forgets(p)
    /\ UNCHANGED <<project, disk, executions, artifactRows, replayRows, command, token>>

\* The verdict is answered all the same, beside a diagnostic.
PersistBenchmarkFails(p) ==
    /\ at[p] = "persist"
    /\ command[p] = "benchmark"
    /\ Returns(p, Aggregate(work[p].samples), FALSE)
    /\ Forgets(p)
    /\ UNCHANGED <<project, disk, store, command, token>>

BenchmarkStep(p) ==
    \/ PrepareBenchmark(p) \/ ValidateOutput(p) \/ TakeSample(p)
    \/ EndMeasurement(p) \/ PersistBenchmark(p) \/ PersistBenchmarkFails(p)
=============================================================================
