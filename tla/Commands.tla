------------------------------ MODULE Commands ------------------------------
(***************************************************************************)
(* Several processes of palestra in one project: init, stress-test, replay *)
(* and benchmark beside each other and after each other, while the user    *)
(* saves solution.py, presses Ctrl-C, deletes artifacts and problems, and  *)
(* processes are killed.                                                   *)
(***************************************************************************)
EXTENDS InitProblem, StressFinding, Replay, Benchmark

\* A project without the problem, or with one that is complete: made by init and
\* registered, or copied from the examples and unknown to the store.
Init ==
    /\ \/ directory = "none" /\ solution = Starter /\ problemRow = "none"
       \/ directory = "ready" /\ solution \in Contents /\ problemRow \in {"none", "random"}
    /\ maker = "user"
    /\ edits = 0
    /\ files = {} /\ temporaries = {} /\ documents = {}
    /\ implementations = {} /\ executions = {}
    /\ artifactRows = {} /\ replayRows = {} /\ benchmarkRows = {}
    /\ command = [p \in Procs |-> "none"]
    /\ at = [p \in Procs |-> "idle"]
    /\ token = [p \in Procs |-> FALSE]
    /\ work = [p \in Procs |-> NoWork]
    /\ answer = [p \in Procs |-> AnswerOf("none", FALSE)]

User ==
    \/ AddAssets \/ RemoveProblem
    \/ \E c \in Contents : Edit(c)
    \/ \E a \in files : DeleteArtifact(a)
    \/ \E p \in Procs : Cancel(p) \/ Kill(p)

Next ==
    \/ \E p \in Procs : InitStep(p) \/ StressStep(p) \/ ReplayStep(p) \/ BenchmarkStep(p)
    \/ \E p \in Procs : Throws(p) \/ Render(p)
    \/ User

Spec == Init /\ [][Next]_vars

-----------------------------------------------------------------------------

\* The state of the processes and of the project has its type; work and answer are
\* functions on the processes, whose values depend on the command.
TypeOK ==
    /\ directory \in DirectoryStates
    /\ maker \in Procs \cup {"user"}
    /\ solution \in Contents
    /\ edits \in Nat
    /\ problemRow \in ProblemRows
    /\ command \in [Procs -> CommandNames]
    /\ at \in [Procs -> Stages]
    /\ token \in [Procs -> BOOLEAN]
    /\ DOMAIN work = Procs
    /\ DOMAIN answer = Procs

Inited(p) == command[p] = "init" /\ Returned(p)

\* An init that says passed has registered the problem, and no other init says so.
\* One that failed, and that no signal cut short, leaves a directory of its own only
\* if it could not remove it, and a directory of init without a row is the work of a
\* kill or of such a removal.  No init removes a directory that it has not made
\* (init-command.ts:104).
InitIsAllOrNothing ==
    [][/\ \A p \in Procs : Inited(p)' /\ answer'[p].saved =>
            /\ problemRow' = "random"
            /\ \A q \in Procs \ {p} : ~(Inited(q)' /\ answer'[q].saved)
       /\ \A p \in Procs : Inited(p)' /\ ~answer'[p].saved /\ ~token'[p] =>
            maker' # p \/ work'[p] = NotRemoved
       /\ maker' \in Procs /\ problemRow' = "none" /\ Returned(maker)' =>
            work'[maker'] = NotRemoved
       /\ maker' # maker /\ maker' = "user" =>
            at' = at \/ (UnderWay(maker) /\ at'[maker] = "returned")]_vars

\* An artifact's row is written when its file is in place and complete, by whatever
\* failures and kills, and a replay's row when the artifact's is
\* (stress-test-command.ts:746, replay-command.ts:355).
RowsHaveFiles ==
    [][/\ artifactRows' \ artifactRows \subseteq files' \cap documents'
       /\ \A r \in replayRows' : r.artifact \in artifactRows']_vars

\* A process has rows in the store.
Stored(p) == \/ \E a \in artifactRows : a.run = p
             \/ \E r \in replayRows : r.by = p
             \/ \E b \in benchmarkRows : b.by = p

\* What the user is told is saved is in the store, through failures, signals and kills
\* between the commit and the answer; rows that no answer speaks of are those of a
\* process that is not through, that was killed, or that a signal reached, be it before
\* or after the commit (benchmark-command.ts:253, replay-command.ts:187, main.ts:144).
AnswersAreDurable ==
    \A p \in Procs :
        /\ at[p] = "done" /\ command[p] # "init" =>
             (answer[p].saved <=> Stored(p) /\ ~token[p])
        /\ Stored(p) => at[p] \in {"returned", "done", "dead"}

\* The user's cancellation is no part of the failure.
Genuine(predicate) == "canceled" \notin {predicate.naive, predicate.solution}

\* Content c fails on the input of artifact a in the recorded way.
FailsOn(a, c) == PredicateOf(Outcome[Naive][a.input], Outcome[c][a.input]) = a.predicate

\* An artifact's input makes a content that was run for it fail as recorded.
StillFails(a) == Genuine(a.predicate) => \E c \in a.seen : FailsOn(a, c)

\* The minimized input of an artifact still fails in the recorded way on a content of
\* solution.py that was run for it, unless the finding is that the user canceled
\* (stress-test-command.ts:497).
MinimizedStillFails == \A a \in files : StillFails(a)

Verdict(p) == command[p] = "replay" /\ at[p] = "done" /\ answer[p].saved

\* A replay that passes has seen the recorded failure on the minimized input; one
\* that answers that it does not has run another solution than the one the artifact
\* was made of: a canceled one does not answer that (replay-command.ts:186).
ReplayTellsTheTruth ==
    \A p \in Procs : Verdict(p) /\ Genuine(work[p].artifact.predicate) =>
        IF answer[p].status = "passed"
        THEN FailsOn(work[p].artifact, work[p].ran)
        ELSE work[p].artifact.seen # {work[p].ran}

\* A sample that was taken before the file was saved ran what its path is recorded with.
AttributedRow(b) ==
    \A i \in DOMAIN b.samples :
        b.samples[i].when = b.start =>
            \E k \in DOMAIN Paths : /\ Paths[k] = b.samples[i].path
                                   /\ b.recorded[k] = b.samples[i].ran

\* Rows name the content that was run, unless the file was saved between the run and
\* the hash (stress-test-command.ts:685, replay-command.ts:338, benchmark-command.ts:317).
ExecutionsAreAttributed ==
    /\ \A e \in executions : ~e.edited => e.ran = e.recorded
    /\ \A b \in benchmarkRows : AttributedRow(b)

SoundRow(b) ==
    /\ Len(b.samples) = Len(Paths) * (Warmups + Samples)
    /\ \A o \in Ordinals, k \in DOMAIN Paths :
         \E i \in DOMAIN b.samples : b.samples[i].ordinal = o /\ b.samples[i].path = Paths[k]
    /\ \A i \in DOMAIN b.samples :
         /\ b.samples[i].status # "canceled"
         /\ b.samples[i].when = b.start =>
              Outcome[b.samples[i].ran][Whole] = Outcome[Naive][Whole]

\* A benchmark is persisted whole, with one sample of every implementation in every
\* repetition and none of them canceled, and what it has measured has the expected
\* output, unless the file was saved after it began (benchmark-command.ts:230).
BenchmarkIsSound == \A b \in benchmarkRows : SoundRow(b)

\* A replay of an artifact is persisted unless the file, the problem or the store fails
\* (src/README.md:579, against replay-command.ts:341).
ReplayIsPersisted ==
    \A p \in Procs : at[p] = "done" => answer[p].status # "foreign_key_failed"
-----------------------------------------------------------------------------
(* The inductive invariant, which CommandsProofs proves.                   *)

\* Which command may be at which stage.
StagePart == \A p \in Procs :
    /\ at[p] \in {"scaffold", "register"} => command[p] = "init"
    /\ at[p] \in {"shrink", "write", "document", "rename"} => command[p] = "stress"
    /\ at[p] = "rerun" => command[p] = "replay"
    /\ at[p] \in {"validate", "measure"} => command[p] = "benchmark"
    /\ at[p] = "persist" => command[p] \in {"stress", "replay", "benchmark"}

\* An init at work is alone with the directory that it made; one that has returned has
\* registered the problem, owns no directory, or could not remove it.  What main
\* answers is what the command has returned, unless a signal came.
DirectoryPart ==
    /\ \A p \in Procs : UnderWay(p) =>
         IF command[p] = "init" THEN maker = p /\ directory \in {"made", "scaffold"}
         ELSE directory = "ready"
    /\ \A p \in Procs : Inited(p) =>
         /\ answer[p].saved => problemRow = "random"
         /\ answer[p].saved \/ maker # p \/ work[p] = NotRemoved
              \/ (at[p] = "done" /\ token[p] /\ problemRow = "random")
    /\ maker \in Procs => command[maker] = "init" /\ at[maker] # "idle"

\* Only one process ever registers the problem as its init.
ExclusivePart == \A p, q \in Procs :
    Inited(p) /\ answer[p].saved /\ Inited(q) /\ answer[q].saved => p = q

\* A process has rows in the store when its command has returned that it has; a signal
\* makes main answer something else, and a kill nothing.
DurablePart == \A p \in Procs :
    /\ Stored(p) => at[p] \in {"returned", "done", "dead"} /\ command[p] # "init"
    /\ at[p] = "returned" /\ command[p] # "init" => (answer[p].saved <=> Stored(p))
    /\ at[p] = "done" /\ command[p] # "init" => (answer[p].saved <=> Stored(p) /\ ~token[p])

\* What was run last is the solution as it is, unless it was saved since.
RanLast(w) == w.when <= edits /\ (w.when = edits => w.ran = solution)

Predicates == [kind : {"oracle_failure", "optimized_failure", "mismatch"},
               naive : Statuses \cup {"passed"}, solution : Statuses]
StressWork == [run : Procs, input : Inputs, predicate : Predicates,
               seen : SUBSET Contents, next : Nat \ {0}, ran : Contents, when : Nat]

StressOk(p) == UnderWay(p) /\ command[p] = "stress" =>
    /\ work[p] \in StressWork
    /\ work[p].run = p
    /\ StillFails(work[p])
    /\ RanLast(work[p])
    /\ at[p] \in {"rename", "persist"} => ArtifactOf(work[p]) \in documents
    /\ at[p] = "persist" => ArtifactOf(work[p]) \in files

StressPart ==
    /\ \A a \in files : a.predicate \in Predicates /\ StillFails(a)
    /\ \A p \in Procs : StressOk(p)

\* A replay that does not see the failure, and was not canceled, has run something
\* that the artifact was not made of.
Tells(w) == Genuine(w.artifact.predicate) =>
    IF w.again = w.artifact.predicate THEN FailsOn(w.artifact, w.ran)
    ELSE w.canceled \/ w.artifact.seen # {w.ran}

ReplayOk(p) == UnderWay(p) /\ command[p] = "replay" =>
    /\ work[p].artifact \in artifactRows
    /\ work[p].artifact.predicate \in Predicates /\ StillFails(work[p].artifact)
    /\ at[p] = "persist" => /\ work[p].when \in Nat /\ RanLast(work[p])
                            /\ Tells(work[p]) /\ (work[p].canceled => token[p])

ReplayPart ==
    /\ \A r \in replayRows : r.artifact \in artifactRows
    /\ \A p \in Procs : ReplayOk(p)
    /\ \A p \in Procs : command[p] = "replay" /\ Returned(p) /\ answer[p].saved =>
         /\ answer[p].status = VerdictOf(work[p])
         /\ Tells(work[p]) /\ (work[p].canceled => token[p])
         /\ at[p] = "done" => ~token[p]

SampleRecords == [path : {"solution", "alternative"}, ordinal : Nat,
                  status : Statuses \cup {"passed"}, ran : Contents, when : Nat]
BenchmarkWork == [hashed : Contents, start : Nat, validated : Seq(Contents),
                  samples : Seq(SampleRecords)]

Expected(c) == Outcome[c][Whole] = Outcome[Naive][Whole]

\* What was hashed at the start is the solution as it is, unless it was saved since.
HashedFirst(w) == w.start <= edits /\ (w.start = edits => w.hashed = solution)

\* Samples come in repetitions of one of each, and one that was taken before the
\* solution was saved ran what was hashed and validated.
SampleOk(w, i) ==
    /\ w.samples[i].ordinal = (i - 1) \div 2
    /\ w.samples[i].when = w.start =>
         Expected(w.samples[i].ran) /\ w.samples[i].ran = Hashed(w, w.samples[i].path)

SamplesOk(w) ==
    /\ \A i \in 1 .. Len(w.samples) : SampleOk(w, i)
    /\ \A i \in 1 .. Len(w.samples) - 1 :
         (i - 1) % 2 = 0 => w.samples[i].path # w.samples[i + 1].path
    /\ Len(w.samples) <= 2 * (Warmups + Samples)

NoneCanceled(w) == \A i \in 1 .. Len(w.samples) : w.samples[i].status # "canceled"

BenchmarkOk(p) == UnderWay(p) /\ command[p] = "benchmark" =>
    /\ work[p] \in BenchmarkWork
    /\ HashedFirst(work[p])
    /\ at[p] # "validate" \/ Len(work[p].validated) > 0 =>
         (work[p].start = edits => Expected(work[p].hashed))
    /\ at[p] = "validate" => Len(work[p].validated) < 2 /\ work[p].samples = <<>>
    /\ SamplesOk(work[p])
    /\ at[p] = "persist" \/ ~token[p] => NoneCanceled(work[p])
    /\ at[p] = "persist" => Len(work[p].samples) = 2 * (Warmups + Samples)

BenchmarkPart == BenchmarkIsSound /\ \A p \in Procs : BenchmarkOk(p)

CommandsInv ==
    /\ TypeOK
    /\ StagePart
    /\ DirectoryPart
    /\ ExclusivePart
    /\ DurablePart
    /\ StressPart
    /\ ReplayPart
    /\ BenchmarkPart
    /\ ExecutionsAreAttributed

-----------------------------------------------------------------------------
(* What only a proof establishes: see CommandsProofs.                      *)

Artifacts == files \cup temporaries

\* Nobody is told that a run has saved anything.
Disowned(p) == at[p] = "dead" \/ (Returned(p) /\ ~answer[p].saved)

\* Which artifacts there are, by where the run is that made them.
DiskPart ==
    /\ \A a \in Artifacts :
          /\ a.run \in Procs /\ command[a.run] = "stress"
          /\ at[a.run] \in {"document", "rename", "persist", "returned", "done", "dead"}
          /\ UnderWay(a.run) => a = ArtifactOf(work[a.run])
    /\ \A t \in temporaries : at[t.run] \in {"document", "rename"} \/ Disowned(t.run)
    /\ \A f \in files : at[f.run] \notin {"document", "rename"}
    /\ \A f \in files \ artifactRows : at[f.run] = "persist" \/ Disowned(f.run)
    /\ \A a, b \in Artifacts : a.run = b.run => a = b
    /\ files \cap temporaries = {}
    /\ temporaries \cap artifactRows = {}

\* What a stress-test leaves on the disk is accounted for.  A temporary directory is
\* being filled or renamed, or its process was killed, or has answered without
\* claiming to have saved anything (it could not remove it); the same holds of an
\* artifact that no row names, once the transaction is over.  No row names a
\* temporary directory, and no run leaves two things (writeFuzzArtifact,
\* fuzz-artifact.ts:122-161).
LeftoversAreDisowned ==
    /\ \A t \in temporaries : at[t.run] \in {"document", "rename"} \/ Disowned(t.run)
    /\ \A f \in files \ artifactRows : at[f.run] = "persist" \/ Disowned(f.run)
    /\ temporaries \cap artifactRows = {}
    /\ \A a, b \in Artifacts : a.run = b.run => a = b
=============================================================================
