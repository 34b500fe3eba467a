--------------------------- MODULE CommandsProofs ---------------------------
(***************************************************************************)
(* Proofs about the commands of a project: the invariant CommandsInv is    *)
(* inductive, and the properties of Commands follow from it.  DiskPart is  *)
(* inductive on top of it: what a stress-test may leave on the disk.       *)
(***************************************************************************)
EXTENDS Commands, TLAPS

USE DEF vars, project, disk, store, progress

-----------------------------------------------------------------------------
(* Steps.                                                                  *)

\* A step is one of a process or of the user.
ProcessStep(p) ==
    \/ InitStep(p) \/ StressStep(p) \/ ReplayStep(p) \/ BenchmarkStep(p)
    \/ Throws(p) \/ Render(p)

LEMMA NextCases ==
    ASSUME Next
    PROVE  \/ \E p \in Procs : ProcessStep(p)
           \/ User
  BY DEF Next, ProcessStep

-----------------------------------------------------------------------------
(* Types.                                                                  *)

LEMMA TypeInit == Init => TypeOK
  BY ContentAssumption, EditsAssumption
  DEF Init, TypeOK, DirectoryStates, ProblemRows, CommandNames, Stages

LEMMA TypeStep == TypeOK /\ [Next]_vars => TypeOK'
<1> SUFFICES ASSUME TypeOK, [Next]_vars PROVE TypeOK'
  OBVIOUS
<1> USE DEF TypeOK, DirectoryStates, ProblemRows, CommandNames, Stages, Returns, Goes,
            Begins, Forgets, Registered
<1>1. ASSUME NEW p \in Procs, InitStep(p) PROVE TypeOK'
  BY <1>1, ContentAssumption DEF InitStep, MakeDirectory, WriteScaffold, RegisterProblem, InitFails
<1>2. ASSUME NEW p \in Procs, StressStep(p) PROVE TypeOK'
  <2>1. CASE FindFailure(p)
    <3>1. CASE directory # "ready"
      BY <2>1, <3>1 DEF FindFailure
    <3>2. CASE directory = "ready"
      <4>1. PICK c \in Cancels(p) :
              /\ token' = [token EXCEPT ![p] = c.after]
              /\ UNCHANGED work \/ \E w : work' = [work EXCEPT ![p] = w]
              /\ \/ \E status : Returns(p, status, FALSE)
                 \/ Goes(p, "shrink") \/ Goes(p, "write")
        BY <2>1, <3>2 DEF FindFailure
      <4>2. Begins(p, "stress") /\ UNCHANGED <<project, disk, store>>
        BY <2>1 DEF FindFailure
      <4>3. c.after \in BOOLEAN
        BY DEF Cancels
      <4> QED
        BY <4>1, <4>2, <4>3
    <3> QED
      BY <3>1, <3>2
  <2>2. CASE Shrink(p)
    BY <2>2 DEF Shrink, Cancels
  <2>3. CASE PersistFinding(p)
    BY <2>3 DEF PersistFinding, Finding
  <2>4. CASE ShrinkTimesOut(p) \/ MakeTemporary(p) \/ WriteDocument(p) \/ RenameArtifact(p)
    BY <2>4 DEF ShrinkTimesOut, MakeTemporary, WriteDocument, RenameArtifact
  <2>5. CASE ArtifactFails(p) \/ PersistFindingFails(p)
    BY <2>5 DEF ArtifactFails, PersistFindingFails, Finding
  <2> QED
    BY <1>2, <2>1, <2>2, <2>3, <2>4, <2>5 DEF StressStep
<1>3. ASSUME NEW p \in Procs, ReplayStep(p) PROVE TypeOK'
  BY ZenonT(30), <1>3 DEF ReplayStep, LookUpArtifact, RunAgain, PersistReplay, PersistReplayFails, Cancels
<1>4. ASSUME NEW p \in Procs, BenchmarkStep(p) PROVE TypeOK'
  BY ZenonT(30), <1>4 DEF BenchmarkStep, PrepareBenchmark, ValidateOutput, TakeSample, EndMeasurement,
       PersistBenchmark, PersistBenchmarkFails, Interrupts
<1>5. ASSUME NEW p \in Procs, Throws(p) \/ Render(p) PROVE TypeOK'
  BY <1>5 DEF Throws, Render
<1>6. CASE User
  <2>1. CASE AddAssets \/ RemoveProblem \/ \E a \in files : DeleteArtifact(a)
    BY <2>1 DEF AddAssets, RemoveProblem, DeleteArtifact
  <2>2. ASSUME NEW c \in Contents, Edit(c) PROVE TypeOK'
    BY <2>2 DEF Edit
  <2>3. ASSUME NEW p \in Procs, Cancel(p) \/ Kill(p) PROVE TypeOK'
    BY <2>3 DEF Cancel, Kill
  <2> QED
    BY <1>6, <2>1, <2>2, <2>3 DEF User
<1>7. CASE UNCHANGED vars
  BY <1>7
<1> QED
  BY <1>1, <1>2, <1>3, <1>4, <1>5, <1>6, <1>7 DEF Next

\* What the pool and the naive have yielded, in a form that tells nothing of the finding.
LEMMA FindFailureMoves ==
    ASSUME TypeOK, NEW p \in Procs, FindFailure(p)
    PROVE  /\ Begins(p, "stress")
           /\ UNCHANGED <<project, disk, store>>
           /\ \/ UNCHANGED token
              \/ \E c \in Cancels(p) : token' = [token EXCEPT ![p] = c.after]
           /\ UNCHANGED work \/ \E w : work' = [work EXCEPT ![p] = w]
           /\ \/ \E status : Returns(p, status, FALSE)
              \/ Goes(p, "shrink") \/ Goes(p, "write")
<1>1. CASE directory # "ready"
  BY <1>1 DEF FindFailure
<1>2. CASE directory = "ready"
  BY <1>2 DEF FindFailure
<1> QED
  BY <1>1, <1>2

Same(q) == /\ at'[q] = at[q] /\ command'[q] = command[q] /\ token'[q] = token[q]
           /\ work'[q] = work[q] /\ answer'[q] = answer[q]

\* A step of one process leaves the others where they are.
LEMMA OthersStay ==
    ASSUME TypeOK, NEW p \in Procs, ProcessStep(p) \/ Cancel(p) \/ Kill(p),
           NEW q \in Procs, q # p
    PROVE  Same(q)
<1>0. ASSUME FindFailure(p)
      PROVE  /\ Begins(p, "stress")
             /\ UNCHANGED token \/ \E t : token' = [token EXCEPT ![p] = t]
             /\ UNCHANGED work \/ \E w : work' = [work EXCEPT ![p] = w]
             /\ \/ \E status : Returns(p, status, FALSE)
                \/ Goes(p, "shrink") \/ Goes(p, "write")
  BY <1>0, FindFailureMoves
<1> USE DEF TypeOK, Same, Returns, Goes, Begins, Forgets
<1>1. CASE InitStep(p)
  BY <1>1 DEF InitStep, MakeDirectory, WriteScaffold, RegisterProblem, InitFails
<1>2. CASE FindFailure(p)
  <2>1. UNCHANGED work \/ \E w : work' = [work EXCEPT ![p] = w]
    BY <1>0, <1>2
  <2>2. work'[q] = work[q]
    BY <2>1
  <2>3. UNCHANGED token \/ \E t : token' = [token EXCEPT ![p] = t]
    BY <1>0, <1>2
  <2>4. token'[q] = token[q]
    BY <2>3
  <2>5. command'[q] = command[q]
    BY <1>0, <1>2
  <2>6. ASSUME NEW status, Returns(p, status, FALSE)
        PROVE  at'[q] = at[q] /\ answer'[q] = answer[q]
    BY <2>6
  <2>7. ASSUME Goes(p, "shrink") \/ Goes(p, "write")
        PROVE  at'[q] = at[q] /\ answer'[q] = answer[q]
    BY <2>7
  <2>8. at'[q] = at[q] /\ answer'[q] = answer[q]
    BY <1>0, <1>2, <2>6, <2>7
  <2> QED
    BY <2>2, <2>4, <2>5, <2>8
<1>3. CASE Shrink(p)
  BY <1>3 DEF Shrink
<1>4. CASE PersistFinding(p)
  BY <1>4 DEF PersistFinding, Finding
<1>5. CASE \/ ShrinkTimesOut(p) \/ MakeTemporary(p) \/ WriteDocument(p) \/ RenameArtifact(p)
           \/ ArtifactFails(p) \/ PersistFindingFails(p)
  BY <1>5 DEF ShrinkTimesOut, MakeTemporary, WriteDocument, RenameArtifact, ArtifactFails,
       PersistFindingFails, Finding
<1>6. CASE ReplayStep(p)
  BY <1>6 DEF ReplayStep, LookUpArtifact, RunAgain, PersistReplay, PersistReplayFails
<1>7. CASE BenchmarkStep(p)
  <2>1. CASE ValidateOutput(p)
    BY <2>1 DEF ValidateOutput
  <2>2. CASE TakeSample(p)
    BY <2>2 DEF TakeSample
  <2> QED
    BY <1>7, <2>1, <2>2 DEF BenchmarkStep, PrepareBenchmark, EndMeasurement,
         PersistBenchmark, PersistBenchmarkFails
<1>8. CASE Throws(p) \/ Render(p) \/ Cancel(p) \/ Kill(p)
  BY <1>8 DEF Throws, Render, Cancel, Kill
<1> QED
  BY <1>1, <1>2, <1>3, <1>4, <1>5, <1>6, <1>7, <1>8 DEF ProcessStep, StressStep

\* A process goes from one stage to another of its command.
Moves(p) ==
    \/ at'[p] = at[p] /\ command'[p] = command[p]
    \/ at[p] = "idle" /\ at'[p] \in {"returned", "scaffold"} /\ command'[p] = "init"
    \/ at[p] = "idle" /\ at'[p] \in {"returned", "shrink", "write"} /\ command'[p] = "stress"
    \/ at[p] = "idle" /\ at'[p] \in {"returned", "rerun"} /\ command'[p] = "replay"
    \/ at[p] = "idle" /\ at'[p] \in {"returned", "validate"} /\ command'[p] = "benchmark"
    \/ UnderWay(p) /\ at'[p] \in {"returned", "dead"} /\ command'[p] = command[p]
    \/ at[p] = "returned" /\ at'[p] \in {"done", "dead"} /\ command'[p] = command[p]
    \/ at[p] = "scaffold" /\ at'[p] = "register" /\ command'[p] = command[p]
    \/ at[p] = "shrink" /\ at'[p] = "write" /\ command'[p] = command[p]
    \/ at[p] = "write" /\ at'[p] = "document" /\ command'[p] = command[p]
    \/ at[p] = "document" /\ at'[p] = "rename" /\ command'[p] = command[p]
    \/ at[p] \in {"rename", "rerun", "measure"} /\ at'[p] = "persist" /\ command'[p] = command[p]
    \/ at[p] = "validate" /\ at'[p] = "measure" /\ command'[p] = command[p]

LEMMA ProcessMoves ==
    ASSUME TypeOK, NEW p \in Procs, ProcessStep(p) \/ Cancel(p) \/ Kill(p)
    PROVE  Moves(p)
<1> USE DEF TypeOK, Moves, UnderWay, Returns, Goes, Begins
<1>1. CASE InitStep(p)
  BY <1>1 DEF InitStep, MakeDirectory, WriteScaffold, RegisterProblem, InitFails
<1>2. CASE FindFailure(p)
  BY <1>2, FindFailureMoves
<1>3. CASE Shrink(p)
  BY <1>3 DEF Shrink
<1>4. CASE PersistFinding(p)
  BY <1>4 DEF PersistFinding, Finding
<1>5. CASE \/ ShrinkTimesOut(p) \/ MakeTemporary(p) \/ WriteDocument(p) \/ RenameArtifact(p)
           \/ ArtifactFails(p) \/ PersistFindingFails(p)
  BY <1>5 DEF ShrinkTimesOut, MakeTemporary, WriteDocument, RenameArtifact, ArtifactFails,
       PersistFindingFails, Finding
<1>6. CASE ReplayStep(p)
  BY <1>6 DEF ReplayStep, LookUpArtifact, RunAgain, PersistReplay, PersistReplayFails
<1>7. CASE BenchmarkStep(p)
  BY <1>7 DEF BenchmarkStep, PrepareBenchmark, ValidateOutput, TakeSample, EndMeasurement,
       PersistBenchmark, PersistBenchmarkFails
<1>8. CASE Throws(p) \/ Render(p) \/ Cancel(p) \/ Kill(p)
  BY <1>8 DEF Throws, Render, Cancel, Kill
<1> QED
  BY <1>1, <1>2, <1>3, <1>4, <1>5, <1>6, <1>7, <1>8 DEF ProcessStep, StressStep

\* The user's own steps leave every process where it is.
LEMMA UserStays ==
    ASSUME NEW q \in Procs,
           \/ AddAssets \/ RemoveProblem
           \/ \E c \in Contents : Edit(c)
           \/ \E a \in files : DeleteArtifact(a)
    PROVE  Same(q)
  BY DEF Same, AddAssets, RemoveProblem, Edit, DeleteArtifact

-----------------------------------------------------------------------------
(* Stages.                                                                 *)

LEMMA StageStep == TypeOK /\ StagePart /\ [Next]_vars => StagePart'
<1> SUFFICES ASSUME TypeOK, StagePart, [Next]_vars, NEW q \in Procs
             PROVE  StagePart!(q)'
  BY DEF StagePart
<1>1. StagePart!(q)
  BY DEF StagePart
<1>2. Same(q) => StagePart!(q)'
  BY <1>1 DEF Same
<1>3. Moves(q) => StagePart!(q)'
  BY <1>1 DEF Moves, UnderWay
<1> QED
  BY <1>2, <1>3, OthersStay, ProcessMoves, UserStays DEF Next, ProcessStep, User, Same

-----------------------------------------------------------------------------
(* The directory.                                                          *)

\* The other commands leave the directory alone, begin only when it can be used, and
\* do not change the id of a problem that init has registered.
Guest(p) ==
    /\ UNCHANGED project
    /\ problemRow = "random" => problemRow' = "random"
    /\ at[p] = "idle" /\ at'[p] # "returned" => directory = "ready"
    /\ at'[p] \in {"returned", "dead"} \/ command'[p] # "init" \/ at'[p] = at[p]
    /\ at'[p] # "done"
    /\ at'[p] = "returned" /\ command'[p] = "init" =>
          at[p] = "returned" /\ UNCHANGED <<command, answer, work>>

LEMMA OthersAreGuests ==
    ASSUME TypeOK, StagePart, NEW p \in Procs,
           \/ StressStep(p) \/ ReplayStep(p) \/ BenchmarkStep(p) \/ Throws(p)
           \/ Cancel(p) \/ Kill(p)
    PROVE  Guest(p)
<1> USE DEF TypeOK, StagePart, Guest, Returns, Goes, Begins, UnderWay
<1>1. CASE FindFailure(p)
  <2>1. CASE directory # "ready"
    BY <1>1, <2>1 DEF FindFailure
  <2>2. CASE directory = "ready"
    BY <1>1, <2>2, FindFailureMoves
  <2> QED
    BY <2>1, <2>2
<1>2. CASE Shrink(p)
  BY <1>2 DEF Shrink
<1>3. CASE PersistFinding(p)
  BY <1>3 DEF PersistFinding, Finding, Registered
<1>4. CASE \/ ShrinkTimesOut(p) \/ MakeTemporary(p) \/ WriteDocument(p) \/ RenameArtifact(p)
           \/ ArtifactFails(p) \/ PersistFindingFails(p)
  BY <1>4 DEF ShrinkTimesOut, MakeTemporary, WriteDocument, RenameArtifact, ArtifactFails,
       PersistFindingFails, Finding
<1>5. CASE ReplayStep(p)
  BY <1>5 DEF ReplayStep, LookUpArtifact, RunAgain, PersistReplay, PersistReplayFails
<1>6. CASE ValidateOutput(p)
  BY <1>6 DEF ValidateOutput
<1>7. CASE TakeSample(p)
  BY <1>7 DEF TakeSample
<1>8. CASE PrepareBenchmark(p) \/ EndMeasurement(p) \/ PersistBenchmark(p) \/ PersistBenchmarkFails(p)
  BY <1>8 DEF PrepareBenchmark, EndMeasurement, PersistBenchmark, PersistBenchmarkFails, Registered
<1>9. CASE Throws(p) \/ Cancel(p) \/ Kill(p)
  BY <1>9 DEF Throws, Cancel, Kill
<1> QED
  BY <1>1, <1>2, <1>3, <1>4, <1>5, <1>6, <1>7, <1>8, <1>9 DEF StressStep, BenchmarkStep

LEMMA DirectoryStep == TypeOK /\ StagePart /\ DirectoryPart /\ [Next]_vars => DirectoryPart'
<1> SUFFICES ASSUME TypeOK, StagePart, DirectoryPart, [Next]_vars PROVE DirectoryPart'
  OBVIOUS
<1> USE ProcAssumption DEF DirectoryPart, UnderWay, Inited, Returned
<1>1. ASSUME NEW p \in Procs, InitStep(p) PROVE DirectoryPart'
  <2>1. \A q \in Procs : q # p => Same(q)
    BY <1>1, OthersStay DEF ProcessStep
  <2>2. CASE MakeDirectory(p)
    BY <2>1, <2>2 DEF MakeDirectory, InitFails, Removes, Returns, AnswerOf, Goes, Begins, Same, TypeOK
  <2>3. CASE WriteScaffold(p)
    BY <2>1, <2>3 DEF WriteScaffold, InitFails, Removes, Returns, AnswerOf, Goes, Same, TypeOK, StagePart
  <2>4. CASE RegisterProblem(p)
    BY <2>1, <2>4 DEF RegisterProblem, InitFails, Removes, Returns, AnswerOf, Same, TypeOK, StagePart
  <2> QED
    BY <1>1, <2>2, <2>3, <2>4 DEF InitStep
<1>2. ASSUME NEW p \in Procs,
             \/ StressStep(p) \/ ReplayStep(p) \/ BenchmarkStep(p) \/ Throws(p)
             \/ Cancel(p) \/ Kill(p)
      PROVE  DirectoryPart'
  <2>1. \A q \in Procs : q # p => Same(q)
    BY <1>2, OthersStay DEF ProcessStep
  <2>2. Guest(p) /\ Moves(p)
    BY <1>2, OthersAreGuests, ProcessMoves DEF ProcessStep
  <2> QED
    BY <2>1, <2>2 DEF Same, Guest, Moves, TypeOK
<1>3. CASE \/ AddAssets \/ RemoveProblem
           \/ \E c \in Contents : Edit(c)
           \/ \E a \in files : DeleteArtifact(a)
  BY <1>3 DEF AddAssets, RemoveProblem, Edit, DeleteArtifact
<1>4. ASSUME NEW p \in Procs, Render(p) PROVE DirectoryPart'
  <2>1. \A q \in Procs : q # p => Same(q)
    BY <1>4, OthersStay DEF ProcessStep
  <2>2. /\ at[p] = "returned" /\ at'[p] = "done"
        /\ UNCHANGED <<project, problemRow, command, token, work>>
        /\ IF token[p] THEN answer'[p].saved = FALSE ELSE answer'[p] = answer[p]
    BY <1>4 DEF Render, Rendered, AnswerOf, TypeOK
  <2> QED
    BY <2>1, <2>2 DEF Same, TypeOK
<1>5. CASE UNCHANGED vars
  BY <1>5
<1> QED
  BY <1>1, <1>2, <1>3, <1>4, <1>5 DEF Next, User

\* An init that registers finds the slug unregistered, so no other has done it.
LEMMA ExclusiveStep ==
    TypeOK /\ StagePart /\ DirectoryPart /\ ExclusivePart /\ [Next]_vars => ExclusivePart'
<1> SUFFICES ASSUME TypeOK, StagePart, DirectoryPart, ExclusivePart, [Next]_vars
             PROVE  ExclusivePart'
  OBVIOUS
<1> DEFINE Says(p) == Inited(p) /\ answer[p].saved
<1>1. ASSUME NEW p \in Procs, InitStep(p) PROVE ExclusivePart'
  <2>1. \A q \in Procs : q # p => Same(q)
    BY <1>1, OthersStay DEF ProcessStep
  <2>2. \A q \in Procs : q # p => (Says(q)' <=> Says(q))
    BY <2>1 DEF Same, Inited, Returned
  <2>3. CASE problemRow # "none" \/ ~Says(p)'
    <3>1. ~Says(p)'
      BY <1>1, <2>3 DEF InitStep, MakeDirectory, WriteScaffold, RegisterProblem, InitFails,
           Inited, Returned, Returns, AnswerOf, Goes, TypeOK
    <3> QED
      BY <2>2, <3>1 DEF ExclusivePart
  <2>4. CASE problemRow = "none"
    <3>1. \A q \in Procs : ~Says(q)
      BY <2>4 DEF DirectoryPart
    <3> QED
      BY <2>2, <3>1 DEF ExclusivePart
  <2> QED
    BY <2>3, <2>4
<1>2. ASSUME NEW p \in Procs,
             \/ StressStep(p) \/ ReplayStep(p) \/ BenchmarkStep(p) \/ Throws(p)
             \/ Cancel(p) \/ Kill(p)
      PROVE  ExclusivePart'
  <2>1. \A q \in Procs : q # p => Same(q)
    BY <1>2, OthersStay DEF ProcessStep
  <2>2. Guest(p)
    BY <1>2, OthersAreGuests
  <2>3. \A q \in Procs : Says(q)' => Says(q)
    BY <2>1, <2>2 DEF Same, Guest, Inited, Returned
  <2> QED
    BY <2>3 DEF ExclusivePart
<1>3. ASSUME NEW p \in Procs, Render(p) PROVE ExclusivePart'
  <2>1. \A q \in Procs : q # p => Same(q)
    BY <1>3, OthersStay DEF ProcessStep
  <2>2. at[p] = "returned" /\ UNCHANGED command /\ (answer'[p].saved => answer[p].saved)
    BY <1>3 DEF Render, Rendered, AnswerOf, TypeOK
  <2>3. \A q \in Procs : Says(q)' => Says(q)
    BY <2>1, <2>2 DEF Same, Inited, Returned
  <2> QED
    BY <2>3 DEF ExclusivePart
<1>4. CASE \/ AddAssets \/ RemoveProblem
           \/ \E c \in Contents : Edit(c)
           \/ \E a \in files : DeleteArtifact(a)
  BY <1>4 DEF AddAssets, RemoveProblem, Edit, DeleteArtifact, ExclusivePart, Inited, Returned
<1>5. CASE UNCHANGED vars
  BY <1>5 DEF ExclusivePart, Inited, Returned
<1> QED
  BY <1>1, <1>2, <1>3, <1>4, <1>5 DEF Next, User

-----------------------------------------------------------------------------
(* Rows and answers.                                                       *)

rows == <<artifactRows, replayRows, benchmarkRows>>

\* A step that writes no such row does not return that it has.
Unsaved(p) ==
    /\ at[p] \notin {"returned", "done", "dead"} /\ at'[p] # "done"
    /\ UNCHANGED rows
    /\ at'[p] = "returned" =>
          command'[p] = "init" \/ \E status : answer'[p] = AnswerOf(status, FALSE)

\* A step of a process whose command has returned.
Afterwards(p) == Render(p) \/ (at[p] = "returned" /\ (Cancel(p) \/ Kill(p)))

Persists(p) ==
    \/ PersistFinding(p) \/ PersistBenchmark(p)
    \/ PersistReplay(p) /\ \E status : Returns(p, status, TRUE)

LEMMA SavedIsSecond ==
    ASSUME NEW status, NEW saved \in BOOLEAN
    PROVE  AnswerOf(status, saved).saved = saved
  BY DEF AnswerOf

LEMMA StatusIsFirst ==
    ASSUME NEW status, NEW saved
    PROVE  AnswerOf(status, saved).status = status
  BY DEF AnswerOf

LEMMA ReturnsItself ==
    ASSUME TypeOK, NEW p \in Procs, NEW status, NEW saved, Returns(p, status, saved)
    PROVE  at'[p] = "returned" /\ answer'[p] = AnswerOf(status, saved)
  BY DEF TypeOK, Returns

\* A step of a process but the last of one that persists ends with nothing saved, if it ends.
Continues(p) ==
    \/ at' = at
    \/ \E stage \in Stages \ {"returned", "done"} :
          Goes(p, stage) \/ at' = [at EXCEPT ![p] = stage]
    \/ \E status : Returns(p, status, FALSE)

LEMMA ContinuesUnsaved ==
    ASSUME TypeOK, NEW p \in Procs, at[p] \notin {"returned", "done", "dead"},
           UNCHANGED rows, Continues(p)
    PROVE  Unsaved(p)
<1>1. CASE \/ at' = at
           \/ \E stage \in Stages \ {"returned", "done"} :
                 Goes(p, stage) \/ at' = [at EXCEPT ![p] = stage]
  BY <1>1 DEF Unsaved, TypeOK, Goes
<1>2. ASSUME NEW status, Returns(p, status, FALSE) PROVE Unsaved(p)
  BY <1>2, ReturnsItself DEF Unsaved
<1> QED
  BY <1>1, <1>2 DEF Continues

LEMMA OthersAreUnsaved ==
    ASSUME TypeOK, StagePart, NEW p \in Procs, ProcessStep(p) \/ Cancel(p) \/ Kill(p),
           ~Persists(p), ~Afterwards(p)
    PROVE  Unsaved(p)
<1> USE ContinuesUnsaved DEF Continues, Stages, rows, Begins, UnderWay
<1>1. CASE FindFailure(p)
  <2>1. CASE directory # "ready"
    BY <1>1, <2>1 DEF FindFailure
  <2>2. CASE directory = "ready"
    BY <1>1, <2>2, FindFailureMoves
  <2> QED
    BY <2>1, <2>2
<1>2. CASE Shrink(p)
  BY <1>2 DEF Shrink
<1>3. CASE \/ ShrinkTimesOut(p) \/ MakeTemporary(p) \/ WriteDocument(p) \/ RenameArtifact(p)
           \/ ArtifactFails(p) \/ PersistFindingFails(p)
  BY <1>3 DEF ShrinkTimesOut, MakeTemporary, WriteDocument, RenameArtifact, ArtifactFails,
       PersistFindingFails, Finding
<1>4. CASE \E a \in files \cup artifactRows : LookUpArtifact(p, a)
  BY <1>4 DEF LookUpArtifact
<1>5. CASE RunAgain(p)
  BY <1>5 DEF RunAgain
<1>6. CASE PersistReplay(p)
  BY <1>6, ~Persists(p) DEF PersistReplay, Persists
<1>7. CASE PersistReplayFails(p)
  BY <1>7 DEF PersistReplayFails
<1>8. CASE ValidateOutput(p)
  BY <1>8 DEF ValidateOutput
<1>9. CASE TakeSample(p)
  BY <1>9 DEF TakeSample
<1>10. CASE PrepareBenchmark(p) \/ EndMeasurement(p) \/ PersistBenchmarkFails(p)
  BY <1>10 DEF PrepareBenchmark, EndMeasurement, PersistBenchmarkFails
<1>11. CASE Throws(p) \/ Cancel(p) \/ Kill(p)
  BY <1>11, ~Afterwards(p) DEF Throws, Cancel, Kill, Afterwards
<1>12. CASE InitStep(p)
  <2>1. /\ at[p] \notin {"returned", "done", "dead"} /\ at'[p] # "done"
        /\ UNCHANGED rows
    BY <1>12 DEF InitStep, MakeDirectory, WriteScaffold, RegisterProblem, InitFails, Returns,
         Goes, TypeOK
  <2>2. command'[p] = "init"
    BY <1>12 DEF InitStep, MakeDirectory, WriteScaffold, RegisterProblem, InitFails, TypeOK, StagePart
  <2> QED
    BY <2>1, <2>2 DEF Unsaved
<1> QED
  BY <1>1, <1>2, <1>3, <1>4, <1>5, <1>6, <1>7, <1>8, <1>9, <1>10, <1>11, <1>12
  DEF ProcessStep, StressStep, ReplayStep, BenchmarkStep, Persists, Afterwards

\* The rows that are written are those of the process that writes them.
LEMMA PersistsItsOwn ==
    ASSUME TypeOK, StressPart, NEW p \in Procs, Persists(p)
    PROVE  /\ at[p] = "persist" /\ at'[p] = "returned"
           /\ command'[p] = command[p] /\ command[p] # "init"
           /\ answer'[p].saved = TRUE
           /\ Stored(p)'
           /\ \A q \in Procs : q # p => (Stored(q)' <=> Stored(q))
<1>1. ASSUME NEW status, Returns(p, status, TRUE) PROVE answer'[p].saved = TRUE /\ at'[p] = "returned"
  BY <1>1, ReturnsItself, SavedIsSecond
<1>0. ASSUME NEW status, Returns(p, status, FALSE) PROVE answer'[p].saved = FALSE
  BY ZenonT(30), <1>0, ReturnsItself, SavedIsSecond
<1> USE DEF TypeOK, Persists, Stored
<1>2. CASE PersistFinding(p)
  <2>1. ArtifactOf(work[p]).run = p
    BY <1>2 DEF PersistFinding, StressPart, StressOk, UnderWay, ArtifactOf
  <2>2. answer'[p].saved = TRUE /\ at'[p] = "returned"
    BY <1>1, <1>2 DEF PersistFinding, Finding
  <2>3. /\ artifactRows' = artifactRows \cup {ArtifactOf(work[p])}
        /\ UNCHANGED <<replayRows, benchmarkRows, command>>
        /\ at[p] = "persist" /\ command[p] = "stress"
    BY <1>2 DEF PersistFinding
  <2> QED
    BY <2>1, <2>2, <2>3
<1>3. CASE PersistReplay(p) /\ \E status : Returns(p, status, TRUE)
  <2>1. answer'[p].saved = TRUE /\ at'[p] = "returned"
    BY <1>1, <1>3
  <2> DEFINE row == [by |-> p, artifact |-> work[p].artifact]
  <2>2. /\ replayRows' = replayRows \cup {row}
        /\ UNCHANGED <<artifactRows, benchmarkRows, command>>
        /\ at[p] = "persist" /\ command[p] = "replay"
    <3>1. ASSUME NEW status, Returns(p, status, FALSE) PROVE FALSE
      <4>1. answer'[p].saved = FALSE
        BY <1>0, <3>1
      <4> QED
        BY <2>1, <4>1
    <3>2. /\ at[p] = "persist" /\ command[p] = "replay"
          /\ UNCHANGED <<artifactRows, benchmarkRows, command>>
      BY <1>3 DEF PersistReplay
    <3>3. replayRows' = replayRows \cup {row}
      BY <1>3, <3>1 DEF PersistReplay
    <3> QED
      BY <3>2, <3>3
  <2>3. row.by = p
    OBVIOUS
  <2> HIDE DEF row
  <2> QED
    BY <2>1, <2>2, <2>3
<1>4. CASE PersistBenchmark(p)
  <2>1. answer'[p].saved = TRUE /\ at'[p] = "returned"
    BY <1>1, <1>4 DEF PersistBenchmark
  <2>2. /\ benchmarkRows' = benchmarkRows \cup {BenchmarkRow(p, work[p])}
        /\ UNCHANGED <<artifactRows, replayRows, command>>
        /\ at[p] = "persist" /\ command[p] = "benchmark"
    BY <1>4 DEF PersistBenchmark
  <2>3. BenchmarkRow(p, work[p]).by = p
    BY DEF BenchmarkRow
  <2> QED
    BY <2>1, <2>2, <2>3
<1> QED
  BY <1>2, <1>3, <1>4

LEMMA DurableStep ==
    TypeOK /\ StagePart /\ StressPart /\ DurablePart /\ [Next]_vars => DurablePart'
<1> SUFFICES ASSUME TypeOK, StagePart, StressPart, DurablePart, [Next]_vars,
                    NEW q \in Procs
             PROVE  DurablePart!(q)'
  BY DEF DurablePart
<1>1. DurablePart!(q)
  BY DEF DurablePart
<1>2. Same(q) /\ UNCHANGED rows => DurablePart!(q)'
  BY <1>1 DEF Same, rows, Stored
<1>6. ASSUME NEW p \in Procs, Afterwards(p) PROVE DurablePart!(q)'
  <2>1. UNCHANGED rows
    BY <1>6 DEF Afterwards, Render, Cancel, Kill, rows
  <2>2. CASE q # p
    BY <1>2, <1>6, <2>1, <2>2, OthersStay DEF Afterwards, ProcessStep
  <2>3. CASE q = p
    <3>1. at[q] = "returned" /\ UNCHANGED command
      BY <1>6, <2>3 DEF Afterwards, Render, Cancel, Kill
    <3>2. CASE Render(q)
      <4>1. /\ at'[q] = "done" /\ UNCHANGED token
            /\ IF token[q] THEN answer'[q].saved = FALSE ELSE answer'[q] = answer[q]
        BY <3>2 DEF Render, Rendered, AnswerOf, TypeOK
      <4> QED
        BY <1>1, <2>1, <3>1, <4>1 DEF rows, Stored
    <3>3. CASE Cancel(q) \/ Kill(q)
      <4>1. at'[q] = "dead" \/ (at'[q] = "returned" /\ answer' = answer)
        BY <3>1, <3>3 DEF Cancel, Kill, TypeOK
      <4> QED
        BY <1>1, <2>1, <3>1, <4>1 DEF rows, Stored
    <3> QED
      BY <1>6, <2>3, <3>2, <3>3 DEF Afterwards
  <2> QED
    BY <2>2, <2>3
<1>3. ASSUME NEW p \in Procs, ProcessStep(p) \/ Cancel(p) \/ Kill(p) PROVE DurablePart!(q)'
  <2>1. CASE Persists(p)
    <3>1. CASE q = p
      BY <2>1, <3>1, PersistsItsOwn
    <3>2. CASE q # p
      BY <1>1, <1>3, <2>1, <3>2, PersistsItsOwn, OthersStay DEF Same
    <3> QED
      BY <3>1, <3>2
  <2>2. CASE ~Persists(p) /\ ~Afterwards(p)
    <3>1. Unsaved(p)
      BY <1>3, <2>2, OthersAreUnsaved
    <3>2. CASE q = p
      BY <1>1, <3>1, <3>2, SavedIsSecond DEF Unsaved, rows, Stored
    <3>3. CASE q # p
      BY <1>2, <1>3, <3>1, <3>3, OthersStay DEF Unsaved
    <3> QED
      BY <3>2, <3>3
  <2> QED
    BY <1>6, <2>1, <2>2
<1>4. CASE \/ AddAssets \/ RemoveProblem
           \/ \E c \in Contents : Edit(c)
           \/ \E a \in files : DeleteArtifact(a)
  <2>1. UNCHANGED rows
    BY <1>4 DEF AddAssets, RemoveProblem, Edit, DeleteArtifact, rows
  <2> QED
    BY <1>2, <1>4, <2>1, UserStays
<1>5. CASE UNCHANGED vars
  BY <1>2, <1>5 DEF Same, rows
<1> QED
  BY <1>3, <1>4, <1>5 DEF Next, User, ProcessStep

-----------------------------------------------------------------------------
(* What was judged.                                                        *)

LEMMA StatusIsEither ==
    ASSUME NEW canceled, NEW content, NEW input
    PROVE  Status(canceled, content, input) \in {"canceled", Outcome[content][input]}
  BY DEF Status

\* A predicate that mentions no cancellation was made of what the programs do.
LEMMA GenuinePredicates ==
    ASSUME NEW naive, NEW candidate,
           NEW n \in {"canceled", naive}, NEW s \in {"canceled", candidate},
           PredicateOf(n, s) # NoPredicate, Genuine(PredicateOf(n, s))
    PROVE  n = naive /\ s = candidate
<1>1. CASE n \notin Outputs
  <2>1. PredicateOf(n, s) = [kind |-> "oracle_failure", naive |-> n, solution |-> s]
    BY <1>1 DEF PredicateOf
  <2>2. n # "canceled" /\ s # "canceled"
    BY <2>1 DEF Genuine
  <2> QED
    BY <2>2
<1>2. CASE n \in Outputs /\ s \notin Outputs
  BY <1>2 DEF PredicateOf, Genuine, Outputs
<1>3. CASE n \in Outputs /\ s \in Outputs
  BY <1>3 DEF Outputs
<1> QED
  BY <1>1, <1>2, <1>3

LEMMA JudgedGenuinely ==
    ASSUME NEW c, NEW input, Judged(c, input) # NoPredicate, Genuine(Judged(c, input))
    PROVE  Judged(c, input) = PredicateOf(Outcome[Naive][input], Outcome[solution][input])
<1> DEFINE n == Status(c.naive, Naive, input)
           s == Status(c.solution, solution, input)
<1>1. n \in {"canceled", Outcome[Naive][input]} /\ s \in {"canceled", Outcome[solution][input]}
  BY StatusIsEither
<1>2. Judged(c, input) = PredicateOf(n, s)
  BY DEF Judged
<1> HIDE DEF n, s
<1> QED
  BY <1>1, <1>2, GenuinePredicates

LEMMA PredicateType ==
    ASSUME NEW n \in Statuses, NEW s \in Statuses, PredicateOf(n, s) # NoPredicate
    PROVE  PredicateOf(n, s) \in Predicates
  BY DEF PredicateOf, Predicates, Statuses, Outputs

LEMMA JudgedType ==
    ASSUME TypeOK, NEW c, NEW input \in Inputs, Judged(c, input) # NoPredicate
    PROVE  Judged(c, input) \in Predicates
<1>1. Outcome[Naive][input] \in Statuses /\ Outcome[solution][input] \in Statuses
  BY ContentAssumption, OutcomeAssumption DEF TypeOK, Statuses
<1>2. "canceled" \in Statuses
  BY DEF Statuses
<1>3. Status(c.naive, Naive, input) \in Statuses /\ Status(c.solution, solution, input) \in Statuses
  BY <1>1, <1>2 DEF Status
<1> QED
  BY <1>3, PredicateType DEF Judged

LEMMA NoneIsNoPredicate == NoPredicate \notin Predicates
<1> SUFFICES ASSUME NoPredicate \in Predicates PROVE FALSE
  OBVIOUS
<1>1. NoPredicate.kind = "none"
  BY DEF NoPredicate
<1> QED
  BY <1>1 DEF Predicates

\* Whether a finding still fails does not depend on what is not part of the artifact.
LEMMA ArtifactFailsAlike ==
    ASSUME NEW w PROVE StillFails(ArtifactOf(w)) <=> StillFails(w)
  BY DEF StillFails, FailsOn, ArtifactOf

-----------------------------------------------------------------------------
(* The solution and the artifacts.                                         *)

\* While a command but init is under way, only the user saves the solution.
LEMMA SavesAreCounted ==
    ASSUME TypeOK, StagePart, DirectoryPart, [Next]_vars,
           NEW q \in Procs, UnderWay(q), command[q] # "init"
    PROVE  \/ solution' = solution /\ edits' = edits
           \/ edits' = edits + 1
<1>1. directory = "ready"
  BY DEF DirectoryPart
<1>2. ASSUME NEW p \in Procs, InitStep(p) PROVE UNCHANGED <<solution, edits>>
  <2>1. ~WriteScaffold(p)
    BY <1>1 DEF WriteScaffold, DirectoryPart, UnderWay, StagePart
  <2> QED
    BY <1>2, <2>1 DEF InitStep, MakeDirectory, RegisterProblem, InitFails
<1>3. ASSUME NEW p \in Procs,
             \/ StressStep(p) \/ ReplayStep(p) \/ BenchmarkStep(p) \/ Throws(p)
             \/ Cancel(p) \/ Kill(p)
      PROVE  UNCHANGED <<solution, edits>>
  BY <1>3, OthersAreGuests DEF Guest
<1>4. CASE \/ AddAssets \/ RemoveProblem
           \/ \E c \in Contents : Edit(c)
           \/ \E a \in files : DeleteArtifact(a)
  BY <1>4 DEF AddAssets, RemoveProblem, Edit, DeleteArtifact
<1>5. ASSUME NEW p \in Procs, Render(p) PROVE UNCHANGED <<solution, edits>>
  BY <1>5 DEF Render
<1> QED
  BY <1>2, <1>3, <1>4, <1>5 DEF Next, User

\* Artifacts appear by a rename and disappear by the user, when they have rows.
LEMMA FilesChange ==
    ASSUME [Next]_vars
    PROVE  \/ UNCHANGED files
           \/ \E p \in Procs : RenameArtifact(p)
           \/ \E a \in files : DeleteArtifact(a)
<1>1. ASSUME NEW p \in Procs, ProcessStep(p), ~RenameArtifact(p) PROVE UNCHANGED files
  <2>1. CASE InitStep(p)
    BY <2>1 DEF InitStep, MakeDirectory, WriteScaffold, RegisterProblem, InitFails
  <2>2. CASE StressStep(p)
    BY <1>1, <2>2 DEF StressStep, FindFailure, Shrink, ShrinkTimesOut, MakeTemporary, WriteDocument,
         ArtifactFails, PersistFinding, PersistFindingFails
  <2>3. CASE ReplayStep(p)
    BY <2>3 DEF ReplayStep, LookUpArtifact, RunAgain, PersistReplay, PersistReplayFails
  <2>4. CASE BenchmarkStep(p) \/ Throws(p) \/ Render(p)
    BY <2>4 DEF BenchmarkStep, PrepareBenchmark, ValidateOutput, TakeSample, EndMeasurement,
         PersistBenchmark, PersistBenchmarkFails, Throws, Render
  <2> QED
    BY <1>1, <2>1, <2>2, <2>3, <2>4 DEF ProcessStep
<1>2. CASE AddAssets \/ RemoveProblem \/ \E c \in Contents : Edit(c)
  BY <1>2 DEF AddAssets, RemoveProblem, Edit
<1>3. ASSUME NEW p \in Procs, Cancel(p) \/ Kill(p) PROVE UNCHANGED files
  BY <1>3 DEF Cancel, Kill
<1> QED
  BY <1>1, <1>2, <1>3 DEF Next, User, ProcessStep

\* A document disappears when its run fails to make the artifact, or with the artifact.
LEMMA DocumentsChange ==
    ASSUME [Next]_vars
    PROVE  \/ documents \subseteq documents'
           \/ \E p \in Procs : ArtifactFails(p)
           \/ \E a \in files : DeleteArtifact(a)
<1>1. ASSUME NEW p \in Procs, ProcessStep(p), ~ArtifactFails(p)
      PROVE  documents \subseteq documents'
  <2>1. CASE InitStep(p)
    BY <2>1 DEF InitStep, MakeDirectory, WriteScaffold, RegisterProblem, InitFails
  <2>2. CASE StressStep(p)
    BY <1>1, <2>2 DEF StressStep, FindFailure, Shrink, ShrinkTimesOut, MakeTemporary,
         WriteDocument, RenameArtifact, PersistFinding, PersistFindingFails
  <2>3. CASE ReplayStep(p)
    BY <2>3 DEF ReplayStep, LookUpArtifact, RunAgain, PersistReplay, PersistReplayFails
  <2>4. CASE BenchmarkStep(p) \/ Throws(p) \/ Render(p)
    BY <2>4 DEF BenchmarkStep, PrepareBenchmark, ValidateOutput, TakeSample, EndMeasurement,
         PersistBenchmark, PersistBenchmarkFails, Throws, Render
  <2> QED
    BY <1>1, <2>1, <2>2, <2>3, <2>4 DEF ProcessStep
<1>2. CASE AddAssets \/ RemoveProblem \/ \E c \in Contents : Edit(c)
  BY <1>2 DEF AddAssets, RemoveProblem, Edit
<1>3. ASSUME NEW p \in Procs, Cancel(p) \/ Kill(p) PROVE documents \subseteq documents'
  BY <1>3 DEF Cancel, Kill
<1> QED
  BY <1>1, <1>2, <1>3 DEF Next, User, ProcessStep

-----------------------------------------------------------------------------
(* Findings.                                                               *)

\* Only stress-test's own steps lead to its stages.
LEMMA StressSteps ==
    ASSUME TypeOK, StagePart, NEW p \in Procs, ProcessStep(p) \/ Cancel(p) \/ Kill(p),
           UnderWay(p)', command'[p] = "stress"
    PROVE  \/ FindFailure(p) \/ Shrink(p)
           \/ ShrinkTimesOut(p) \/ MakeTemporary(p) \/ WriteDocument(p) \/ RenameArtifact(p) \/ Cancel(p)
<1> USE DEF TypeOK, StagePart, UnderWay, Returns, Goes, Begins
<1>1. ~InitStep(p)
  BY DEF InitStep, MakeDirectory, WriteScaffold, RegisterProblem, InitFails
<1>2. ~ReplayStep(p)
  BY DEF ReplayStep, LookUpArtifact, RunAgain, PersistReplay, PersistReplayFails
<1>3. ~BenchmarkStep(p)
  BY DEF BenchmarkStep, PrepareBenchmark, ValidateOutput, TakeSample, EndMeasurement,
       PersistBenchmark, PersistBenchmarkFails
<1>4. ~Throws(p) /\ ~Render(p) /\ ~Kill(p)
  BY DEF Throws, Render, Kill
<1>5. ~ArtifactFails(p) /\ ~PersistFinding(p) /\ ~PersistFindingFails(p)
  BY DEF ArtifactFails, PersistFinding, PersistFindingFails, Finding
<1> QED
  BY <1>1, <1>2, <1>3, <1>4, <1>5 DEF ProcessStep, StressStep

\* The finding of the pool.
LEMMA FoundIsOk ==
    ASSUME TypeOK, NEW p \in Procs, FindFailure(p), UnderWay(p)'
    PROVE  StressOk(p)'
<1>1. directory = "ready"
  BY DEF FindFailure, TypeOK, Returns, UnderWay
<1>2. PICK c \in Cancels(p) :
        /\ Judged(c, Whole) # NoPredicate
        /\ work' = [work EXCEPT ![p] =
                 [run |-> p, input |-> Whole, predicate |-> Judged(c, Whole),
                  seen |-> {solution}, next |-> 1, ran |-> solution, when |-> edits]]
        /\ Goes(p, "shrink") \/ Goes(p, "write")
  BY <1>1 DEF FindFailure, TypeOK, Returns, UnderWay
<1> DEFINE found == [run |-> p, input |-> Whole, predicate |-> Judged(c, Whole),
                     seen |-> {solution}, next |-> 1, ran |-> solution, when |-> edits]
<1>3. work'[p] = found
  BY <1>2 DEF TypeOK
<1>4. found \in StressWork
  BY <1>2, JudgedType, InputAssumption DEF TypeOK, StressWork
<1>5. StillFails(found)
  BY <1>2, JudgedGenuinely DEF StillFails, FailsOn
<1>6. found.when <= edits' /\ (found.when = edits' => found.ran = solution')
  BY DEF FindFailure, TypeOK
<1>7. at'[p] \notin {"rename", "persist"} /\ found.run = p
  BY <1>2 DEF Goes, TypeOK
<1> HIDE DEF found
<1> QED
  BY <1>3, <1>4, <1>5, <1>6, <1>7 DEF StressOk, RanLast

LEMMA TriedRecord ==
    ASSUME NEW w \in StressWork, NEW content \in Contents, NEW input \in Inputs
    PROVE  /\ Tried(w, content, input) \in StressWork
           /\ Tried(w, content, input).run = w.run
           /\ Tried(w, content, input).predicate = w.predicate
           /\ Tried(w, content, input).ran = w.ran
           /\ Tried(w, content, input).when = w.when
           /\ Tried(w, content, input).input = input
           /\ Tried(w, content, input).seen = w.seen \cup {content}
<1> USE DEF StressWork, Tried
<1>1. Tried(w, content, input) \in StressWork
  <2>1. w.next + 1 \in Nat \ {0} /\ w.seen \cup {content} \in SUBSET Contents
    OBVIOUS
  <2> QED
    BY <2>1
<1>2. /\ Tried(w, content, input).run = w.run
      /\ Tried(w, content, input).predicate = w.predicate
      /\ Tried(w, content, input).ran = w.ran
      /\ Tried(w, content, input).when = w.when
  OBVIOUS
<1>3. Tried(w, content, input).input = input
  OBVIOUS
<1>4. Tried(w, content, input).seen = w.seen \cup {content}
  OBVIOUS
<1> QED
  BY <1>1, <1>2, <1>3, <1>4

\* An input that replaces another fails as it did.
LEMMA ShrunkIsOk ==
    ASSUME TypeOK, NEW p \in Procs, Shrink(p), UnderWay(p), command[p] = "stress", StressOk(p)
    PROVE  StressOk(p)'
<1> DEFINE w == work[p]
<1>1. at[p] = "shrink" /\ command' = command /\ UNCHANGED <<solution, edits, files>>
  BY DEF Shrink
<1>2. w \in StressWork /\ w.run = p /\ StillFails(w) /\ RanLast(w)
  BY DEF StressOk
<1>3. CASE w.next <= Len(Halves[Whole])
  <2> DEFINE half == Halves[Whole][w.next]
             input(c) == IF Kept(Judged(c, half), w) THEN half ELSE w.input
  <2>1. PICK c \in Cancels(p) : work' = [work EXCEPT ![p] = Tried(w, solution, input(c))]
    BY <1>3 DEF Shrink
  <2> DEFINE shrunk == Tried(w, solution, input(c))
  <2>2. work'[p] = shrunk
    BY <2>1 DEF TypeOK
  <2>3. half \in Inputs
    BY <1>2, <1>3, InputAssumption DEF StressWork
  <2>4. input(c) \in Inputs
    BY <1>2, <2>3 DEF StressWork
  <2> HIDE DEF half, input
  <2>5. /\ shrunk \in StressWork
        /\ shrunk.run = w.run /\ shrunk.predicate = w.predicate
        /\ shrunk.ran = w.ran /\ shrunk.when = w.when
        /\ shrunk.input = input(c) /\ shrunk.seen = w.seen \cup {solution}
    BY <1>2, <2>4, TriedRecord DEF TypeOK
  <2>6. StillFails(shrunk)
    <3>1. SUFFICES ASSUME Genuine(w.predicate)
                   PROVE  \E d \in shrunk.seen : FailsOn(shrunk, d)
      BY <2>5 DEF StillFails
    <3>2. CASE Kept(Judged(c, half), w)
      <4>1. Judged(c, half) = w.predicate /\ input(c) = half
        BY <3>2 DEF Kept, input
      <4>2. w.predicate # NoPredicate
        BY <1>2, NoneIsNoPredicate DEF StressWork
      <4>3. FailsOn(shrunk, solution)
        BY <2>5, <3>1, <4>1, <4>2, JudgedGenuinely DEF FailsOn
      <4> QED
        BY <2>5, <4>3
    <3>3. CASE ~Kept(Judged(c, half), w)
      <4>1. input(c) = w.input
        BY <3>3 DEF input
      <4>2. PICK d \in w.seen : FailsOn(w, d)
        BY <1>2, <3>1 DEF StillFails
      <4>3. FailsOn(shrunk, d)
        BY <2>5, <4>1, <4>2 DEF FailsOn
      <4> QED
        BY <2>5, <4>2, <4>3
    <3> QED
      BY <3>2, <3>3
  <2>7. shrunk.when <= edits' /\ (shrunk.when = edits' => shrunk.ran = solution') /\ shrunk.run = p
    BY <1>1, <1>2, <2>5 DEF RanLast
  <2>8. at'[p] \notin {"rename", "persist"}
    BY <1>1, <1>3 DEF Shrink
  <2> HIDE DEF shrunk
  <2> QED
    BY <2>2, <2>5, <2>6, <2>7, <2>8 DEF StressOk, RanLast
<1>4. CASE ~(w.next <= Len(Halves[Whole]))
  <2>1. work' = work /\ at'[p] = "write"
    BY <1>4 DEF Shrink, Goes, TypeOK
  <2> QED
    BY <1>1, <1>2, <2>1 DEF StressOk, RanLast
<1> QED
  BY <1>3, <1>4

\* The artifact of a run that has not persisted it stays, and stays complete.
LEMMA UnsavedArtifactsStay ==
    ASSUME TypeOK, StagePart, DurablePart, StressPart, [Next]_vars,
           NEW q \in Procs, Same(q), at[q] \in {"rename", "persist"}, command[q] = "stress"
    PROVE  /\ ArtifactOf(work[q]) \in documents'
           /\ at[q] = "persist" => ArtifactOf(work[q]) \in files'
<1> DEFINE own == ArtifactOf(work[q])
<1>1. own \in documents /\ own.run = q /\ (at[q] = "persist" => own \in files)
  BY DEF StressPart, StressOk, UnderWay, ArtifactOf
<1>2. ~Stored(q)
  BY DEF DurablePart
<1>3. own \notin artifactRows
  BY <1>1, <1>2 DEF Stored
<1>4. ASSUME NEW p \in Procs, ArtifactFails(p)
      PROVE  documents \ {ArtifactOf(work[p])} \subseteq documents' /\ ArtifactOf(work[p]).run # q
  <2>1. command[p] = "stress" /\ UnderWay(p)
    BY <1>4 DEF ArtifactFails, StagePart, UnderWay
  <2>2. ArtifactOf(work[p]).run = p
    BY <2>1 DEF StressPart, StressOk, ArtifactOf
  <2>3. at'[p] = "returned"
    BY <1>4 DEF ArtifactFails, Finding, Returns, TypeOK
  <2>4. p # q
    BY <2>3 DEF Same
  <2> QED
    BY <1>4, <2>2, <2>4 DEF ArtifactFails
<1> HIDE DEF own
<1>5. own \in documents'
  BY <1>1, <1>3, <1>4, DocumentsChange DEF DeleteArtifact
<1>6. at[q] = "persist" => own \in files'
  BY <1>1, <1>3, FilesChange DEF RenameArtifact, DeleteArtifact
<1> QED
  BY <1>5, <1>6 DEF own

LEMMA StressStays ==
    ASSUME TypeOK, StagePart, DirectoryPart, DurablePart, StressPart, [Next]_vars,
           NEW q \in Procs, Same(q)
    PROVE  StressOk(q)'
<1> SUFFICES ASSUME UnderWay(q), command[q] = "stress" PROVE StressOk(q)'
  BY DEF StressOk, Same, UnderWay
<1>1. StressOk(q)
  BY DEF StressPart
<1>2. work[q] \in StressWork /\ work[q].run = q /\ StillFails(work[q])
  BY <1>1 DEF StressOk
<1>3. work[q].when <= edits' /\ (work[q].when = edits' => work[q].ran = solution')
  <2>1. work[q].when \in Nat
    BY <1>2 DEF StressWork
  <2>2. work[q].when <= edits /\ (work[q].when = edits => work[q].ran = solution)
    BY <1>1 DEF StressOk, RanLast
  <2> QED
    BY <2>1, <2>2, SavesAreCounted DEF TypeOK
<1> QED
  BY <1>2, <1>3, UnsavedArtifactsStay DEF StressOk, Same, RanLast, ArtifactOf

LEMMA StressPartStep ==
    TypeOK /\ StagePart /\ DirectoryPart /\ DurablePart /\ StressPart /\ [Next]_vars => StressPart'
<1> SUFFICES ASSUME TypeOK, StagePart, DirectoryPart, DurablePart, StressPart, [Next]_vars
             PROVE  StressPart'
  OBVIOUS
<1>1. ASSUME NEW a \in files' PROVE a.predicate \in Predicates /\ StillFails(a)
  <2>1. CASE a \in files
    BY <2>1 DEF StressPart
  <2>2. CASE a \notin files
    <3>1. PICK p \in Procs : RenameArtifact(p)
      BY <1>1, <2>2, FilesChange DEF DeleteArtifact
    <3>2. a = ArtifactOf(work[p])
      BY <1>1, <2>2, <3>1 DEF RenameArtifact
    <3>3. StillFails(work[p]) /\ work[p] \in StressWork
      BY <3>1 DEF RenameArtifact, StressPart, StressOk, StagePart, UnderWay
    <3>4. a.predicate \in Predicates
      BY <3>2, <3>3 DEF ArtifactOf, StressWork
    <3> QED
      BY <3>2, <3>3, <3>4, ArtifactFailsAlike
  <2> QED
    BY <2>1, <2>2
<1>2. ASSUME NEW q \in Procs PROVE StressOk(q)'
  <2>1. ASSUME ProcessStep(q) \/ Cancel(q) \/ Kill(q) PROVE StressOk(q)'
    <3> SUFFICES ASSUME UnderWay(q)', command'[q] = "stress" PROVE StressOk(q)'
      BY DEF StressOk
    <3>0. StressOk(q)
      BY DEF StressPart
    <3>1. CASE FindFailure(q)
      BY <3>1, FoundIsOk
    <3>2. CASE Shrink(q)
      <4>1. UnderWay(q) /\ command[q] = "stress"
        BY <3>2 DEF Shrink, UnderWay
      <4> QED
        BY <3>0, <3>2, <4>1, ShrunkIsOk
    <3>3. CASE ShrinkTimesOut(q) \/ MakeTemporary(q)
      BY <3>0, <3>3 DEF ShrinkTimesOut, MakeTemporary, StressOk, RanLast, UnderWay, Goes, TypeOK
    <3>4. CASE WriteDocument(q) \/ RenameArtifact(q)
      <4>1. /\ UNCHANGED <<solution, edits, command, work>> /\ UnderWay(q)
            /\ at[q] = "rename" \/ at'[q] = "rename"
            /\ at'[q] \in {"rename", "persist"}
            /\ ArtifactOf(work[q]) \in documents'
            /\ at'[q] = "persist" => ArtifactOf(work[q]) \in files'
        BY <3>0, <3>4 DEF WriteDocument, RenameArtifact, StressOk, StagePart, UnderWay, Goes, TypeOK
      <4>2. command[q] = "stress"
        BY <3>4 DEF WriteDocument, RenameArtifact, StagePart
      <4> QED
        BY <3>0, <4>1, <4>2 DEF StressOk, RanLast, ArtifactOf
    <3>5. CASE Cancel(q)
      BY <3>0, <3>5 DEF Cancel, StressOk, RanLast, UnderWay
    <3> QED
      BY <2>1, <3>1, <3>2, <3>3, <3>4, <3>5, StressSteps
  <2>2. CASE Same(q)
    BY <2>2, StressStays
  <2>3. CASE UNCHANGED vars
    BY <2>2, <2>3 DEF Same
  <2> QED
    BY <2>1, <2>2, <2>3, OthersStay, UserStays DEF Next, User, ProcessStep
<1> QED
  BY <1>1, <1>2 DEF StressPart

-----------------------------------------------------------------------------
(* Replays.                                                                *)

\* Which action writes which rows.
LEMMA RowsChange ==
    ASSUME [Next]_vars
    PROVE  /\ UNCHANGED artifactRows \/ \E p \in Procs : PersistFinding(p)
           /\ UNCHANGED replayRows \/ \E p \in Procs : PersistReplay(p)
           /\ UNCHANGED benchmarkRows \/ \E p \in Procs : PersistBenchmark(p)
           /\ UNCHANGED executions \/ \E p \in Procs : PersistFinding(p) \/ PersistReplay(p)
<1> DEFINE Unwritten == UNCHANGED <<artifactRows, replayRows, benchmarkRows, executions>>
<1>1. ASSUME NEW p \in Procs, ProcessStep(p),
             ~PersistFinding(p), ~PersistReplay(p), ~PersistBenchmark(p)
      PROVE  Unwritten
  <2>1. CASE InitStep(p)
    BY <2>1 DEF InitStep, MakeDirectory, WriteScaffold, RegisterProblem, InitFails
  <2>2. CASE StressStep(p)
    BY <1>1, <2>2 DEF StressStep, FindFailure, Shrink, ShrinkTimesOut, MakeTemporary, WriteDocument,
         RenameArtifact, ArtifactFails, PersistFindingFails
  <2>3. CASE ReplayStep(p)
    BY <1>1, <2>3 DEF ReplayStep, LookUpArtifact, RunAgain, PersistReplayFails
  <2>4. CASE BenchmarkStep(p) \/ Throws(p) \/ Render(p)
    BY <1>1, <2>4 DEF BenchmarkStep, PrepareBenchmark, ValidateOutput, TakeSample, EndMeasurement,
         PersistBenchmarkFails, Throws, Render
  <2> QED
    BY <1>1, <2>1, <2>2, <2>3, <2>4 DEF ProcessStep
<1>2. ASSUME NEW p \in Procs, PersistFinding(p) PROVE UNCHANGED <<replayRows, benchmarkRows>>
  BY <1>2 DEF PersistFinding
<1>3. ASSUME NEW p \in Procs, PersistReplay(p) PROVE UNCHANGED <<artifactRows, benchmarkRows>>
  BY <1>3 DEF PersistReplay
<1>4. ASSUME NEW p \in Procs, PersistBenchmark(p) PROVE UNCHANGED <<artifactRows, replayRows, executions>>
  BY <1>4 DEF PersistBenchmark
<1>5. CASE \/ AddAssets \/ RemoveProblem
           \/ \E c \in Contents : Edit(c)
           \/ \E a \in files : DeleteArtifact(a)
  BY <1>5 DEF AddAssets, RemoveProblem, Edit, DeleteArtifact
<1>6. ASSUME NEW p \in Procs, Cancel(p) \/ Kill(p) PROVE Unwritten
  BY <1>6 DEF Cancel, Kill
<1> QED
  BY <1>1, <1>2, <1>3, <1>4, <1>5, <1>6 DEF Next, User, ProcessStep

LEMMA ArtifactRowsGrow ==
    ASSUME [Next]_vars PROVE artifactRows \subseteq artifactRows'
  BY RowsChange DEF PersistFinding

\* Only replay's own steps lead to its stages.
LEMMA ReplaySteps ==
    ASSUME TypeOK, StagePart, NEW p \in Procs, ProcessStep(p) \/ Cancel(p) \/ Kill(p),
           UnderWay(p)', command'[p] = "replay"
    PROVE  \/ \E a \in files \cup artifactRows : LookUpArtifact(p, a)
           \/ RunAgain(p) \/ Cancel(p)
<1> USE DEF TypeOK, StagePart, UnderWay, Returns, Goes, Begins
<1>1. ~InitStep(p)
  BY DEF InitStep, MakeDirectory, WriteScaffold, RegisterProblem, InitFails
<1>2. ~FindFailure(p)
  BY DEF FindFailure
<1>3. ~Shrink(p) /\ ~ShrinkTimesOut(p) /\ ~MakeTemporary(p) /\ ~WriteDocument(p) /\ ~RenameArtifact(p)
  BY DEF Shrink, ShrinkTimesOut, MakeTemporary, WriteDocument, RenameArtifact
<1>4. ~ArtifactFails(p) /\ ~PersistFinding(p) /\ ~PersistFindingFails(p)
  BY DEF ArtifactFails, PersistFinding, PersistFindingFails, Finding
<1>5. ~BenchmarkStep(p)
  BY DEF BenchmarkStep, PrepareBenchmark, ValidateOutput, TakeSample, EndMeasurement,
       PersistBenchmark, PersistBenchmarkFails
<1>6. ~Throws(p) /\ ~Render(p) /\ ~Kill(p) /\ ~PersistReplay(p) /\ ~PersistReplayFails(p)
  BY DEF Throws, Render, Kill, PersistReplay, PersistReplayFails
<1> QED
  BY <1>1, <1>2, <1>3, <1>4, <1>5, <1>6 DEF ProcessStep, StressStep, ReplayStep

\* What the present solution does on the recorded input, against what was recorded.
LEMMA RunAgainTells ==
    ASSUME NEW p \in Procs, NEW c \in Cancels(p), NEW a, NEW w,
           a.predicate \in Predicates, StillFails(a),
           w.artifact = a, w.ran = solution, w.canceled = c.solution,
           w.again = Judged(c, a.input)
    PROVE  Tells(w)
<1>1. ASSUME Genuine(a.predicate), w.again = a.predicate PROVE FailsOn(a, w.ran)
  <2>1. Judged(c, a.input) = a.predicate /\ a.predicate # NoPredicate
    BY <1>1, NoneIsNoPredicate
  <2>2. a.predicate = PredicateOf(Outcome[Naive][a.input], Outcome[solution][a.input])
    BY <1>1, <2>1, JudgedGenuinely
  <2> QED
    BY <2>2 DEF FailsOn
<1>2. ASSUME Genuine(a.predicate), w.again # a.predicate, ~w.canceled, a.seen = {w.ran}
      PROVE  FALSE
  <2>1. ~c.naive /\ ~c.solution
    BY <1>2 DEF Cancels
  <2>2. Judged(c, a.input) = PredicateOf(Outcome[Naive][a.input], Outcome[solution][a.input])
    BY <2>1 DEF Judged, Status
  <2>3. FailsOn(a, solution)
    BY <1>2 DEF StillFails
  <2> QED
    BY <1>2, <2>2, <2>3 DEF FailsOn
<1>3. w.artifact = a
  OBVIOUS
<1> QED
  BY <1>1, <1>2, <1>3, Zenon DEF Tells

LEMMA ReplayStays ==
    ASSUME TypeOK, StagePart, DirectoryPart, ReplayPart, [Next]_vars,
           NEW q \in Procs, Same(q)
    PROVE  ReplayOk(q)'
<1> SUFFICES ASSUME UnderWay(q), command[q] = "replay" PROVE ReplayOk(q)'
  BY DEF ReplayOk, Same, UnderWay
<1>1. ReplayOk(q)
  BY DEF ReplayPart
<1>2. at[q] = "persist" =>
        work[q].when <= edits' /\ (work[q].when = edits' => work[q].ran = solution')
  BY <1>1, SavesAreCounted DEF TypeOK, ReplayOk, RanLast
<1> QED
  BY <1>1, <1>2, ArtifactRowsGrow DEF ReplayOk, Same, RanLast

LEMMA ReplayPartStep ==
    /\ TypeOK /\ StagePart /\ DirectoryPart /\ DurablePart /\ StressPart /\ ReplayPart
    /\ [Next]_vars
    => ReplayPart'
<1> SUFFICES ASSUME TypeOK, StagePart, DirectoryPart, DurablePart, StressPart, ReplayPart,
                    [Next]_vars
             PROVE  ReplayPart'
  OBVIOUS
<1>1. ASSUME NEW r \in replayRows' PROVE r.artifact \in artifactRows'
  <2>1. CASE r \in replayRows
    BY <2>1, ArtifactRowsGrow DEF ReplayPart
  <2>2. CASE r \notin replayRows
    <3>1. PICK p \in Procs : PersistReplay(p)
      BY <1>1, <2>2, RowsChange
    <3>2. r.artifact = work[p].artifact /\ UNCHANGED artifactRows
      <4>1. UNCHANGED artifactRows
        BY <3>1 DEF PersistReplay
      <4>2. replayRows' \subseteq replayRows \cup {[by |-> p, artifact |-> work[p].artifact]}
        BY <3>1 DEF PersistReplay
      <4> QED
        BY <1>1, <2>2, <4>1, <4>2
    <3>3. work[p].artifact \in artifactRows
      BY <3>1 DEF PersistReplay, ReplayPart, ReplayOk, UnderWay
    <3> QED
      BY <3>2, <3>3
  <2> QED
    BY <2>1, <2>2
<1>2. ASSUME NEW q \in Procs PROVE ReplayOk(q)'
  <2>1. ASSUME ProcessStep(q) \/ Cancel(q) \/ Kill(q) PROVE ReplayOk(q)'
    <3> SUFFICES ASSUME UnderWay(q)', command'[q] = "replay" PROVE ReplayOk(q)'
      BY DEF ReplayOk
    <3>0. ReplayOk(q)
      BY DEF ReplayPart
    <3>1. ASSUME NEW a \in files \cup artifactRows, LookUpArtifact(q, a) PROVE ReplayOk(q)'
      <4>1. a \in files /\ a \in artifactRows /\ work'[q] = [artifact |-> a] /\ at'[q] = "rerun"
        BY <3>1 DEF LookUpArtifact, Returns, Goes, UnderWay, TypeOK
      <4> QED
        BY <4>1, ArtifactRowsGrow DEF StressPart, ReplayOk
    <3>2. CASE RunAgain(q)
      <4> DEFINE a == work[q].artifact
      <4>1. a \in artifactRows /\ a.predicate \in Predicates /\ StillFails(a)
        BY <3>0, <3>2 DEF ReplayOk, RunAgain, UnderWay, StagePart
      <4>2. PICK c \in Cancels(q) :
              /\ token' = [token EXCEPT ![q] = c.after]
              /\ work'[q] =
                   [artifact |-> a, ran |-> solution, when |-> edits,
                    canceled |-> c.solution, again |-> Judged(c, a.input)]
        BY <3>2 DEF RunAgain, Replayed, TypeOK
      <4>3. Tells(work'[q])
        BY <4>1, <4>2, RunAgainTells
      <4>4. /\ work'[q].artifact = a /\ work'[q].ran = solution /\ work'[q].when = edits
            /\ work'[q].canceled => token'[q]
        <5>1. work'[q].canceled = c.solution /\ token'[q] = c.after
          BY <4>2 DEF TypeOK
        <5>2. c.solution => c.after
          BY DEF Cancels
        <5> QED
          BY <4>2, <5>1, <5>2
      <4> QED
        BY <3>2, <4>1, <4>3, <4>4, ArtifactRowsGrow DEF RunAgain, ReplayOk, RanLast, TypeOK
    <3>3. CASE Cancel(q)
      BY <3>0, <3>3 DEF Cancel, ReplayOk, RanLast, UnderWay, TypeOK
    <3> QED
      BY <2>1, <3>1, <3>2, <3>3, ReplaySteps
  <2>2. CASE Same(q)
    BY <2>2, ReplayStays
  <2>3. CASE UNCHANGED vars
    BY <2>2, <2>3 DEF Same
  <2> QED
    BY <2>1, <2>2, <2>3, OthersStay, UserStays DEF Next, User, ProcessStep
<1> DEFINE Says(q) == command[q] = "replay" /\ Returned(q) /\ answer[q].saved
           Meant(q) == /\ answer[q].status = VerdictOf(work[q])
                       /\ Tells(work[q]) /\ (work[q].canceled => token[q])
                       /\ at[q] = "done" => ~token[q]
<1>3. ASSUME NEW q \in Procs, Says(q)' PROVE Meant(q)'
  <2>0. Says(q) => Meant(q)
    BY DEF ReplayPart
  <2>1. CASE Same(q)
    BY <1>3, <2>0, <2>1 DEF Same, Returned, VerdictOf, Tells
  <2>2. CASE Afterwards(q)
    <3>1. at[q] = "returned" /\ UNCHANGED command
      BY <2>2 DEF Afterwards, Render, Cancel, Kill
    <3>2. CASE Render(q)
      <4>1. ~token[q] /\ answer'[q] = answer[q] /\ UNCHANGED <<token, work>> /\ at'[q] = "done"
        BY <1>3, <3>2 DEF Render, Rendered, AnswerOf, TypeOK
      <4> QED
        BY <1>3, <2>0, <3>1, <4>1 DEF Returned, VerdictOf, Tells
    <3>3. CASE Cancel(q)
      <4>1. UNCHANGED <<at, answer, work>> /\ token'[q] = TRUE
        BY <3>3 DEF Cancel, TypeOK
      <4> QED
        BY <1>3, <2>0, <3>1, <4>1 DEF Returned, VerdictOf, Tells
    <3>4. CASE Kill(q)
      BY <1>3, <3>4 DEF Kill, Returned, TypeOK
    <3> QED
      BY <2>2, <3>2, <3>3, <3>4 DEF Afterwards
  <2>3. CASE (ProcessStep(q) \/ Cancel(q) \/ Kill(q)) /\ ~Afterwards(q)
    <3>1. Persists(q)
      BY <1>3, <2>3, OthersAreUnsaved, SavedIsSecond DEF Unsaved, Returned
    <3>2. PersistReplay(q) /\ \E status : Returns(q, status, TRUE)
      BY <1>3, <3>1 DEF Persists, PersistFinding, PersistBenchmark
    <3>3. /\ UNCHANGED <<work, token>> /\ Tells(work[q]) /\ (work[q].canceled => token[q])
          /\ at'[q] = "returned"
      BY <3>2, ReturnsItself DEF PersistReplay, ReplayPart, ReplayOk, UnderWay
    <3>4. answer'[q].status = VerdictOf(work[q])
      <4>1. ASSUME NEW status, Returns(q, status, FALSE) PROVE FALSE
        <5>1. answer'[q].saved = FALSE
          BY ZenonT(30), <4>1, ReturnsItself, SavedIsSecond
        <5> QED
          BY <1>3, <5>1
      <4>2. Returns(q, VerdictOf(work[q]), TRUE)
        BY <3>2, <4>1 DEF PersistReplay
      <4> QED
        <5>1. answer'[q] = AnswerOf(VerdictOf(work[q]), TRUE)
          BY <4>2, ReturnsItself
        <5> QED
          BY <5>1, StatusIsFirst
    <3> QED
      BY <3>3, <3>4 DEF VerdictOf, Tells
  <2>4. CASE UNCHANGED vars
    BY <2>1, <2>4 DEF Same
  <2> QED
    BY <2>1, <2>2, <2>3, <2>4, OthersStay, UserStays DEF Next, User, ProcessStep
<1> QED
  BY <1>1, <1>2, <1>3 DEF ReplayPart

-----------------------------------------------------------------------------
(* Benchmarks.                                                             *)

LEMMA BenchmarkSteps ==
    ASSUME TypeOK, StagePart, NEW p \in Procs, ProcessStep(p) \/ Cancel(p) \/ Kill(p),
           UnderWay(p)', command'[p] = "benchmark"
    PROVE  \/ PrepareBenchmark(p) \/ ValidateOutput(p) \/ TakeSample(p) \/ EndMeasurement(p)
           \/ Cancel(p)
<1> USE DEF TypeOK, StagePart, UnderWay, Returns, Goes, Begins
<1>1. ~InitStep(p)
  BY DEF InitStep, MakeDirectory, WriteScaffold, RegisterProblem, InitFails
<1>2. ~FindFailure(p)
  BY DEF FindFailure
<1>3. ~Shrink(p) /\ ~ShrinkTimesOut(p) /\ ~MakeTemporary(p) /\ ~WriteDocument(p) /\ ~RenameArtifact(p)
  BY DEF Shrink, ShrinkTimesOut, MakeTemporary, WriteDocument, RenameArtifact
<1>4. ~ArtifactFails(p) /\ ~PersistFinding(p) /\ ~PersistFindingFails(p)
  BY DEF ArtifactFails, PersistFinding, PersistFindingFails, Finding
<1>5. ~ReplayStep(p)
  BY DEF ReplayStep, LookUpArtifact, RunAgain, PersistReplay, PersistReplayFails
<1>6. ~Throws(p) /\ ~Render(p) /\ ~Kill(p) /\ ~PersistBenchmark(p) /\ ~PersistBenchmarkFails(p)
  BY DEF Throws, Render, Kill, PersistBenchmark, PersistBenchmarkFails
<1> QED
  BY <1>1, <1>2, <1>3, <1>4, <1>5, <1>6 DEF ProcessStep, StressStep, BenchmarkStep

LEMMA SampleFields ==
    ASSUME NEW path \in {"solution", "alternative"}, NEW ordinal \in Nat,
           NEW status \in Statuses \cup {"passed"}, NEW ran \in Contents, NEW when \in Nat
    PROVE  LET s == SampleOf(path, ordinal, status, ran, when) IN
           /\ s \in SampleRecords
           /\ s.path = path /\ s.ordinal = ordinal /\ s.status = status
           /\ s.ran = ran /\ s.when = when
  BY DEF SampleOf, SampleRecords

LEMMA WithSampleFields ==
    ASSUME NEW w \in BenchmarkWork, NEW s \in SampleRecords
    PROVE  /\ WithSample(w, s) \in BenchmarkWork
           /\ WithSample(w, s).hashed = w.hashed
           /\ WithSample(w, s).start = w.start
           /\ WithSample(w, s).validated = w.validated
           /\ WithSample(w, s).samples = Append(w.samples, s)
<1> USE DEF BenchmarkWork, WithSample
<1>1. Append(w.samples, s) \in Seq(SampleRecords)
  OBVIOUS
<1>2. WithSample(w, s) \in BenchmarkWork
  BY <1>1
<1>3. /\ WithSample(w, s).hashed = w.hashed
      /\ WithSample(w, s).start = w.start
      /\ WithSample(w, s).validated = w.validated
  OBVIOUS
<1>4. WithSample(w, s).samples = Append(w.samples, s)
  OBVIOUS
<1> QED
  BY <1>2, <1>3, <1>4

LEMMA WithValidatedFields ==
    ASSUME NEW w \in BenchmarkWork, NEW c \in Contents
    PROVE  /\ WithValidated(w, c) \in BenchmarkWork
           /\ WithValidated(w, c).hashed = w.hashed
           /\ WithValidated(w, c).start = w.start
           /\ WithValidated(w, c).samples = w.samples
           /\ WithValidated(w, c).validated = Append(w.validated, c)
<1> USE DEF BenchmarkWork, WithValidated
<1>1. Append(w.validated, c) \in Seq(Contents)
  OBVIOUS
<1>2. WithValidated(w, c) \in BenchmarkWork
  BY <1>1
<1>3. /\ WithValidated(w, c).hashed = w.hashed
      /\ WithValidated(w, c).start = w.start
      /\ WithValidated(w, c).samples = w.samples
  OBVIOUS
<1>4. WithValidated(w, c).validated = Append(w.validated, c)
  OBVIOUS
<1> QED
  BY <1>2, <1>3, <1>4

LEMMA TwoPaths == Len(Paths) = 2 /\ DOMAIN Paths = {1, 2}
                    /\ Paths[1] = "solution" /\ Paths[2] = "alternative"
  BY DEF Paths

LEMMA ContentType ==
    ASSUME TypeOK, NEW path PROVE ContentOf(path) \in Contents
  BY ContentAssumption DEF TypeOK, ContentOf

LEMMA Halving ==
    ASSUME NEW n \in Nat
    PROVE  /\ n \div 2 \in Nat
           /\ (n - 1) % 2 = 0 => (n \div 2) * 2 + 1 = n
  OBVIOUS

LEMMA Bounding ==
    ASSUME NEW n \in Nat, NEW r, r = n \div 2
    PROVE  /\ r \in Nat
           /\ r \in Ordinals => n < 2 * (Warmups + Samples)
           /\ r \notin Ordinals => n >= 2 * (Warmups + Samples)
<1>1. r \in Nat /\ n < 2 * (r + 1) /\ n >= 2 * r
  OBVIOUS
<1>2. Warmups \in Nat /\ Samples \in Nat
  BY RepetitionsAssumption
<1> QED
  BY <1>1, <1>2 DEF Ordinals

\* The second sample of a repetition is of the other implementation.
LEMMA SampleAdded ==
    ASSUME NEW w \in BenchmarkWork, SamplesOk(w), NEW s \in SampleRecords,
           Len(w.samples) < 2 * (Warmups + Samples),
           s.ordinal = Len(w.samples) \div 2, s.path \in Unsampled(w),
           s.when = w.start => Expected(s.ran) /\ s.ran = Hashed(w, s.path)
    PROVE  SamplesOk(WithSample(w, s))
<1> DEFINE v == WithSample(w, s)
           n == Len(w.samples)
<1>1. w.samples \in Seq(SampleRecords) /\ n \in Nat
  BY DEF BenchmarkWork
<1>2. v.samples = Append(w.samples, s) /\ v.start = w.start /\ v.hashed = w.hashed
  BY WithSampleFields
<1>3. /\ Len(v.samples) = n + 1
      /\ \A i \in 1 .. n : v.samples[i] = w.samples[i]
      /\ v.samples[n + 1] = s
  BY <1>1, <1>2
<1>4. \A path : Hashed(v, path) = Hashed(w, path)
  BY <1>2 DEF Hashed
<1>4a. s.ordinal = n \div 2 /\ n = Len(w.samples)
  OBVIOUS
<1> HIDE DEF v, n
<1>5. ASSUME NEW i \in 1 .. n + 1 PROVE SampleOk(v, i)
  <2>1. CASE i \in 1 .. n
    BY <1>2, <1>3, <1>4, <1>4a, <2>1 DEF SamplesOk, SampleOk
  <2>2. CASE i = n + 1
    <3>1. v.samples[i].ordinal = (i - 1) \div 2
      <4>1. i - 1 = n /\ v.samples[i] = s
        BY <1>1, <1>3, <2>2
      <4> QED
        BY <1>4a, <4>1
    <3> QED
      BY <1>2, <1>3, <1>4, <2>2, <3>1 DEF SampleOk
  <2> QED
    BY <1>1, <1>5, <2>1, <2>2
<1>6. ASSUME NEW i \in 1 .. n, (i - 1) % 2 = 0 PROVE v.samples[i].path # v.samples[i + 1].path
  <2>1. CASE i \in 1 .. n - 1
    <3>1. w.samples[i].path # w.samples[i + 1].path
      BY <1>4a, <1>6, <2>1 DEF SamplesOk
    <3>2. i \in 1 .. n /\ i + 1 \in 1 .. n
      BY <1>1, <2>1
    <3> QED
      BY <1>3, <3>1, <3>2
  <2>2. CASE i = n
    <3>1. (n \div 2) * 2 + 1 = n
      BY <1>1, <1>6, <2>2, Halving
    <3>2. Sampled(w) = {w.samples[j].path : j \in (n \div 2) * 2 + 1 .. n}
      BY <1>4a, TwoPaths DEF Sampled, Repetition
    <3>3. w.samples[n].path \in Sampled(w)
      BY <1>1, <3>1, <3>2
    <3>4. s.path # w.samples[n].path
      BY <3>3 DEF Unsampled
    <3> QED
      BY <1>1, <1>3, <1>6, <2>2, <3>4
  <2> QED
    BY <1>1, <1>6, <2>1, <2>2
<1>7. n + 1 <= 2 * (Warmups + Samples)
  BY <1>1, <1>4a, RepetitionsAssumption
<1> QED
  BY <1>1, <1>3, <1>5, <1>6, <1>7 DEF SamplesOk, v

LEMMA SamplesAlike ==
    ASSUME NEW w, NEW v, SamplesOk(w),
           v.samples = w.samples, v.start = w.start, v.hashed = w.hashed
    PROVE  SamplesOk(v)
  BY DEF SamplesOk, SampleOk, Hashed

LEMMA PreparedIsOk ==
    ASSUME TypeOK, NEW p \in Procs, PrepareBenchmark(p), UnderWay(p)'
    PROVE  BenchmarkOk(p)'
<1> DEFINE w == [hashed |-> solution, start |-> edits, validated |-> <<>>, samples |-> <<>>]
<1>1. /\ work'[p] = w /\ at'[p] = "validate"
      /\ UNCHANGED <<solution, edits, token>>
  BY DEF PrepareBenchmark, TypeOK, Returns, Goes, UnderWay
<1>2. w \in BenchmarkWork
  BY DEF TypeOK, BenchmarkWork
<1>3. w.hashed = solution /\ w.start = edits /\ w.validated = <<>> /\ w.samples = <<>>
  OBVIOUS
<1> HIDE DEF w
<1>4. SamplesOk(w) /\ NoneCanceled(w)
  BY <1>3, RepetitionsAssumption DEF SamplesOk, NoneCanceled
<1>5. HashedFirst(w) /\ edits \in Nat
  BY <1>3 DEF HashedFirst, TypeOK
<1> QED
  BY <1>1, <1>2, <1>3, <1>4, <1>5 DEF BenchmarkOk, HashedFirst

LEMMA ValidatedIsOk ==
    ASSUME TypeOK, NEW p \in Procs, ValidateOutput(p), UnderWay(p)', UnderWay(p),
           command[p] = "benchmark", BenchmarkOk(p)
    PROVE  BenchmarkOk(p)'
<1> DEFINE w == work[p]
           path == Paths[Len(w.validated) + 1]
<1>1. /\ w \in BenchmarkWork /\ HashedFirst(w) /\ SamplesOk(w)
      /\ Len(w.validated) > 0 => (w.start = edits => Expected(w.hashed))
      /\ Len(w.validated) < 2 /\ w.samples = <<>>
  BY DEF BenchmarkOk, ValidateOutput
<1>2. PICK c \in Interrupts(p) :
        /\ Validated(Status(c.during, ContentOf(path), Whole))
        /\ work' = [work EXCEPT ![p] = WithValidated(w, ContentOf(path))]
        /\ at' = at \/ at' = [at EXCEPT ![p] = "measure"]
        /\ Len(WithValidated(w, ContentOf(path)).validated) < Len(Paths) \/ at'[p] = "measure"
  BY DEF ValidateOutput, Returns, Goes, UnderWay, TypeOK
<1>3. UNCHANGED <<solution, edits>> /\ at[p] = "validate" /\ command' = command
  BY DEF ValidateOutput
<1> DEFINE v == WithValidated(w, ContentOf(path))
<1>4. /\ v \in BenchmarkWork /\ v.hashed = w.hashed /\ v.start = w.start
      /\ v.samples = w.samples /\ v.validated = Append(w.validated, ContentOf(path))
  BY <1>1, ContentType, WithValidatedFields
<1>5. Outcome[ContentOf(path)][Whole] = Outcome[Naive][Whole]
  <2>1. Outcome[Naive][Whole] # "canceled"
    BY ContentAssumption, InputAssumption, OutcomeAssumption DEF Outputs, Failures
  <2> QED
    BY <1>2, <2>1, StatusIsEither DEF Validated
<1>6. w.start = edits => Expected(w.hashed)
  <2>1. CASE Len(w.validated) = 0
    <3>1. path = "solution"
      BY <2>1, TwoPaths
    <3> QED
      BY <1>1, <1>5, <3>1 DEF ContentOf, HashedFirst, Expected
  <2>2. CASE Len(w.validated) # 0
    BY <1>1, <2>2 DEF BenchmarkWork
  <2> QED
    BY <2>1, <2>2
<1>7. work'[p] = v /\ at'[p] \in {"validate", "measure"}
  BY <1>2, <1>3 DEF TypeOK
<1>8. at'[p] = "validate" => Len(v.validated) < 2
  BY <1>2, <1>3, <1>7, TwoPaths
<1> HIDE DEF v, path
<1>9. SamplesOk(v) /\ NoneCanceled(v)
  BY <1>1, <1>4, SamplesAlike DEF NoneCanceled
<1> HIDE DEF w
<1> QED
  BY <1>1, <1>3, <1>4, <1>6, <1>7, <1>8, <1>9 DEF BenchmarkOk, HashedFirst

LEMMA SampledIsOk ==
    ASSUME TypeOK, NEW p \in Procs, TakeSample(p), UnderWay(p), command[p] = "benchmark",
           BenchmarkOk(p)
    PROVE  BenchmarkOk(p)'
<1> DEFINE w == work[p]
<1>1. /\ w \in BenchmarkWork /\ HashedFirst(w) /\ SamplesOk(w)
      /\ w.start = edits => Expected(w.hashed)
      /\ ~token[p] => NoneCanceled(w)
  BY DEF BenchmarkOk, TakeSample
<1>2. PICK c \in Interrupts(p), path \in Unsampled(w) :
        /\ token' = [token EXCEPT ![p] = c.after]
        /\ work' = [work EXCEPT ![p] = WithSample(w,
             SampleOf(path, Repetition(w), Exit(Status(c.during, ContentOf(path), Whole)),
                      ContentOf(path), edits))]
  BY DEF TakeSample
<1>3. /\ UNCHANGED <<solution, edits, at, command>> /\ at[p] = "measure"
      /\ Repetition(w) \in Ordinals
  BY DEF TakeSample
<1> DEFINE status == Exit(Status(c.during, ContentOf(path), Whole))
           s == SampleOf(path, Repetition(w), status, ContentOf(path), edits)
           v == WithSample(w, s)
<1>4. Len(w.samples) \in Nat /\ Repetition(w) = Len(w.samples) \div 2
  BY <1>1, TwoPaths DEF Repetition, BenchmarkWork
<1>5. Len(w.samples) < 2 * (Warmups + Samples)
  BY <1>3, <1>4, Bounding
<1>6. ContentOf(path) \in Contents /\ path \in {"solution", "alternative"}
  BY ContentType DEF Unsampled
<1>7. status \in Statuses \cup {"passed"}
  <2>1. Outcome[ContentOf(path)][Whole] \in Statuses
    BY <1>6, InputAssumption, OutcomeAssumption DEF Statuses
  <2> QED
    BY <2>1 DEF Exit, Status, Statuses
<1>8. status = "canceled" => c.during
  <2>1. Outcome[ContentOf(path)][Whole] # "canceled"
    BY <1>6, InputAssumption, OutcomeAssumption DEF Outputs, Failures
  <2> QED
    BY <2>1 DEF Exit, Status, Outputs
<1> HIDE DEF status
<1>9. /\ s \in SampleRecords
      /\ s.path = path /\ s.ordinal = Repetition(w) /\ s.status = status
      /\ s.ran = ContentOf(path) /\ s.when = edits
  <2>1. Repetition(w) \in Nat /\ edits \in Nat
    BY <1>4, Bounding DEF TypeOK
  <2> QED
    BY <1>6, <1>7, <2>1, SampleFields
<1> HIDE DEF s
<1>10. s.when = w.start => Expected(s.ran) /\ s.ran = Hashed(w, s.path)
  BY <1>1, <1>9 DEF HashedFirst, Hashed, ContentOf, Expected
<1>11. /\ v \in BenchmarkWork /\ v.hashed = w.hashed /\ v.start = w.start
       /\ v.samples = Append(w.samples, s) /\ SamplesOk(v)
  BY <1>1, <1>4, <1>5, <1>9, <1>10, WithSampleFields, SampleAdded
<1>12. work'[p] = v
  BY <1>2 DEF TypeOK, s, status
<1>13. ASSUME ~token'[p] PROVE NoneCanceled(v)
  <2>1. ~c.after /\ ~c.during /\ ~token[p]
    BY <1>2, <1>13 DEF Interrupts, TypeOK
  <2>2. s.status # "canceled"
    BY <1>8, <1>9, <2>1
  <2>3. w.samples \in Seq(SampleRecords) /\ NoneCanceled(w)
    BY <1>1, <2>1 DEF BenchmarkWork
  <2> QED
    BY <1>11, <2>2, <2>3 DEF NoneCanceled
<1> HIDE DEF v, w
<1> QED
  BY <1>1, <1>3, <1>11, <1>12, <1>13 DEF BenchmarkOk, HashedFirst

LEMMA MeasuredIsOk ==
    ASSUME TypeOK, NEW p \in Procs, EndMeasurement(p), UnderWay(p)', UnderWay(p),
           command[p] = "benchmark", BenchmarkOk(p)
    PROVE  BenchmarkOk(p)'
<1> DEFINE w == work[p]
<1>1. /\ w \in BenchmarkWork /\ HashedFirst(w) /\ SamplesOk(w)
      /\ w.start = edits => Expected(w.hashed)
      /\ ~token[p] => NoneCanceled(w)
  BY DEF BenchmarkOk, EndMeasurement
<1>2. /\ UNCHANGED <<solution, edits, command, token, work>>
      /\ at'[p] = "persist" /\ ~token[p] /\ Repetition(w) \notin Ordinals
  BY DEF EndMeasurement, Canceled, Returns, Goes, UnderWay, TypeOK
<1>3. Len(w.samples) = 2 * (Warmups + Samples)
  <2>1. Len(w.samples) \in Nat /\ Repetition(w) = Len(w.samples) \div 2
    BY <1>1, TwoPaths DEF Repetition, BenchmarkWork
  <2>2. Len(w.samples) <= 2 * (Warmups + Samples)
    BY <1>1 DEF SamplesOk
  <2>3. Len(w.samples) >= 2 * (Warmups + Samples)
    BY <1>2, <2>1, Bounding
  <2> HIDE DEF w
  <2> QED
    BY <2>1, <2>2, <2>3, RepetitionsAssumption
<1> HIDE DEF w
<1>4. work'[p] = w /\ work[p] = w
  BY <1>2 DEF w
<1> QED
  BY <1>1, <1>2, <1>3, <1>4 DEF BenchmarkOk, HashedFirst

LEMMA BenchmarkStays ==
    ASSUME TypeOK, StagePart, DirectoryPart, NEW q \in Procs, BenchmarkOk(q), [Next]_vars, Same(q)
    PROVE  BenchmarkOk(q)'
<1> SUFFICES ASSUME UnderWay(q), command[q] = "benchmark" PROVE BenchmarkOk(q)'
  BY DEF BenchmarkOk, Same, UnderWay
<1> DEFINE w == work[q]
<1>1. w.start \in Nat /\ HashedFirst(w)
  BY DEF BenchmarkOk, BenchmarkWork
<1>2. w.start <= edits' /\ (w.start = edits' => w.hashed = solution' /\ edits = edits')
  BY <1>1, SavesAreCounted DEF TypeOK, HashedFirst
<1> QED
  BY <1>2 DEF BenchmarkOk, Same, HashedFirst

\* What is measured completely has a sample of each implementation in each repetition.
LEMMA EveryRepetition ==
    ASSUME NEW w \in BenchmarkWork, SamplesOk(w),
           Len(w.samples) = 2 * (Warmups + Samples), NEW o \in Ordinals, NEW k \in {1, 2}
    PROVE  \E i \in 1 .. Len(w.samples) :
             w.samples[i].ordinal = o /\ w.samples[i].path = Paths[k]
<1> DEFINE n == Len(w.samples)
           first == 2 * o + 1
           second == 2 * o + 2
<1>1. /\ n \in Nat /\ o \in Nat
      /\ first \in 1 .. n - 1 /\ first \in 1 .. n /\ second \in 1 .. n
  BY RepetitionsAssumption DEF Ordinals
<1>2. /\ (first - 1) \div 2 = o /\ (second - 1) \div 2 = o /\ (first - 1) % 2 = 0
      /\ second = first + 1
  BY <1>1
<1> HIDE DEF first, second
<1>3. w.samples[first].ordinal = o /\ w.samples[second].ordinal = o
  <2>1. SampleOk(w, first) /\ SampleOk(w, second)
    BY <1>1 DEF SamplesOk
  <2> QED
    BY <1>2, <2>1 DEF SampleOk
<1>4. w.samples[first].path # w.samples[second].path
  BY <1>1, <1>2 DEF SamplesOk
<1>5. /\ w.samples[first].path \in {"solution", "alternative"}
      /\ w.samples[second].path \in {"solution", "alternative"}
  <2>1. w.samples \in Seq(SampleRecords)
    BY DEF BenchmarkWork
  <2>2. w.samples[first] \in SampleRecords /\ w.samples[second] \in SampleRecords
    BY <1>1, <2>1
  <2> QED
    BY <2>2 DEF SampleRecords
<1>6. Paths[k] \in {"solution", "alternative"}
  BY TwoPaths
<1> QED
  BY <1>1, <1>3, <1>4, <1>5, <1>6

LEMMA RowIsSound ==
    ASSUME NEW p \in Procs, PersistBenchmark(p), BenchmarkOk(p),
           NEW b, b = BenchmarkRow(p, work[p])
    PROVE  SoundRow(b) /\ AttributedRow(b)
<1> DEFINE w == work[p]
<1>1. /\ w \in BenchmarkWork /\ SamplesOk(w) /\ NoneCanceled(w)
      /\ Len(w.samples) = 2 * (Warmups + Samples)
  BY DEF PersistBenchmark, BenchmarkOk, UnderWay
<1>2. /\ b.samples = w.samples /\ b.start = w.start
      /\ b.recorded = [k \in DOMAIN Paths |-> Hashed(w, Paths[k])]
  BY DEF BenchmarkRow
<1>3. w.samples \in Seq(SampleRecords) /\ DOMAIN w.samples = 1 .. Len(w.samples)
  BY <1>1 DEF BenchmarkWork
<1> HIDE DEF w
<1>4. ASSUME NEW o \in Ordinals, NEW k \in DOMAIN Paths
      PROVE  \E i \in DOMAIN w.samples : w.samples[i].ordinal = o /\ w.samples[i].path = Paths[k]
  BY <1>1, <1>3, EveryRepetition, TwoPaths
<1>5. ASSUME NEW i \in DOMAIN w.samples
      PROVE  /\ w.samples[i].status # "canceled"
             /\ w.samples[i].when = w.start =>
                     /\ Outcome[w.samples[i].ran][Whole] = Outcome[Naive][Whole]
                     /\ \E k \in DOMAIN Paths : Paths[k] = w.samples[i].path
                                                /\ Hashed(w, Paths[k]) = w.samples[i].ran
  <2>1. w.samples[i].status # "canceled" /\ SampleOk(w, i)
    BY <1>1, <1>3 DEF NoneCanceled, SamplesOk
  <2>2. w.samples[i].path \in {"solution", "alternative"}
    <3>1. w.samples[i] \in SampleRecords
      BY <1>3
    <3> QED
      BY <3>1 DEF SampleRecords
  <2>3. \E k \in DOMAIN Paths : Paths[k] = w.samples[i].path
    BY <2>2, TwoPaths
  <2> QED
    BY <2>1, <2>3 DEF SampleOk, Expected
<1>6. SoundRow(b)
  BY <1>1, <1>2, <1>4, <1>5, TwoPaths DEF SoundRow
<1>7. AttributedRow(b)
  BY <1>2, <1>5 DEF AttributedRow
<1> QED
  BY <1>6, <1>7

LEMMA BenchmarkPartStep ==
    TypeOK /\ StagePart /\ DirectoryPart /\ BenchmarkPart /\ [Next]_vars => BenchmarkPart'
<1> SUFFICES ASSUME TypeOK, StagePart, DirectoryPart, BenchmarkPart, [Next]_vars
             PROVE  BenchmarkPart'
  OBVIOUS
<1>1. BenchmarkIsSound'
  <2>1. CASE UNCHANGED benchmarkRows
    BY <2>1 DEF BenchmarkPart, BenchmarkIsSound
  <2>2. ASSUME NEW p \in Procs, PersistBenchmark(p) PROVE BenchmarkIsSound'
    <3>1. benchmarkRows' = benchmarkRows \cup {BenchmarkRow(p, work[p])}
      BY <2>2 DEF PersistBenchmark
    <3>2. SoundRow(BenchmarkRow(p, work[p]))
      BY <2>2, RowIsSound DEF BenchmarkPart
    <3> QED
      BY <3>1, <3>2 DEF BenchmarkPart, BenchmarkIsSound
  <2> QED
    BY <2>1, <2>2, RowsChange
<1>2. ASSUME NEW q \in Procs PROVE BenchmarkOk(q)'
  <2>0. BenchmarkOk(q)
    BY DEF BenchmarkPart
  <2>1. ASSUME ProcessStep(q) \/ Cancel(q) \/ Kill(q) PROVE BenchmarkOk(q)'
    <3> SUFFICES ASSUME UnderWay(q)', command'[q] = "benchmark" PROVE BenchmarkOk(q)'
      BY DEF BenchmarkOk
    <3>1. CASE PrepareBenchmark(q)
      BY <3>1, PreparedIsOk
    <3>2. CASE ValidateOutput(q)
      <4>1. UnderWay(q) /\ command[q] = "benchmark"
        BY <3>2 DEF ValidateOutput, UnderWay
      <4> QED
        BY <2>0, <3>2, <4>1, ValidatedIsOk
    <3>3. CASE TakeSample(q)
      <4>1. UnderWay(q) /\ command[q] = "benchmark"
        BY <3>3 DEF TakeSample, UnderWay
      <4> QED
        BY <2>0, <3>3, <4>1, SampledIsOk
    <3>4. CASE EndMeasurement(q)
      <4>1. UnderWay(q) /\ command[q] = "benchmark"
        BY <3>4 DEF EndMeasurement, UnderWay
      <4> QED
        BY <2>0, <3>4, <4>1, MeasuredIsOk
    <3>5. CASE Cancel(q)
      <4>1. UNCHANGED <<solution, edits, at, command, work>> /\ UnderWay(q) /\ token'[q] = TRUE
        BY <3>5 DEF Cancel, UnderWay, TypeOK
      <4> QED
        BY <2>0, <4>1 DEF BenchmarkOk, HashedFirst
    <3> QED
      BY <2>1, <3>1, <3>2, <3>3, <3>4, <3>5, BenchmarkSteps
  <2>2. CASE Same(q)
    BY <2>0, <2>2, BenchmarkStays
  <2>3. CASE UNCHANGED vars
    BY <2>2, <2>3 DEF Same
  <2> QED
    BY <2>1, <2>2, <2>3, OthersStay, UserStays DEF Next, User, ProcessStep
<1> QED
  BY <1>1, <1>2 DEF BenchmarkPart

-----------------------------------------------------------------------------
(* Attribution.                                                            *)

LEMMA CaseRowsAreAttributed ==
    ASSUME NEW p, NEW w, RanLast(w), NEW e \in CaseRows(p, w.ran, w.when), ~e.edited
    PROVE  e.ran = e.recorded
<1>1. CASE e = ExecutionRow(p, "naive", Naive, Naive, w.when)
  BY <1>1 DEF ExecutionRow
<1>2. CASE e = ExecutionRow(p, "solution", w.ran, solution, w.when)
  <2>1. e.edited = (w.when # edits) /\ e.ran = w.ran /\ e.recorded = solution
    BY <1>2 DEF ExecutionRow
  <2>2. w.when = edits
    BY <2>1
  <2> QED
    BY <2>1, <2>2 DEF RanLast
<1> QED
  BY <1>1, <1>2 DEF CaseRows

LEMMA AttributedStep ==
    /\ TypeOK /\ StagePart /\ StressPart /\ ReplayPart /\ BenchmarkPart
    /\ ExecutionsAreAttributed /\ [Next]_vars
    => ExecutionsAreAttributed'
<1> SUFFICES ASSUME TypeOK, StagePart, StressPart, ReplayPart, BenchmarkPart,
                    ExecutionsAreAttributed, [Next]_vars
             PROVE  ExecutionsAreAttributed'
  OBVIOUS
<1>1. ASSUME NEW e \in executions', ~e.edited PROVE e.ran = e.recorded
  <2>1. CASE e \in executions
    BY <1>1, <2>1 DEF ExecutionsAreAttributed
  <2>2. CASE e \notin executions
    <3>1. PICK p \in Procs : PersistFinding(p) \/ PersistReplay(p)
      BY <1>1, <2>2, RowsChange
    <3>2. executions' \subseteq executions \cup CaseRows(p, work[p].ran, work[p].when)
      BY <3>1 DEF PersistFinding, PersistReplay
    <3>3. RanLast(work[p])
      BY <3>1 DEF PersistFinding, PersistReplay, StressPart, StressOk, ReplayPart, ReplayOk, UnderWay
    <3> QED
      BY <1>1, <2>2, <3>2, <3>3, CaseRowsAreAttributed
  <2> QED
    BY <2>1, <2>2
<1>2. ASSUME NEW b \in benchmarkRows' PROVE AttributedRow(b)
  <2>1. CASE b \in benchmarkRows
    BY <2>1 DEF ExecutionsAreAttributed
  <2>2. CASE b \notin benchmarkRows
    <3>1. PICK p \in Procs : PersistBenchmark(p)
      BY <1>2, <2>2, RowsChange
    <3>2. b = BenchmarkRow(p, work[p])
      BY <1>2, <2>2, <3>1 DEF PersistBenchmark
    <3> QED
      BY <3>1, <3>2, RowIsSound DEF BenchmarkPart
  <2> QED
    BY <2>1, <2>2
<1> QED
  BY <1>1, <1>2 DEF ExecutionsAreAttributed

-----------------------------------------------------------------------------
(* What stress-test leaves on the disk.                                    *)

\* The stages of a stress-test that may have made its artifact.
Late == {"document", "rename", "persist", "returned", "done", "dead"}

LEMMA LastStressSteps ==
    ASSUME TypeOK, StagePart, NEW p \in Procs, ProcessStep(p) \/ Cancel(p) \/ Kill(p),
           command[p] = "stress", at[p] \in Late
    PROVE  \/ WriteDocument(p) \/ RenameArtifact(p) \/ ArtifactFails(p)
           \/ PersistFinding(p) \/ PersistFindingFails(p)
           \/ Render(p) \/ Cancel(p) \/ Kill(p)
<1> USE DEF TypeOK, StagePart, UnderWay, Begins, Late
<1>1. ~InitStep(p)
  BY DEF InitStep, MakeDirectory, WriteScaffold, RegisterProblem
<1>2. ~FindFailure(p) /\ ~Shrink(p) /\ ~ShrinkTimesOut(p) /\ ~MakeTemporary(p)
  BY DEF FindFailure, Shrink, ShrinkTimesOut, MakeTemporary
<1>3. ~ReplayStep(p)
  BY DEF ReplayStep, LookUpArtifact, RunAgain, PersistReplay, PersistReplayFails
<1>4. ~BenchmarkStep(p)
  BY DEF BenchmarkStep, PrepareBenchmark, ValidateOutput, TakeSample, EndMeasurement,
       PersistBenchmark, PersistBenchmarkFails
<1>5. ~Throws(p)
  BY DEF Throws
<1> QED
  BY <1>1, <1>2, <1>3, <1>4, <1>5 DEF ProcessStep, StressStep

\* Only these steps change which artifacts there are, or which of them has a row.
DiskSteps(p) == MakeTemporary(p) \/ RenameArtifact(p) \/ ArtifactFails(p) \/ PersistFinding(p)

LEMMA OthersLeaveTheDisk ==
    ASSUME NEW p \in Procs, ProcessStep(p) \/ Cancel(p) \/ Kill(p), ~DiskSteps(p)
    PROVE  UNCHANGED <<files, temporaries, artifactRows>>
<1>1. CASE InitStep(p)
  BY <1>1 DEF InitStep, MakeDirectory, WriteScaffold, RegisterProblem, InitFails
<1>2. CASE StressStep(p)
  BY <1>2 DEF StressStep, DiskSteps, FindFailure, Shrink, ShrinkTimesOut, WriteDocument,
       PersistFindingFails
<1>3. CASE ReplayStep(p)
  BY <1>3 DEF ReplayStep, LookUpArtifact, RunAgain, PersistReplay, PersistReplayFails
<1>4. CASE BenchmarkStep(p)
  BY <1>4 DEF BenchmarkStep, PrepareBenchmark, ValidateOutput, TakeSample, EndMeasurement,
       PersistBenchmark, PersistBenchmarkFails
<1>5. CASE Throws(p) \/ Render(p) \/ Cancel(p) \/ Kill(p)
  BY <1>5 DEF Throws, Render, Cancel, Kill
<1> QED
  BY <1>1, <1>2, <1>3, <1>4, <1>5 DEF ProcessStep

Making(p) == at[p] \in {"document", "rename"}

\* How a process goes on that leaves the artifacts alone.
GoesOn(p) ==
    /\ command'[p] = command[p]
    /\ at'[p] \in Late
    /\ UnderWay(p)' => UnderWay(p) /\ work'[p] = work[p]
    /\ Making(p) \/ Disowned(p) => Making(p)' \/ Disowned(p)'
    /\ at[p] = "persist" \/ Disowned(p) => at'[p] = "persist" \/ Disowned(p)'
    /\ ~Making(p) => ~Making(p)'
    /\ at[p] \in {"returned", "done"} /\ answer[p].saved =>
          at'[p] \in {"returned", "done", "dead"}

LEMMA LateGoesOn ==
    ASSUME TypeOK, NEW p \in Procs, at[p] \in Late,
           \/ Same(p) \/ WriteDocument(p) \/ PersistFindingFails(p)
           \/ Render(p) \/ Cancel(p) \/ Kill(p)
    PROVE  GoesOn(p)
<1> USE DEF GoesOn, Late, UnderWay, Making, Disowned, Returned
<1>1. CASE Same(p)
  BY <1>1 DEF Same
<1>2. CASE WriteDocument(p)
  BY <1>2 DEF WriteDocument, Goes, TypeOK
<1>3. CASE PersistFindingFails(p)
  <2>1. Returns(p, "finding", FALSE) /\ at[p] = "persist" /\ UNCHANGED command
    BY <1>3 DEF PersistFindingFails, Finding
  <2>2. at'[p] = "returned" /\ answer'[p] = AnswerOf("finding", FALSE)
    BY ZenonT(30), <2>1, ReturnsItself
  <2>3. answer'[p].saved = FALSE
    BY <2>2, SavedIsSecond
  <2> QED
    BY <2>1, <2>2, <2>3
<1>4. CASE Render(p)
  <2>1. /\ at[p] = "returned" /\ at'[p] = "done" /\ UNCHANGED command
        /\ answer'[p].saved => answer[p].saved
    BY <1>4 DEF Render, Rendered, AnswerOf, TypeOK
  <2> QED
    BY <2>1
<1>5. CASE Cancel(p)
  BY <1>5 DEF Cancel
<1>6. CASE Kill(p)
  BY <1>6 DEF Kill, TypeOK
<1> QED
  BY <1>1, <1>2, <1>3, <1>4, <1>5, <1>6

\* A step that leaves the artifacts alone, as those that made them go on.
LEMMA DiskStays ==
    ASSUME DiskPart, UNCHANGED <<files, temporaries, artifactRows>>,
           \A a \in Artifacts : GoesOn(a.run)
    PROVE  DiskPart'
<1>1. Artifacts' = Artifacts
  BY DEF Artifacts
<1>2. ASSUME NEW a \in Artifacts
      PROVE  /\ a.run \in Procs /\ command'[a.run] = "stress" /\ at'[a.run] \in Late
             /\ UnderWay(a.run)' => a = ArtifactOf(work[a.run])'
  BY <1>2 DEF DiskPart, GoesOn, ArtifactOf
<1>3. \A t \in temporaries : Making(t.run)' \/ Disowned(t.run)'
  BY DEF DiskPart, Artifacts, GoesOn, Making
<1>4. \A f \in files : ~Making(f.run)'
  BY DEF DiskPart, Artifacts, GoesOn, Making
<1>5. \A f \in files \ artifactRows : at'[f.run] = "persist" \/ Disowned(f.run)'
  BY DEF DiskPart, Artifacts, GoesOn
<1>6. /\ \A a, b \in Artifacts : a.run = b.run => a = b
      /\ files \cap temporaries = {} /\ temporaries \cap artifactRows = {}
  BY DEF DiskPart
<1> QED
  BY <1>1, <1>2, <1>3, <1>4, <1>5, <1>6 DEF DiskPart, Late, Making

\* What a run has that is about to make its artifact, or is making it.
LEMMA OwnArtifacts ==
    ASSUME DiskPart, NEW p \in Procs, command[p] = "stress"
    PROVE  /\ at[p] = "write" => \A a \in Artifacts : a.run # p
           /\ Making(p) => \A a \in Artifacts : a.run = p =>
                 a = ArtifactOf(work[p]) /\ a \in temporaries /\ a \notin files
           /\ at[p] = "persist" => \A a \in Artifacts : a.run = p =>
                 a = ArtifactOf(work[p]) /\ a \in files
  BY DEF DiskPart, Artifacts, UnderWay, Making, Disowned, Returned

\* Every step keeps it.
LEMMA DiskStep ==
    TypeOK /\ StagePart /\ StressPart /\ DurablePart /\ DiskPart /\ [Next]_vars => DiskPart'
<1> SUFFICES ASSUME TypeOK, StagePart, StressPart, DurablePart, DiskPart, [Next]_vars
             PROVE  DiskPart'
  OBVIOUS
<1>0. \A a \in Artifacts : a.run \in Procs /\ at[a.run] \in Late
  BY DEF DiskPart, Late
<1>1. ASSUME NEW p \in Procs, ProcessStep(p) \/ Cancel(p) \/ Kill(p) PROVE DiskPart'
  <2> DEFINE own == ArtifactOf(work[p])
  <2>0. \A a \in Artifacts : a.run # p => Same(a.run)
    BY <1>1, OthersStay DEF DiskPart
  <2>1. CASE ~DiskSteps(p)
    <3>1. UNCHANGED <<files, temporaries, artifactRows>>
      BY <1>1, <2>1, OthersLeaveTheDisk
    <3>2. ASSUME NEW a \in Artifacts, a.run = p
          PROVE  \/ WriteDocument(p) \/ PersistFindingFails(p)
                 \/ Render(p) \/ Cancel(p) \/ Kill(p)
      BY <1>0, <1>1, <2>1, <3>2, LastStressSteps DEF DiskPart, DiskSteps
    <3>3. \A a \in Artifacts : GoesOn(a.run)
      BY <1>0, <2>0, <3>2, LateGoesOn
    <3> QED
      BY <3>1, <3>3, DiskStays
  <2>2. CASE DiskSteps(p)
    <3>0. /\ command[p] = "stress" /\ own.run = p
          /\ at[p] \in {"write", "document", "rename", "persist"}
      BY <2>2 DEF DiskSteps, MakeTemporary, RenameArtifact, ArtifactFails, PersistFinding,
           StagePart, StressPart, StressOk, UnderWay, ArtifactOf
    <3>01. ASSUME NEW a \in Artifacts, a.run # p
           PROVE  /\ a.run \in Procs /\ command'[a.run] = "stress" /\ at'[a.run] \in Late
                  /\ at'[a.run] = at[a.run]
                  /\ Making(a.run)' <=> Making(a.run)
                  /\ Disowned(a.run)' <=> Disowned(a.run)
                  /\ UnderWay(a.run)' => a = ArtifactOf(work[a.run])'
      BY <1>0, <2>0, <3>01
      DEF DiskPart, Same, UnderWay, ArtifactOf, Making, Disowned, Returned
    <3>02. command'[p] = "stress"
      BY <2>2, <3>0 DEF DiskSteps, MakeTemporary, RenameArtifact, ArtifactFails, PersistFinding
    <3>03. \A a \in Artifacts \cap temporaries : Making(a.run) \/ Disowned(a.run)
      BY DEF DiskPart, Making
    <3>04. \A f \in files : f \in Artifacts /\ ~Making(f.run)
      BY DEF DiskPart, Making, Artifacts
    <3>05. \A f \in files \ artifactRows : at[f.run] = "persist" \/ Disowned(f.run)
      BY DEF DiskPart
    <3>06. /\ \A a, b \in Artifacts : a.run = b.run => a = b
           /\ files \cap temporaries = {} /\ temporaries \cap artifactRows = {}
      BY DEF DiskPart
    <3>07. \A t \in temporaries : t \in Artifacts
      BY DEF Artifacts
    <3>1. CASE MakeTemporary(p)
      <4>1. \A a \in Artifacts : a.run # p
        BY <3>0, <3>1, OwnArtifacts DEF MakeTemporary
      <4>2. /\ temporaries' = temporaries \cup {own} /\ files' = files
            /\ at'[p] = "document" /\ artifactRows' = artifactRows /\ work' = work
        BY <3>1 DEF MakeTemporary, Goes, TypeOK
      <4>3. own \notin artifactRows
        <5>1. ~Stored(p)
          BY <3>1 DEF DurablePart, MakeTemporary
        <5> QED
          BY <3>0, <5>1 DEF Stored
      <4>4. own = ArtifactOf(work[p])' /\ Making(p)'
        BY <4>2 DEF ArtifactOf, Making
      <4> HIDE DEF own
      <4>5. \A a \in Artifacts' : a = own \/ (a \in Artifacts /\ a.run # p)
        BY <4>1, <4>2 DEF Artifacts
      <4>6. ASSUME NEW a \in Artifacts'
            PROVE  /\ a.run \in Procs /\ command'[a.run] = "stress" /\ at'[a.run] \in Late
                   /\ UnderWay(a.run)' => a = ArtifactOf(work[a.run])'
        BY <3>0, <3>01, <3>02, <4>2, <4>4, <4>5 DEF Late
      <4>7. \A t \in temporaries' : Making(t.run)' \/ Disowned(t.run)'
        BY <3>0, <3>01, <3>03, <3>07, <4>1, <4>2, <4>4
      <4>8. /\ \A f \in files' : ~Making(f.run)'
            /\ \A f \in files' \ artifactRows' : at'[f.run] = "persist" \/ Disowned(f.run)'
        BY <3>01, <3>04, <3>05, <4>1, <4>2
      <4>9. /\ \A a, b \in Artifacts' : a.run = b.run => a = b
            /\ files' \cap temporaries' = {} /\ temporaries' \cap artifactRows' = {}
        BY <3>0, <3>04, <3>06, <4>1, <4>2, <4>3, <4>5
      <4> QED
        BY <4>6, <4>7, <4>8, <4>9 DEF DiskPart, Late, Making
    <3>2. CASE RenameArtifact(p)
      <4>1. \A a \in Artifacts : a.run = p => a = own /\ a \in temporaries /\ a \notin files
        BY <3>0, <3>2, OwnArtifacts DEF RenameArtifact, Making
      <4>2. /\ temporaries' = temporaries \ {own} /\ files' = files \cup {own}
            /\ at'[p] = "persist" /\ artifactRows' = artifactRows /\ work' = work
        BY <3>2 DEF RenameArtifact, Goes, TypeOK
      <4>3. own = ArtifactOf(work[p])' /\ ~Making(p)'
        BY <4>2 DEF ArtifactOf, Making
      <4> HIDE DEF own
      <4>4. \A a \in Artifacts' : a = own \/ (a \in Artifacts /\ a.run # p)
        BY <4>1, <4>2 DEF Artifacts
      <4>5. \A t \in temporaries' : t \in temporaries /\ t \in Artifacts /\ t.run # p
        BY <4>1, <4>2 DEF Artifacts
      <4>6. ASSUME NEW a \in Artifacts'
            PROVE  /\ a.run \in Procs /\ command'[a.run] = "stress" /\ at'[a.run] \in Late
                   /\ UnderWay(a.run)' => a = ArtifactOf(work[a.run])'
        BY <3>0, <3>01, <3>02, <4>2, <4>3, <4>4 DEF Late
      <4>7. \A t \in temporaries' : Making(t.run)' \/ Disowned(t.run)'
        BY <3>01, <3>03, <4>5
      <4>8. /\ \A f \in files' : ~Making(f.run)'
            /\ \A f \in files' \ artifactRows' : at'[f.run] = "persist" \/ Disowned(f.run)'
        <5>1. ASSUME NEW f \in files', f # own PROVE f \in files /\ f \in Artifacts /\ f.run # p
          BY <3>04, <4>1, <4>2, <5>1
        <5> QED
          BY <3>0, <3>01, <3>04, <3>05, <4>2, <4>3, <5>1
      <4>9. /\ \A a, b \in Artifacts' : a.run = b.run => a = b
            /\ files' \cap temporaries' = {} /\ temporaries' \cap artifactRows' = {}
        BY <3>0, <3>06, <4>2, <4>4
      <4> QED
        BY <4>6, <4>7, <4>8, <4>9 DEF DiskPart, Late, Making
    <3>3. CASE ArtifactFails(p)
      <4>1. \A a \in Artifacts : a.run = p => a = own /\ a \in temporaries /\ a \notin files
        BY <3>0, <3>3, OwnArtifacts DEF ArtifactFails, Making
      <4>2. /\ temporaries' \subseteq temporaries /\ files' = files
            /\ artifactRows' = artifactRows
        BY <3>3 DEF ArtifactFails
      <4>3. at'[p] = "returned" /\ answer'[p].saved = FALSE
        <5>1. Returns(p, "finding", FALSE)
          BY <3>3 DEF ArtifactFails, Finding
        <5>2. at'[p] = "returned" /\ answer'[p] = AnswerOf("finding", FALSE)
          BY ZenonT(30), <5>1, ReturnsItself
        <5> QED
          BY <5>2, SavedIsSecond
      <4>4. Disowned(p)' /\ ~Making(p)' /\ ~UnderWay(p)'
        BY <4>3 DEF Disowned, Returned, Making, UnderWay
      <4> HIDE DEF own
      <4>5. \A a \in Artifacts' : a \in Artifacts
        BY <4>2 DEF Artifacts
      <4>6. ASSUME NEW a \in Artifacts'
            PROVE  /\ a.run \in Procs /\ command'[a.run] = "stress" /\ at'[a.run] \in Late
                   /\ UnderWay(a.run)' => a = ArtifactOf(work[a.run])'
        BY <3>01, <3>02, <4>3, <4>4, <4>5 DEF Late
      <4>7. \A t \in temporaries' : Making(t.run)' \/ Disowned(t.run)'
        BY <3>01, <3>03, <3>07, <4>2, <4>4
      <4>8. /\ \A f \in files' : ~Making(f.run)'
            /\ \A f \in files' \ artifactRows' : at'[f.run] = "persist" \/ Disowned(f.run)'
        BY <3>01, <3>04, <3>05, <4>1, <4>2
      <4>9. /\ \A a, b \in Artifacts' : a.run = b.run => a = b
            /\ files' \cap temporaries' = {} /\ temporaries' \cap artifactRows' = {}
        BY <3>06, <4>2, <4>5
      <4> QED
        BY <4>6, <4>7, <4>8, <4>9 DEF DiskPart, Late, Making
    <3>4. CASE PersistFinding(p)
      <4>1. \A a \in Artifacts : a.run = p => a = own /\ a \in files
        BY <3>0, <3>4, OwnArtifacts DEF PersistFinding
      <4>2. temporaries' = temporaries /\ files' = files /\ artifactRows' = artifactRows \cup {own}
        BY <3>4 DEF PersistFinding
      <4>3. at'[p] = "returned"
        BY <3>4 DEF PersistFinding, Finding, Returns, TypeOK
      <4>4. own \in files
        BY <3>0, <3>4 DEF PersistFinding, StressPart, StressOk, UnderWay
      <4>5. ~Making(p)' /\ ~UnderWay(p)'
        BY <4>3 DEF Making, UnderWay
      <4> HIDE DEF own
      <4>6. ASSUME NEW a \in Artifacts'
            PROVE  /\ a.run \in Procs /\ command'[a.run] = "stress" /\ at'[a.run] \in Late
                   /\ UnderWay(a.run)' => a = ArtifactOf(work[a.run])'
        BY <3>01, <3>0, <3>02, <4>2, <4>3, <4>5 DEF Artifacts, Late
      <4>7. \A t \in temporaries' : Making(t.run)' \/ Disowned(t.run)'
        BY <3>01, <3>03, <3>06, <3>07, <4>1, <4>2
      <4>8. /\ \A f \in files' : ~Making(f.run)'
            /\ \A f \in files' \ artifactRows' : at'[f.run] = "persist" \/ Disowned(f.run)'
        BY <3>01, <3>04, <3>05, <4>1, <4>2, <4>5
      <4>9. /\ \A a, b \in Artifacts' : a.run = b.run => a = b
            /\ files' \cap temporaries' = {} /\ temporaries' \cap artifactRows' = {}
        BY <3>06, <4>2, <4>4 DEF Artifacts
      <4> QED
        BY <4>6, <4>7, <4>8, <4>9 DEF DiskPart, Late, Making
    <3> QED
      BY <2>2, <3>1, <3>2, <3>3, <3>4 DEF DiskSteps
  <2> QED
    BY <2>1, <2>2
<1>2. CASE AddAssets \/ RemoveProblem \/ \E c \in Contents : Edit(c)
  <2>1. UNCHANGED <<files, temporaries, artifactRows>>
    BY <1>2 DEF AddAssets, RemoveProblem, Edit
  <2>2. \A a \in Artifacts : GoesOn(a.run)
    BY <1>0, <1>2, LateGoesOn, UserStays
  <2> QED
    BY <2>1, <2>2, DiskStays
<1>3. CASE \E a \in files : DeleteArtifact(a)
  <2>1. /\ files' \subseteq files
        /\ UNCHANGED <<temporaries, artifactRows, command, at, work, answer>>
    BY <1>3 DEF DeleteArtifact
  <2> QED
    BY <2>1 DEF DiskPart, Artifacts, UnderWay, ArtifactOf, Disowned, Returned
<1>4. CASE UNCHANGED vars
  <2>1. \A a \in Artifacts : GoesOn(a.run)
    BY <1>0, <1>4, LateGoesOn DEF Same
  <2> QED
    BY <1>4, <2>1, DiskStays
<1> QED
  BY <1>1, <1>2, <1>3, <1>4 DEF Next, User, ProcessStep

-----------------------------------------------------------------------------
(* The theorems.                                                           *)

LEMMA InitCommandsInv == Init => CommandsInv
<1> SUFFICES ASSUME Init PROVE CommandsInv
  OBVIOUS
<1>1. TypeOK
  BY TypeInit
<1>2. \A p \in Procs : at[p] = "idle" /\ command[p] = "none"
  BY DEF Init
<1>3. StagePart
  BY <1>2 DEF StagePart
<1>4. DirectoryPart
  BY <1>2, ProcAssumption DEF Init, DirectoryPart, UnderWay, Inited, Returned
<1>9. ExclusivePart
  BY <1>2 DEF ExclusivePart, Inited
<1>5. DurablePart
  BY <1>2 DEF Init, DurablePart, Stored
<1>6. StressPart
  BY <1>2 DEF Init, StressPart, StressOk, UnderWay
<1>7. ReplayPart
  BY <1>2 DEF Init, ReplayPart, ReplayOk, UnderWay
<1>8. BenchmarkPart /\ ExecutionsAreAttributed
  BY <1>2 DEF Init, BenchmarkPart, BenchmarkIsSound, BenchmarkOk, UnderWay, ExecutionsAreAttributed
<1> QED
  BY <1>1, <1>3, <1>4, <1>5, <1>6, <1>7, <1>8, <1>9 DEF CommandsInv

LEMMA NextCommandsInv == CommandsInv /\ [Next]_vars => CommandsInv'
  BY TypeStep, StageStep, DirectoryStep, ExclusiveStep, DurableStep, StressPartStep, ReplayPartStep,
     BenchmarkPartStep, AttributedStep
  DEF CommandsInv

\* The inductive invariant holds in every reachable state.
THEOREM CommandsInvariant == Spec => []CommandsInv
<1> QED
  BY InitCommandsInv, NextCommandsInv, PTL DEF Spec

\* Every variable keeps its type, whatever the commands, the user and the kills do.
THEOREM CommandsTypeCorrect == Spec => []TypeOK
<1>1. CommandsInv => TypeOK
  BY DEF CommandsInv
<1> QED
  BY <1>1, CommandsInvariant, PTL

\* What main answers is saved is in the store; rows that no answer speaks of are those
\* of a run that is not through, that was killed, or that a signal reached.
THEOREM AnswersMatchTheStore == Spec => []AnswersAreDurable
<1>1. CommandsInv => AnswersAreDurable
  BY DEF CommandsInv, DurablePart, AnswersAreDurable
<1> QED
  BY <1>1, CommandsInvariant, PTL

\* Every artifact still fails in the recorded way on its minimized input.
THEOREM ArtifactsStillFail == Spec => []MinimizedStillFails
<1>1. CommandsInv => MinimizedStillFails
  BY DEF CommandsInv, StressPart, MinimizedStillFails
<1> QED
  BY <1>1, CommandsInvariant, PTL

\* A replay's verdict says whether the recorded failure was seen again.
THEOREM ReplaysTellTheTruth == Spec => []ReplayTellsTheTruth
<1>1. CommandsInv => ReplayTellsTheTruth
  <2> SUFFICES ASSUME CommandsInv, NEW p \in Procs, Verdict(p),
                      Genuine(work[p].artifact.predicate)
               PROVE  IF answer[p].status = "passed"
                      THEN FailsOn(work[p].artifact, work[p].ran)
                      ELSE work[p].artifact.seen # {work[p].ran}
    BY DEF ReplayTellsTheTruth
  <2>1. answer[p].status = VerdictOf(work[p]) /\ Tells(work[p]) /\ ~work[p].canceled
    BY DEF CommandsInv, ReplayPart, Verdict, Returned
  <2>2. answer[p].status = "passed" <=> work[p].again = work[p].artifact.predicate
    BY <2>1 DEF VerdictOf
  <2> QED
    BY <2>1, <2>2, Zenon DEF Tells
<1> QED
  BY <1>1, CommandsInvariant, PTL

\* Rows name what was run, unless the file was saved in between.
THEOREM RowsAreAttributed == Spec => []ExecutionsAreAttributed
<1>1. CommandsInv => ExecutionsAreAttributed
  BY DEF CommandsInv
<1> QED
  BY <1>1, CommandsInvariant, PTL

\* A persisted benchmark is complete, was not canceled and measured validated sources.
THEOREM BenchmarksAreSound == Spec => []BenchmarkIsSound
<1>1. CommandsInv => BenchmarkIsSound
  BY DEF CommandsInv, BenchmarkPart
<1> QED
  BY <1>1, CommandsInvariant, PTL

\* A row of an artifact is written when its file is in place and complete.
THEOREM FilesPrecedeRows == Spec => RowsHaveFiles
<1>1. CommandsInv /\ CommandsInv' /\ [Next]_vars =>
        /\ artifactRows' \ artifactRows \subseteq files' \cap documents'
        /\ \A r \in replayRows' : r.artifact \in artifactRows'
  <2> SUFFICES ASSUME CommandsInv, CommandsInv', [Next]_vars,
                      NEW a \in artifactRows' \ artifactRows
               PROVE  a \in files' \cap documents'
    BY DEF CommandsInv, ReplayPart
  <2>1. PICK p \in Procs : PersistFinding(p)
    BY RowsChange
  <2>2. a = ArtifactOf(work[p]) /\ UNCHANGED <<files, documents>>
    BY <2>1 DEF PersistFinding
  <2>3. ArtifactOf(work[p]) \in files \cap documents
    BY <2>1 DEF PersistFinding, CommandsInv, StressPart, StressOk, UnderWay
  <2> QED
    BY <2>2, <2>3
<1> QED
  BY <1>1, CommandsInvariant, PTL DEF Spec, RowsHaveFiles

\* Only one init ever says that it registered the problem; what a failed one has made
\* stays only if it cannot be removed, and none removes what another has made.
THEOREM InitsAreAllOrNothing == Spec => InitIsAllOrNothing
<1>1. CommandsInv /\ CommandsInv' /\ [Next]_vars =>
       /\ \A p \in Procs : Inited(p)' /\ answer'[p].saved =>
            /\ problemRow' = "random"
            /\ \A q \in Procs \ {p} : ~(Inited(q)' /\ answer'[q].saved)
       /\ \A p \in Procs : Inited(p)' /\ ~answer'[p].saved /\ ~token'[p] =>
            maker' # p \/ work'[p] = NotRemoved
       /\ maker' \in Procs /\ problemRow' = "none" /\ Returned(maker)' =>
            work'[maker'] = NotRemoved
       /\ maker' # maker /\ maker' = "user" =>
            at' = at \/ (UnderWay(maker) /\ at'[maker] = "returned")
  <2> SUFFICES ASSUME CommandsInv, CommandsInv', [Next]_vars
               PROVE  <1>1!2
    OBVIOUS
  <2>1. DirectoryPart /\ DirectoryPart' /\ ExclusivePart' /\ TypeOK /\ StagePart
    BY DEF CommandsInv
  <2>2. ASSUME maker' # maker, maker' = "user"
        PROVE  at' = at \/ (UnderWay(maker) /\ at'[maker] = "returned")
    <3>1. ASSUME NEW p \in Procs, InitStep(p)
          PROVE  UnderWay(maker) /\ at'[maker] = "returned"
      BY <2>1, <2>2, <3>1, ProcAssumption
      DEF InitStep, MakeDirectory, WriteScaffold, RegisterProblem, InitFails, Removes, Returns,
          Begins, DirectoryPart, StagePart, UnderWay, TypeOK
    <3>2. ASSUME NEW p \in Procs,
                 \/ StressStep(p) \/ ReplayStep(p) \/ BenchmarkStep(p) \/ Throws(p)
                 \/ Cancel(p) \/ Kill(p)
          PROVE  FALSE
      BY <2>1, <2>2, <3>2, OthersAreGuests DEF Guest
    <3>3. CASE \/ AddAssets \/ RemoveProblem
               \/ \E c \in Contents : Edit(c)
               \/ \E a \in files : DeleteArtifact(a)
      BY <3>3 DEF AddAssets, RemoveProblem, Edit, DeleteArtifact
    <3>4. ASSUME NEW p \in Procs, Render(p) PROVE FALSE
      BY <2>2, <3>4 DEF Render
    <3> QED
      BY <2>2, <3>1, <3>2, <3>3, <3>4 DEF Next, User
  <2>3. \A p \in Procs : Inited(p)' /\ answer'[p].saved =>
            /\ problemRow' = "random"
            /\ \A q \in Procs \ {p} : ~(Inited(q)' /\ answer'[q].saved)
    BY <2>1 DEF DirectoryPart, ExclusivePart
  <2>4. \A p \in Procs : Inited(p)' /\ ~answer'[p].saved /\ ~token'[p] =>
            maker' # p \/ work'[p] = NotRemoved
    BY <2>1 DEF DirectoryPart
  <2>5. ASSUME maker' \in Procs, problemRow' = "none", Returned(maker)'
        PROVE  work'[maker'] = NotRemoved
    <3>1. Inited(maker)'
      BY <2>1, <2>5 DEF DirectoryPart, Inited
    <3> QED
      BY <2>1, <2>5, <3>1 DEF DirectoryPart
  <2> QED
    BY <2>2, <2>3, <2>4, <2>5
<1> QED
  BY <1>1, CommandsInvariant, PTL DEF Spec, InitIsAllOrNothing

\* Whatever fails, a removal included, and whoever is killed: what a stress-test leaves
\* on the disk without a row, nobody is told is saved, and no run leaves two.
THEOREM StressTestsDisownLeftovers == Spec => []LeftoversAreDisowned
<1>1. Init => DiskPart
  BY DEF Init, DiskPart, Artifacts
<1>2. CommandsInv /\ DiskPart /\ [Next]_vars => DiskPart'
  BY DiskStep DEF CommandsInv
<1>3. Spec => []DiskPart
  BY <1>1, <1>2, CommandsInvariant, PTL DEF Spec
<1>4. DiskPart => LeftoversAreDisowned
  BY DEF DiskPart, LeftoversAreDisowned, Artifacts
<1> QED
  BY <1>3, <1>4, PTL
=============================================================================
