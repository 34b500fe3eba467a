----------------------------- MODULE Workspace -----------------------------
(***************************************************************************)
(* What the commands of palestra share when several of them are run in one *)
(* project: the directory of a problem, the artifacts below                *)
(* .palestra/artifacts, and the rows of the store.                         *)
(*                                                                         *)
(* Each process runs one command; its actions are in InitProblem,          *)
(* StressFinding, Replay and Benchmark, and Commands composes them.  A     *)
(* transaction is one step here, because SqliteStore implements it so.     *)
(* The content of a file is one value, and stands for its SHA-256 too; a   *)
(* target is deterministic, so a content and an input fix what it does.    *)
(***************************************************************************)
EXTENDS Naturals, Sequences, FiniteSets

CONSTANTS
    Procs,      \* processes, each of which runs one command
    Contents,   \* what solution.py may hold
    Starter,    \* the solution.py that init writes
    Naive,      \* what naive.py holds
    Inputs,     \* inputs of a case
    Whole,      \* the input that the generator yields
    Halves,     \* Halves[i]: what shrinking an input tries, <<>> or two inputs
    Outcome,    \* Outcome[c][i]: what content c does on input i
    MaxEdits    \* how often the user saves solution.py

\* An execution passes with one of the outputs, or it fails, or it is canceled.
Outputs  == {"right", "wrong"}
Failures == {"crash"}
Statuses == Outputs \cup Failures \cup {"canceled"}

ASSUME ProcAssumption    == "user" \notin Procs
ASSUME ContentAssumption == {Starter, Naive} \subseteq Contents
ASSUME InputAssumption   == Whole \in Inputs /\ Halves \in [Inputs -> Seq(Inputs)]
ASSUME OutcomeAssumption == Outcome \in [Contents -> [Inputs -> Outputs \cup Failures]]
ASSUME EditsAssumption   == MaxEdits \in Nat

VARIABLES
    directory,        \* the problem's directory
    maker,            \* the process that made it by init, or "user"
    solution,         \* the content of its solution.py
    edits,            \* how often it was saved
    files,            \* artifacts at their final place
    temporaries,      \* artifacts that have a temporary directory
    documents,        \* those whose document is complete, wherever it is
    problemRow,       \* the id under which the slug is registered
    implementations,  \* registered implementation ids
    executions,       \* execution rows
    artifactRows, replayRows, benchmarkRows,
    command, at,      \* what each process runs and where it is
    token,            \* its cancellation token
    work,             \* what it has found out so far
    answer            \* what its command has returned, and then what main answers

project  == <<directory, maker, solution, edits>>
disk     == <<files, temporaries, documents>>
store    == <<problemRow, implementations, executions, artifactRows, replayRows,
              benchmarkRows>>
progress == <<command, at, token, work, answer>>
vars     == <<project, disk, store, progress>>

\* The directory is made, holds the starter files, or can be stress-tested.
DirectoryStates == {"none", "made", "scaffold", "ready"}

\* init registers a problem under a random id, the other commands under one that
\* is derived from the slug.
ProblemRows == {"none", "random", "derived"}

\* An implementation is named by its content, or by its path and its content.
ByContent(c)    == <<"any", c>>
ByPath(path, c) == <<path, c>>
Implementations == {ByContent(c) : c \in Contents}
                     \cup {ByPath(path, c) : path \in {"solution", "alternative"},
                                             c \in Contents}

CommandNames == {"none", "init", "stress", "replay", "benchmark"}
Stages   == {"idle", "scaffold", "register", "shrink", "write", "document", "rename",
             "persist", "rerun", "validate", "measure", "returned", "done", "dead"}

\* The command is at work, or has returned and its process is not through with it.
UnderWay(p) == at[p] \notin {"idle", "returned", "done", "dead"}
Returned(p) == at[p] \in {"returned", "done"}

\* A command returns a status and whether what it says was made durable.
AnswerOf(status, saved) == [status |-> status, saved |-> saved]

Returns(p, status, saved) ==
    /\ at' = [at EXCEPT ![p] = "returned"]
    /\ answer' = [answer EXCEPT ![p] = AnswerOf(status, saved)]

\* Mutant of Rendered: a signal that came too late for the command is forgotten.
RenderedAsReturned(p) == answer[p]

\* What a signal has left of it: bootstrap() drains, and answers with nothing but the
\* cancellation, whatever the command has returned and stored.
Rendered(p) == IF token[p] THEN AnswerOf("canceled", FALSE) ELSE answer[p]

Render(p) ==
    /\ at[p] = "returned"
    /\ at' = [at EXCEPT ![p] = "done"]
    /\ answer' = [answer EXCEPT ![p] = Rendered(p)]
    /\ UNCHANGED <<project, disk, store, command, token, work>>

Goes(p, stage) == at' = [at EXCEPT ![p] = stage] /\ UNCHANGED answer

Begins(p, name) ==
    /\ at[p] = "idle"
    /\ command' = [command EXCEPT ![p] = name]

\* A process that has found out nothing, or is gone with what it has found out.
NoWork == [run |-> "none"]

Forgets(p) == work' = [work EXCEPT ![p] = NoWork]

\* The runner rejects while a program is to be run: the command's outer catch.
Throws(p) ==
    /\ at[p] \in {"shrink", "rerun", "validate", "measure"}
    /\ Returns(p, "invalid_input", FALSE)
    /\ Forgets(p)
    /\ UNCHANGED <<project, disk, store, command, token>>

-----------------------------------------------------------------------------
(* Judging two executions, as stress-test and replay do.                   *)

\* What a program does on an input, unless it is canceled.
Status(canceled, content, input) ==
    IF canceled THEN "canceled" ELSE Outcome[content][input]

NoPredicate == [kind |-> "none"]

\* The path and the reason of a mismatch are determined by the two outputs.
PredicateOf(naive, candidate) ==
    CASE naive \notin Outputs ->
            [kind |-> "oracle_failure", naive |-> naive, solution |-> candidate]
      [] naive \in Outputs /\ candidate \notin Outputs ->
            [kind |-> "optimized_failure", naive |-> "passed", solution |-> candidate]
      [] naive \in Outputs /\ candidate = naive -> NoPredicate
      [] OTHER -> [kind |-> "mismatch", naive |-> naive, solution |-> candidate]

\* The user may cancel before, between or after the two executions of an input:
\* whether the naive was canceled, whether the solution was, and the token after.
Cancels(p) == {c \in [naive : BOOLEAN, solution : BOOLEAN, after : BOOLEAN] :
                 /\ token[p] => c.naive
                 /\ c.naive => c.solution
                 /\ c.solution => c.after}

\* The predicate of one input, run now.
Judged(c, input) == PredicateOf(Status(c.naive, Naive, input),
                                Status(c.solution, solution, input))

-----------------------------------------------------------------------------
(* Rows that several commands write.                                       *)

\* A problem that is not registered gets the id that is derived from its slug.
Registered == IF problemRow = "none" THEN "derived" ELSE problemRow

\* INSERT OR IGNORE under a foreign key: only a new implementation needs its
\* problem to exist.
MayRegister(owner, row, ids) == ids \subseteq implementations \/ owner = row

\* The executions of a case are distinct by implementation.
ExecutionRow(p, role, ran, recorded, when) ==
    [by |-> p, role |-> role, ran |-> ran, recorded |-> recorded, edited |-> when # edits]

CaseRows(p, ran, when) ==
    {ExecutionRow(p, "naive", Naive, Naive, when),
     ExecutionRow(p, "solution", ran, solution, when)}

-----------------------------------------------------------------------------
(* The user and the operating system.                                      *)

\* The user writes the statement, the generator and the naive solution.
AddAssets ==
    /\ directory = "scaffold"
    /\ \A p \in Procs : command[p] = "init" => ~UnderWay(p)
    /\ directory' = "ready"
    /\ UNCHANGED <<maker, solution, edits, disk, store, progress>>

Edit(c) ==
    /\ directory = "ready"
    /\ edits < MaxEdits
    /\ c # solution
    /\ solution' = c
    /\ edits' = edits + 1
    /\ UNCHANGED <<directory, maker, disk, store, progress>>

\* The user gives up the problem while no command works on it.
RemoveProblem ==
    /\ directory # "none"
    /\ \A p \in Procs : ~UnderWay(p)
    /\ directory' = "none"
    /\ maker' = "user"
    /\ UNCHANGED <<solution, edits, disk, store, progress>>

\* Artifacts are retained until the user deletes them.
DeleteArtifact(a) ==
    /\ a \in files
    /\ a \in artifactRows
    /\ files' = files \ {a}
    /\ documents' = documents \ {a}
    /\ UNCHANGED <<project, temporaries, store, progress>>

\* Ctrl-C, until the answer is rendered.
Cancel(p) ==
    /\ UnderWay(p) \/ at[p] = "returned"
    /\ ~token[p]
    /\ token' = [token EXCEPT ![p] = TRUE]
    /\ UNCHANGED <<project, disk, store, command, at, work, answer>>

\* SIGKILL.
Kill(p) ==
    /\ UnderWay(p) \/ at[p] = "returned"
    /\ at' = [at EXCEPT ![p] = "dead"]
    /\ Forgets(p)
    /\ token' = [token EXCEPT ![p] = FALSE]
    /\ UNCHANGED <<project, disk, store, command, answer>>
=============================================================================
