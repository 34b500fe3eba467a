---------------------------- MODULE InitProblem ----------------------------
(* palestra init (src/src/application/init-command.ts): the directory is    *)
(* made exclusively, filled, and registered; a failure removes it again, if *)
(* it can.                                                                  *)
EXTENDS Workspace

\* Mutant of Removes: what the invocation has made is left behind.
RemovesNothing(p) == FALSE

\* Only what this invocation created is removed.
Removes(p) == at[p] # "idle"

\* For the properties: the removal has failed, which the code does not mention.
NotRemoved == [run |-> "none", directory |-> "left"]

\* The catch block.  A removal that fails is swallowed; it may have got at some of
\* the files.
InitFails(p, status) ==
    /\ \/ /\ Removes(p)
          /\ directory' = "none" /\ maker' = "user"
          /\ UNCHANGED work
       \/ /\ Removes(p)
          /\ directory' \in {directory, "made"}
          /\ work' = [work EXCEPT ![p] = NotRemoved]
          /\ UNCHANGED maker
       \/ ~Removes(p) /\ UNCHANGED <<directory, maker, work>>
    /\ Returns(p, status, FALSE)
    /\ UNCHANGED <<edits, disk, store, token>>

\* mkdir of the problem's directory fails when there is one.
MakeDirectory(p) ==
    /\ Begins(p, "init")
    /\ \/ /\ directory = "none"
          /\ directory' = "made"
          /\ maker' = p
          /\ Goes(p, "scaffold")
          /\ UNCHANGED <<edits, disk, store, token, work>>
       \/ /\ directory # "none"
          /\ InitFails(p, "problem_exists")
    /\ UNCHANGED solution

\* The files of the scaffold, one after the other.
WriteScaffold(p) ==
    /\ at[p] = "scaffold"
    /\ \/ /\ directory' = "scaffold"
          /\ solution' = Starter
          /\ Goes(p, "register")
          /\ UNCHANGED <<maker, edits, disk, store, token, work>>
       \/ /\ InitFails(p, "init_failed")
          /\ UNCHANGED solution
    /\ UNCHANGED command

\* The transaction: the slug must not be registered yet.
RegisterProblem(p) ==
    /\ at[p] = "register"
    /\ \/ /\ problemRow = "none"
          /\ problemRow' = "random"
          /\ Returns(p, "passed", TRUE)
          /\ UNCHANGED <<directory, maker, edits, disk, implementations, executions,
                         artifactRows, replayRows, benchmarkRows, token, work>>
       \/ /\ problemRow # "none"
          /\ InitFails(p, "problem_exists")
       \/ InitFails(p, "init_failed")
    /\ UNCHANGED <<solution, command>>

InitStep(p) == MakeDirectory(p) \/ WriteScaffold(p) \/ RegisterProblem(p)
=============================================================================
