------------------------------- MODULE Replay -------------------------------
(***************************************************************************)
(* palestra replay (src/src/application/replay-command.ts): an artifact is *)
(* looked up in the store and loaded, its minimized input is run again on  *)
(* the naive and on the present solution, and the verdict is persisted     *)
(* before it is answered.                                                  *)
(***************************************************************************)
EXTENDS Workspace

\* The artifact must have a row and a file; its content is its name, so a file that
\* was changed is as good as none.
LookUpArtifact(p, a) ==
    /\ Begins(p, "replay")
    /\ \/ /\ a \in artifactRows
          /\ a \in files \cap documents
          /\ directory = "ready"
          /\ work' = [work EXCEPT ![p] = [artifact |-> a]]
          /\ Goes(p, "rerun")
       \/ /\ a \notin artifactRows
          /\ Returns(p, "artifact_not_found", FALSE)
          /\ UNCHANGED work
       \/ /\ a \in artifactRows
          /\ a \notin files \cap documents \/ directory # "ready"
          /\ Returns(p, "replay_failed", FALSE)
          /\ UNCHANGED work
    /\ UNCHANGED <<project, disk, store, token>>

\* Mutant of Replayed: the input that the generator yielded, as in the artifact.
ReplayedWhole(a) == Whole

\* The recorded input that is run.
Replayed(a) == a.input

\* What the command answers.
VerdictOf(w) == IF w.again = w.artifact.predicate THEN "passed" ELSE "wrong_answer"

\* Both programs, one after the other; nobody asks whether the user canceled.
RunAgain(p) ==
    /\ at[p] = "rerun"
    /\ \E c \in Cancels(p) :
         LET a == work[p].artifact IN
         /\ token' = [token EXCEPT ![p] = c.after]
         /\ work' = [work EXCEPT ![p] =
              [artifact |-> a, ran |-> solution, when |-> edits,
               canceled |-> c.solution, again |-> Judged(c, Replayed(a))]]
    /\ Goes(p, "persist")
    /\ UNCHANGED <<project, disk, store, command>>

\* The problem is not looked up: its id is taken to be derived from the slug.
PersistReplay(p) ==
    /\ at[p] = "persist"
    /\ command[p] = "replay"
    /\ LET ids == {ByContent(Naive), ByContent(solution)} IN
       \/ /\ MayRegister("derived", problemRow, ids)
          /\ solution # Naive
          /\ implementations' = implementations \cup ids
          /\ executions' = executions \cup CaseRows(p, work[p].ran, work[p].when)
          /\ replayRows' = replayRows \cup {[by |-> p, artifact |-> work[p].artifact]}
          /\ Returns(p, VerdictOf(work[p]), TRUE)
       \/ /\ ~MayRegister("derived", problemRow, ids)
          /\ Returns(p, "foreign_key_failed", FALSE)
          /\ UNCHANGED <<implementations, executions, replayRows>>
       \/ /\ solution = Naive
          /\ Returns(p, "unique_failed", FALSE)
          /\ UNCHANGED <<implementations, executions, replayRows>>
    /\ UNCHANGED <<project, disk, problemRow, artifactRows, benchmarkRows, command, token, work>>

\* Mutant of PersistReplayFails: the error is swallowed and the verdict answered.
PersistReplayFailsQuietly(p) ==
    /\ at[p] = "persist"
    /\ command[p] = "replay"
    /\ Returns(p, VerdictOf(work[p]), TRUE)
    /\ UNCHANGED <<project, disk, store, command, token, work>>

\* The store is busy for too long or cannot write.
PersistReplayFails(p) ==
    /\ at[p] = "persist"
    /\ command[p] = "replay"
    /\ Returns(p, "replay_failed", FALSE)
    /\ UNCHANGED <<project, disk, store, command, token, work>>

ReplayStep(p) ==
    \/ \E a \in files \cup artifactRows : LookUpArtifact(p, a)
    \/ RunAgain(p) \/ PersistReplay(p) \/ PersistReplayFails(p)
=============================================================================
