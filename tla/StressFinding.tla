--------------------------- MODULE StressFinding ---------------------------
(***************************************************************************)
(* palestra stress-test after its pool (StressCases) has yielded a finding *)
(* (src/src/application/stress-test-command.ts): the input is shrunk, the  *)
(* finding is written as an artifact that is named by its content          *)
(* (fuzz-artifact.ts), and as rows.                                        *)
(*                                                                         *)
(* work[p] is the artifact in the making.  It says which process made it,  *)
(* for its run id is part of its content, the minimized input and the      *)
(* predicate, and, for the properties, which contents of solution.py were  *)
(* run for it, beside what is not part of it: the next shrink candidate,   *)
(* the content that was found failing and the save it was.                 *)
(***************************************************************************)
EXTENDS Workspace

ArtifactOf(w) == [run |-> w.run, input |-> w.input, predicate |-> w.predicate, seen |-> w.seen]

\* The pool has run the generated case; a cancellation between two cases ends it
\* without a finding, one within a case may yield a finding (StressCases).
FindFailure(p) ==
    /\ Begins(p, "stress")
    /\ \/ /\ directory # "ready"
          /\ Returns(p, "invalid_input", FALSE)
          /\ UNCHANGED <<token, work>>
       \/ /\ directory = "ready"
          /\ \E c \in Cancels(p) :
               /\ token' = [token EXCEPT ![p] = c.after]
               /\ LET predicate == Judged(c, Whole) IN
                  \/ /\ predicate = NoPredicate
                     /\ Returns(p, "passed", FALSE)
                     /\ UNCHANGED work
                  \/ /\ c.after
                     /\ Returns(p, "canceled", FALSE)
                     /\ UNCHANGED work
                  \/ /\ predicate # NoPredicate
                     /\ work' = [work EXCEPT ![p] =
                          [run |-> p, input |-> Whole, predicate |-> predicate,
                           seen |-> {solution}, next |-> 1, ran |-> solution, when |-> edits]]
                     /\ Goes(p, "shrink") \/ Goes(p, "write")
    /\ UNCHANGED <<project, disk, store>>

\* Mutant of Kept: any failure of the candidate will do.
KeptAny(predicate, w) == predicate # NoPredicate

\* A candidate replaces the input if it fails in the same way.
Kept(predicate, w) == predicate = w.predicate

\* One more candidate was run on a content, and this is the input now.
Tried(w, content, input) ==
    [w EXCEPT !.next = @ + 1, !.seen = @ \cup {content}, !.input = input]

\* The candidates are the halves of the original input, whatever becomes of the
\* first.  Nobody asks whether the run was canceled.
Shrink(p) ==
    /\ at[p] = "shrink"
    /\ LET w == work[p]
           tried == w.next <= Len(Halves[Whole])
       IN \/ /\ tried
             /\ \E c \in Cancels(p) :
                  LET half == Halves[Whole][w.next] IN
                  /\ token' = [token EXCEPT ![p] = c.after]
                  /\ work' = [work EXCEPT ![p] =
                       Tried(w, solution, IF Kept(Judged(c, half), w) THEN half ELSE w.input)]
             /\ UNCHANGED <<at, answer>>
          \/ /\ ~tried
             /\ Goes(p, "write")
             /\ UNCHANGED <<token, work>>
    /\ UNCHANGED <<project, disk, store, command>>

\* SHRINK_DURATION_MS has passed.
ShrinkTimesOut(p) ==
    /\ at[p] = "shrink"
    /\ Goes(p, "write")
    /\ UNCHANGED <<project, disk, store, command, token, work>>

\* What the command returns, with the artifact's id or without; the status does not
\* depend on it.  What it has found out is gone with it.
Finding(p, saved) == Returns(p, "finding", saved) /\ Forgets(p)

\* A file operation fails: the temporary directory is removed, if there is one, with
\* its document.  A removal that fails is swallowed.
ArtifactFails(p) ==
    LET own == {ArtifactOf(work[p])} IN
    /\ at[p] \in {"write", "document", "rename"}
    /\ \/ temporaries' = temporaries \ own /\ documents' = documents \ own
       \/ /\ at[p] # "write"
          /\ documents' \in {documents, documents \ own}
          /\ UNCHANGED temporaries
    /\ Finding(p, FALSE)
    /\ UNCHANGED <<project, files, store, command, token>>

\* mkdir of a fresh temporary directory.
MakeTemporary(p) ==
    /\ at[p] = "write"
    /\ temporaries' = temporaries \cup {ArtifactOf(work[p])}
    /\ Goes(p, "document")
    /\ UNCHANGED <<project, files, documents, store, command, token, work>>

\* Mutant of WriteDocument: the directory is not renamed before it is recorded.
WriteDocumentOnly(p) ==
    /\ at[p] = "document"
    /\ documents' = documents \cup {ArtifactOf(work[p])}
    /\ Goes(p, "persist")
    /\ UNCHANGED <<project, files, temporaries, store, command, token, work>>

\* The document in it.
WriteDocument(p) ==
    /\ at[p] = "document"
    /\ documents' = documents \cup {ArtifactOf(work[p])}
    /\ Goes(p, "rename")
    /\ UNCHANGED <<project, files, temporaries, store, command, token, work>>

RenameArtifact(p) ==
    /\ at[p] = "rename"
    /\ temporaries' = temporaries \ {ArtifactOf(work[p])}
    /\ files' = files \cup {ArtifactOf(work[p])}
    /\ Goes(p, "persist")
    /\ UNCHANGED <<project, documents, store, command, token, work>>

\* The transaction finds or makes the problem's row, reads and hashes the sources
\* as they are now, and refuses two implementations that are one.
PersistFinding(p) ==
    /\ at[p] = "persist"
    /\ command[p] = "stress"
    /\ directory = "ready"
    /\ solution # Naive
    /\ problemRow' = Registered
    /\ implementations' = implementations \cup {ByContent(Naive), ByContent(solution)}
    /\ executions' = executions \cup CaseRows(p, work[p].ran, work[p].when)
    /\ artifactRows' = artifactRows \cup {ArtifactOf(work[p])}
    /\ Finding(p, TRUE)
    /\ UNCHANGED <<project, disk, replayRows, benchmarkRows, command, token>>

\* It fails, be it for the store or for such a pair: the artifact stays, and its id
\* is answered beside the diagnostic.
PersistFindingFails(p) ==
    /\ at[p] = "persist"
    /\ command[p] = "stress"
    /\ Finding(p, FALSE)
    /\ UNCHANGED <<project, disk, store, command, token>>

StressStep(p) ==
    \/ FindFailure(p) \/ Shrink(p) \/ ShrinkTimesOut(p)
    \/ MakeTemporary(p) \/ WriteDocument(p) \/ RenameArtifact(p) \/ ArtifactFails(p)
    \/ PersistFinding(p) \/ PersistFindingFails(p)
=============================================================================
