---------------------------- MODULE SqliteStore ----------------------------
(***************************************************************************)
(* The write path of the SQLite store (src/src/persistence/sqlite):        *)
(* WriterQueue, withBusyRetry and SqliteTransactionScope, in several       *)
(* processes that share one database file.                                 *)
(*                                                                         *)
(* transact() chains a job behind the jobs its process submitted earlier.  *)
(* The job at the head runs BEGIN IMMEDIATE, awaits the callback, which    *)
(* issues one statement at a time, and runs COMMIT.  Contention is retried *)
(* a bounded number of times, every other failure rejects the caller, and  *)
(* either way the next job of the chain starts.                            *)
(*                                                                         *)
(* SQLite itself is external: one write lock per file, uncommitted rows    *)
(* visible to nobody else, and a dead connection's transaction undone.     *)
(***************************************************************************)
EXTENDS Naturals, FiniteSets

CONSTANTS
    Procs,        \* judge processes using the same .palestra/judge.sqlite
    Jobs,         \* units of work, each submitted at most once
    Parts,        \* rows a unit of work writes, its problem row aside
    MaxAttempts,  \* BusyRetryOptions.maxAttempts
    MaxCrashes,   \* bound: how often a process is killed
    NoProc,       \* nobody holds the write lock
    NoJob         \* the chain is idle

ASSUME PartsAssumption    == Parts \in Nat \ {0}
ASSUME AttemptsAssumption == MaxAttempts \in Nat \ {0}
ASSUME CrashesAssumption  == MaxCrashes \in Nat
ASSUME NamesAssumption    == NoProc \notin Procs /\ NoJob \notin Jobs

VARIABLES
    \* The database file.
    db,        \* db[j]: committed rows of j
    problems,  \* committed problem rows for the slug all the jobs are about
    lock,      \* the process whose connection holds the write lock
    \* Each process.
    isOpen,    \* isOpen[p]: the writer connection is open
    pc,        \* pc[p]: where the head of the writer queue is
    job,       \* job[p]: the job at the head
    attempt,   \* attempt[p]: withBusyRetry's attempt
    added,     \* added[p]: problem rows the open transaction holds
    written,   \* written[p]: other rows the open transaction holds
    crashes,   \* kills so far
    \* The jobs.
    owner,     \* owner[j]: the process that submitted j
    place,     \* place[j]: its place among all submissions
    submitted, \* submissions so far
    outcome    \* outcome[j]: the promise transact() returned

file  == <<db, problems, lock>>
scope == <<pc, job, attempt, added, written>>
jobs  == <<owner, place, submitted>>
vars  == <<file, isOpen, scope, crashes, jobs, outcome>>

Phases   == {"idle", "begin", "find", "work", "sleep", "returning", "down"}
Rejected == {"aborted", "busy", "failed"}
Outcomes == {"none", "waiting", "resolved", "lost"} \cup Rejected

Init ==
    /\ db = [j \in Jobs |-> 0]
    /\ problems = 0
    /\ lock = NoProc
    /\ isOpen = [p \in Procs |-> TRUE]
    /\ pc = [p \in Procs |-> "idle"]
    /\ job = [p \in Procs |-> NoJob]
    /\ attempt = [p \in Procs |-> 0]
    /\ added = [p \in Procs |-> 0]
    /\ written = [p \in Procs |-> 0]
    /\ crashes = 0
    /\ owner = [j \in Jobs |-> NoProc]
    /\ place = [j \in Jobs |-> 0]
    /\ submitted = 0
    /\ outcome = [j \in Jobs |-> "none"]

-----------------------------------------------------------------------------
(* WriterQueue.                                                            *)

\* The jobs p submitted whose promises have not settled.
Unsettled(p) == {j \in Jobs : owner[j] = p /\ outcome[j] = "waiting"}

\* transact() and enqueue(): the job joins the end of its process's chain.
Submit(p, j) ==
    /\ pc[p] # "down"
    /\ outcome[j] = "none"
    /\ owner' = [owner EXCEPT ![j] = p]
    /\ place' = [place EXCEPT ![j] = submitted + 1]
    /\ submitted' = submitted + 1
    /\ outcome' = [outcome EXCEPT ![j] = "waiting"]
    /\ UNCHANGED <<file, isOpen, scope, crashes>>

\* this.tail.then(() => job()): the next job of the chain starts.
Take(p) ==
    /\ pc[p] = "idle"
    /\ \E j \in Unsettled(p) :
          /\ \A k \in Unsettled(p) : place[j] <= place[k]
          /\ job' = [job EXCEPT ![p] = j]
    /\ pc' = [pc EXCEPT ![p] = "begin"]
    /\ attempt' = [attempt EXCEPT ![p] = 1]
    /\ UNCHANGED <<file, isOpen, added, written, crashes, jobs, outcome>>

\* Mutant of Settle: a rejection breaks the chain for the jobs behind it.
SettleWedged(p, result) ==
    /\ outcome' = [outcome EXCEPT ![job[p]] = result]
    /\ job' = [job EXCEPT ![p] = NoJob]
    /\ pc' = [pc EXCEPT ![p] = IF result = "resolved" THEN "idle" ELSE "sleep"]
    /\ attempt' = [attempt EXCEPT ![p] = 0]

\* The promise settles, and resolved or rejected the chain goes on.
Settle(p, result) ==
    /\ outcome' = [outcome EXCEPT ![job[p]] = result]
    /\ job' = [job EXCEPT ![p] = NoJob]
    /\ pc' = [pc EXCEPT ![p] = "idle"]
    /\ attempt' = [attempt EXCEPT ![p] = 0]

-----------------------------------------------------------------------------
(* withBusyRetry().                                                        *)

\* The catch block: contention sleeps until the attempts are used up, then it
\* rejects with PersistenceBusyError; anything else is rethrown at once.
Fail(p, busy, reason) ==
    IF busy /\ attempt[p] < MaxAttempts
    THEN /\ pc' = [pc EXCEPT ![p] = "sleep"]
         /\ UNCHANGED <<job, attempt, outcome>>
    ELSE Settle(p, IF busy THEN "busy" ELSE reason)

Retry(p) ==
    /\ pc[p] = "sleep"
    /\ pc' = [pc EXCEPT ![p] = "begin"]
    /\ attempt' = [attempt EXCEPT ![p] = @ + 1]
    /\ UNCHANGED <<file, isOpen, job, added, written, crashes, jobs, outcome>>

-----------------------------------------------------------------------------
(* runOnce().                                                              *)

\* Mutant of BeginOk: BEGIN DEFERRED, which takes no lock up front.
BeginDeferred(p) ==
    /\ pc[p] = "begin"
    /\ isOpen[p]
    /\ pc' = [pc EXCEPT ![p] = "find"]
    /\ lock' = p
    /\ UNCHANGED <<db, problems, isOpen, job, attempt, added, written, crashes,
                   jobs, outcome>>

\* BEGIN IMMEDIATE gets the write lock.
BeginOk(p) ==
    /\ pc[p] = "begin"
    /\ isOpen[p]
    /\ lock = NoProc
    /\ lock' = p
    /\ pc' = [pc EXCEPT ![p] = "find"]
    /\ UNCHANGED <<db, problems, isOpen, job, attempt, added, written, crashes,
                   jobs, outcome>>

\* BEGIN IMMEDIATE fails: still locked when the busy timeout is over, or an
\* error of another kind, always so on a closed connection.
BeginFails(p) ==
    /\ pc[p] = "begin"
    /\ \E busy \in BOOLEAN :
          /\ busy => isOpen[p] /\ lock # NoProc
          /\ Fail(p, busy, "failed")
    /\ UNCHANGED <<file, isOpen, added, written, crashes, jobs>>

\* The callback looks its problem up by slug and registers it when absent.
FindOrRegister(p) ==
    /\ pc[p] = "find"
    /\ isOpen[p]
    /\ pc' = [pc EXCEPT ![p] = "work"]
    /\ added' = [added EXCEPT ![p] = IF problems = 0 THEN 1 ELSE 0]
    /\ UNCHANGED <<file, isOpen, job, attempt, written, crashes, jobs, outcome>>

\* Mutant of Write: outside a transaction every statement commits by itself.
WriteAutocommit(p) ==
    /\ pc[p] = "work"
    /\ isOpen[p]
    /\ written[p] < Parts
    /\ written' = [written EXCEPT ![p] = @ + 1]
    /\ db' = [db EXCEPT ![job[p]] = @ + 1]
    /\ UNCHANGED <<problems, lock, isOpen, pc, job, attempt, added, crashes,
                   jobs, outcome>>

\* The callback's next insert, into the open transaction.
Write(p) ==
    /\ pc[p] = "work"
    /\ isOpen[p]
    /\ written[p] < Parts
    /\ written' = [written EXCEPT ![p] = @ + 1]
    /\ UNCHANGED <<file, isOpen, pc, job, attempt, added, crashes, jobs, outcome>>

\* Mutant of RollBack: the failed transaction stays open.
RollBackForgotten(p) ==
    /\ added' = [added EXCEPT ![p] = 0]
    /\ written' = [written EXCEPT ![p] = 0]
    /\ UNCHANGED lock

\* rollbackQuietly(): a transaction that is already gone is no error.
RollBack(p) ==
    /\ lock' = IF lock = p THEN NoProc ELSE lock
    /\ added' = [added EXCEPT ![p] = 0]
    /\ written' = [written EXCEPT ![p] = 0]

\* The callback throws.  TransactionAbortedError quotes the cause, so a busy
\* statement is still recognised as contention and retried.
WorkFails(p) ==
    /\ pc[p] \in {"find", "work"}
    /\ RollBack(p)
    /\ \E busy \in BOOLEAN : (busy => isOpen[p]) /\ Fail(p, busy, "aborted")
    /\ UNCHANGED <<db, problems, isOpen, crashes, jobs>>

CommitOk(p) ==
    /\ pc[p] = "work"
    /\ isOpen[p]
    /\ written[p] = Parts
    /\ db' = [db EXCEPT ![job[p]] = @ + written[p]]
    /\ problems' = problems + added[p]
    /\ lock' = NoProc
    /\ added' = [added EXCEPT ![p] = 0]
    /\ written' = [written EXCEPT ![p] = 0]
    /\ pc' = [pc EXCEPT ![p] = "returning"]
    /\ UNCHANGED <<isOpen, job, attempt, crashes, jobs, outcome>>

CommitFails(p) ==
    /\ pc[p] = "work"
    /\ written[p] = Parts
    /\ RollBack(p)
    /\ \E busy \in BOOLEAN : (busy => isOpen[p]) /\ Fail(p, busy, "failed")
    /\ UNCHANGED <<db, problems, isOpen, crashes, jobs>>

Return(p) ==
    /\ pc[p] = "returning"
    /\ Settle(p, "resolved")
    /\ UNCHANGED <<file, isOpen, added, written, crashes, jobs>>

-----------------------------------------------------------------------------
(* The life of the store and of its process.                               *)

\* close(): the connection drops its transaction; the job at the head finds
\* out at its next statement.
Close(p) ==
    /\ pc[p] # "down"
    /\ isOpen[p]
    /\ isOpen' = [isOpen EXCEPT ![p] = FALSE]
    /\ lock' = IF lock = p THEN NoProc ELSE lock
    /\ UNCHANGED <<db, problems, scope, crashes, jobs, outcome>>

\* The process is killed: its transaction is undone and its callers are gone.
Crash(p) ==
    /\ pc[p] # "down"
    /\ crashes < MaxCrashes
    /\ crashes' = crashes + 1
    /\ isOpen' = [isOpen EXCEPT ![p] = FALSE]
    /\ RollBack(p)
    /\ pc' = [pc EXCEPT ![p] = "down"]
    /\ job' = [job EXCEPT ![p] = NoJob]
    /\ attempt' = [attempt EXCEPT ![p] = 0]
    /\ outcome' = [j \in Jobs |-> IF j \in Unsettled(p) THEN "lost" ELSE outcome[j]]
    /\ UNCHANGED <<db, problems, jobs>>

\* A new process opens the store with an empty queue.
Reopen(p) ==
    /\ pc[p] = "down"
    /\ pc' = [pc EXCEPT ![p] = "idle"]
    /\ isOpen' = [isOpen EXCEPT ![p] = TRUE]
    /\ UNCHANGED <<file, job, attempt, added, written, crashes, jobs, outcome>>

-----------------------------------------------------------------------------

\* What a process does on its own once a job has been submitted.
Step(p) ==
    \/ Take(p) \/ Retry(p)
    \/ BeginOk(p) \/ BeginFails(p)
    \/ FindOrRegister(p) \/ Write(p) \/ WorkFails(p)
    \/ CommitOk(p) \/ CommitFails(p) \/ Return(p)

Next ==
    \E p \in Procs :
        \/ Step(p) \/ Close(p) \/ Crash(p) \/ Reopen(p)
        \/ \E j \in Jobs : Submit(p, j)

Spec == Init /\ [][Next]_vars

\* A live process keeps running its event loop, and BEGIN waits no longer than
\* the busy timeout.
FairSpec == Spec /\ \A p \in Procs : WF_vars(Step(p))
-----------------------------------------------------------------------------
(* Properties.                                                             *)

\* The type of every variable; the attempt stays within the configured bound.
TypeOK ==
    /\ db \in [Jobs -> Nat]
    /\ problems \in Nat
    /\ lock \in Procs \cup {NoProc}
    /\ isOpen \in [Procs -> BOOLEAN]
    /\ pc \in [Procs -> Phases]
    /\ job \in [Procs -> Jobs \cup {NoJob}]
    /\ attempt \in [Procs -> 0 .. MaxAttempts]
    /\ added \in [Procs -> 0 .. 1]
    /\ written \in [Procs -> 0 .. Parts]
    /\ crashes \in Nat
    /\ owner \in [Jobs -> Procs \cup {NoProc}]
    /\ place \in [Jobs -> Nat]
    /\ submitted \in Nat
    /\ outcome \in [Jobs -> Outcomes]

\* The promise tells the truth: a caller whose transact() resolved finds all
\* its rows exactly once, a caller whose transact() was rejected, for whatever
\* reason and after however many retries, finds none of them.
OutcomeIsTrue ==
    \A j \in Jobs :
        /\ outcome[j] = "resolved" => db[j] = Parts
        /\ outcome[j] \in Rejected => db[j] = 0

\* The write lock is held exactly by a process that is inside a transaction: a
\* failed BEGIN, callback or COMMIT, a close() in the middle or a kill leaves
\* no transaction open behind it.
LockIsOwned ==
    \A p \in Procs : lock = p <=> isOpen[p] /\ pc[p] \in {"find", "work"}

\* A process's jobs take effect and settle in the order it submitted them: no
\* job overtakes an earlier one that is being retried.
SubmissionOrder ==
    \A p \in Procs : \A j, k \in Jobs :
        (owner[j] = p /\ owner[k] = p /\ place[j] < place[k])
            => (db[k] > 0 \/ outcome[k] # "waiting" => outcome[j] # "waiting")

\* Looking a problem up and registering it when absent is atomic across
\* processes, because BEGIN IMMEDIATE comes first: one row per slug.
OneProblemRow == problems <= 1

\* Every transact() promise settles, however many of its attempts meet
\* contention and whatever happened to the jobs ahead of it.
EverySubmissionSettles ==
    \A j \in Jobs : (outcome[j] = "waiting") ~> (outcome[j] # "waiting")

\* The refinement mapping: AtomicStore does not tell the reasons apart.
Told == [j \in Jobs |-> IF outcome[j] \in Rejected THEN "rejected" ELSE outcome[j]]

Abstract == INSTANCE AtomicStore WITH rows <- db, outcome <- Told

\* The queue, the retries and the lock together implement the abstract store:
\* rows appear all at once, at most once, and promises settle truthfully.
ImplementsAtomicStore == Abstract!Spec
-----------------------------------------------------------------------------
(* The inductive invariant behind the theorems of SqliteStoreProofs.       *)

\* The job at the head of a chain: whose it is, and how far it has come.
HeadPart ==
    \A p \in Procs :
        /\ job[p] = NoJob <=> pc[p] \in {"idle", "down"}
        /\ job[p] # NoJob => /\ owner[job[p]] = p
                             /\ outcome[job[p]] = "waiting"

\* Outside the callback the transaction holds nothing, and a job that sleeps
\* has an attempt left.
AttemptPart ==
    \A p \in Procs :
        /\ pc[p] # "work" => added[p] = 0 /\ written[p] = 0
        /\ pc[p] = "sleep" => attempt[p] < MaxAttempts

\* Rows are visible only for a job that has committed: one that was resolved,
\* one whose promise is about to resolve, or one lost in that moment.
RowsPart ==
    \A j \in Jobs :
        \/ db[j] = 0 /\ outcome[j] # "resolved"
        \/ db[j] = Parts /\ outcome[j] \in {"resolved", "lost"}
        \/ /\ db[j] = Parts
           /\ outcome[j] = "waiting"
           /\ owner[j] # NoProc
           /\ job[owner[j]] = j
           /\ pc[owner[j]] = "returning"

ReturningPart ==
    \A p \in Procs : pc[p] = "returning" => db[job[p]] = Parts

\* Only a transaction that holds the lock has a problem row to add, and then
\* none has been committed.
ProblemPart ==
    /\ OneProblemRow
    /\ \A p \in Procs : lock = p /\ added[p] = 1 => problems = 0

SubmittedPart ==
    \A j \in Jobs : outcome[j] # "none" <=> owner[j] # NoProc

StoreInv ==
    /\ TypeOK /\ LockIsOwned /\ HeadPart /\ AttemptPart /\ RowsPart
    /\ ReturningPart /\ ProblemPart /\ SubmittedPart

\* The head of a chain is the earliest of the jobs that have not settled, and
\* places grow with the submissions.
OrderPart ==
    /\ \A p \in Procs : job[p] # NoJob =>
          \A k \in Unsettled(p) : place[job[p]] <= place[k]
    /\ \A j \in Jobs : place[j] <= submitted

OrderInv == StoreInv /\ OrderPart /\ SubmissionOrder

-----------------------------------------------------------------------------
(* What only a proof establishes: see SqliteStoreProofs.                   *)

\* No transact() is left behind: the process that owes it an answer is alive, and
\* its chain is at an earlier or the same job, or it has one to take.
NoJobIsStranded ==
    \A j \in Jobs : outcome[j] = "waiting" =>
        LET p == owner[j]
        IN  /\ p \in Procs /\ pc[p] # "down"
            /\ pc[p] = "idle" =>
                  \E k \in Unsettled(p) : \A m \in Unsettled(p) : place[k] <= place[m]
            /\ pc[p] # "idle" => job[p] \in Unsettled(p) /\ place[job[p]] <= place[j]

\* Only a live process owes anyone an answer.
OwedPart == \A j \in Jobs : outcome[j] = "waiting" => pc[owner[j]] # "down"
=============================================================================
