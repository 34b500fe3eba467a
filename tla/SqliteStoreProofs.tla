------------------------- MODULE SqliteStoreProofs -------------------------
(***************************************************************************)
(* Theorems about the SQLite store, for any number of processes, jobs,     *)
(* rows per job, attempts and crashes.                                     *)
(*                                                                         *)
(* StoreInv is inductive: the lock belongs to the transaction that is      *)
(* open, and rows are visible only of jobs whose COMMIT succeeded.  With   *)
(* it the promises are truthful and every step is a step of AtomicStore.   *)
(* OrderInv adds that the head of a writer queue is its earliest job, and  *)
(* OwedPart that nobody is owed an answer by a process that is down.       *)
(***************************************************************************)
EXTENDS SqliteStore, WellFoundedInduction, TLAPS

\* The initial state of the store satisfies the invariant.
LEMMA InitStoreInv == Init => OrderInv
<1> USE PartsAssumption, AttemptsAssumption, NamesAssumption
<1> SUFFICES ASSUME Init PROVE OrderInv
  OBVIOUS
<1>1. TypeOK
  BY DEF Init, TypeOK, Phases, Outcomes
<1>2. LockIsOwned /\ HeadPart /\ AttemptPart /\ ReturningPart /\ RowsPart
  BY DEF Init, LockIsOwned, HeadPart, AttemptPart, ReturningPart, RowsPart
<1>3. ProblemPart /\ SubmittedPart /\ OrderPart /\ SubmissionOrder
  BY DEF Init, ProblemPart, OneProblemRow, SubmittedPart, OrderPart,
         SubmissionOrder
<1> QED
  BY <1>1, <1>2, <1>3 DEF OrderInv, StoreInv

-----------------------------------------------------------------------------
(* StoreInv is preserved, one lemma for each way an attempt may end.       *)

\* A promise that settles: truthfully, for the job at the head, whose
\* transaction is over.  The last step of BeginFails, WorkFails, CommitFails
\* and Return.
LEMMA SettleKeeps ==
    ASSUME StoreInv, NEW p \in Procs, NEW result \in {"resolved"} \cup Rejected,
           pc[p] \notin {"idle", "down"},
           result = "resolved" <=> pc[p] = "returning",
           Settle(p, result), RollBack(p),
           UNCHANGED <<db, problems, isOpen, crashes, jobs>>
    PROVE  StoreInv'
<1> USE PartsAssumption, AttemptsAssumption, NamesAssumption
    DEF StoreInv, Settle, RollBack, jobs
<1>1. TypeOK'
  BY DEF TypeOK, HeadPart, Phases, Outcomes, Rejected
<1>2. LockIsOwned' /\ AttemptPart'
  BY DEF TypeOK, LockIsOwned, AttemptPart
<1>3. HeadPart' /\ ReturningPart'
  BY DEF TypeOK, HeadPart, ReturningPart
<1>4. RowsPart'
  BY DEF TypeOK, HeadPart, RowsPart, ReturningPart, Rejected
<1>5. ProblemPart' /\ SubmittedPart'
  BY DEF TypeOK, ProblemPart, OneProblemRow, SubmittedPart, HeadPart, Rejected
<1> QED
  BY <1>1, <1>2, <1>3, <1>4, <1>5

\* A failed attempt, after its transaction has been rolled back: it sleeps
\* before the next attempt or settles as a rejection.
LEMMA FailKeeps ==
    ASSUME StoreInv, NEW p \in Procs, NEW busy \in BOOLEAN,
           NEW reason \in {"aborted", "failed"},
           pc[p] \in {"begin", "find", "work"},
           Fail(p, busy, reason), RollBack(p),
           UNCHANGED <<db, problems, isOpen, crashes, jobs>>
    PROVE  StoreInv'
<1>1. CASE busy /\ attempt[p] < MaxAttempts
  <2> USE <1>1, PartsAssumption, AttemptsAssumption, NamesAssumption
      DEF StoreInv, Fail, RollBack, jobs
  <2>1. TypeOK' /\ LockIsOwned' /\ AttemptPart'
    BY DEF TypeOK, Phases, LockIsOwned, AttemptPart
  <2>2. HeadPart' /\ ReturningPart' /\ RowsPart'
    BY DEF TypeOK, HeadPart, ReturningPart, RowsPart
  <2>3. ProblemPart' /\ SubmittedPart'
    BY DEF TypeOK, ProblemPart, OneProblemRow, SubmittedPart
  <2> QED
    BY <2>1, <2>2, <2>3
<1>2. CASE ~(busy /\ attempt[p] < MaxAttempts)
  <2>1. Settle(p, IF busy THEN "busy" ELSE reason)
    BY <1>2 DEF Fail
  <2> QED
    BY <2>1, SettleKeeps DEF Rejected
<1> QED
  BY <1>1, <1>2

\* Every step preserves the invariant.
LEMMA NextStoreInv == StoreInv /\ [Next]_vars => StoreInv'
<1> SUFFICES ASSUME StoreInv, [Next]_vars PROVE StoreInv'
  OBVIOUS
<1> USE PartsAssumption, AttemptsAssumption, CrashesAssumption, NamesAssumption
    DEF file, scope, jobs
<1> USE DEF RowsPart, ReturningPart, ProblemPart, OneProblemRow, SubmittedPart,
            LockIsOwned, HeadPart, AttemptPart
<1>1. CASE UNCHANGED vars
  BY <1>1 DEF vars, StoreInv, TypeOK
<1>2. ASSUME NEW p \in Procs, NEW j \in Jobs, Submit(p, j) PROVE StoreInv'
  BY <1>2 DEF Submit, StoreInv, TypeOK, Outcomes
<1>3. ASSUME NEW p \in Procs, Take(p) PROVE StoreInv'
  BY <1>3 DEF Take, Unsettled, StoreInv, TypeOK, Phases
<1>4. ASSUME NEW p \in Procs, Retry(p) PROVE StoreInv'
  BY <1>4 DEF Retry, StoreInv, TypeOK, Phases
<1>5. ASSUME NEW p \in Procs, BeginOk(p) PROVE StoreInv'
  BY <1>5 DEF BeginOk, StoreInv, TypeOK, Phases
<1>6. ASSUME NEW p \in Procs, BeginFails(p) PROVE StoreInv'
  <2>1. RollBack(p)
    BY <1>6 DEF BeginFails, RollBack, StoreInv, TypeOK
  <2> QED
    BY <1>6, <2>1, FailKeeps DEF BeginFails
<1>7. ASSUME NEW p \in Procs, FindOrRegister(p) PROVE StoreInv'
  BY <1>7 DEF FindOrRegister, StoreInv, TypeOK, Phases
<1>8. ASSUME NEW p \in Procs, Write(p) PROVE StoreInv'
  BY <1>8 DEF Write, StoreInv, TypeOK
<1>9. ASSUME NEW p \in Procs, WorkFails(p) PROVE StoreInv'
  BY <1>9, FailKeeps DEF WorkFails
<1>10. ASSUME NEW p \in Procs, CommitOk(p) PROVE StoreInv'
  <2>1. db[job[p]] = 0 /\ written[p] = Parts /\ lock = p
    BY <1>10 DEF CommitOk, StoreInv, TypeOK
  <2> QED
    BY <1>10, <2>1 DEF CommitOk, StoreInv, TypeOK, Phases
<1>11. ASSUME NEW p \in Procs, CommitFails(p) PROVE StoreInv'
  BY <1>11, FailKeeps DEF CommitFails
<1>12. ASSUME NEW p \in Procs, Return(p) PROVE StoreInv'
  <2>1. RollBack(p)
    BY <1>12 DEF Return, RollBack, StoreInv, TypeOK
  <2> QED
    BY <1>12, <2>1, SettleKeeps DEF Return
<1>13. ASSUME NEW p \in Procs, Close(p) PROVE StoreInv'
  BY <1>13 DEF Close, StoreInv, TypeOK
<1>14. ASSUME NEW p \in Procs, Crash(p) PROVE StoreInv'
  BY <1>14 DEF Crash, RollBack, Unsettled, StoreInv, TypeOK, Phases, Outcomes,
               Rejected
<1>15. ASSUME NEW p \in Procs, Reopen(p) PROVE StoreInv'
  BY <1>15 DEF Reopen, StoreInv, TypeOK, Phases
<1> QED
  BY <1>1, <1>2, <1>3, <1>4, <1>5, <1>6, <1>7, <1>8, <1>9, <1>10, <1>11,
     <1>12, <1>13, <1>14, <1>15 DEF Next, Step
-----------------------------------------------------------------------------
(* The order of the writer queue.                                          *)

\* Every step preserves the order as well: a job settles or commits only as
\* the head of its chain, and the head is the earliest job left.
LEMMA NextOrderInv == OrderInv /\ [Next]_vars => OrderInv'
<1> SUFFICES ASSUME OrderInv, [Next]_vars PROVE OrderPart' /\ SubmissionOrder'
  BY NextStoreInv DEF OrderInv
<1> USE PartsAssumption, NamesAssumption
    DEF OrderInv, StoreInv, TypeOK, HeadPart, OrderPart, SubmissionOrder,
        Unsettled, file, scope, jobs
<1>1. CASE UNCHANGED vars
  BY <1>1 DEF vars
<1>2. ASSUME NEW p \in Procs, NEW j \in Jobs, Submit(p, j)
      PROVE  OrderPart' /\ SubmissionOrder'
  <2>1. /\ owner' = [owner EXCEPT ![j] = p]
        /\ place' = [place EXCEPT ![j] = submitted + 1]
        /\ submitted' = submitted + 1
        /\ outcome' = [outcome EXCEPT ![j] = "waiting"]
        /\ UNCHANGED <<db, job>>
    BY <1>2 DEF Submit
  <2>2. db[j] = 0 /\ owner[j] = NoProc
    BY <1>2 DEF Submit, SubmittedPart, RowsPart
  <2>3. OrderPart'
    BY <2>1, <2>2
  <2>4. ASSUME NEW q \in Procs, NEW a \in Jobs, NEW b \in Jobs,
               owner'[a] = q, owner'[b] = q, place'[a] < place'[b],
               db'[b] > 0 \/ outcome'[b] # "waiting"
        PROVE  outcome'[a] # "waiting"
    <3>1. b # j
      BY <2>1, <2>2, <2>4
    <3>2. a # j
      BY <2>1, <2>4, <3>1
    <3> QED
      BY <2>1, <2>4, <3>1, <3>2
  <2> QED
    BY <2>3, <2>4
<1>3. ASSUME NEW p \in Procs, Take(p) PROVE OrderPart' /\ SubmissionOrder'
  BY <1>3 DEF Take
<1>4. ASSUME NEW p \in Procs,
             BeginFails(p) \/ WorkFails(p) \/ CommitFails(p) \/ Return(p)
      PROVE  OrderPart' /\ SubmissionOrder'
  <2>1. job[p] \in Jobs /\ owner[job[p]] = p /\ job' = [job EXCEPT ![p] = job'[p]]
    BY <1>4 DEF BeginFails, WorkFails, CommitFails, Return, Fail, Settle, Phases
  <2>2. /\ UNCHANGED <<db, jobs>>
        /\ job'[p] \in {job[p], NoJob}
        /\ \/ outcome' = outcome
           \/ /\ job'[p] = NoJob
              /\ \E r \in Outcomes : outcome' = [outcome EXCEPT ![job[p]] = r]
              /\ outcome'[job[p]] # "waiting"
    BY <1>4, <2>1 DEF BeginFails, WorkFails, CommitFails, Return, Fail, Settle,
                      Outcomes, Rejected
  <2>3. CASE UNCHANGED outcome
    BY <2>1, <2>2, <2>3
  <2>4. CASE /\ job'[p] = NoJob
             /\ \E r \in Outcomes : outcome' = [outcome EXCEPT ![job[p]] = r]
             /\ outcome'[job[p]] # "waiting"
    <3>1. OrderPart'
      BY SMTT(30), <2>1, <2>2, <2>4
    <3>2. SubmissionOrder'
      BY <2>1, <2>2, <2>4
    <3> QED
      BY <3>1, <3>2
  <2> QED
    BY <2>2, <2>3, <2>4
<1>5. ASSUME NEW p \in Procs, CommitOk(p) PROVE OrderPart' /\ SubmissionOrder'
  BY <1>5 DEF CommitOk
<1>6. ASSUME NEW p \in Procs, Crash(p) PROVE OrderPart' /\ SubmissionOrder'
  BY <1>6 DEF Crash, RollBack
<1>7. ASSUME NEW p \in Procs,
             \/ Retry(p) \/ BeginOk(p) \/ FindOrRegister(p) \/ Write(p)
             \/ Close(p) \/ Reopen(p)
      PROVE  OrderPart' /\ SubmissionOrder'
  BY <1>7 DEF Retry, BeginOk, FindOrRegister, Write, Close, Reopen
<1> QED
  BY <1>1, <1>2, <1>3, <1>4, <1>5, <1>6, <1>7 DEF Next, Step

-----------------------------------------------------------------------------
(* The theorems.                                                           *)

\* The inductive invariant holds in every reachable state.
THEOREM StoreInvariant == Spec => []OrderInv
<1> QED
  BY InitStoreInv, NextOrderInv, PTL DEF Spec

\* Every variable keeps its type; no job makes more than MaxAttempts attempts.
THEOREM StoreTypeCorrect == Spec => []TypeOK
<1>1. OrderInv => TypeOK
  BY DEF OrderInv, StoreInv
<1> QED
  BY <1>1, StoreInvariant, PTL

\* A resolved transact() has all its rows in the database exactly once, a
\* rejected one has none, after any retries, crashes and closes.
THEOREM PromisesAreTrue == Spec => []OutcomeIsTrue
<1>1. OrderInv => OutcomeIsTrue
  BY PartsAssumption
  DEF OrderInv, StoreInv, TypeOK, RowsPart, OutcomeIsTrue, Rejected
<1> QED
  BY <1>1, StoreInvariant, PTL

\* No failed, closed or killed transaction leaves the write lock behind.
THEOREM LockNeverLeaks == Spec => []LockIsOwned
<1>1. OrderInv => LockIsOwned
  BY DEF OrderInv, StoreInv
<1> QED
  BY <1>1, StoreInvariant, PTL

\* The jobs of a process commit and settle in the order it submitted them.
THEOREM QueueIsFifo == Spec => []SubmissionOrder
<1>1. OrderInv => SubmissionOrder
  BY DEF OrderInv
<1> QED
  BY <1>1, StoreInvariant, PTL

\* Two processes never register the same problem twice.
THEOREM ProblemRegisteredOnce == Spec => []OneProblemRow
<1>1. OrderInv => OneProblemRow
  BY DEF OrderInv, StoreInv, ProblemPart
<1> QED
  BY <1>1, StoreInvariant, PTL

\* The store implements AtomicStore: COMMIT is the instant at which a job's
\* rows appear, and every other step changes nothing a reader can see.
THEOREM StoreRefinesAtomicStore == Spec => ImplementsAtomicStore
<1> USE PartsAssumption, NamesAssumption
<1>1. Init => Abstract!Init
  BY DEF Init, Abstract!Init, Told, Rejected
<1>2. OrderInv /\ [Next]_vars => [Abstract!Next]_<<db, Told>>
  <2> SUFFICES ASSUME OrderInv, Next
               PROVE  Abstract!Next \/ UNCHANGED <<db, Told>>
    BY DEF vars, file, Told
  <2> USE DEF OrderInv, StoreInv, TypeOK, Told, Rejected, Outcomes, file
  <2>1. ASSUME NEW p \in Procs, NEW j \in Jobs, Submit(p, j)
        PROVE  Abstract!Submit(j)
    BY <2>1 DEF Submit, Abstract!Submit
  <2>2. ASSUME NEW p \in Procs,
               \/ Take(p) \/ Retry(p) \/ BeginOk(p) \/ FindOrRegister(p)
               \/ Write(p) \/ Close(p) \/ Reopen(p)
        PROVE  UNCHANGED <<db, Told>>
    BY <2>2 DEF Take, Retry, BeginOk, FindOrRegister, Write, Close, Reopen
  <2>3. ASSUME NEW p \in Procs,
               BeginFails(p) \/ WorkFails(p) \/ CommitFails(p)
        PROVE  Abstract!Reject(job[p]) \/ UNCHANGED <<db, Told>>
    <3>1. job[p] \in Jobs /\ outcome[job[p]] = "waiting" /\ db[job[p]] = 0
      BY <2>3 DEF BeginFails, WorkFails, CommitFails, HeadPart, RowsPart
    <3>2. /\ UNCHANGED db
          /\ \/ UNCHANGED outcome
             \/ \E r \in Rejected : outcome' = [outcome EXCEPT ![job[p]] = r]
      BY <2>3 DEF BeginFails, WorkFails, CommitFails, Fail, Settle
    <3> QED
      BY <3>1, <3>2 DEF Abstract!Reject
  <2>4. ASSUME NEW p \in Procs, CommitOk(p) PROVE Abstract!Apply(job[p])
    <3>1. job[p] \in Jobs /\ outcome[job[p]] = "waiting" /\ db[job[p]] = 0
      BY <2>4 DEF CommitOk, HeadPart, RowsPart
    <3> QED
      BY <2>4, <3>1 DEF CommitOk, Abstract!Apply
  <2>5. ASSUME NEW p \in Procs, Return(p) PROVE Abstract!Resolve(job[p])
    <3>1. job[p] \in Jobs /\ outcome[job[p]] = "waiting" /\ db[job[p]] = Parts
      BY <2>5 DEF Return, HeadPart, ReturningPart
    <3> QED
      BY <2>5, <3>1 DEF Return, Settle, Abstract!Resolve
  <2>6. ASSUME NEW p \in Procs, Crash(p) PROVE Abstract!Lose(Unsettled(p))
    BY <2>6 DEF Crash, RollBack, Unsettled, Abstract!Lose
  <2>7. \A p \in Procs : Unsettled(p) \in SUBSET Jobs
    BY DEF Unsettled
  <2>8. \A p \in Procs : job[p] # NoJob => job[p] \in Jobs
    OBVIOUS
  <2>9. \A p \in Procs : Step(p) /\ ~Take(p) => job[p] # NoJob
    BY DEF Step, Retry, BeginOk, BeginFails, FindOrRegister, Write, WorkFails,
           CommitOk, CommitFails, Return, HeadPart
  <2> HIDE DEF OrderInv, StoreInv, TypeOK, Told, Rejected, Outcomes, file
  <2>10. PICK p \in Procs : \/ Step(p) \/ Close(p) \/ Crash(p) \/ Reopen(p)
                            \/ \E j \in Jobs : Submit(p, j)
    BY DEF Next
  <2>11. CASE \E j \in Jobs : Submit(p, j)
    BY <2>1, <2>11 DEF Abstract!Next
  <2>12. CASE Crash(p)
    BY <2>6, <2>7, <2>12 DEF Abstract!Next
  <2>13. CASE Close(p) \/ Reopen(p) \/ Take(p)
    BY <2>2, <2>13
  <2>14. CASE Step(p) /\ ~Take(p)
    BY <2>2, <2>3, <2>4, <2>5, <2>8, <2>9, <2>14 DEF Step, Abstract!Next
  <2> QED
    BY <2>10, <2>11, <2>12, <2>13, <2>14
<1> QED
  BY <1>1, <1>2, StoreInvariant, PTL DEF Spec, ImplementsAtomicStore, Abstract!Spec

-----------------------------------------------------------------------------
(* Every submission has somebody who will answer it.                       *)

\* A kill takes the callers with the process, and a dead process takes no jobs.
LEMMA NextOwed == StoreInv /\ OwedPart /\ [Next]_vars => OwedPart'
<1> SUFFICES ASSUME StoreInv, OwedPart, [Next]_vars PROVE OwedPart'
  OBVIOUS
<1> USE NamesAssumption
    DEF StoreInv, TypeOK, HeadPart, SubmittedPart, OwedPart, file, scope, jobs
<1>1. CASE UNCHANGED vars
  BY <1>1 DEF vars
<1>2. ASSUME NEW p \in Procs, NEW j \in Jobs, Submit(p, j) PROVE OwedPart'
  BY <1>2 DEF Submit
<1>3. ASSUME NEW p \in Procs, Take(p) \/ Retry(p) \/ BeginOk(p) PROVE OwedPart'
  BY <1>3 DEF Take, Retry, BeginOk
<1>4. ASSUME NEW p \in Procs,
             BeginFails(p) \/ WorkFails(p) \/ CommitFails(p) \/ Return(p)
      PROVE  OwedPart'
  <2>1. /\ UNCHANGED jobs
        /\ \E x \in {"sleep", "idle"} : pc' = [pc EXCEPT ![p] = x]
        /\ \A j \in Jobs : outcome'[j] = "waiting" => outcome[j] = "waiting"
    BY <1>4 DEF BeginFails, WorkFails, CommitFails, Return, Fail, Settle, Rejected
  <2> QED
    BY <2>1
<1>5. ASSUME NEW p \in Procs, FindOrRegister(p) \/ Write(p) \/ CommitOk(p)
      PROVE  OwedPart'
  BY <1>5 DEF FindOrRegister, Write, CommitOk
<1>6. ASSUME NEW p \in Procs, Close(p) \/ Reopen(p) PROVE OwedPart'
  BY <1>6 DEF Close, Reopen
<1>7. ASSUME NEW p \in Procs, Crash(p) PROVE OwedPart'
  BY <1>7 DEF Crash, Unsettled
<1> QED
  BY <1>1, <1>2, <1>3, <1>4, <1>5, <1>6, <1>7 DEF Next, Step

\* A set of numbers that is not empty has a least one.
LEMMA Least == \A S \in SUBSET Nat : S # {} => \E m \in S : \A n \in S : m <= n
<1> SUFFICES ASSUME NEW S \in SUBSET Nat, S # {} PROVE \E m \in S : \A n \in S : m <= n
  OBVIOUS
<1>1. PICK m \in S : \A n \in S : <<n, m>> \notin OpToRel(<, Nat)
  <2> DEFINE R == OpToRel(<, Nat)
  <2>1. IsWellFoundedOn(R, Nat)
    BY NatLessThanWellFounded
  <2> HIDE DEF R
  <2>2. \E x \in S : \A n \in S : <<n, x>> \notin R
    BY <2>1, WFMin
  <2> QED
    BY <2>2 DEF R
<1>2. \A n \in S : ~(n < m)
  <2> TAKE n \in S
  <2>1. <<n, m>> \in Nat \X Nat
    OBVIOUS
  <2> QED
    BY <1>1, <2>1 DEF OpToRel
<1> QED
  BY <1>2

\* Whatever happened to the jobs ahead of it, a promise of transact() that has not
\* settled is at the head of a live chain, or behind one that has not settled
\* either, and an idle chain with jobs has a first one to start.
THEOREM NoTransactIsStranded == Spec => []NoJobIsStranded
<1>1. Init => OwedPart
  BY DEF Init, OwedPart
<1>2. OrderInv => StoreInv
  BY DEF OrderInv
<1>3. Spec => []OwedPart
  BY <1>1, <1>2, NextOwed, StoreInvariant, PTL DEF Spec
<1>4. OrderInv /\ OwedPart => NoJobIsStranded
  <2> SUFFICES ASSUME OrderInv, OwedPart, NEW j \in Jobs, outcome[j] = "waiting"
               PROVE  /\ owner[j] \in Procs /\ pc[owner[j]] # "down"
                      /\ pc[owner[j]] = "idle" =>
                            \E k \in Unsettled(owner[j]) :
                               \A m \in Unsettled(owner[j]) : place[k] <= place[m]
                      /\ pc[owner[j]] # "idle" => /\ job[owner[j]] \in Unsettled(owner[j])
                                                  /\ place[job[owner[j]]] <= place[j]
    BY DEF NoJobIsStranded
  <2>1. owner[j] \in Procs /\ pc[owner[j]] # "down" /\ j \in Unsettled(owner[j])
    BY DEF OrderInv, StoreInv, TypeOK, SubmittedPart, OwedPart, Unsettled
  <2>2. \E k \in Unsettled(owner[j]) : \A m \in Unsettled(owner[j]) : place[k] <= place[m]
    <3> DEFINE S == {place[k] : k \in Unsettled(owner[j])}
    <3>1. S \in SUBSET Nat /\ S # {}
      BY SMTT(30), <2>1 DEF OrderInv, StoreInv, TypeOK, Unsettled
    <3>2. PICK n \in S : \A m \in S : n <= m
      BY <3>1, Least
    <3> QED
      BY <3>2
  <2>3. ASSUME pc[owner[j]] # "idle"
        PROVE  job[owner[j]] \in Unsettled(owner[j]) /\ place[job[owner[j]]] <= place[j]
    <3>1. job[owner[j]] # NoJob /\ job[owner[j]] \in Jobs
      BY <2>1, <2>3 DEF OrderInv, StoreInv, TypeOK, HeadPart
    <3> QED
      BY <2>1, <3>1 DEF OrderInv, StoreInv, HeadPart, OrderPart, Unsettled
  <2> QED
    BY <2>1, <2>2, <2>3
<1> QED
  BY <1>3, <1>4, StoreInvariant, PTL
=============================================================================
