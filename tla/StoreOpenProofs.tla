-------------------------- MODULE StoreOpenProofs --------------------------
(***************************************************************************)
(* Theorems about the opening of the store, for any number of processes    *)
(* and any schema versions: the stamped version describes the file, a      *)
(* store is handed out only over the current schema, and the file of a     *)
(* newer build is left alone; migrations only move it forward, and an open *)
(* that fails for the schema was overtaken by one.                         *)
(***************************************************************************)
EXTENDS StoreOpen, TLAPS

USE DEF SCHEMA_VERSION

\* The schema of a version that exists.
LEMMA Schemas ==
    /\ SchemaOf(0) = {} /\ SchemaOf(1) = {"base"}
    /\ SchemaOf(2) = {"base", "replay"}
    /\ \A v \in Nat : v >= 3 => SchemaOf(v) = {"base", "replay", "plan"}
BY DEF SchemaOf

\* Every file that the store may find satisfies the invariant.
LEMMA InitOpenInv == Init => OpenInv
<1> SUFFICES ASSUME Init PROVE OpenInv
  OBVIOUS
<1>1. version \in Nat /\ failures \in 0 .. MaxFailures
  BY OnDiskAssumption, FailuresAssumption DEF Init
<1>2. tables \subseteq {"base", "replay", "plan"}
  BY <1>1 DEF Init, SchemaOf
<1> QED
  BY <1>1, <1>2 DEF Init, OpenInv, TypeOK, Phases, SchemaMatchesVersion, ReadPart,
                    CurrentPart

\* A step brings a file forward only from the version that it has read: what it
\* would create is missing only then.
LEMMA ApplyForward ==
    ASSUME OpenInv, NEW p \in Procs, pc[p] = "apply",
           (SchemaOf(Upgraded(read[p])) \ SchemaOf(read[p])) \cap tables = {}
    PROVE  version = read[p]
<1>1. version \in Nat /\ read[p] \in 0 .. 2 /\ read[p] <= version
      /\ tables = SchemaOf(version)
  BY DEF OpenInv, TypeOK, ReadPart, SchemaMatchesVersion
<1>2. CASE read[p] = 0
  BY <1>1, <1>2, Schemas DEF Upgraded
<1>3. CASE read[p] = 1
  BY <1>1, <1>3, Schemas DEF Upgraded
<1>4. CASE read[p] = 2
  BY <1>1, <1>4, Schemas DEF Upgraded
<1> QED
  BY <1>1, <1>2, <1>3, <1>4

\* The DDL of a step, or its roll-back.
LEMMA ApplyKeeps ==
    ASSUME OpenInv, NEW p \in Procs, Apply(p)
    PROVE  OpenInv'
<1> DEFINE created == SchemaOf(Upgraded(read[p])) \ SchemaOf(read[p])
<1> USE ProcAssumption
<1>1. /\ version \in Nat /\ read[p] \in 0 .. 2 /\ lock = p /\ pc[p] = "apply"
      /\ tables = SchemaOf(version)
  BY DEF OpenInv, TypeOK, ReadPart, SchemaMatchesVersion, Apply
<1>2. CASE created \cap tables = {}
  <2>1. version = read[p]
    BY <1>1, <1>2, ApplyForward
  <2>2. /\ version' = Upgraded(read[p]) /\ tables' = tables \cup created
        /\ lock' = NoProc /\ UNCHANGED <<sound, read, failures>>
        /\ pc' = [pc EXCEPT ![p] = IF read[p] = 1 THEN "version" ELSE "check"]
    BY <1>2 DEF Apply, Goto
  <2>3. /\ version' \in Nat /\ version < version' /\ version' <= 3
        /\ read[p] # 1 => version' = 3
        /\ tables' = SchemaOf(version')
        /\ tables' \subseteq {"base", "replay", "plan"}
    <3>1. CASE read[p] = 0
      BY <1>1, <2>1, <2>2, <3>1, Schemas DEF Upgraded
    <3>2. CASE read[p] = 1
      BY <1>1, <2>1, <2>2, <3>2, Schemas DEF Upgraded
    <3>3. CASE read[p] = 2
      BY <1>1, <2>1, <2>2, <3>3, Schemas DEF Upgraded
    <3> QED
      BY <1>1, <3>1, <3>2, <3>3
  <2>4. TypeOK'
    BY <2>2, <2>3 DEF OpenInv, TypeOK, Phases
  <2>5. ReadPart'
    BY <1>1, <2>2, <2>3 DEF OpenInv, TypeOK, ReadPart
  <2>6. CurrentPart'
    BY <1>1, <2>2, <2>3 DEF OpenInv, TypeOK, CurrentPart
  <2> QED
    BY <2>3, <2>4, <2>5, <2>6 DEF OpenInv, SchemaMatchesVersion
<1>3. CASE created \cap tables # {}
  BY <1>1, <1>3 DEF Apply, Goto, OpenInv, TypeOK, Phases, ReadPart, CurrentPart,
                    SchemaMatchesVersion
<1> QED
  BY <1>2, <1>3

\* Every step preserves the invariant.
LEMMA NextOpenInv == OpenInv /\ [Next]_vars => OpenInv'
<1> SUFFICES ASSUME OpenInv, [Next]_vars PROVE OpenInv'
  OBVIOUS
<1> USE ProcAssumption, FailuresAssumption
    DEF OpenInv, TypeOK, Phases, SchemaMatchesVersion, ReadPart, CurrentPart, Goto, file
<1>1. CASE UNCHANGED vars
  BY <1>1 DEF vars
<1>2. ASSUME NEW p \in Procs,
             Open(p) \/ Configure(p) \/ ReadTables(p) \/ Check(p) \/ OpenReader(p)
             \/ Again(p)
      PROVE  OpenInv'
  BY <1>2, Schemas DEF Open, Configure, ReadTables, Check, OpenReader, Again
<1>3. ASSUME NEW p \in Procs, ReadVersion(p)
      PROVE  OpenInv'
  BY <1>3 DEF ReadVersion
<1>4. ASSUME NEW p \in Procs, Begin(p) \/ Recover(p) \/ Update(p)
      PROVE  OpenInv'
  BY <1>4 DEF Begin, Recover, Update
<1>5. ASSUME NEW p \in Procs, Fails(p) \/ Crash(p)
      PROVE  OpenInv'
  BY <1>5 DEF Fails, Crash
<1> QED
  BY <1>1, <1>2, <1>3, <1>4, <1>5, ApplyKeeps DEF Next, Step

-----------------------------------------------------------------------------
(* The theorems.                                                           *)

\* The inductive invariant holds in every reachable state.
THEOREM OpenInvariant == Spec => []OpenInv
<1> QED
  BY InitOpenInv, NextOpenInv, PTL DEF Spec

\* Every variable keeps its type, and DDL is only run on a version that
\* migrate() knows how to bring forward.
THEOREM OpenTypeCorrect == Spec => []TypeOK
<1>1. OpenInv => TypeOK
  BY DEF OpenInv
<1> QED
  BY <1>1, OpenInvariant, PTL

\* user_version describes the tables of the file at every instant.
THEOREM VersionDescribesFile == Spec => []SchemaMatchesVersion
<1>1. OpenInv => SchemaMatchesVersion
  BY DEF OpenInv
<1> QED
  BY <1>1, OpenInvariant, PTL

\* openSqliteStore() hands out a store only over a sound file of this build's
\* schema, and it stays so.
THEOREM OpenStoreIsCurrent == Spec => []OpenIsCurrent
<1>1. OpenInv => OpenIsCurrent
  BY DEF OpenInv, CurrentPart, OpenIsCurrent
<1> QED
  BY <1>1, OpenInvariant, PTL

\* migrate() does not touch the file of a newer build.
THEOREM NewerFileIsUntouched == Spec => NewerIsUntouched
<1>1. OpenInv /\ [Next]_vars => [version > SCHEMA_VERSION => UNCHANGED <<version, tables>>]_vars
  <2> SUFFICES ASSUME OpenInv, NEW p \in Procs, Step(p) \/ Fails(p) \/ Crash(p),
                      version > SCHEMA_VERSION
               PROVE  UNCHANGED <<version, tables>>
    BY DEF Next
  <2>1. CASE Apply(p)
    <3>1. version # read[p]
      BY <2>1 DEF OpenInv, ReadPart, Apply
    <3> QED
      BY <2>1, <3>1, ApplyForward DEF Apply
  <2>2. CASE ~Apply(p)
    BY <2>2 DEF Step, Open, Configure, ReadVersion, ReadTables, Begin, Check, Recover,
                Update, OpenReader, Again, Fails, Crash, file
  <2> QED
    BY <2>1, <2>2
<1> QED
  BY <1>1, OpenInvariant, PTL DEF Spec, NewerIsUntouched

\* A migration is one atomic step forward from the version that is stamped.
THEOREM MigrationsMoveForward == Spec => MovesForward
<1>1. OpenInv /\ [Next]_vars =>
        [version' # version => /\ version \in 0 .. 2
                               /\ version' = Upgraded(version)
                               /\ tables' = SchemaOf(version')]_vars
  <2> SUFFICES ASSUME OpenInv, NEW p \in Procs, Step(p) \/ Fails(p) \/ Crash(p),
                      version' # version
               PROVE  /\ version \in 0 .. 2 /\ version' = Upgraded(version)
                      /\ tables' = SchemaOf(version')
    BY DEF Next, vars, file
  <2>1. Apply(p)
    BY DEF Step, Fails, Crash, Open, Configure, ReadVersion, ReadTables, Begin,
       Check, Recover, Update, OpenReader, Again, file
  <2>2. /\ pc[p] = "apply"
        /\ (SchemaOf(Upgraded(read[p])) \ SchemaOf(read[p])) \cap tables = {}
        /\ version' = Upgraded(read[p])
    BY <2>1 DEF Apply
  <2>3. version = read[p] /\ version \in 0 .. 2
    BY <2>2, ApplyForward DEF OpenInv, ReadPart
  <2>4. OpenInv'
    BY NextOpenInv DEF Next
  <2>. QED
    BY <2>2, <2>3, <2>4 DEF OpenInv, SchemaMatchesVersion
<1>. QED
  BY <1>1, OpenInvariant, PTL DEF Spec, MovesForward

\* An open that fails for the schema's sake was overtaken, or the file is newer:
\* the safety core of EveryoneOpens, for the versions of a file only grow.
THEOREM OnlyTheOvertakenFail == Spec => RefusalsAreExcused
<1>1. OpenInv /\ [Next]_vars =>
        [\A p \in Procs :
            \/ pc[p] # "unsupported" /\ pc'[p] = "unsupported"
            \/ pc[p] = "apply" /\ pc'[p] = "failed"
            => version > SCHEMA_VERSION \/ read'[p] < version]_vars
  <2> SUFFICES ASSUME OpenInv, NEW q \in Procs, Step(q) \/ Fails(q) \/ Crash(q),
                      NEW p \in Procs,
                      \/ pc[p] # "unsupported" /\ pc'[p] = "unsupported"
                      \/ pc[p] = "apply" /\ pc'[p] = "failed"
               PROVE  version > SCHEMA_VERSION \/ read'[p] < version
    BY DEF Next, vars
  <2>0. /\ pc \in [Procs -> Phases] /\ read \in [Procs -> Nat] /\ version \in Nat
        /\ tables = SchemaOf(version)
    BY DEF OpenInv, TypeOK, SchemaMatchesVersion
  <2>1. CASE ReadVersion(q)
    BY <2>0, <2>1 DEF ReadVersion, Goto, SCHEMA_VERSION
  <2>2. CASE ReadTables(q)
    <3>1. p = q /\ pc[p] = "tables" /\ tables # {} /\ read'[p] = read[p]
      BY <2>0, <2>2 DEF ReadTables, Goto
    <3>2. version # 0
      BY <2>0, <3>1, Schemas
    <3>3. read[p] = 0
      BY <3>1 DEF OpenInv, ReadPart
    <3>. QED  BY <2>0, <3>1, <3>2, <3>3
  <2>3. CASE Apply(q)
    <3>1. /\ p = q /\ pc[p] = "apply" /\ read'[p] = read[p]
          /\ (SchemaOf(Upgraded(read[p])) \ SchemaOf(read[p])) \cap tables # {}
      BY <2>0, <2>3 DEF Apply, Goto
    <3>2. version # read[p] /\ read[p] <= version
      BY <2>0, <3>1 DEF OpenInv, ReadPart
    <3>. QED  BY <2>0, <3>1, <3>2
  <2>4. CASE ~ReadVersion(q) /\ ~ReadTables(q) /\ ~Apply(q)
    BY <2>0, <2>4 DEF Step, Fails, Crash, Open, Configure, Begin, Check, Recover,
       Update, OpenReader, Again, Goto
  <2>. QED
    BY <2>1, <2>2, <2>3, <2>4
<1>. QED
  BY <1>1, OpenInvariant, PTL DEF Spec, RefusalsAreExcused

\* The write lock is never held by a process that is waiting or gone, wherever
\* opens fail and processes are killed.
THEOREM NobodyWaitsForTheDead == Spec => []LockIsNeverStuck
<1>1. Init => LockIsNeverStuck
  BY DEF Init, LockIsNeverStuck
<1>2. OpenInv /\ LockIsNeverStuck /\ [Next]_vars => LockIsNeverStuck'
  <2> SUFFICES ASSUME OpenInv, LockIsNeverStuck, [Next]_vars
               PROVE  LockIsNeverStuck'
    OBVIOUS
  <2>0. pc \in [Procs -> Phases]
    BY DEF OpenInv, TypeOK
  <2>1. ASSUME NEW p \in Procs, Step(p) \/ Fails(p) \/ Crash(p)
        PROVE  LockIsNeverStuck'
    <3>1. CASE Begin(p) \/ Recover(p)
      BY <2>0, <3>1 DEF Begin, Recover, Goto, LockIsNeverStuck
    <3>2. CASE Apply(p) \/ Update(p)
      BY <3>2 DEF Apply, Update, LockIsNeverStuck
    <3>3. CASE Crash(p)
      BY <2>0, <3>3 DEF Crash, Goto, LockIsNeverStuck
    <3>4. CASE Fails(p)
      BY <2>0, <3>4 DEF Fails, Goto, LockIsNeverStuck
    <3>5. CASE \/ Open(p) \/ Configure(p) \/ ReadVersion(p) \/ ReadTables(p)
               \/ Check(p) \/ OpenReader(p) \/ Again(p)
      BY <2>0, <3>5 DEF Open, Configure, ReadVersion, ReadTables, Check,
         OpenReader, Again, Goto, LockIsNeverStuck
    <3>. QED  BY <2>1, <3>1, <3>2, <3>3, <3>4, <3>5 DEF Step
  <2>2. UNCHANGED vars => LockIsNeverStuck'
    BY DEF vars, LockIsNeverStuck
  <2>. QED  BY <2>1, <2>2 DEF Next
<1>. QED
  BY <1>1, <1>2, OpenInvariant, PTL DEF Spec
=============================================================================
