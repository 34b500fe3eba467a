----------------------------- MODULE StoreOpen -----------------------------
(***************************************************************************)
(* openSqliteStore() (src/src/persistence/sqlite/store.ts) in several      *)
(* processes that open one database file at the same time: configuration,  *)
(* migrate(), runStartupRecovery(), the reader.                            *)
(*                                                                         *)
(* Every statement runs synchronously, so one process is sequential, but   *)
(* between two statements another process may change the file, unless the  *)
(* first one is inside BEGIN IMMEDIATE ... COMMIT.                         *)
(***************************************************************************)
EXTENDS Naturals

CONSTANTS
    Procs,        \* judge processes opening the same file
    NoProc,       \* nobody holds the write lock
    OnDisk,       \* schema versions the file may have at first
    MaxFailures   \* bound: kills and failed opens

SCHEMA_VERSION == 3

\* What SCHEMA_DDL and the two migrations leave in the file.
SchemaOf(v) ==
    CASE v = 0 -> {}
      [] v = 1 -> {"base"}
      [] v = 2 -> {"base", "replay"}
      [] OTHER -> {"base", "replay", "plan"}

ASSUME OnDiskAssumption   == OnDisk \subseteq Nat
ASSUME FailuresAssumption == MaxFailures \in Nat
ASSUME ProcAssumption     == NoProc \notin Procs

VARIABLES
    version,   \* PRAGMA user_version of the file
    tables,    \* what the file contains
    sound,     \* integrity_check and foreign_key_check find nothing
    lock,      \* the process that holds the write lock
    pc,        \* pc[p]: the next statement of openSqliteStore()
    read,      \* read[p]: the user_version migrate() has read
    failures   \* kills and failed opens so far

file == <<version, tables, sound>>
vars == <<file, lock, pc, read, failures>>

\* The statements at which openSqliteStore() can be; "failed" stands for the
\* errors other than SchemaVersionError, which is "unsupported".
Phases == {"closed", "configure", "version", "tables", "begin", "apply",
           "check", "recover", "update", "reader", "open",
           "failed", "unsupported"}

Init ==
    /\ version \in OnDisk
    /\ tables = SchemaOf(version)
    /\ sound \in BOOLEAN
    /\ lock = NoProc
    /\ pc = [p \in Procs |-> "closed"]
    /\ read = [p \in Procs |-> 0]
    /\ failures = 0

Goto(p, label) == pc' = [pc EXCEPT ![p] = label]

-----------------------------------------------------------------------------

\* mkdir, assertLocalFilesystem, openWriter.
Open(p) ==
    /\ pc[p] = "closed"
    /\ Goto(p, "configure")
    /\ UNCHANGED <<file, lock, read, failures>>

\* configureConnection(), and the errors that can stop an open before migrate().
Configure(p) ==
    /\ pc[p] = "configure"
    /\ Goto(p, "version")
    /\ UNCHANGED <<file, lock, read, failures>>

\* An error that is not caused by the schema: a path that is not local, no WAL,
\* the lock not free within the busy timeout (there is no retry here).
Fails(p) ==
    /\ failures < MaxFailures
    /\ pc[p] \in {"configure", "reader"} \/ (pc[p] \in {"begin", "recover"} /\ lock # NoProc)
    /\ Goto(p, "failed")
    /\ failures' = failures + 1
    /\ UNCHANGED <<file, lock, read>>

\* Mutant of ReadVersion: every version is taken for an upgradable one.
ReadVersionTrusting(p) ==
    /\ pc[p] = "version"
    /\ read' = [read EXCEPT ![p] = version]
    /\ Goto(p, CASE version = SCHEMA_VERSION -> "check"
                 [] version = 0              -> "tables"
                 [] OTHER                    -> "begin")
    /\ UNCHANGED <<file, lock, failures>>

\* migrate(): the first read and the branch it decides.
ReadVersion(p) ==
    /\ pc[p] = "version"
    /\ read' = [read EXCEPT ![p] = version]
    /\ Goto(p, CASE version = SCHEMA_VERSION -> "check"
                 [] version = 0              -> "tables"
                 [] version \in {1, 2}       -> "begin"
                 [] OTHER                    -> "unsupported")
    /\ UNCHANGED <<file, lock, failures>>

\* isEmptyDatabase(): a file with version 0 and tables is not ours.
ReadTables(p) ==
    /\ pc[p] = "tables"
    /\ Goto(p, IF tables = {} THEN "begin" ELSE "unsupported")
    /\ UNCHANGED <<file, lock, read, failures>>

\* BEGIN IMMEDIATE of applySchema() or of a migration step.
Begin(p) ==
    /\ pc[p] = "begin"
    /\ lock = NoProc
    /\ lock' = p
    /\ Goto(p, "apply")
    /\ UNCHANGED <<file, read, failures>>

\* The version a step starting from v stamps.
Upgraded(v) == IF v = 1 THEN 2 ELSE SCHEMA_VERSION

\* Mutant of Apply: CREATE TABLE IF NOT EXISTS, without the transaction.
ApplyIfNotExists(p) ==
    /\ pc[p] = "apply"
    /\ lock' = NoProc
    /\ tables' = tables \cup (SchemaOf(Upgraded(read[p])) \ SchemaOf(read[p]))
    /\ version' = Upgraded(read[p])
    /\ Goto(p, IF read[p] = 1 THEN "version" ELSE "check")
    /\ UNCHANGED <<sound, read, failures>>

\* Mutant of Apply: the failed transaction is not rolled back.
ApplyNoRollBack(p) ==
    LET created == SchemaOf(Upgraded(read[p])) \ SchemaOf(read[p])
    IN  /\ pc[p] = "apply"
        /\ IF created \cap tables = {}
           THEN /\ tables' = tables \cup created
                /\ version' = Upgraded(read[p])
                /\ lock' = NoProc
                /\ Goto(p, IF read[p] = 1 THEN "version" ELSE "check")
           ELSE /\ Goto(p, "failed")
                /\ UNCHANGED <<tables, version, lock>>
        /\ UNCHANGED <<sound, read, failures>>

\* The DDL, the stamp and COMMIT.  CREATE TABLE and ADD COLUMN fail when what
\* they create is there already; the transaction is rolled back.  The step from
\* version 1 calls migrate() again.
Apply(p) ==
    LET created == SchemaOf(Upgraded(read[p])) \ SchemaOf(read[p])
    IN  /\ pc[p] = "apply"
        /\ lock' = NoProc
        /\ IF created \cap tables = {}
           THEN /\ tables' = tables \cup created
                /\ version' = Upgraded(read[p])
                /\ Goto(p, IF read[p] = 1 THEN "version" ELSE "check")
           ELSE /\ Goto(p, "failed")
                /\ UNCHANGED <<tables, version>>
        /\ UNCHANGED <<sound, read, failures>>

\* runStartupRecovery(): the integrity checks.
Check(p) ==
    /\ pc[p] = "check"
    /\ Goto(p, IF sound THEN "recover" ELSE "failed")
    /\ UNCHANGED <<file, lock, read, failures>>

\* Its UPDATE, in a transaction of its own.
Recover(p) ==
    /\ pc[p] = "recover"
    /\ lock = NoProc
    /\ lock' = p
    /\ Goto(p, "update")
    /\ UNCHANGED <<file, read, failures>>

Update(p) ==
    /\ pc[p] = "update"
    /\ lock' = NoProc
    /\ Goto(p, "reader")
    /\ UNCHANGED <<file, read, failures>>

\* The reader is opened and configured, and the store is handed out.
OpenReader(p) ==
    /\ pc[p] = "reader"
    /\ Goto(p, "open")
    /\ UNCHANGED <<file, lock, read, failures>>

\* The process is killed; an open transaction is undone.
Crash(p) ==
    /\ pc[p] # "closed"
    /\ failures < MaxFailures
    /\ failures' = failures + 1
    /\ lock' = IF lock = p THEN NoProc ELSE lock
    /\ Goto(p, "closed")
    /\ UNCHANGED <<file, read>>

\* The user runs the command again.
Again(p) ==
    /\ pc[p] \in {"failed", "unsupported"}
    /\ Goto(p, "closed")
    /\ UNCHANGED <<file, lock, read, failures>>

-----------------------------------------------------------------------------

Step(p) ==
    \/ Open(p) \/ Configure(p) \/ ReadVersion(p) \/ ReadTables(p) \/ Begin(p)
    \/ Apply(p) \/ Check(p) \/ Recover(p) \/ Update(p) \/ OpenReader(p)
    \/ Again(p)

Next == \E p \in Procs : Step(p) \/ Fails(p) \/ Crash(p)

Spec == Init /\ [][Next]_vars

\* A process that has begun goes on, and a user whose open failed tries again.
FairSpec == Spec /\ \A p \in Procs : WF_vars(Step(p))
-----------------------------------------------------------------------------
(* Properties.                                                             *)

\* The type of every variable, and DDL is only ever run on a file whose version
\* was one of those that migrate() knows how to bring forward.
TypeOK ==
    /\ version \in Nat
    /\ tables \subseteq {"base", "replay", "plan"}
    /\ sound \in BOOLEAN
    /\ lock \in Procs \cup {NoProc}
    /\ pc \in [Procs -> Phases]
    /\ read \in [Procs -> Nat]
    /\ failures \in 0 .. MaxFailures
    /\ \A p \in Procs : pc[p] \in {"begin", "apply"} => read[p] \in 0 .. 2

\* The stamped version always describes what the file contains, whoever is
\* migrating it, in however many steps, and wherever a process is killed.
SchemaMatchesVersion == tables = SchemaOf(version)

\* A store is handed out only over a sound file with the current schema, and
\* no process that migrates later takes the schema away from under it.
OpenIsCurrent ==
    \A p \in Procs :
        pc[p] = "open" => sound /\ version = SCHEMA_VERSION

\* A file written by a newer build is refused and left as it is.
NewerIsUntouched ==
    [][version > SCHEMA_VERSION => UNCHANGED <<version, tables>>]_vars

\* Processes that open a fresh or an old file together may fail against each
\* other, but as long as their users try again all of them get the store.
EveryoneOpens ==
    (sound /\ version <= SCHEMA_VERSION)
        => \A p \in Procs : <>[](pc[p] = "open")

\* A migration is one atomic step forward, content and stamp together, and there
\* are at most two of them in the life of a file.
MovesForward ==
    [][version' # version => /\ version \in 0 .. 2
                             /\ version' = Upgraded(version)
                             /\ tables' = SchemaOf(version')]_vars

\* An open is refused for the file's schema only if the file is a newer build's,
\* or if another process has moved it forward since migrate() read its version:
\* nobody fails twice against the same migration.
RefusalsAreExcused ==
    [][\A p \in Procs :
          \/ pc[p] # "unsupported" /\ pc'[p] = "unsupported"
          \/ pc[p] = "apply" /\ pc'[p] = "failed"
          => version > SCHEMA_VERSION \/ read'[p] < version]_vars

\* Whoever holds the write lock is at a statement that waits for nobody.
LockIsNeverStuck ==
    lock # NoProc => lock \in Procs /\ pc[lock] \in {"apply", "update"}
-----------------------------------------------------------------------------
(* The inductive invariant behind the theorems of StoreOpenProofs.         *)

\* The version that migrate() has read may be out of date, but versions only
\* grow, and DDL and recovery run under the lock.
ReadPart ==
    \A p \in Procs :
        /\ pc[p] \in {"tables", "begin", "apply"} =>
              read[p] \in 0 .. 2 /\ read[p] <= version
        /\ pc[p] = "tables" => read[p] = 0
        /\ pc[p] \in {"apply", "update"} => lock = p

\* From the integrity checks on a process works on the current schema, and from
\* recovery on it knows that the file is sound.
CurrentPart ==
    \A p \in Procs :
        /\ pc[p] \in {"check", "recover", "update", "reader", "open"} =>
              version = SCHEMA_VERSION
        /\ pc[p] \in {"recover", "update", "reader", "open"} => sound

OpenInv == TypeOK /\ SchemaMatchesVersion /\ ReadPart /\ CurrentPart
=============================================================================
