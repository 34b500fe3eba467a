# Verification of the palestra judge

TLA+ models of the judge's concurrent and crash-exposed parts and of the format
in which it talks to its Python harness, the TLC configurations that check them,
and TLAPS proofs about them. The program is the
TypeScript source under `src/src/` (one Node process, one SQLite file per
workspace, one child process tree per execution); its Python harness is the code
that runs inside that child.

1. [The system](#1-the-system): inventory of components
2. [The modules](#2-the-modules): what each models and how it corresponds to the code
3. [The runs](#3-the-runs): what is checked, bounds, fairness
4. [The proofs](#4-the-proofs)
5. [What the models taught](#5-what-the-models-taught): disagreements and remarks
6. [Not modelled](#6-not-modelled) and [plan](#7-plan)

Line numbers refer to the files of this commit. The exact lines behind each
definition are the `map` of `PROJECT.json`.

## 1. The system

| component | code | state | operations | interacts with |
|---|---|---|---|---|
| watch mediator | `watch/scheduler.ts`, `rescan.ts`, `contracts.ts` | per target: generation, snapshot, debounce timer, rescan in flight, deferred trigger, pending and active run; global: queue, `activeSlots`, `observing`, `draining` | `start`, `hint`, `hintAll`, `drain`, the timer, the continuations of scans, `run()`, `commit()` | scans the disk; calls `run`/`commit` of the watch command; emits facts |
| watch command | `application/watch-command.ts` | the observer's subscription, the abort promise | subscribe, start, translate facts into hints, drain, render | mediator, shutdown, store |
| durable store, write path | `persistence/sqlite/writer-queue.ts`, `transaction-scope.ts`, `store.ts` | the promise chain, the writer connection, SQLite's write lock | `transact`, busy retry, BEGIN/COMMIT/ROLLBACK, `close` | other judge processes, through the file |
| durable store, open | `schema.ts`, `recovery.ts`, `store.ts` | `user_version`, the tables | configure, migrate, recover, open the reader | other processes that open the file |
| store data mapping | `persistence/sqlite/` (mapping, repositories, export, retention) | rows | one statement per method | write path |
| sandbox | `execution/linux-sandbox.ts`, `cgroup.ts`, `reaper.ts`, `output-collector.ts`, `classify.ts` | the run's stop reason, the reaper, byte counts, the cgroup directory; in the kernel: process group, cgroup members, open pipes | set up, spawn, join the cgroup, feed, collect, stop, reap, sample, remove | cancellation token, the target's process tree |
| Python runner | `execution/python-linux-runner.ts` | none | builds argv, environment, policy | sandbox |
| shutdown and cancellation | `cli/shutdown.ts`, `cli/cancellation.ts`, `cli/main.ts`, `cli/context.ts` | active work, cleanups, latched reason, one store per process | signals, begin/complete work, close in order, render once | every command |
| test command | `application/test-command.ts` | a pool over the cases, results by index | run the cases, artifact, one transaction | runner, store |
| stress test command | `application/stress-test-command.ts` | pool: next index, completed count, findings, stop flags | claim a case, three executions, answer, shrink, persist | runner, store |
| stress test: finding | `stress-test-command.ts`, `infrastructure/fuzz-artifact.ts` | what was found and minimized so far; the artifact's directory | shrink, write the temporary directory, rename, one transaction | runner, disk, store |
| replay command | `application/replay-command.ts` | none that outlives a call | read the artifact, run twice, one transaction | artifacts, runner, store |
| benchmark command | `application/benchmark-command.ts` | hashes, samples, canceled flag | hash, validate, repetitions, one transaction | runner, store |
| init command | `application/init-command.ts` | the directory it made | make, write, register, remove on failure | disk, store |
| codec | `judging/codec/` | none | both directions of the canonical format, with budgets | every execution |
| problem configuration | `infrastructure/problem.ts`, `application/run-context.ts` | none | a parsed `problem.yaml` to signature, limits and assets, or a refusal | every command but init and report |
| case reader | `application/fixed-cases.ts`, `judging/leetcode.ts` | none | JSON of a case file, one case or a group, to values by the declared types | test, benchmark |
| comparator | `judging/comparator/` | none | first mismatch of two values, with its path | test, stress, replay |
| Python harness | `execution/runtimes/python/harness/` | one request | decode, call the target, encode | the codec, in another language |
| benchmark statistics and environment, report, telemetry, command line, domain types | `application/`, `telemetry/`, `infrastructure/`, `cli/`, `domain/` | none shared | arithmetic, formatting, validation, parsing | all |

What is hard here, and what makes each part correct:

- **Mediator.** Everything happens between two awaits of somebody else: a hint
  during a rescan, a change during the freshness scan, a drain during both.
  Correct: slots are counted exactly and not left idle; the newest generation
  wins; no run disappears without a fact; a verdict belongs to the content it
  names; the last content saved is judged; a drain ends, and then nothing moves.
- **Write path.** Several processes, contention at each of three statements,
  retries that re-run a callback, kills at every statement, `close()` in the
  middle. Correct: a promise tells the truth about the rows, jobs are not
  reordered, the lock is not leaked, find-or-register is atomic, promises settle.
- **Open.** `migrate()` reads outside the transaction that writes. Correct: the
  stamped version describes the content at all times, a store is handed out only
  over the current schema, a newer file is not touched.
- **Sandbox.** The wall timer, the output caps, cancellation, the child's exit
  and a reaper that works while the tree forks. Correct: a stopped run leaves
  nothing running that it could reach, and what stopped a run is what it is
  reported as; a pass is earned; a run ends.
- **Stress pool.** Workers share counters over awaits and finish in any order.
  Correct: each case once, the finding a sequential run would report, "passed"
  only for all cases, an answer always.
- **Test run and shutdown.** The user may interrupt at every await between the
  first case file and the rendered answer. Correct: only a whole run is persisted,
  the answer agrees with the store, the store is closed after the work that uses
  it, an answer always comes.
- **The commands of one project.** Files, rows and answers are written one after
  the other, while the user saves `solution.py`, deletes artifacts and presses
  Ctrl-C, and other processes do the same. Correct: an answer and the rows agree; a
  row names a file that exists; the minimized input still fails as recorded; a
  replay's verdict is about what was run; rows name the content that was run; a
  benchmark is whole, uncanceled and validated; init is all or nothing.
- **The problem and its cases.** A user writes `problem.yaml` and the case files by
  hand, `init` writes the first ones. Correct: a target is called with what the
  signature declares and with nothing of a file that cannot be read to its end; what
  `init` writes is a problem that runs.
- **The wire.** One format, implemented four times in two languages (two encoders,
  two decoders), with three readings of a tree, two of a number and a budget on
  each side. Correct: a target that returns the expected value passes; nothing else
  does; a message has one spelling; one side accepts what the other writes; an
  answer that cannot be read is a verdict and not a failure of the command.

## 2. The modules

| module | role |
|---|---|
| `RunLedger` | abstract: what the mediator promises about the runs of its targets |
| `WatchMediator` | the mediator with its environment (files, observer); implements `RunLedger` |
| `WatchMediatorProofs` | theorems about it, the refinement among them |
| `AtomicStore` | abstract: what `transact()` promises |
| `SqliteStore` | the write path in several processes; implements `AtomicStore` |
| `SqliteStoreProofs` | theorems about it, the refinement among them |
| `StoreOpen` | `openSqliteStore()` in several processes |
| `StoreOpenProofs` | theorems about it |
| `Sandbox` | one sandboxed run and its verdict |
| `SandboxProofs` | theorems about it |
| `StressCases` | the pool of `stress-test` and its answer |
| `StressCasesProofs` | theorems about it |
| `TestRun` | one `test` from dispatch to answer, with signals and shutdown; composed with `AtomicStore` |
| `TestRunProofs` | theorems about it |
| `CanonicalOrder` | the order of canonical texts, shared by all encoders and decoders |
| `Codec` | the host's canonical format: both directions, order, uniqueness, budgets |
| `Harness` | the Python side: its codec, its adapters, the call of a target |
| `LeetCode` | values from JSON, by the declared types |
| `Problem` | signature, limits and assets from a parsed `problem.yaml`; the one that `init` writes |
| `CaseFile` | the cases of one file |
| `Comparator` | `semanticMismatch()` |
| `Wire` | the trip of one case through all six |
| `WireProofs` | theorems about the order, the codec and the trip |
| `Workspace` | what the commands of one project share: directory, artifacts, rows, processes, the user |
| `InitProblem`, `StressFinding`, `Replay`, `Benchmark` | one command each, over `Workspace` |
| `Commands` | the four beside each other; the properties and the invariant |
| `CommandsProofs` | theorems about it |
| `MC*` | model-value symmetry and finite instances for TLC; no definition of a module is replaced |

Definitions whose comment begins with "Mutant" are variations of the
definition they precede, the way a plausible bug would change it. No model uses
them; they exist to show that the properties can fail.

### RunLedger and WatchMediator

One JavaScript object, so a handler is atomic up to its next `await`. Every
action is one such segment, and a scan is two: the read of the disk and the
continuation that uses what was read. The content of a target's files is one
version number, which is what a `WatchTargetSnapshot` tells apart.

| action | code in `scheduler.ts` |
|---|---|
| `Start`, `StartScan`, `StartPlace`, `StartPump` | `start()`: the per-target part up to the scan, the scan, its continuation with `replacePending()`, the `pump()` after `Promise.all` |
| `Hint`, `HintAll` | `hint()`, `hintAll()`: arm the debounce timer |
| `TimerFires` | `confirmChange()` up to its first await, or the deferral of a hint when a rescan is in flight |
| `RescanReads`, `StableReads` | the two scans of `stableWatchSnapshot()` |
| `RescanIgnored`, `RescanUnstable`, `RescanConfirms` | the continuation of `confirmChange()` with its `finally` (`RescanEnds`), `replacePending()`, the cancellation of the active run and `pump()` |
| `RunReads`, `RunResolves`, `RunIsStale`, `RunRejects` | `run()` as the mediator sees it: it reads the files some time while it executes, then resolves or rejects |
| `CheckReads`, `CheckFails`, `CommitBegins`, `CommitResolves`, `CommitRejects` | the rest of `execute()`: `isSnapshotCurrent()`, `commit()`, and the `finally` (`Settle`) that frees the slot, pumps and finishes a drain |
| `Drain` | `drain()` |
| `Edit` | the user |

`queue` is an array without duplicates. It is kept as the set of its members and,
for each, the set of those ahead of it, which is the same information and lets
the provers reason about the loop of `pump()` as one set-valued step: the loop
starts the eligible targets that have fewer eligible targets ahead of them than
there were free slots (`Started`).

`persisted` means that `commit()` resolved. For a run that ended canceled or with
invalid input the watch command's `commit` writes no row and still resolves.

`RunLedger` is the same seen from outside: a target's runs are numbered in the order
of their scheduling, and each waits, executes, and ends committed or named in a
`watch.cancel` fact. A newer run takes the place of the one that waits and cancels
the one that executes; as many runs begin as there are free slots, which ones is left
open; a run is approved only while it is not canceled, and only an approved run is
committed, after every older one. It has no files, timers, scans or queue. The
mapping: `closed <- draining # "none"`, `scheduled <- runs`, `waiting` and `executing`
are the ids in `pending` and `active`, `approved` the targets whose run is past the
test at `scheduler.ts:300` (`Approved`), `told <- reported`, `committed` the ids in
`persisted`. Approval and commit are two steps because the freshness scan between
them is awaited, and what happens there no longer stops the commit.

### AtomicStore and SqliteStore

`SqliteStore` is `transact()` in several processes: the chain of `WriterQueue`
(`Submit`, `Take`, `Settle`), `withBusyRetry` (`Fail`, `Retry`), and one attempt
of `runOnce` statement by statement (`BeginOk`/`BeginFails`, `FindOrRegister`,
`Write`, `WorkFails`, `CommitOk`/`CommitFails`, `Return`), with `Close`, `Crash`
and `Reopen`. `FindOrRegister` and `Write` are the transaction of the `test`
command: find the problem by slug, register it when absent, then the inserts.
Each statement may fail, busy or otherwise, wherever the connection allows that.
SQLite is external: one write lock per file, uncommitted rows visible to nobody
else, a dead connection's transaction undone.

`AtomicStore` says what a caller may rely on: rows appear all at once and at most
once; resolved means they are there, rejected that they are not. A caller that
dies in between is told nothing. `SqliteStore` implements it with `rows <- db`
and `outcome <- Told` (the three reasons for a rejection are one).

### StoreOpen

One action per statement of `openSqliteStore()`: `migrate()`'s read of the
version, its separate read of whether the file is empty, the transaction of each
step (`Begin`, `Apply`), the integrity checks, the recovery transaction, the
reader. A file starts with any schema version, sound or damaged; a process may
be killed at every statement. `Again` is a user who runs the command once more.

### Sandbox

One call of `run()`, split at its awaits, with the reaper (`ReaperKills`,
`ReaperSweeps`) and the data events as actors of their own, and a target that
forks, leaves its process group, closes its pipes, writes, exits and crashes as
it likes. `contained` distinguishes a run with a cgroup from `--unsafe-local`.
Output is counted in units of which a stream may keep `Cap`; the resource
counters are one set of breaches, chosen when they are sampled. `Verdict` is
`observedCauses()` and `mostSevere()` for the causes a sandbox run can show.
The kernel is external: what a signal and `cgroup.kill` reach.

### StressCases

`executeCases()` with its workers, the three executions of `runCase()` and the
answer of `executeStressTestCommand()`. What the programs of a case do is a
function of its index (`outcome`, chosen in `Init`), because its seed is derived
from the index; that includes executions that throw, of the generator, the naive or
the solution, since the runner may reject and the decoder may give up on an answer.
Each worker reads the clock for itself when it starts. An execution that is under way when the token is canceled may or
may not be killed before it ends. The command may answer while workers go on,
when one of them has thrown; they then stop when the program closes (`Cancel`).

### TestRun

`executeTestCommand()` under `bootstrap()`. `phase` is the await at which the
command is; the pool's workers have their own.

| action | code |
|---|---|
| `PrepareFails`, `Load` | `prepare()`, the loop over `streamFixedCases()` |
| `StartPool`, `RunEnds` (with `Loop`), `RunThrows`, `PoolFails`, `PoolCanceled`, `PoolEnds` | `executeFixedCases()`, its workers, and what the command does when `Promise.all` rejects or resolves |
| `WriteArtifact`, `ReadSource`, `Settle` | `commitDeferredTest()` and `persist()` up to and after `transact()` |
| `Apply` | the store at work; `Submit`, `Apply`, `Resolve` and `Reject` are those of `AtomicStore`, a run being one unit of work of one part |
| `Signal`, `Complete`, `CleanUp`, `Render` | `onSignal`, `work.complete()`, the coordinator's `drain()`, and the end of `bootstrap()` with its `finally` |

What becomes of a case is chosen in `Init`: malformed, too large to send, or one
of four statuses that stand for the tiers of severity. Continuations between
`work.complete()` and the rendering run without any other event in between; the
model allows a signal there, which is more than can happen. A signal cannot arrive
before the command is dispatched, because nothing is awaited until then.

### Problem, CaseFile, LeetCode, Codec, Harness, Comparator, Wire

A value, and a message's payload, is a tree of nodes `[tag, atom, kids]`. An atom
is the text of a leaf, compared where the code compares code points (`AtomOrder`),
and read as a number where the code does (`NumberOf`, `PyNumber`: Python finds
`True`, `1` and `1.0` equal, the host does not). What is kept: which tags exist,
which kids a tag demands, the order of sets, dicts and record fields, uniqueness,
the safe-integer rule, depth and node budgets (and where each side charges them),
the three forms of a list or a tree (JSON array, heap slots, Python nodes with
cycles), and at each refusal which of the outcomes it becomes. Each branch of
`encode.ts`, `decode.ts`, their Python counterparts and `semantic.ts` is an arm of an operator
with the name of the function. What the code does by recursion is a recursive
function on the trees that nest at most `MaxNesting` levels (`Nested`), which is what
the JSON parser's structural limit leaves; every such function is given, node by node,
what it yields for the children (`Encode` by `EncodeBy`, `Build` by `BuildBy`), so one
level of it can be reasoned about. The objects of the
harness are such trees too (`ObjectsUpTo`), except that a linked list and a binary tree
are cells with numbered links: a list's links lead anywhere within it, a tree links to no
cell twice. A target may return any of them. What nodes of a binary tree share is
listed twice, as the program does; one with a cycle is listed forever, which is a timeout
and the sandbox's subject. The order of texts stands in `CanonicalOrder`. A
place in it is counted (`SortedBy`): that is what `sort()` yields when no two texts are
equal, and the encoders refuse two that are.

A YAML or JSON document is a tree of the same kind, whose maps have fields by name.
`Problem` begins where the text has been parsed: which fields there may be, which
type names exist, which limits are allowed and which remain at their defaults, whether
the files lie inside the problem, and whether `uv` and `python3` are there. Of the
text only the scalars that `init` writes are read (`parseScalar`), because there the
program is its own reader. The size of a case file is counted in nodes.

| action of `Wire` | code |
|---|---|
| `LoadProblem` | `loadRunContext()`, or its `ProblemError` |
| `ReadCase` | `readFixedCases()` for one file: every member is decoded, then one of them goes on |
| `TakeValue` | a value that the repository's round-trip test starts with |
| `decodeRequestLine` | the recorded line of an artifact, read back by replay |
| `encodeRequestLine` | `encodeRequestLine()` and the size check of its callers |
| `Invoke` | the harness's decoding and its call of the function, or of the class once per operation |
| `encodeResponseLine` | the harness's answer, output or exception |
| `decodeResponseLine` | `decodeResponseLine()` and what `executeOne()` and `executeEncodedCase()` refuse afterwards |
| `Judge` | `semanticMismatch()` |

The target is an operator (`Apply`) that may return anything. JSON's own syntax
has one spelling per leaf here; whitespace and escapes are refused elsewhere.

### Workspace, InitProblem, StressFinding, Replay, Benchmark, Commands

Each process runs one command, and `at` is the await at which it is.

| action | code |
|---|---|
| `MakeDirectory`, `WriteScaffold`, `RegisterProblem`, `InitFails` | `init-command.ts`: the exclusive `mkdir`, the starter files, the row; the `catch` that removes the directory, or fails to and says nothing of it (`NotRemoved`) |
| `FindFailure` | the first finding of the pool (`StressCases` is the pool itself) |
| `Shrink`, `ShrinkTimesOut` | the loop that minimizes: one half of the original input after the other, run with both programs and kept if it fails in the same way; its time limit |
| `MakeTemporary`, `WriteDocument`, `RenameArtifact`, `ArtifactFails` | `fuzz-artifact.ts`: the temporary directory, the document in it, `rename()`, the content-addressed name that may exist already; after a failure the temporary directory is removed, or stays when that fails too |
| `PersistFinding`, `PersistFindingFails` | `persistFinding()`: the sources are read and hashed, then one transaction |
| `LookUpArtifact`, `RunAgain`, `PersistReplay`, `PersistReplayFails` | `replay-command.ts` in the same order, the foreign key among the failures |
| `PrepareBenchmark`, `ValidateOutput`, `TakeSample`, `EndMeasurement`, `PersistBenchmark`, `PersistBenchmarkFails` | `benchmark-command.ts`: hashes first, then the outputs, then repetitions, then the transaction |
| `Throws` | the runner rejects, wherever a program is to be run: the outer `catch` |
| `Returns`, `Render` | the command's own outcome, and what `bootstrap()` makes of it: once a signal has come, whatever was returned is rendered as "canceled" |
| `AddAssets`, `Edit`, `RemoveProblem`, `DeleteArtifact`, `Cancel`, `Kill` | the user and the operating system |

What is assumed of the surroundings, each in `Workspace.tla` or the command's
module:

- A transaction is one step. That is what `SqliteStore` promises
  (`StoreRefinesAtomicStore`); that it may fail is kept.
- A target is deterministic, so content and input fix what it does, and a content
  stands for its SHA-256. `naive.py` is not edited.
- The user completes a problem when no `init` is at work, and removes one when no
  command is. Artifacts without a row are not deleted: the user does not know of
  them yet.
- A benchmark has one case, and the order of a repetition is any permutation:
  which one the seed yields is arithmetic.

## 3. The runs

| run | bounds | states | shows |
|---|---|---|---|
| `watch_races` | 3 targets, 2 slots, 2 edits, restores, failures | 214,321 | slots and cancellation under every interleaving; every content is judged or answered with a fact; the mediator implements `RunLedger` |
| `watch_progress` | 2 targets, 1 slot, 1 edit, 1 overflow | 24,939 | liveness, verdicts and drains |
| `store_writes` | 2 processes, 2 jobs of 2 rows, 3 attempts, 2 kills | 51,573 | the write path implements `AtomicStore` and settles |
| `open_together` | 3 processes, versions 0 to 4, 2 failures | 109,862 | migration, recovery and refusal |
| `sandbox_run` | a child and 2 more processes, caps of 1, 2 units per stream | 1,311,720 | stopping, reaping and reporting |
| `stress_pool` | 3 workers, 4 cases | 2,060,918 | claims, findings and answers |
| `test_run` | 2 workers, 3 cases | 30,766 | what is persisted, what is answered, what is closed when |
| `wire` | 4 levels, 14 nodes, messages and files of 5 to 90 atoms | 26,129 | arguments, verdicts, spellings, and who refuses what |
| `workspace` | 2 processes, 3 contents, 3 inputs, 1 edit, 1 warm-up and 1 sample | 3,432,662 | files, rows and answers of four commands, with signals and kills up to the rendering |
| `watch_idle_drain`, `wire_tree`, `replay_fixed` | the smallest that show it | | one disagreement each (section 5) |

Why the bounds are enough for what they are asked:

- `watch_races`: three targets on two slots is the least at which one target
  waits while others run, so that blocking, double starts and leaks can differ.
  Two edits let a target be superseded twice: pending over pending, pending over
  active, and active again while its predecessor is reaped. It starts quietly;
  what a save during `start()` does is told in section 5.
- `watch_progress`: two targets that compete for one slot, one edit during any
  phase, one overflow that discards the observer's facts.
- `store_writes`: two jobs in one process (order) or in two (contention and
  find-or-register); three attempts contain a first, a repeated and a last one;
  two rows give a middle of the callback; two kills may hit both processes or one
  twice.
- `open_together`: versions 1 and 2 need two steps and one, 0 creates, 3 is
  current, 4 is newer. Three processes let two interfere with a third.
- `sandbox_run`: two processes below the child allow a fork during the reaper's
  grace period, and one that escaped beside one that did not. A cap of 1 for a
  stream and for both together makes "at the cap", "over one stream's cap" and
  "over the combined one only" different states. `Measured = {"mle"}`: the
  breaches that only counters show all have the same rank.
- `stress_pool`: three workers finish in any order, a fourth case makes one of
  them claim again; all assignments of the seven outcomes (two of them executions
  that throw, besides a generator's) are initial states.
- `test_run`: two workers and three cases, so that one worker comes back for the
  last case while the other is still running; every assignment of the six outcomes
  is an initial state, and one signal is as good as several (`shutdown()` is
  idempotent).
- `wire`: every tag, every declared type and every kind of annotation occurs; lists
  and trees of up to five slots contain all shapes on which level order and heap
  order part; four levels and fourteen nodes let a value be within one side's budget
  and beyond the other's; `MaxNesting` is 12, deeper than any message of the instance
  nests (4096 in the code, far beyond the 4 levels of `MaxDepth` in both), so what is
  refused for depth is refused by the codec's budget; one limit of 12 lets a request fit whose answer does not; limits of 5, 60 and 90
  are below every readable file, above every file, and above `MaxPayload = 80`. Problems are a
  sound function, class and starter each, and variations in which one field is
  missing, unknown, of another kind, or out of range, a link leads outside or nowhere,
  or a program is not installed. Case files hold one case, or groups in which the
  first, the last or no member is malformed, or no list at all. Starters are written
  for a word, two numbers, `null` and `true`.
  Targets echo, change a value, drop, mirror or loop their argument, nest deeper
  than allowed, print, raise, and have no such method.
- `workspace`: two processes give every pair of commands, and one after the other;
  one edit separates "saved since" from "as it was"; three contents fail on
  different halves, and one of them differently on the half than on the whole, so
  that minimizing may lose the failure; one warm-up and one sample are the two kinds
  of repetition. The processes are symmetric; they are only compared, and no
  liveness is checked.

`CHECK_DEADLOCK FALSE` appears because every model may come to its natural end:
a drained mediator with nothing in flight, all jobs settled, all stores open, a
run that has returned, a command that has answered, a case that is judged.

Fairness. `WatchMediator`: weak fairness of `System`, everything that happens
without the user: Node runs timers and continuations, I/O completes, and a run
ends at the latest when the sandbox's wall limit kills it. `SqliteStore`: weak
fairness of each live process's next step (BEGIN waits no longer than the busy
timeout, so an attempt always ends, well or badly; nothing says it gets the
lock). A killed process need not come back. `StoreOpen`: a process that has
begun goes on, and a user whose open failed tries again; without the retry the
property would be false and is not claimed. `Sandbox`: time passes and Node
delivers events; of the target nothing is assumed. `StressCases`: executions end
(the wall limit again) and Node runs continuations; the user need not cancel and
the duration need not expire. `TestRun`: the same, and `transact()` settles, which
is `EverySubmissionSettles` of `SqliteStore`; that it succeeds is not assumed.
`Wire` and `Commands` state safety only: their specifications have no fairness.

## 4. The proofs

All theorems hold for every value of the constants that satisfies the module's
`ASSUME`s: any finite set of targets and any positive number of slots; any set of
processes and jobs, any positive number of rows and attempts; any positive number
of workers; any number of cases; any set of schema versions; any processes, caps and amounts
of output; any contents, inputs, warm-ups and samples. The bounds on edits,
overflows and kills are arbitrary naturals.

- **WatchMediatorProofs**: `TypeCorrect` and `SlotsAreExact` from `SlotInvariant`.
  `SlotsExact` is not inductive: that `Settle` frees exactly one slot needs
  `PhasesMatch` (a run is in a phase exactly while it is active), that `pump()`
  takes as many as it counts and no more than are free needs `QueueMatches` and
  that `ahead` is a strict total order on the queue (`Ordered`). The heart is a
  lemma about a finite set with such an order: the members with fewer than *n*
  others ahead of them are at most *n*.
  `DrainInv` adds `NoIdleSlot` and `DrainPart` (nothing is queued once observation
  has ended, a resolved drain has no slot taken and no rescan in flight). It gives `NoSlotIsIdle`: `pump()`
  is maximal, and every step that frees a slot or queues a target pumps.
  `DrainedStaysQuiet` (`DrainedIsQuiet`: no run is active and no rescan in flight once a
  drain has resolved, and no later step starts, commits or announces one) and
  `DrainIsNeverOrphaned` follow; the latter says that while a drain waits for something in flight, the step that ends the last of
  it resolves the promise, so nobody else has to.
  Its second half is about the runs: `LatestAlwaysWins` and `NothingDropsSilently`, from
  `SlotInv`, with which each is inductive as it stands. They rest on a lemma about
  `pump()`: it moves a pending run to its idle target's slot or leaves the target
  alone, so the ids that wait or execute stay the same and an old run that is
  executing keeps its cancellation. Four more results:
  - `VerdictsAreOnSnapshots`, without restores. Versions then only grow
    (`VersionPart`), a run reads nothing older than its snapshot, and so a freshness
    scan that finds the snapshot vouches for everything read before it (`InputsPart`).
    With restores the property is false, as section 5 says.
  - `VerdictsAreInOrder`, with restores, failures and a busy start: `OrderInv` orders
    the ids and generations of a target's runs, committed before executing before
    waiting, and ties the cancellation of a run to the fact that names it.
  - `ChangesAreAlwaysAnswered`, with restores and failures, for a quiet start: a content
    that was not scheduled is on its way (a fact, a timer, a deferred hint, a rescan that
    has not read yet or has read just that), and what was scheduled waits, executes
    uncanceled, was committed last or was announced as canceled. The invariant is
    `TrackPart`, with `StartPart` for what `start()` has placed; its core is that a
    rescan which is about to confirm something else than what is on disk has a hint
    behind it. `ChangesAreNeverLost` (`ChangesAreTracked`) does without the announcement
    when nothing is restored and nothing fails, each of which really loses a verdict
    (section 5). What is left of `LatestIsJudged` is that each of these stages ends,
    which is fairness.
  - `MediatorKeepsLedger`: every step of `WatchMediator` is a step of `RunLedger` or a
    stutter, under `OrderInv`. Steps that end in `pump()` map through one lemma
    (`PumpBegins`): what it starts is a set of startable targets, as large as the free
    slots allow.
- **SqliteStoreProofs**: `StoreInv` ties rows, promise and program counter
  (`RowsPart`: rows are visible for a job that resolved, that was lost, or whose
  promise is about to resolve) and the transaction to the lock (`ProblemPart`:
  only the holder of the lock has a problem row to add, and then none is
  committed). `OrderInv` adds that the head of a chain is its earliest unsettled
  job, from which `QueueIsFifo` follows. `StoreRefinesAtomicStore` maps each step
  to a step of `AtomicStore` or a stutter: `CommitOk` to `Apply`, `Return` to
  `Resolve`, a settling failure to `Reject`, `Crash` to `Lose`.
  `NoTransactIsStranded` (`NoJobIsStranded`): a promise that is open belongs to a live
  process whose chain is busy with this job or an earlier one, or idle with an earliest
  one to take. That an idle chain has an earliest job is a lemma about nonempty sets of
  naturals (`Least`, from the library's well-founded induction).
- **StressCasesProofs**: `PoolInv`, from which `EachCaseOnce`, `FirstFailureWins`
  and `PassedMeansAll`. Its core is `AccountedPart`: every claimed case is in
  flight, agreed, or is among the findings. Claims are made in order, so when the
  pool has come to rest every case below a finding was claimed and agreed or is a
  finding itself. `AnswersBlameTheRightParty` (`BlameIsRight`) says which program each
  answer names: the command answers an error exactly when an execution has thrown, of
  whichever of the three programs and whatever was found meanwhile, and a finding is
  under the predicate of its own case. `BlamePart` carries both through the pool. `ThePoolIsNeverStuck`: before the answer a worker is under way or the pool can be
  started or has come to rest with something to report, the least finding existing
  because findings are indices.
- **StoreOpenProofs**: `SchemaMatchesVersion`, `OpenIsCurrent` and
  `NewerIsUntouched`, from `OpenInv`. `migrate()` decides on a version that may be
  out of date when its transaction begins. The argument: versions only grow, so
  what was read is not ahead of the file (`ReadPart`), and what a step would
  create is missing from the file only if the version is still the one that was
  read (`ApplyForward`); otherwise the DDL fails and is rolled back. The same argument gives
  `MigrationsMoveForward` (`MovesForward`: version and tables change together, by one
  migration, and at most to the current schema) and `OnlyTheOvertakenFail`
  (`RefusalsAreExcused`: an open that fails for the schema was overtaken by a migration,
  of which there are at most two, so retries come to an end). `NobodyWaitsForTheDead`:
  the holder of the write lock is at a statement that waits for nobody.
- **SandboxProofs**: `StoppedLeavesNothing`, `StopIsReported` and
  `PassedIsEarned`, from `SandboxInv`. `ReachPart` says what each way of stopping
  has reached (the group at once without a cgroup; the group after the grace
  period and then the cgroup with one), and is preserved by forks because a child
  is in a group or a cgroup only if its parent was. `ClosedPart` is why nothing
  can stop a run, or add to its output, between its close event and its result.
  That a child which joins its cgroup after the sweep is dead needs `LeaderPart`.
  The assumption `Measured` is that the counters show breaches of the limits'
  tier only. `SupervisorIsNeverStuck` (`RunIsNeverStuck`) needs `EndedPart`, that a run
  waits for a child only while there is one: a run that its timer stopped and its reaper
  swept has no process left that could hold the pipes.
- **TestRunProofs**: `PersistedIsComplete`, `AnswerIsTrue` and
  `StoreOutlivesWork`, from `RunInv`. Its core is `ClaimPart`: as long as no signal
  has arrived, a claimed case is recorded or in some worker's hands, and a worker
  leaves only when all are claimed. So a pool that comes to rest without a signal
  is `Whole`, which is what the check at `test-command.ts:227` asks before anything
  is committed; nothing disturbs a whole run (`WholeStays`). That the status is the
  most severe of all cases is a lemma about `Aggregate` (`AggregateWorst`). The
  store enters only by the promises of `AtomicStore`, which
  `StoreRefinesAtomicStore` proves of the write path. `TestNeverDeadlocks`
  (`TestIsNeverStuck`): the drain of a shutdown waits for the command's lease and the
  command waits for the store, but it has given its lease back before it waits for the
  drain; and a pool whose workers have not all left has one that runs or has thrown.
- **CommandsProofs**: the seven properties of `workspace` from `CommandsInv`.
  `DirectoryPart` says that an `init` at work is alone with the directory it made,
  because every other command needs a complete problem and the directory is made
  exclusively; one that has failed owns no directory or could not remove it, which the
  code does not tell anybody. `ExclusivePart`: no two of them register the problem.
  `DurablePart`: a process has rows only when its command has returned, and exactly
  when it returned "saved"; what is rendered says so exactly when there are rows and no
  signal has come, because a signal between the transaction and the rendering replaces
  the answer and leaves the rows. `StressPart` carries "the
  minimized input fails on a content that was run" through every round of
  shrinking, in which the solution may be saved between the runs, so it speaks of
  the contents seen and of what was run last (`RanLast`); and the artifact is in
  place when its row is written, for it has no row by which the user could delete
  it. `BenchmarkPart`: samples come in repetitions of one of each, and what was
  hashed at the start is what was measured unless the file was saved since. That
  "since" can be told by counting the saves is a lemma of its own
  (`SavesAreCounted`). `RowsHaveFiles` and `InitIsAllOrNothing` are action
  properties and follow from the same invariant, step by step.
  `StressTestsDisownLeftovers` (`LeftoversAreDisowned`) says what may stay on the disk:
  a temporary directory, or an artifact without a row, belongs to a run that is still at
  it, that was killed, or whose answer claims to have saved nothing. `DiskPart` carries
  which artifact belongs to the run at which stage.
- **WireProofs**: first the order, for texts of any length over any bytes and any
  number of members. `CompareIsATotalOrder` is the claim of utf8.ts:87; the argument
  finds, for two texts in order, the place up to which they agree (`DifferAt`).
  `SortedIsAccepted`: an item's place is the number of texts before its own, these
  numbers are different for different texts, and so by a pigeonhole argument every place
  is taken once. `MembersHaveOneSpelling` looks at the first place at which two sorted
  sequences differ; with both, `OrderOfIterationIsForgotten` and `AcceptedIsWrittenBack`.

  Then the codec, for trees of any shape, any limits and any alphabet.
  `WhatIsAcceptedIsWrittenBack`: whatever `buildValue()` accepts, `encodeValue()` writes
  again as it was, so (`ValuesHaveOneMessage`) no two messages are accepted for one
  value. From it `MessagesHaveOneSpelling`, which is `CanonicalFormIsUnique` in every
  state of a trip. What is carried over a level is `Faithful`: the value nests no deeper
  than the tree it was read from, has its tag and its count of nodes, and is written as
  that tree at this depth and at every lesser one. Lesser depths are needed because
  `decode.ts` enters a level for an enum and for an exception and `encode.ts` does not.
  There is one lemma per kind of tag: a set's members come back in their order because
  `Build` compared the texts of what will be written (`SetsAreFaithful`, by
  `AcceptedIsWrittenBack`); a tree's last slot is not an absent one, so nothing is
  stripped (`TreesAreFaithful`); an integer has the spelling its size demands. The
  provers have no induction over data, so the induction goes over the levels of nesting:
  a set of numbers that has 0 and the successor of each of its members up to
  `MaxNesting` has them all (`UpTo`, from the least number it lacks, `Least`), and the
  same argument shows first that each recursive function exists (`BuildIsDefined` and
  the like).

  Last the answers, whatever a target returns, raises or prints, within any limits.
  `AnswersAreAlwaysClassified` is `AnswersAreClassified`: the command never fails on an
  answer without an enum, an exception and a complex number. What is carried over a level
  of nesting of the *object* is `Answer`: its wire is a tree of at most as many levels, and
  unless it has one of the three the host's decoder does not exhaust its depth on it.
  A sorted set or dict holds what was written for its members (`OrderedAreMoved`, by
  `SourceIsUnique`). For a list it has to be shown that following the links stops,
  since among more places than cells one is met twice (`WalkStops`, by the library's
  pigeonhole theorem), and for a tree that the level order names only its cells
  (`LevelOrderIsOfCells`): otherwise `CHOOSE` and a place outside a sequence would say
  nothing of what is written. The two counts of nodes are the same but for a complex
  number (`NodesAgree`). The inductive invariant of the trip is `AnswerPart`: a line that
  is an answer is what `py_encode()` gave for some object, and the command can fail on it
  only where the decoder's budget was exceeded.

  Assumed of the constants: the limits are natural numbers (`CodecLimits`), and the
  alphabet has each text once and the encoders' own words (`AtomsOrdered`,
  `AtomsSuffice`). Nothing is assumed of `Apply`, the target.

What liveness needs besides fairness is proved for each liveness property:
`DrainIsNeverOrphaned`, `ChangesAreNeverLost`, `NoTransactIsStranded`,
`OnlyTheOvertakenFail` with `NobodyWaitsForTheDead`, `SupervisorIsNeverStuck`,
`ThePoolIsNeverStuck` and `TestNeverDeadlocks`. Each says that in every reachable state
in which something is owed, a named step's guard holds, or names who is at work on it. The step
from there to "eventually" is the weak fairness of section 3 and a decreasing amount of
work, which TLC checks on the instances.

Type invariants, `NoSilentDrop` of the mediator (which `ImplementsLedger` contains),
its `VerdictsInOrder`, `NoIdleSlot`, `DrainIsHandedOn` and `ChangesAreTracked`, `OutcomeIsTrue` and `SubmissionOrder` of the write path (which
`ImplementsAtomicStore` and the proofs contain), `StopIsReported` of the sandbox,
`ClaimsAreExact` and `BlameIsRight` of the pool, `LeftoversAreDisowned` of the commands,
`MovesForward`, `RefusalsAreExcused` and `LockIsNeverStuck` of opening, and the
`...IsNeverStuck` and `NoJobIsStranded` above are proved and no run's time is spent on
them; each was checked with the configuration of its module's run before it was proved.

Only model-checked: all liveness (`BusyDrainCompletes`, `LatestIsJudged`,
`EverySubmissionSettles`, `EveryoneOpens`, `RunSettles`, `CommandAnswers`,
`TestAnswers`), which is out of this prover's reach but for the parts above; and five
properties of `wire`: `EchoIsJudged`, `NoFalsePass`, `ArgumentsAreDeclared`,
`StartersRun` and `MirrorAgrees`. They say what is *equal* after a way through several of the
host's two codecs, the harness's two, the case reader and the comparator, on trees in
level order and lists with cycles, that is folds and graphs: each would need an induction
of its own over pairs of trees for every pair of components. `EchoIsJudged` and
`StartersRun` also hold for the limits and targets of the instance only.

## 5. What the models taught

Three runs end in a counterexample because the code does something else than it,
its comments or the repository's documentation says. `PROJECT.json` quotes each.

- `watch_idle_drain`: the executor of the drain promise calls
  `finishDrainIfIdle()` before the promise is stored in `this.draining`, which
  that function tests. A drain that finds nothing in flight therefore waits for
  ever. Nothing else keeps the process alive then, so the effect is an exit
  without the rendering and the exit code that README.md:536 describes.
- `wire_tree`: the case reader accepts trees in LeetCode's level order, the
  encoders use heap order and refuse a node below an absent one. `[1,null,2,3]`,
  which `leetcode.ts:257` gives as its example, cannot be sent.
- `replay_fixed`: replay derives the problem's id from the slug, `init` registers
  a random one. Once `solution.py` was edited, the new implementation row violates
  the foreign key and the replay is not persisted.

Four more were seen in runs that are not kept; each can be had back by stating
the property named:

- A run that was superseded while its freshness scan was awaited is committed:
  generation and token are checked before the scan and not after
  (`scheduler.ts:304`; README.md:603 says superseded runs are not persisted). Check
  in `WatchMediator` that a commit's generation is the target's. What holds instead
  is the ledger's `Commit`: such a run was approved while it was not canceled, and it
  is committed once and before any newer one.
- A change confirmed during `start()`'s scan is overwritten by its continuation
  (`scheduler.ts:125`; `watch-command.ts:152` says a save racing startup "remains
  a hint"). Check
  `LatestIsJudged` with saves during the start.
- After a failed `cgroup.add()` nobody stops the child (`linux-sandbox.ts:110`;
  README.md:287). Check that a run which has returned has no live contained process;
  a child that exits normally and leaves a descendant which closed its pipes violates
  it too, since the reaper runs only when `stop()` was called.
- A case killed by Ctrl-C is recorded as a finding (`stress-test-command.ts:315`;
  README.md:511). Check `FirstFailureReported` without its exception for
  cancellation; `test-command.ts:505` has the check that is missing here.

Where a property needs an assumption the program does not make for itself:

- `LatestIsJudged` excludes restores. If a file is edited while it is judged and
  then restored, the run is discarded by the freshness check and the rescan finds
  the snapshot it already knows (`scheduler.ts:219`): nothing is judged. It also
  excludes failures, since a run that throws is announced and not repeated. What
  holds with both is `ChangesAreAnswered`: a `watch.cancel` fact has said so.
- `VerdictOnSnapshot` excludes restores: content that changes and comes back
  while cases execute has the same end points, and the verdict is mixed.
- `RunSettles` makes an exception for a process that left its group without a
  cgroup and keeps the pipes open. Under `--unsafe-local` such a run never ends.
- `PassedIsComplete` and `FirstFailureReported` exclude cancellation, for the
  reason above.
- `MinimizedStillFails` and `ReplayTellsTheTruth` except findings that are the
  user's own Ctrl-C: shrinking never asks the token, so such a finding is "minimized"
  to whatever comes first, and the rows of a canceled replay are those of a completed one.
- `AnswersAreDurable` and `InitIsAllOrNothing` except a signal that came: `bootstrap()`
  then renders "canceled" (`main.ts:144`), whether or not the transaction was made
  before. They also except removals that fail: `init-command.ts:150` and
  `fuzz-artifact.ts:158` swallow the error, the directory stays, and for `init` the slug
  is taken until the user removes it.
- `MinimizedStillFails` speaks of *some* content that was run: the file may be
  saved between two rounds, and then no single content need fail on both inputs.
- `ExecutionsAreAttributed` and `BenchmarkIsSound` except files that were saved
  meanwhile. Test, stress and replay hash what the file holds after the runs,
  benchmark what it held before, and benchmark compares outputs only while it
  validates: a file saved afterwards is measured unvalidated.
- `EchoIsJudged` has two exceptions besides trees: an expected `[]` for a list or
  tree is not the `null` that the harness answers (README.md:450 says it is).
- `AnswersAreClassified` excepts answers with an enum or an exception nested beyond
  the host's budget, and answers with complex numbers: the harness does not count the
  levels of the former and counts one of the latter as one node (`encode.py:66`), the
  host's decoder as three (`decode.ts:88`, `decode.ts:313`). The host's
  `LimitExceededError` leaves `decodeResponseLine()` although `envelope.ts:77` says
  that every envelope failure is classified `protocol_error`.

- `StartersRun` excepts slugs that YAML reads as something else than a string:
  `init 2025`, `init null` and `init true` are accepted and registered, but
  `problem.yaml` gets `slug: 2025` without quotes, which the program's own reader takes
  for an integer, so every command then says that "slug must be a non-empty string"
  (`init-command.ts:50`; README.md:477 says that init "Creates and registers a complete
  starter problem"). Check `StartersRun` without its exception.

Smaller disagreements, which no run is spent on: `migrate()` reads the version and
whether the file is empty in two statements, so that of two processes on a fresh
file one may be told that its version is unsupported (`schema.ts:272` says this
means an unknown or newer one; a second try succeeds, `EveryoneOpens`); a signal
during or after the transaction answers "canceled" although the rows are committed, for
every command that writes any (`main.ts:64` says a signal always wins, so
`AnswerIsTrue` promises nothing about rows then, and `AnswersAreDurable` says exactly
when it happens); when one worker of a pool throws, the others go on after the answer was
rendered and the signal handlers were removed; the comment at
`watch-command.ts:76` says the generation-zero scan completes before the observer
is opened, the code subscribes first; `rescan.ts:57` says a persistent
fault in the configuration is reported by the preparation of the later run, but
every run uses what was prepared at start-up; `applySchema`'s comment speaks of
schema version 1; start-up recovery updates rows in a state no writer leaves behind;
BEGIN in recovery and in migration has no retry; the answer's size is limited by
`inputBytes` and not by `outputBytes`; Python merges members of a set that are equal
under `==`, makes the parts of a complex number floats and an enum member its value,
and loses a node of the heap-ordered tree `[1,gap,2,gap,gap,3]`, which is why a
recorded line need not come back as it was; a fault in the harness itself is
classified `nonzero_exit`, as if the target had failed; implementation ids are hashes
of the content and an execution is unique per case and implementation, so a stress
run or a replay in which `naive.py` and `solution.py` are equal byte for byte cannot
be persisted; `fuzz-artifact.ts:152` expects EEXIST where a rename onto a directory
that is not empty gives ENOTEMPTY; when the user has deleted a problem's directory,
`init` refuses its slug for ever, since the row is still there; a limit may have a
name that every object inherits (`toString`), which `problem.ts:432` accepts and
nothing uses; a float with both a fraction and an exponent, `1.5e3`, is refused in a
case file (`leetcode.ts:227`).

## 6. Not modelled

- **Pure functions without interplay**: the statistics of benchmarks and the
  reading of the machine's environment, the PRNG of the benchmark's order, reports,
  telemetry's formatting and redaction, parsing of arguments and the re-execution under systemd, the Python runner's argv
  and policy. They take one input and keep nothing; unit tests reach them better
  than a state space does.
- **The store's data mapping**: one SQL statement per method, with export and
  retention. What several statements may not be torn into is `SqliteStore`.
- **YAML text**: indentation, comments, quotes and flow lists of the subset that
  `parseYaml()` reads; the parsed document is modelled.
- **JSON text**: escapes, numbers' grammar and whitespace, which the host compares
  as text after it has encoded again.
- **Finding the files of a case**, and everything else that reads a directory once
  at start-up.
- **Power loss**: the store runs with `synchronous=NORMAL`, which may lose the
  last commits of a WAL; kills of a process, which are modelled, do not.
- **Time**: debounce, grace period and busy timeout are events that happen some
  time; only their order matters to the properties.
- **Memory, CPU and process limits**: the kernel enforces them and the counters
  show them; the model chooses the set of breaches, and whether the child dies of
  SIGXCPU or SIGXFSZ.
- **Within what is modelled**: the relative part of a numeric tolerance
  (`semantic.ts:506`), which no property tells from the absolute one; the names of
  classes and methods in the harness, whose absence is an outcome (`missing`) that a
  target may have for any call (`runner.py:94`).

## 7. Plan

Done: the mediator and the write path, each with its abstract specification, opening, the
sandbox, the stress pool, the test run over the abstract store, the commands of a
project, with proofs of their safety properties; and the wire, checked, with proofs
that the host's two directions undo each other and that its budget admits the answers.

Next, in order of importance:

1. `MirrorAgrees` proved: that what the harness writes is canonical for the host, with the
   levels of objects that `AnswersAreAlwaysClassified` uses. Objects must then say what
   Python guarantees of them (an exception has a name, a field's name is not repeated);
   that the slots of a level order are reachable, which depends on the shape of the tree,
   is the difficult part.
2. `Shutdown`: cancellation listeners and their order, several clean-ups and
   failures among them; the watch command composed with an abstraction of the
   mediator (a drain that resolves) and of the store, with the run context as state
   (`watch-command.ts:140`).
3. Retention and export: what a deletion by one process does to a run that another
   is writing.
4. The seeded order of a benchmark as a recursive function, against the definition
   of a permutation.
