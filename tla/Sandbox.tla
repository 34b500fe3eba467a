------------------------------ MODULE Sandbox ------------------------------
(***************************************************************************)
(* One run of the Linux sandbox (src/src/execution/linux-sandbox.ts) with  *)
(* its cgroup, its reaper and its output collectors, and the verdict that  *)
(* classifyTermination() reads from the result.                            *)
(*                                                                         *)
(* The supervisor is a sequence of awaits.  Between them the child and     *)
(* what it forks run, write and exit, the wall timer fires, the user       *)
(* cancels, and the reaper that the first of these started makes progress. *)
(* The kernel is external: who is in the process group and in the cgroup,  *)
(* and what a signal or cgroup.kill reaches.                               *)
(***************************************************************************)
EXTENDS Naturals, FiniteSets

CONSTANTS
    Leader,       \* the spawned child, leader of its process group
    Kids,         \* processes that may be forked below it
    Cap,          \* limits.stdoutBytes and limits.stderrBytes
    CombinedCap,  \* limits.combinedOutputBytes
    MaxChunks,    \* bound: what is written to one stream
    Measured      \* breaches that only the cgroup's counters show

ASSUME ProcAssumption    == Leader \notin Kids
ASSUME CapAssumption     == Cap \in Nat /\ CombinedCap \in Nat /\ MaxChunks \in Nat
ASSUME MeasureAssumption == Measured \subseteq {"tle_cpu", "mle", "process_limit"}

Procs   == {Leader} \cup Kids
Streams == {"stdout", "stderr"}

VARIABLES
    \* The kernel.
    contained,  \* the run has a cgroup: it was not started with --unsafe-local
    cgroup,     \* the cgroup's directory: none, present or removed
    born,       \* processes that have been started
    alive,      \* those that are running
    group,      \* members of the child's process group
    caged,      \* members of the cgroup
    piped,      \* those that inherited the child's stdout and stderr
    exit,       \* how the child ended; "error": it could not be spawned
    unread,     \* streams with output that nobody has read
    late,       \* limits.wallTimeMs have passed since the run was started
    \* The supervisor.
    pc,         \* which await of run() it is at
    canceled,   \* the token is canceled
    reason,     \* why the run was stopped
    reaper,     \* how far terminateProcessTree() is
    total,      \* BoundedCollector.totalBytes of each stream
    result      \* what run() returns

tree   == <<born, alive, group, caged, piped, exit>>
kernel == <<contained, cgroup, tree, unread, late>>
run    == <<pc, canceled, reason, reaper, total, result>>
vars   == <<kernel, run>>

\* SIGXCPU and SIGXFSZ are how the kernel enforces two of the limits.
Signals == {"signal", "SIGXCPU", "SIGXFSZ"}
Exits   == {"none", "zero", "nonzero", "error"} \cup Signals
Points  == {"setup", "spawning", "joining", "waiting", "reaping", "sampling",
            "removing", "done"}
Reasons == {"none", "wall", "output", "cancel"}
Stages  == {"none", "grace", "killing", "done"}

NoResult == [termination |-> "none", exit |-> "none", breach |-> {},
             total |-> [s \in Streams |-> 0], late |-> FALSE]

Init ==
    /\ contained \in BOOLEAN
    /\ cgroup = "none"
    /\ born = {} /\ alive = {} /\ group = {} /\ caged = {} /\ piped = {}
    /\ exit = "none"
    /\ unread = {}
    /\ late = FALSE
    /\ pc = "setup"
    /\ canceled = FALSE
    /\ reason = "none"
    /\ reaper = "none"
    /\ total = [s \in Streams |-> 0]
    /\ result = NoResult

-----------------------------------------------------------------------------
(* The verdict: output-collector.ts, classify.ts and domain/status.ts.     *)

\* BoundedCollector.truncated: bytes beyond the cap are counted and not kept.
Truncated(tot, s) == tot[s] > Cap

Combined(tot) == tot["stdout"] + tot["stderr"]

Rank == [cause \in {"spawn_error", "tle_cpu", "tle_wall", "mle", "output_limit", "file_limit",
                    "process_limit", "signaled", "nonzero_exit", "passed"} |->
           CASE cause = "spawn_error"  -> 0
             [] cause = "signaled"     -> 3
             [] cause = "nonzero_exit" -> 4
             [] cause = "passed"       -> 6
             [] OTHER                  -> 1]

\* The limits that a signal gives away; every other one is a crash.
SignalCauses(how) ==
    (IF how = "SIGXCPU" THEN {"tle_cpu"} ELSE {})
    \cup (IF how = "SIGXFSZ" THEN {"file_limit"} ELSE {})
    \cup (IF how = "signal" THEN {"signaled"} ELSE {})

\* Mutant of Causes: only truncated streams count, not the combined budget.
CausesWithoutBudget(r) ==
    r.breach
    \cup (IF r.termination = "timed_out" \/ r.late THEN {"tle_wall"} ELSE {})
    \cup (IF \E s \in Streams : Truncated(r.total, s) THEN {"output_limit"} ELSE {})
    \cup SignalCauses(r.exit)
    \cup (IF r.termination = "exited" /\ r.exit = "nonzero"
          THEN {"nonzero_exit"} ELSE {})
    \cup {"passed"}

\* observedCauses()
Causes(r) ==
    r.breach
    \cup (IF r.termination = "timed_out" \/ r.late THEN {"tle_wall"} ELSE {})
    \cup (IF (\E s \in Streams : Truncated(r.total, s)) \/ Combined(r.total) > CombinedCap
          THEN {"output_limit"} ELSE {})
    \cup SignalCauses(r.exit)
    \cup (IF r.termination = "exited" /\ r.exit = "nonzero"
          THEN {"nonzero_exit"} ELSE {})
    \cup {"passed"}

\* classifyTermination() with mostSevere(); causes of one tier are equivalent,
\* so the verdict is the set of the most severe causes observed.
Verdict(r) ==
    IF r.termination = "spawn_failed" THEN {"spawn_error"}
    ELSE {c \in Causes(r) : \A d \in Causes(r) : Rank[c] <= Rank[d]}

-----------------------------------------------------------------------------
(* The process tree.                                                       *)

\* Signals reach only those that are running.
Kill(procs) ==
    /\ alive' = alive \ procs
    /\ exit' = IF Leader \in alive \cap procs THEN "signal" ELSE exit
    /\ UNCHANGED <<born, group, caged, piped>>

\* A running process forks: the child may leave the process group and may close
\* the inherited pipes, and it stays in its parent's cgroup.
Fork(k) ==
    /\ k \notin born
    /\ \E parent \in alive :
          /\ caged' = IF parent \in caged THEN caged \cup {k} ELSE caged
          /\ group' \in {group} \cup {g \in {group \cup {k}} : parent \in group}
          /\ piped' \in {piped} \cup {q \in {piped \cup {k}} : parent \in piped}
    /\ born' = born \cup {k}
    /\ alive' = alive \cup {k}
    /\ UNCHANGED <<contained, cgroup, exit, unread, late, run>>

\* The child or a process below it exits or crashes by itself, or because it
\* was sent SIGTERM.
Exit(p) ==
    /\ p \in alive
    /\ alive' = alive \ {p}
    /\ exit' \in IF p = Leader THEN {"zero", "nonzero"} \cup Signals ELSE {exit}
    /\ UNCHANGED <<contained, cgroup, born, group, caged, piped, unread, late, run>>

Write(s) ==
    /\ alive \cap piped # {}
    /\ s \notin unread
    /\ total[s] < MaxChunks
    /\ unread' = unread \cup {s}
    /\ UNCHANGED <<contained, cgroup, tree, late, run>>

\* The "close" event: the child has ended and every copy of its pipes is closed
\* and drained.
Closed ==
    /\ exit # "none"
    /\ alive \cap piped = {}
    /\ unread = {}

-----------------------------------------------------------------------------
(* stop() and terminateProcessTree().                                      *)

\* Mutant of Stop: the local supervisor asks politely.
StopPolitely(next) ==
    IF reason # "none" THEN UNCHANGED <<reason, reaper, tree>>
    ELSE /\ reason' = next
         /\ reaper' = IF ~contained THEN reaper
                      ELSE IF exit = "error" THEN "killing" ELSE "grace"
         /\ UNCHANGED tree

\* The first reason stops the run.  Without a cgroup the group is killed at
\* once; with one, SIGTERM opens the reaper's grace period, unless there is no
\* child at all.
Stop(next) ==
    IF reason # "none" THEN UNCHANGED <<reason, reaper, tree>>
    ELSE /\ reason' = next
         /\ IF contained
            THEN /\ reaper' = IF exit = "error" THEN "killing" ELSE "grace"
                 /\ UNCHANGED tree
            ELSE Kill(group) /\ UNCHANGED reaper

\* The grace period is over: SIGKILL to the group.
ReaperKills ==
    /\ reaper = "grace"
    /\ reaper' = "killing"
    /\ Kill(group)
    /\ UNCHANGED <<contained, cgroup, unread, late, pc, canceled, reason, total,
                   result>>

\* killAll(): cgroup.kill, which fails quietly when the directory is gone.
ReaperSweeps ==
    /\ reaper = "killing"
    /\ reaper' = "done"
    /\ Kill(IF cgroup = "present" THEN caged ELSE {})
    /\ UNCHANGED <<contained, cgroup, unread, late, pc, canceled, reason, total,
                   result>>

-----------------------------------------------------------------------------
(* run().                                                                  *)

Returned(termination) == [NoResult EXCEPT !.termination = termination]

\* The temporary directory and createRunCgroup().
SetUp ==
    /\ pc = "setup"
    /\ cgroup' = IF contained THEN "present" ELSE "none"
    /\ pc' = "spawning"
    /\ UNCHANGED <<contained, tree, unread, late, canceled, reason, reaper, total,
                   result>>

SetUpFails ==
    /\ pc = "setup"
    /\ result' = Returned("spawn_failed")
    /\ pc' = "done"
    /\ UNCHANGED <<kernel, canceled, reason, reaper, total>>

\* spawnChild() succeeds, in a process group of its own.  A local run goes on to
\* Feed in the same turn.
Spawn ==
    /\ pc = "spawning"
    /\ contained
    /\ born' = {Leader} /\ alive' = {Leader} /\ group' = {Leader}
    /\ piped' = {Leader}
    /\ pc' = "joining"
    /\ UNCHANGED <<contained, cgroup, caged, exit, unread, late, canceled, reason,
                   reaper, total, result>>

\* The input is written, the timer armed, the token subscribed to; a token that
\* is canceled already stops a local run before it has begun.
SpawnLocal ==
    /\ pc = "spawning"
    /\ ~contained
    /\ born' = {Leader} /\ group' = {Leader} /\ piped' = {Leader}
    /\ pc' = "waiting"
    /\ IF canceled
       THEN reason' = "cancel" /\ alive' = {} /\ exit' = "signal"
       ELSE reason' = "none" /\ alive' = {Leader} /\ exit' = exit
    /\ UNCHANGED <<contained, cgroup, caged, unread, late, canceled, reaper, total,
                   result>>

\* The "error" event: there is no child to add to the cgroup.
SpawnFails ==
    /\ pc = "spawning"
    /\ exit' = "error"
    /\ pc' = "waiting"
    /\ reason' = IF canceled THEN "cancel" ELSE reason
    /\ reaper' = IF canceled /\ contained THEN "killing" ELSE reaper
    /\ UNCHANGED <<contained, cgroup, born, alive, group, caged, piped, unread,
                   late, canceled, total, result>>

\* cgroup.add() has written the pid, or found no such process, which is no
\* error; then the input, the timer and the token as above.
Join ==
    /\ pc = "joining"
    /\ caged' = caged \cup (alive \cap {Leader})
    /\ pc' = "waiting"
    /\ reason' = IF canceled /\ reason = "none" THEN "cancel" ELSE reason
    /\ reaper' = IF canceled /\ reason = "none" THEN "grace" ELSE reaper
    /\ UNCHANGED <<contained, cgroup, born, alive, group, piped, exit, unread,
                   late, canceled, total, result>>

\* cgroup.add() fails in another way: the catch block answers for the run.
JoinFails ==
    /\ pc = "joining"
    /\ result' = Returned("spawn_failed")
    /\ pc' = "removing"
    /\ UNCHANGED <<kernel, canceled, reason, reaper, total>>

\* A "data" event: as long as the child's pipes are open, also after run() has
\* returned for a child that it could not add to the cgroup.
Data(s) ==
    LET seen == [total EXCEPT ![s] = @ + 1]
    IN  /\ s \in unread
        /\ unread' = unread \ {s}
        /\ total' = seen
        /\ IF (\E q \in Streams : Truncated(seen, q)) \/ Combined(seen) > CombinedCap
           THEN Stop("output") ELSE UNCHANGED <<reason, reaper, tree>>
        /\ UNCHANGED <<contained, cgroup, late, pc, canceled, result>>

\* The wall limit passes, which only a measurement or the timer notices.
TimePasses ==
    /\ pc \in {"waiting", "reaping", "sampling"}
    /\ ~late
    /\ late' = TRUE
    /\ UNCHANGED <<contained, cgroup, tree, unread, pc, canceled, reason, reaper,
                   total, result>>

TimerFires ==
    /\ pc = "waiting"
    /\ late
    /\ reason = "none"
    /\ Stop("wall")
    /\ UNCHANGED <<contained, cgroup, unread, late, pc, canceled, total, result>>

\* The user cancels: at once when run() has subscribed, else it finds out later.
Cancel ==
    /\ ~canceled
    /\ canceled' = TRUE
    /\ IF pc = "waiting" THEN Stop("cancel") ELSE UNCHANGED <<reason, reaper, tree>>
    /\ UNCHANGED <<contained, cgroup, unread, late, pc, total, result>>

\* await exit; the timer and the subscription end here.
Ended ==
    /\ pc = "waiting"
    /\ Closed
    /\ pc' = "reaping"
    /\ UNCHANGED <<kernel, canceled, reason, reaper, total, result>>

\* Mutant of Reaped: the reaper is not waited for.
ReapedAtOnce ==
    /\ pc = "reaping"
    /\ pc' = "sampling"
    /\ UNCHANGED <<kernel, canceled, reason, reaper, total, result>>

\* await reaping
Reaped ==
    /\ pc = "reaping"
    /\ reaper \in {"none", "done"}
    /\ pc' = "sampling"
    /\ UNCHANGED <<kernel, canceled, reason, reaper, total, result>>

Termination ==
    IF exit = "error" THEN "spawn_failed"
    ELSE CASE reason = "wall" -> "timed_out"
           [] reason = "none" -> IF exit \in Signals THEN "signaled" ELSE "exited"
           [] OTHER           -> "killed"

\* The cgroup's counters and the clock are read and the result is put together.
Sample ==
    /\ pc = "sampling"
    /\ \E breach \in (IF contained THEN SUBSET Measured ELSE {{}}) :
          result' = [termination |-> Termination, exit |-> exit, breach |-> breach,
                     total |-> total, late |-> late]
    /\ pc' = "removing"
    /\ UNCHANGED <<kernel, canceled, reason, reaper, total>>

\* The finally block: a cgroup with members cannot be removed.
Remove ==
    /\ pc = "removing"
    /\ cgroup' = IF cgroup = "present" /\ alive \cap caged = {} THEN "removed"
                 ELSE cgroup
    /\ pc' = "done"
    /\ UNCHANGED <<contained, tree, unread, late, canceled, reason, reaper, total,
                   result>>

-----------------------------------------------------------------------------

Supervisor ==
    \/ SetUp \/ SetUpFails
    \/ Spawn \/ SpawnLocal \/ SpawnFails
    \/ Join \/ JoinFails
    \/ \E s \in Streams : Data(s)
    \/ TimePasses \/ TimerFires
    \/ ReaperKills \/ ReaperSweeps
    \/ Ended \/ Reaped \/ Sample \/ Remove

Target ==
    \/ \E k \in Kids : Fork(k)
    \/ \E p \in Procs : Exit(p)
    \/ \E s \in Streams : Write(s)

Next == Supervisor \/ Target \/ Cancel

Spec == Init /\ [][Next]_vars

\* Time passes, timers fire, and Node delivers events.  Nothing is assumed of
\* the target, which may run, fork and write as it likes.
FairSpec == Spec /\ WF_vars(Supervisor)
-----------------------------------------------------------------------------
(* Properties.                                                             *)

Result == [termination : {"none", "spawn_failed", "timed_out", "signaled",
                          "exited", "killed"},
           exit : Exits, breach : SUBSET Measured, total : [Streams -> Nat],
           late : BOOLEAN]

\* The type of every variable.  Only a run with a cgroup has a reaper.
TypeOK ==
    /\ contained \in BOOLEAN
    /\ cgroup \in {"none", "present", "removed"}
    /\ born \subseteq Procs /\ alive \subseteq born
    /\ group \subseteq born /\ caged \subseteq born /\ piped \subseteq born
    /\ exit \in Exits
    /\ unread \subseteq Streams
    /\ late \in BOOLEAN
    /\ pc \in Points
    /\ canceled \in BOOLEAN
    /\ reason \in Reasons
    /\ reaper \in IF contained THEN Stages ELSE {"none"}
    /\ total \in [Streams -> Nat]
    /\ result \in Result

Sampled == result.termination \notin {"none", "spawn_failed"}

\* When run() returns the result of a run it has stopped, whatever the reason,
\* no process of the child's group or of its cgroup is running any more: not
\* one that was forked while the reaper was at work, nor before the child had
\* joined the cgroup.
StoppedLeavesNothing ==
    Sampled /\ reason # "none" => alive \cap (group \cup caged) = {}

\* A run that the supervisor stopped for a limit is reported under a limit and
\* never as a crash of the target: what makes stop() fire and what the
\* classifier looks at are the same limits.
StopIsReported ==
    Sampled /\ reason \in {"wall", "output"} =>
        \A v \in Verdict(result) : Rank[v] = 1

\* The verdict "passed" is earned: the child ended with exit code 0, it wrote no
\* more than it may, and it was not stopped for a limit.
PassedIsEarned ==
    Verdict(result) = {"passed"} /\ pc = "done" =>
        /\ result.exit = "zero" \/ reason = "cancel"
        /\ reason \in {"none", "cancel"}
        /\ Combined(total) <= CombinedCap
        /\ Leader \notin alive

\* A process that neither the group nor the cgroup covers holds the pipes.
Escaped == (alive \cap piped) \ (group \cup caged) # {}

\* Every run ends, however its target behaves, unless a process that has left
\* the group without being in the cgroup keeps the child's pipes open.
RunSettles == <>(pc = "done" \/ Escaped)

-----------------------------------------------------------------------------
(* The inductive invariant behind the theorems of SandboxProofs.           *)

\* Before the child is spawned nothing has happened; only a run with a cgroup
\* has an await between the spawn and the feeding of the child.
BeforePart ==
    /\ pc \in {"setup", "spawning"} =>
          /\ born = {} /\ exit = "none" /\ unread = {}
          /\ reason = "none" /\ reaper = "none"
    /\ pc = "joining" => contained

\* The child leads its group, and it is running only while it has not ended.
LeaderPart ==
    /\ Leader \in born => Leader \in group
    /\ exit # "none" => Leader \notin alive
    /\ exit = "error" => born = {}

\* A run with a cgroup has it until run() returns, and the cgroup covers its
\* members as long as one of them runs.
CagePart ==
    /\ contained /\ pc \notin {"setup", "done"} => cgroup = "present"
    /\ ~contained => caged = {}
    /\ caged # {} => cgroup # "none"
    /\ cgroup = "removed" => alive \cap caged = {}

\* What each way of stopping a run has reached: without a cgroup the group, at
\* once; with one the group when the grace period is over and then the cgroup.
ReachPart ==
    /\ reason # "none" /\ contained => reaper # "none"
    /\ reason # "none" /\ ~contained => alive \cap group = {}
    /\ reaper = "killing" => alive \cap group = {}
    /\ reaper = "done" => alive \cap (group \cup caged) = {}

\* After the "close" event nobody holds the pipes, so no data event can stop
\* the run any more, and what is sampled is final.
ClosedPart ==
    pc \in {"reaping", "sampling"} \/ Sampled => Closed

Exceeds(tot) == (\E s \in Streams : Truncated(tot, s)) \/ Combined(tot) > CombinedCap

\* A run is sampled when its reaper is done, and its result tells what stopped it.
SampledPart ==
    /\ pc = "sampling" \/ Sampled => reaper \in {"none", "done"}
    /\ Sampled => /\ pc \in {"removing", "done"}
                  /\ result.termination = Termination
                  /\ result.exit = exit /\ result.total = total
    /\ pc \in {"removing", "done"} => result.termination # "none"
    /\ reason = "output" => Exceeds(total)

SandboxInv ==
    /\ TypeOK /\ BeforePart /\ LeaderPart /\ CagePart /\ ReachPart
    /\ ClosedPart /\ SampledPart

\* A run that waits for its child has one, and a child that has ended is known
\* to have: or it could not be spawned.
EndedPart ==
    /\ pc \in {"joining", "waiting", "reaping", "sampling"} =>
          Leader \in born \/ exit = "error"
    /\ Leader \in born \ alive => exit # "none"

\* Something that the supervisor has to do and can do: an await that is over, a
\* "data" event to be delivered, a timer that is armed, a reaper at work.
Due ==
    \/ pc \in {"setup", "spawning", "joining", "sampling", "removing"}
    \/ unread # {}
    \/ pc = "waiting" /\ (~late \/ reason = "none" \/ Closed)
    \/ pc = "reaping" /\ reaper \in {"none", "done"}
    \/ reaper \in {"grace", "killing"}

\* run() never waits for nothing: until it has returned the supervisor has
\* something to do that needs no help of the target, unless a process has escaped
\* with the child's pipes.  A run that its timer has stopped and its reaper has
\* swept is closed.
RunIsNeverStuck == pc = "done" \/ Escaped \/ Due
=============================================================================
