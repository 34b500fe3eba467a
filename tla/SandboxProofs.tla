--------------------------- MODULE SandboxProofs ---------------------------
(***************************************************************************)
(* Theorems about one run of the sandbox, for any processes, caps and      *)
(* amounts of output: a run that was stopped leaves nothing running that   *)
(* the supervisor could reach, what stopped it is what it is reported as,  *)
(* "passed" is earned, and the supervisor never waits for nothing.         *)
(***************************************************************************)
EXTENDS Sandbox, TLAPS

\* The initial state satisfies the invariant.
LEMMA InitSandboxInv == Init => SandboxInv
<1> SUFFICES ASSUME Init PROVE SandboxInv
  OBVIOUS
<1>1. TypeOK
  BY DEF Init, TypeOK, Exits, Signals, Points, Reasons, Stages, Streams, Procs, NoResult, Result
<1>2. BeforePart /\ LeaderPart /\ CagePart /\ ReachPart
  BY DEF Init, BeforePart, LeaderPart, CagePart, ReachPart
<1>3. ~Sampled
  BY DEF Init, Sampled, NoResult
<1>4. ClosedPart /\ SampledPart
  BY <1>3 DEF Init, ClosedPart, SampledPart
<1> QED
  BY <1>1, <1>2, <1>4 DEF SandboxInv

-----------------------------------------------------------------------------
(* Steps of the target: the process tree changes, the supervisor does not. *)

\* A fork adds a process only where its parent was running.
LEMMA ForkKeeps ==
    ASSUME SandboxInv, NEW k \in Kids, Fork(k)
    PROVE  SandboxInv'
<1> USE ProcAssumption DEF SandboxInv, Fork, run
<1>1. TypeOK'
  BY DEF TypeOK, Procs
<1>2. BeforePart' /\ LeaderPart'
  BY DEF TypeOK, BeforePart, LeaderPart
<1>3. CagePart'
  BY DEF TypeOK, CagePart
<1>4. ReachPart'
  BY DEF TypeOK, ReachPart, CagePart
<1>5. ClosedPart'
  BY DEF TypeOK, ClosedPart, Closed, Sampled
<1>6. SampledPart'
  BY DEF TypeOK, SampledPart, Sampled, Termination, Exceeds, Truncated, Combined
<1> QED
  BY <1>1, <1>2, <1>3, <1>4, <1>5, <1>6

\* A process that ends; the child's end stays what it is.
LEMMA ExitKeeps ==
    ASSUME SandboxInv, NEW p \in Procs, Exit(p)
    PROVE  SandboxInv'
<1> USE ProcAssumption DEF SandboxInv, Exit, run
<1>1. TypeOK'
  BY DEF TypeOK, Exits, Signals
<1>2. BeforePart' /\ LeaderPart'
  BY DEF Signals, TypeOK, BeforePart, LeaderPart
<1>3. CagePart' /\ ReachPart'
  BY DEF TypeOK, CagePart, ReachPart
<1>4. ClosedPart'
  BY DEF TypeOK, ClosedPart, Closed, Sampled, LeaderPart
<1>5. SampledPart'
  BY DEF TypeOK, SampledPart, Sampled, Termination, Exceeds, Truncated, Combined,
         ClosedPart, Closed, LeaderPart
<1> QED
  BY <1>1, <1>2, <1>3, <1>4, <1>5

\* A write needs a running process with an open pipe.
LEMMA WriteKeeps ==
    ASSUME SandboxInv, NEW s \in Streams, Write(s)
    PROVE  SandboxInv'
<1> USE DEF SandboxInv, Write, run, tree
<1>1. TypeOK'
  BY DEF TypeOK
<1>2. BeforePart' /\ LeaderPart' /\ CagePart' /\ ReachPart'
  BY DEF TypeOK, BeforePart, LeaderPart, CagePart, ReachPart
<1>3. ClosedPart' /\ SampledPart'
  BY DEF TypeOK, ClosedPart, Closed, Sampled, SampledPart, Termination, Exceeds,
         Truncated, Combined
<1> QED
  BY <1>1, <1>2, <1>3

-----------------------------------------------------------------------------
(* stop() and the reaper.                                                  *)

\* Being over a cap is for ever.
LEMMA ExceedsGrows ==
    ASSUME NEW f \in [Streams -> Nat], NEW g \in [Streams -> Nat],
           \A s \in Streams : f[s] <= g[s], Exceeds(f)
    PROVE  Exceeds(g)
<1>1. "stdout" \in Streams /\ "stderr" \in Streams
  BY DEF Streams
<1>2. CASE \E s \in Streams : Truncated(f, s)
  BY <1>2, CapAssumption DEF Exceeds, Truncated
<1>3. CASE Combined(f) > CombinedCap
  <2>1. Combined(g) >= Combined(f)
    BY <1>1 DEF Combined
  <2>2. Combined(g) \in Nat /\ Combined(f) \in Nat
    BY <1>1 DEF Combined
  <2> QED
    BY <1>3, <2>1, <2>2, CapAssumption DEF Exceeds
<1> QED
  BY <1>2, <1>3 DEF Exceeds

\* A data event, the timer and the user stop the run, or find it stopped: while
\* the child may still have its pipes open.
LEMMA StopKeeps ==
    ASSUME SandboxInv, NEW next \in Reasons \ {"none"},
           pc \notin {"setup", "spawning", "reaping", "sampling"}, ~Sampled,
           Stop(next) \/ UNCHANGED <<reason, reaper, tree>>,
           next = "output" => Exceeds(total'),
           total' \in [Streams -> Nat], \A s \in Streams : total[s] <= total'[s],
           unread' \subseteq unread, canceled' \in BOOLEAN,
           UNCHANGED <<contained, cgroup, late, pc, result>>
    PROVE  SandboxInv'
<1> USE ProcAssumption DEF SandboxInv, Stop, Kill, tree
<1>1. TypeOK'
  BY DEF TypeOK, Exits, Signals, Stages, Reasons
<1>2. BeforePart' /\ LeaderPart'
  BY DEF TypeOK, BeforePart, LeaderPart
<1>3. CagePart'
  BY DEF TypeOK, CagePart
<1>4. ReachPart'
  BY DEF TypeOK, ReachPart, LeaderPart, CagePart
<1>5. ClosedPart'
  BY DEF ClosedPart, Sampled
<1>6. reason' = "output" => Exceeds(total')
  <2>1. reason' = "output" => reason = "output" \/ next = "output"
    OBVIOUS
  <2>2. total \in [Streams -> Nat]
    BY DEF TypeOK
  <2> QED
    BY <2>1, <2>2, ExceedsGrows DEF SampledPart
<1>7. SampledPart'
  BY <1>6 DEF SampledPart, Sampled, Exceeds
<1> QED
  BY <1>1, <1>2, <1>3, <1>4, <1>5, <1>7

\* Data events come only while a pipe is open, so not for a sampled run.
LEMMA DataKeeps ==
    ASSUME SandboxInv, NEW s \in Streams, Data(s)
    PROVE  SandboxInv'
<1>1. pc \notin {"setup", "spawning", "reaping", "sampling"} /\ ~Sampled
  BY DEF SandboxInv, Data, BeforePart, ClosedPart, Closed
<1>2. total \in [Streams -> Nat]
  BY DEF SandboxInv, TypeOK
<1>3. /\ total' \in [Streams -> Nat]
      /\ \A q \in Streams : total[q] <= total'[q]
  BY <1>2 DEF Data
<1>4. UNCHANGED <<contained, cgroup, late, pc, canceled, result>> /\ unread' \subseteq unread
  BY DEF Data
<1>5. canceled' \in BOOLEAN
  BY <1>4 DEF SandboxInv, TypeOK
<1>6. CASE Exceeds(total') /\ Stop("output")
  BY <1>1, <1>3, <1>4, <1>5, <1>6, StopKeeps DEF Reasons
<1>7. CASE UNCHANGED <<reason, reaper, tree>>
  BY <1>1, <1>3, <1>4, <1>5, <1>7, StopKeeps DEF Reasons
<1> QED
  BY <1>6, <1>7 DEF Data, Exceeds

\* The clock disturbs nothing, and the timer fires only while run() waits.
LEMMA TimerKeeps ==
    ASSUME SandboxInv, TimePasses \/ TimerFires
    PROVE  SandboxInv'
<1>1. CASE TimePasses
  BY <1>1 DEF SandboxInv, TimePasses, tree, TypeOK, BeforePart, LeaderPart, CagePart,
              ReachPart, ClosedPart, Closed, SampledPart, Sampled, Termination,
              Exceeds, Truncated, Combined
<1>2. CASE TimerFires
  <2>1. ~Sampled
    BY <1>2 DEF TimerFires, SandboxInv, SampledPart
  <2>2. total \in [Streams -> Nat] /\ canceled \in BOOLEAN
    BY DEF SandboxInv, TypeOK
  <2> QED
    BY <1>2, <2>1, <2>2, StopKeeps DEF TimerFires, Reasons
<1> QED
  BY <1>1, <1>2

\* A cancellation stops the run if run() has subscribed to the token.
LEMMA CancelKeeps ==
    ASSUME SandboxInv, Cancel
    PROVE  SandboxInv'
<1>1. CASE pc = "waiting"
  <2>1. ~Sampled
    BY <1>1 DEF SandboxInv, SampledPart
  <2>2. total \in [Streams -> Nat] /\ \A s \in Streams : total[s] <= total[s]
    BY DEF SandboxInv, TypeOK
  <2> QED
    BY <1>1, <2>1, <2>2, StopKeeps DEF Cancel, Reasons
<1>2. CASE pc # "waiting"
  BY <1>2 DEF SandboxInv, Cancel, tree, TypeOK, BeforePart, LeaderPart, CagePart,
              ReachPart, ClosedPart, Closed, SampledPart, Sampled, Termination,
              Exceeds, Truncated, Combined
<1> QED
  BY <1>1, <1>2

\* The reaper's two strikes reach the group and then the cgroup.
LEMMA ReaperKeeps ==
    ASSUME SandboxInv, ReaperKills \/ ReaperSweeps
    PROVE  SandboxInv'
<1> USE ProcAssumption DEF SandboxInv, ReaperKills, ReaperSweeps, Kill
<1>1. TypeOK'
  BY DEF TypeOK, Exits, Signals, Stages
<1>2. BeforePart' /\ LeaderPart' /\ CagePart'
  BY DEF TypeOK, BeforePart, LeaderPart, CagePart
<1>3. ReachPart'
  BY DEF TypeOK, ReachPart, CagePart
<1>4. ClosedPart'
  BY DEF TypeOK, ClosedPart, Closed, Sampled
<1>5. SampledPart'
  BY DEF SampledPart, Sampled, Exceeds, Truncated, Combined
<1> QED
  BY <1>1, <1>2, <1>3, <1>4, <1>5

-----------------------------------------------------------------------------
(* run().                                                                  *)

\* What run() returns without a run is a result.
LEMMA ReturnedType == NoResult \in Result /\ Returned("spawn_failed") \in Result
<1>1. [s \in Streams |-> 0] \in [Streams -> Nat]
  OBVIOUS
<1> QED
  BY <1>1 DEF NoResult, Returned, Result, Exits, Signals

\* Up to the moment when the child is there, or cannot be.
LEMMA SetUpKeeps ==
    ASSUME SandboxInv, SetUp \/ SetUpFails
    PROVE  SandboxInv'
<1> USE DEF SandboxInv, SetUp, SetUpFails, kernel, tree
<1>1. TypeOK'
  <2>1. result' \in Result
    BY ReturnedType DEF TypeOK
  <2>2. CASE SetUp
    BY <2>1, <2>2 DEF TypeOK, Points
  <2>3. CASE SetUpFails
    BY <2>1, <2>3 DEF TypeOK, Points
  <2> QED
    BY <2>2, <2>3
<1>2. BeforePart' /\ LeaderPart' /\ CagePart' /\ ReachPart'
  BY DEF TypeOK, BeforePart, LeaderPart, CagePart, ReachPart
<1>3. ClosedPart' /\ SampledPart'
  BY DEF ClosedPart, SampledPart, BeforePart, Sampled, Returned, NoResult
<1> QED
  BY <1>1, <1>2, <1>3

\* The child is there, alone in its group, or will never be.
LEMMA SpawnKeeps ==
    ASSUME SandboxInv, Spawn \/ SpawnLocal \/ SpawnFails
    PROVE  SandboxInv'
<1> USE DEF SandboxInv, Spawn, SpawnLocal, SpawnFails
<1>1. ~Sampled /\ ~Sampled'
  BY DEF SampledPart, Sampled
<1>2. TypeOK'
  <2>1. CASE Spawn
    BY <2>1 DEF TypeOK, BeforePart, Points, Procs
  <2>2. CASE SpawnLocal
    BY <2>2 DEF TypeOK, BeforePart, Points, Exits, Signals, Reasons, Procs
  <2>3. CASE SpawnFails
    BY <2>3 DEF TypeOK, Points, Exits, Signals, Reasons, Stages
  <2> QED
    BY <2>1, <2>2, <2>3
<1>3. BeforePart' /\ LeaderPart'
  BY DEF TypeOK, BeforePart, LeaderPart
<1>4. CagePart' /\ ReachPart'
  BY DEF TypeOK, BeforePart, CagePart, ReachPart
<1>5. ClosedPart' /\ SampledPart'
  BY <1>1 DEF ClosedPart, SampledPart, BeforePart
<1> QED
  BY <1>2, <1>3, <1>4, <1>5

\* A child that joins its cgroup late, when the reaper is done, is dead already.
LEMMA JoinKeeps ==
    ASSUME SandboxInv, Join \/ JoinFails
    PROVE  SandboxInv'
<1> USE DEF SandboxInv, Join, JoinFails, kernel, tree
<1>1. ~Sampled /\ ~Sampled'
  BY DEF SampledPart, Sampled, Returned, NoResult
<1>2. TypeOK'
  <2>1. result' \in Result
    BY ReturnedType DEF TypeOK
  <2>2. CASE Join
    BY <2>1, <2>2 DEF TypeOK, Points, Reasons, Stages, BeforePart
  <2>3. CASE JoinFails
    BY <2>1, <2>3 DEF TypeOK, Points
  <2> QED
    BY <2>2, <2>3
<1>3. BeforePart' /\ LeaderPart'
  BY DEF TypeOK, BeforePart, LeaderPart
<1>5. CagePart' /\ ReachPart'
  BY DEF TypeOK, BeforePart, LeaderPart, CagePart, ReachPart
<1>6. ClosedPart' /\ SampledPart'
  BY <1>1 DEF ClosedPart, SampledPart, Exceeds, Truncated, Combined, Returned,
              NoResult
<1> QED
  BY <1>2, <1>3, <1>5, <1>6

\* From the "close" event on, what is sampled is final.
LEMMA EndKeeps ==
    ASSUME SandboxInv, Ended \/ Reaped \/ Remove
    PROVE  SandboxInv'
<1> USE DEF SandboxInv, Ended, Reaped, Remove, kernel, tree
<1>1. TypeOK'
  BY DEF TypeOK, Points
<1>2. BeforePart' /\ LeaderPart' /\ CagePart' /\ ReachPart'
  BY DEF TypeOK, BeforePart, LeaderPart, CagePart, ReachPart
<1>3. ClosedPart'
  BY DEF ClosedPart, Closed, Sampled
<1>4. SampledPart'
  BY DEF SampledPart, Sampled, Termination, Exceeds, Truncated, Combined
<1> QED
  BY <1>1, <1>2, <1>3, <1>4

\* The result is put together from the state that it describes.
LEMMA SampleKeeps ==
    ASSUME SandboxInv, Sample
    PROVE  SandboxInv'
<1> USE DEF SandboxInv, Sample, kernel, tree
<1>1. Termination \in {"spawn_failed", "timed_out", "signaled", "exited", "killed"}
  BY DEF Termination, TypeOK, Reasons
<1>2. PICK breach \in SUBSET Measured :
        result' = [termination |-> Termination, exit |-> exit, breach |-> breach,
                   total |-> total, late |-> late]
  BY DEF TypeOK
<1>3. TypeOK'
  BY <1>1, <1>2 DEF TypeOK, Points, Result
<1>4. BeforePart' /\ LeaderPart' /\ CagePart' /\ ReachPart'
  BY DEF TypeOK, BeforePart, LeaderPart, CagePart, ReachPart
<1>5. ClosedPart'
  BY DEF ClosedPart, Closed
<1>6. Termination' = Termination
  BY DEF Termination
<1>7. /\ result'.termination = Termination' /\ result'.exit = exit'
      /\ result'.total = total' /\ result'.termination # "none"
  BY <1>1, <1>2, <1>6
<1>8. SampledPart'
  BY <1>7 DEF SampledPart, Exceeds, Truncated, Combined
<1> QED
  BY <1>3, <1>4, <1>5, <1>8

\* Every step preserves the invariant.
LEMMA NextSandboxInv == SandboxInv /\ [Next]_vars => SandboxInv'
<1> SUFFICES ASSUME SandboxInv, [Next]_vars PROVE SandboxInv'
  OBVIOUS
<1>1. CASE Supervisor
  BY <1>1, SetUpKeeps, SpawnKeeps, JoinKeeps, DataKeeps, TimerKeeps, ReaperKeeps,
     EndKeeps, SampleKeeps DEF Supervisor
<1>2. CASE Target
  BY <1>2, ForkKeeps, ExitKeeps, WriteKeeps DEF Target
<1>3. CASE Cancel
  BY <1>3, CancelKeeps
<1>4. CASE UNCHANGED vars
  BY <1>4 DEF vars, kernel, tree, run, SandboxInv, TypeOK, BeforePart, LeaderPart,
              CagePart, ReachPart, ClosedPart, Closed, SampledPart, Sampled,
              Termination, Exceeds, Truncated, Combined
<1> QED
  BY <1>1, <1>2, <1>3, <1>4 DEF Next

-----------------------------------------------------------------------------
(* The theorems.                                                           *)

\* The inductive invariant holds in every reachable state.
THEOREM SandboxInvariant == Spec => []SandboxInv
<1> QED
  BY InitSandboxInv, NextSandboxInv, PTL DEF Spec

\* Every variable keeps its type, and a local run never has a reaper: stop() of
\* linux-sandbox.ts takes one of two ways.
THEOREM SandboxTypeCorrect == Spec => []TypeOK
<1>1. SandboxInv => TypeOK
  BY DEF SandboxInv
<1> QED
  BY <1>1, SandboxInvariant, PTL

\* When run() reports a run that it has stopped, nothing that it could reach is
\* running, however the target forks while it is being killed.
THEOREM StoppedRunIsGone == Spec => []StoppedLeavesNothing
<1>1. SandboxInv => StoppedLeavesNothing
  <2> SUFFICES ASSUME SandboxInv, Sampled, reason # "none"
               PROVE  alive \cap (group \cup caged) = {}
    BY DEF StoppedLeavesNothing
  <2> USE DEF SandboxInv
  <2>1. CASE contained
    BY <2>1 DEF ReachPart, SampledPart
  <2>2. CASE ~contained
    BY <2>2 DEF ReachPart, CagePart
  <2> QED
    BY <2>1, <2>2 DEF TypeOK
<1> QED
  BY <1>1, SandboxInvariant, PTL

-----------------------------------------------------------------------------
(* The verdict.                                                            *)

\* Only "passed" has the last tier, and what the sandbox observes has none
\* before that of the limits.
LEMMA CausesRanked ==
    ASSUME NEW r, r.breach \subseteq Measured
    PROVE  /\ \A c \in Causes(r) : Rank[c] \in 1 .. 6
           /\ \A c \in Causes(r) : c # "passed" => Rank[c] < 6
           /\ Rank["passed"] = 6 /\ Rank["tle_wall"] = 1 /\ Rank["output_limit"] = 1
<1>1. \A c \in Causes(r) : c \in {"tle_cpu", "tle_wall", "mle", "output_limit",
                                  "file_limit", "process_limit", "signaled", "nonzero_exit", "passed"}
  BY MeasureAssumption DEF Causes, SignalCauses
<1>2. /\ \A c \in {"tle_cpu", "tle_wall", "mle", "output_limit", "file_limit",
                   "process_limit"} : Rank[c] = 1
      /\ Rank["signaled"] = 3 /\ Rank["nonzero_exit"] = 4 /\ Rank["passed"] = 6
  BY DEF Rank
<1> QED
  BY <1>1, <1>2

\* What stop() compares is what the classifier compares: a run that was stopped
\* for the wall or the output limit has a verdict of the limits' tier.
THEOREM StoppedRunIsReported == Spec => []StopIsReported
<1>1. SandboxInv => StopIsReported
  <2> SUFFICES ASSUME SandboxInv, Sampled, reason \in {"wall", "output"},
                      NEW v \in Verdict(result)
               PROVE  Rank[v] = 1
    BY DEF StopIsReported
  <2>1. /\ v \in Causes(result)
        /\ \A d \in Causes(result) : Rank[v] <= Rank[d]
    BY DEF Verdict, Sampled
  <2>2. result.breach \subseteq Measured
    BY DEF SandboxInv, TypeOK, Result
  <2>3. \E d \in Causes(result) : Rank[d] = 1
    <3>1. CASE reason = "wall"
      <4>1. result.termination = "timed_out"
        BY <3>1 DEF SandboxInv, SampledPart, Sampled, Termination
      <4>2. "tle_wall" \in Causes(result)
        BY <4>1 DEF Causes
      <4> QED
        BY <4>2, <2>2, CausesRanked
    <3>2. CASE reason = "output"
      <4>1. Exceeds(result.total)
        BY <3>2 DEF SandboxInv, SampledPart
      <4>2. "output_limit" \in Causes(result)
        BY <4>1 DEF Causes, Exceeds
      <4> QED
        BY <4>2, <2>2, CausesRanked
    <3> QED
      BY <3>1, <3>2
  <2>4. Rank[v] \in 1 .. 6
    BY <2>1, <2>2, CausesRanked
  <2> QED
    BY <2>1, <2>3, <2>4
<1> QED
  BY <1>1, SandboxInvariant, PTL

\* "passed" means that the child ended with exit code 0 within its limits, and
\* that nobody but the user tried to stop it.
THEOREM PassedRunIsEarned == Spec => []PassedIsEarned
<1>1. SandboxInv => PassedIsEarned
  <2> SUFFICES ASSUME SandboxInv, Verdict(result) = {"passed"}, pc = "done"
               PROVE  /\ result.exit = "zero" \/ reason = "cancel"
                      /\ reason \in {"none", "cancel"}
                      /\ Combined(total) <= CombinedCap
                      /\ Leader \notin alive
    BY DEF PassedIsEarned
  <2>1. Sampled
    BY DEF Sampled, Verdict, SandboxInv, SampledPart
  <2>2. result.breach \subseteq Measured
    BY DEF SandboxInv, TypeOK, Result
  <2>3. "passed" \in Causes(result) /\ \A d \in Causes(result) : 6 <= Rank[d]
    <3>1. "passed" \in Verdict(result)
      OBVIOUS
    <3> QED
      BY <3>1, <2>1, <2>2, CausesRanked DEF Verdict, Sampled
  <2>4. \A d \in Causes(result) : d = "passed"
    <3> TAKE d \in Causes(result)
    <3>1. Rank[d] \in 1 .. 6 /\ (d # "passed" => Rank[d] < 6) /\ 6 <= Rank[d]
      BY <2>2, <2>3, CausesRanked
    <3> QED
      BY <3>1
  <2>5. /\ result.termination # "timed_out" /\ result.exit \notin Signals
        /\ ~(result.termination = "exited" /\ result.exit = "nonzero")
        /\ ~Exceeds(result.total)
    BY <2>4 DEF Causes, SignalCauses, Signals, Exceeds
  <2>6. /\ result.termination = Termination /\ result.exit = exit
        /\ result.total = total /\ exit # "none" /\ exit \in Exits
        /\ result.termination # "spawn_failed"
    BY <2>1 DEF SandboxInv, SampledPart, ClosedPart, Closed, TypeOK, Sampled
  <2>7. reason \in {"none", "cancel"}
    BY <2>5, <2>6 DEF SandboxInv, SampledPart, TypeOK, Reasons, Termination
  <2>8. result.exit = "zero" \/ reason = "cancel"
    BY <2>5, <2>6, <2>7 DEF Termination, Exits, Signals
  <2>9. Combined(total) <= CombinedCap
    <3>1. Combined(total) \in Nat
      BY DEF SandboxInv, TypeOK, Combined, Streams
    <3> QED
      BY <2>5, <2>6, <3>1, CapAssumption DEF Exceeds
  <2>10. Leader \notin alive
    BY <2>6 DEF SandboxInv, LeaderPart
  <2> QED
    BY <2>7, <2>8, <2>9, <2>10
<1> QED
  BY <1>1, SandboxInvariant, PTL

-----------------------------------------------------------------------------
(* Every run can go on.                                                    *)

\* Who ends is known to have ended: no step lets the child die unnoticed.
LEMMA NextEnded == SandboxInv /\ EndedPart /\ [Next]_vars => EndedPart'
<1> SUFFICES ASSUME SandboxInv, EndedPart, [Next]_vars PROVE EndedPart'
  OBVIOUS
<1> USE DEF EndedPart
<1>1. /\ alive \subseteq born
      /\ pc \in {"setup", "spawning"} => born = {}
  BY DEF SandboxInv, TypeOK, BeforePart
<1>2. \A next : Stop(next) => /\ born' = born
                              /\ exit' \in {exit, "signal"}
                              /\ alive' \subseteq alive
                              /\ Leader \in alive \ alive' => exit' # "none"
                              /\ exit # "none" => exit' # "none"
                              /\ exit = "error" => exit' = "error"
  <2>1. exit = "error" => Leader \notin alive
    BY DEF SandboxInv, LeaderPart
  <2> QED
    BY <2>1 DEF Stop, Kill, tree
<1>3. CASE Target
  <2>1. CASE \E k \in Kids : Fork(k)
    BY <2>1, <1>1, ProcAssumption DEF Fork, run
  <2>2. CASE \E p \in Procs : Exit(p)
    BY <2>2, <1>1 DEF Exit, Signals, run, SandboxInv, LeaderPart
  <2>3. CASE \E s \in Streams : Write(s)
    BY <2>3 DEF Write, run, tree
  <2> QED
    BY <1>3, <2>1, <2>2, <2>3 DEF Target
<1>4. CASE \E s \in Streams : Data(s)
  <2>1. pc' = pc /\ ((\E next : Stop(next)) \/ UNCHANGED tree)
    BY <1>4 DEF Data
  <2> QED
    BY <1>1, <1>2, <2>1 DEF tree
<1>5. CASE TimerFires \/ Cancel
  <2>1. pc' = pc /\ ((\E next : Stop(next)) \/ UNCHANGED tree)
    BY <1>5 DEF TimerFires, Cancel
  <2> QED
    BY <1>1, <1>2, <2>1 DEF tree
<1>6. CASE ReaperKills \/ ReaperSweeps
  BY <1>6, <1>1 DEF ReaperKills, ReaperSweeps, Kill, SandboxInv, LeaderPart
<1>7. CASE Spawn \/ SpawnLocal \/ SpawnFails
  BY <1>7, <1>1 DEF Spawn, SpawnLocal, SpawnFails
<1>8. CASE SetUp \/ SetUpFails \/ Join \/ JoinFails
  BY <1>8 DEF SetUp, SetUpFails, Join, JoinFails, kernel, tree
<1>9. CASE TimePasses \/ Ended \/ Reaped \/ Sample \/ Remove
  BY <1>9 DEF TimePasses, Ended, Reaped, Sample, Remove, kernel, tree
<1>10. CASE UNCHANGED vars
  BY <1>10 DEF vars, kernel, tree, run
<1> QED
  BY <1>3, <1>4, <1>5, <1>6, <1>7, <1>8, <1>9, <1>10 DEF Next, Supervisor

\* The supervisor of linux-sandbox.ts is never stuck, whatever the target does:
\* once the wall limit has stopped a run and the reaper has struck, nobody whom
\* it could reach holds the pipes, and the "close" event is due.
THEOREM SupervisorIsNeverStuck == Spec => []RunIsNeverStuck
<1>1. Init => EndedPart
  BY DEF Init, EndedPart
<1>2. SandboxInv /\ EndedPart => RunIsNeverStuck
  <2> SUFFICES ASSUME SandboxInv, EndedPart, pc # "done", ~Escaped PROVE Due
    BY DEF RunIsNeverStuck
  <2> SUFFICES ASSUME pc \in {"waiting", "reaping"}, unread = {},
                      reaper \in {"none", "done"}
               PROVE  pc = "reaping" \/ ~late \/ reason = "none" \/ Closed
    BY DEF SandboxInv, TypeOK, Points, Stages, Due
  <2>1. CASE pc = "waiting" /\ reason # "none"
    <3>1. alive \cap (group \cup caged) = {}
      BY <2>1 DEF SandboxInv, TypeOK, ReachPart, CagePart
    <3>2. alive \cap piped = {}
      BY <3>1 DEF Escaped
    <3>3. exit # "none"
      BY <2>1, <3>1 DEF EndedPart, SandboxInv, LeaderPart
    <3> QED
      BY <3>2, <3>3 DEF Closed
  <2>2. CASE pc = "reaping" \/ reason = "none"
    BY <2>2
  <2> QED
    BY <2>1, <2>2
<1>3. Spec => []EndedPart
  BY <1>1, NextEnded, SandboxInvariant, PTL DEF Spec
<1> QED
  BY <1>2, <1>3, SandboxInvariant, PTL
=============================================================================
