--------------------------- MODULE WatcherProofs ----------------------------
(***************************************************************************)
(* TLAPS proofs about Watcher, for any sets of jobs and incarnations.      *)
(***************************************************************************)
EXTENDS WatcherInv, TLAPS

-----------------------------------------------------------------------------
\* Types.  The lemmas about Goto, Leave, Fail, Forget, Mark and Killed say what
\* these helpers do to the type of the variables they assign.

PcType == pc \in [Watcher -> Up \cup {"off", "down"}]
LocalType ==
  /\ PcType
  /\ job \in [Watcher -> Job \cup {NoJob}]
  /\ outcome \in [Watcher -> Status \cup {"NONE"}]

\* Every label the actions mention is a program point of Watcher.
LEMMA Labels ==
  {"off", "down", "locking", "listing", "recovering", "recGen", "recFinal",
   "scanning", "claiming", "claimed", "verifying", "preparing", "approving",
   "unhooking", "checkStart", "writeStarted", "checkRun", "writeRunning",
   "checkSpawn", "spawning", "watching", "draining", "reaping", "collecting",
   "gen", "final", "aborting", "errGen", "errFinal", "unwinding", "leaving",
   "removing"} \subseteq Up \cup {"off", "down"}
BY DEF Up, Serving, Pulsed, Recovering, Preparing, Committing, Spawned,
       Publishing

\* The statuses the actions mention are statuses.
LEMMA Statuses ==
  {"REJECTED", "EXPIRED", "CANCELLED", "AVAILABILITY_UNKNOWN", "COMPLETED",
   "TIMED_OUT", "FAILED"} = Status
BY DEF Status, Relay!TerminalStatus, Relay!NotRunStatus, Relay!RunStatus

\* Goto assigns pc a program point.
LEMMA GotoType ==
  ASSUME PcType, NEW w, NEW p \in Up \cup {"off", "down"}, Goto(w, p)
  PROVE  PcType'
BY DEF PcType, Goto

\* Leave resets job and outcome.
LEMMA LeaveType ==
  ASSUME LocalType, NEW w, NEW p \in Up \cup {"off", "down"}, Leave(w, p)
  PROVE  LocalType'
<1>1. PcType'
  BY GotoType DEF LocalType, Leave
<1> QED BY <1>1 DEF LocalType, Leave

\* Fail assigns outcome a status.
LEMMA FailType ==
  ASSUME LocalType, NEW w, NEW p \in Up \cup {"off", "down"},
         NEW s \in Status \cup {"NONE"}, Fail(w, p, s)
  PROVE  LocalType'
<1>1. PcType'
  BY GotoType DEF LocalType, Fail
<1> QED BY <1>1 DEF LocalType, Fail

\* Forget resets the whole memory of a watcher.
LEMMA ForgetType ==
  ASSUME TypeOK, NEW w, Forget(w)
  PROVE  /\ LocalType'
         /\ (todo \in [Watcher -> SUBSET Job])'
         /\ (stop \in [Watcher -> BOOLEAN])'
         /\ (hbFailed \in [Watcher -> BOOLEAN])'
         /\ (cleanupFailed \in [Watcher -> BOOLEAN])'
<1>1. LocalType'
  BY LeaveType, Labels DEF TypeOK, LocalType, PcType, Forget
<1> QED BY <1>1 DEF TypeOK, Forget

\* Mark adds one marker.
LEMMA MarkType ==
  ASSUME NEW j, NEW m \in {"CLAIMED", "STARTED", "RUNNING"},
         marks \in [Job -> SUBSET {"CLAIMED", "STARTED", "RUNNING"}],
         Mark(j, m)
  PROVE  marks' \in [Job -> SUBSET {"CLAIMED", "STARTED", "RUNNING"}]
<1>1. CASE j \in Job
  BY <1>1 DEF Mark
<1>2. CASE j \notin Job
  BY <1>2 DEF Mark
<1> QED BY <1>1, <1>2

\* Killing moves a process to a known state.
LEMMA KilledType ==
  ASSUME NEW j, procs \in [Job -> {"none", "running", "orphans", "gone"}],
         procs' \in {procs} \cup Killed(j)
  PROVE  procs' \in [Job -> {"none", "running", "orphans", "gone"}]
<1>1. CASE procs' = procs
  BY <1>1
<1>2. CASE procs' \in Killed(j)
  <2>1. PICK p \in {"none", "orphans", "gone"} : procs' = [procs EXCEPT ![j] = p]
    BY <1>2 DEF Killed, Killing
  <2> QED BY <2>1
<1> QED BY <1>1, <1>2

\* Killing adds no hook.
LEMMA HookKilledType ==
  ASSUME NEW j, hooks \subseteq Job, hooks' \in HookKilled(j)
  PROVE  hooks' \subseteq Job
BY DEF HookKilled

\* _prelaunch stops a launch for one of two reasons.
LEMMA VerdictType ==
  ASSUME NEW w, NEW j
  PROVE  Verdict(w, j) \in {"NONE", "CANCELLED", "EXPIRED"}
BY DEF Verdict

\* Both outcomes of _prelaunch are well typed.
LEMMA PrelaunchType ==
  ASSUME LocalType, NEW w, NEW p \in Up \cup {"off", "down"}, Prelaunch(w, p)
  PROVE  LocalType'
<1>1. CASE Goto(w, p) /\ UNCHANGED <<job, outcome>>
  BY <1>1, GotoType DEF LocalType
<1>2. ASSUME NEW s \in {"NONE", "CANCELLED", "EXPIRED", "REJECTED"},
             Fail(w, "aborting", s)
      PROVE  LocalType'
  BY <1>2, FailType, Labels, Statuses
<1> QED BY <1>1, <1>2, VerdictType DEF Prelaunch

\* An interrupt changes a process only inside Popen.
LEMMA InterruptCases ==
  ASSUME NEW w, Interrupt(w)
  PROVE  \/ UNCHANGED <<procs, hooks, launches>>
         \/ /\ pc[w] = "spawning" /\ Leave(w, "leaving")
            /\ launches' = [launches EXCEPT ![job[w]] = launches[job[w]] + 1]
BY DEF Interrupt, osVars

\* So are the three ways out of a failed publication.
LEMMA PublishFailedType ==
  ASSUME LocalType, NEW w, PublishFailed(w),
         pc[w] \in {"gen", "final", "errGen", "errFinal", "recGen", "recFinal"}
  PROVE  LocalType'
<1>1. Fail(w, "aborting", "FAILED") \/ Leave(w, "scanning")
        \/ Leave(w, "recovering")
  BY DEF PublishFailed
<1> QED BY <1>1, FailType, LeaveType, Labels, Statuses

\* Every variable keeps its type in every step.
LEMMA TypeStep == TypeOK /\ JobKnown /\ OutcomeTrue /\ [Next]_vars => TypeOK'
<1> SUFFICES ASSUME TypeOK, JobKnown, OutcomeTrue, [Next]_vars PROVE TypeOK'
  OBVIOUS
<1> USE WatcherAssumption
    DEF TypeOK, LocalType, PcType, vars, worldVars, storeVars, osVars,
        flagVars, localVars
<1>1. ASSUME NEW w \in Watcher, RecoverStep(w) PROVE TypeOK'
  <2>1. CASE Boot(w)
    BY <2>1, Labels, Statuses, GotoType DEF Boot
  <2>2. CASE WriteOwner(w)
    BY <2>2, Labels, Statuses, GotoType, ForgetType DEF WriteOwner
  <2>3. CASE ListClaims(w)
    BY <2>3, Labels, Statuses, GotoType DEF ListClaims
  <2>4. CASE Recovered(w)
    BY <2>4, Labels, Statuses, GotoType DEF Recovered
  <2>5. ASSUME NEW j \in Job, RecoverClaim(w, j) PROVE TypeOK'
    BY <2>5, Labels, Statuses, GotoType DEF RecoverClaim
  <2> QED BY <1>1, <2>1, <2>2, <2>3, <2>4, <2>5 DEF RecoverStep
<1>2. ASSUME NEW w \in Watcher, PrepareStep(w) PROVE TypeOK'
  <2>1. ASSUME NEW j \in Job, TakeJob(w, j) PROVE TypeOK'
    BY <2>1, Labels, Statuses, GotoType DEF TakeJob
  <2>2. CASE WriteClaim(w)
    <3>1. job[w] \in Job
      BY <2>2 DEF WriteClaim, JobKnown, Claimants, Pulsed, Preparing, Committing,
              Spawned, Publishing
    <3>2. LocalType'
      BY <2>2, GotoType, LeaveType, Labels DEF WriteClaim
    <3>3. (claim \in [Job -> Watcher \cup {Nobody, Unsigned}])'
      BY <2>2, <3>1 DEF WriteClaim
    <3> QED BY <2>2, <3>2, <3>3 DEF WriteClaim
  <2>3. CASE WriteClaimed(w)
    BY <2>3, Labels, Statuses, GotoType, FailType, MarkType DEF WriteClaimed,
           JobKnown, Claimants, Pulsed, Preparing, Committing, Spawned,
           Publishing
  <2>4. CASE Verify(w)
    BY <2>4, Labels, Statuses, PrelaunchType DEF Verify
  <2>5. CASE CheckUpload(w)
    BY <2>5, Labels, Statuses, PrelaunchType DEF CheckUpload
  <2>6. CASE Approve(w)
    BY <2>6, Labels, Statuses, GotoType DEF Approve, JobKnown, Claimants,
           Pulsed, Preparing, Committing, Spawned, Publishing
  <2>7. CASE HookDecides(w)
    BY <2>7, Labels, Statuses, FailType, VerdictType DEF HookDecides
  <2>8. CASE ReapHook(w)
    BY <2>8, Labels, Statuses, GotoType, HookKilledType DEF ReapHook
  <2>9. CASE RejectJob(w)
    BY <2>9, Labels, Statuses, FailType, MarkType DEF RejectJob
  <2> QED BY <1>2, <2>1, <2>2, <2>3, <2>4, <2>5, <2>6, <2>7, <2>8, <2>9 DEF PrepareStep
<1>3. ASSUME NEW w \in Watcher, LaunchStep(w) PROVE TypeOK'
  <2>1. CASE CheckStart(w)
    BY <2>1, Labels, Statuses, PrelaunchType DEF CheckStart
  <2>2. CASE WriteStarted(w)
    BY <2>2, Labels, Statuses, GotoType, MarkType DEF WriteStarted
  <2>3. CASE CheckRun(w)
    BY <2>3, Labels, Statuses, PrelaunchType DEF CheckRun
  <2>4. CASE WriteRunning(w)
    BY <2>4, Labels, Statuses, GotoType, MarkType DEF WriteRunning
  <2>5. CASE CheckSpawn(w)
    BY <2>5, Labels, Statuses, PrelaunchType DEF CheckSpawn
  <2>6. CASE Spawn(w)
    BY <2>6, Labels, Statuses, GotoType DEF Spawn, JobKnown, Claimants,
           Pulsed, Preparing, Committing, Spawned, Publishing
  <2> QED BY <1>3, <2>1, <2>2, <2>3, <2>4, <2>5, <2>6 DEF LaunchStep
<1>4. ASSUME NEW w \in Watcher, ExecuteStep(w) PROVE TypeOK'
  <2>1. CASE CancelRunning(w)
    BY <2>1, Labels, Statuses, FailType, KilledType DEF CancelRunning
  <2>2. CASE TimeOut(w)
    BY <2>2, Labels, Statuses, FailType, KilledType DEF TimeOut
  <2>3. CASE Complete(w)
    BY <2>3, Labels, Statuses, FailType DEF Complete
  <2>4. CASE Drained(w)
    BY <2>4, Labels, Statuses, GotoType DEF Drained
  <2>5. CASE FailJob(w)
    BY <2>5, Labels, Statuses, FailType DEF FailJob
  <2>6. CASE Reap(w)
    BY <2>6, Labels, Statuses, GotoType, KilledType DEF Reap
  <2>7. CASE Collect(w)
    BY <2>7, Labels, Statuses, GotoType, FailType DEF Collect
  <2> QED BY <1>4, <2>1, <2>2, <2>3, <2>4, <2>5, <2>6, <2>7 DEF ExecuteStep
<1>5. ASSUME NEW w \in Watcher, PublishStep(w) PROVE TypeOK'
  <2>1. CASE Abort(w)
    BY <2>1, Labels, Statuses, GotoType, LeaveType DEF Abort
  <2>2. CASE WriteGeneration(w)
    <3>1. job[w] \in Job
      BY <2>2 DEF WriteGeneration, JobKnown, Claimants, Pulsed, Preparing, Committing,
              Spawned, Publishing
    <3>2. outcome[w] \in Status
      BY <2>2, Statuses DEF WriteGeneration, OutcomeTrue, Erring
    <3>3. LocalType'
      BY <2>2, GotoType, PublishFailedType, Labels DEF WriteGeneration
    <3>4. (gens \subseteq [job : Job, by : Watcher, status : Status])'
      BY <2>2, <3>1, <3>2 DEF WriteGeneration
    <3> QED BY <2>2, <3>3, <3>4 DEF WriteGeneration
  <2>3. CASE WriteFinal(w)
    <3>1. job[w] \in Job
      BY <2>3 DEF WriteFinal, JobKnown, Claimants, Pulsed, Preparing, Committing,
              Spawned, Publishing
    <3>2. outcome[w] \in Status
      BY <2>3, Statuses DEF WriteFinal, OutcomeTrue, Erring
    <3>3. LocalType'
      BY <2>3, LeaveType, PublishFailedType, Labels DEF WriteFinal
    <3>4. (final \in [Job -> [by : Watcher, status : Status] \cup {NoFinal}])'
      BY <2>3, <3>1, <3>2 DEF WriteFinal
    <3> QED BY <2>3, <3>3, <3>4 DEF WriteFinal
  <2> QED BY <1>5, <2>1, <2>2, <2>3 DEF PublishStep
<1>6. ASSUME NEW w \in Watcher, LeaveStep(w) PROVE TypeOK'
  <2>1. CASE LeaveLoop(w)
    BY <2>1, Labels, Statuses, GotoType DEF LeaveLoop
  <2>2. CASE Unwind(w)
    BY <2>2, Labels, Statuses, LeaveType, KilledType, HookKilledType DEF Unwind
  <2>3. CASE Release(w)
    BY <2>3, Labels, Statuses, GotoType, ForgetType DEF Release
  <2>4. CASE RemoveOwnLock(w)
    BY <2>4, Labels, Statuses, ForgetType DEF RemoveOwnLock
  <2> QED BY <1>6, <2>1, <2>2, <2>3, <2>4 DEF LeaveStep
<1>7. ASSUME NEW w \in Watcher, Disturb(w) PROVE TypeOK'
  <2>1. CASE CleanupFails(w)
    BY <2>1, Labels, Statuses, LeaveType, KilledType DEF CleanupFails
  <2>2. CASE PulseFails(w)
    BY <2>2, Labels, Statuses DEF PulseFails
  <2>3. CASE SetStop(w)
    BY <2>3, Labels, Statuses DEF SetStop
  <2>4. CASE Interrupt(w)
    <3>1. LocalType'
      BY <2>4, GotoType, LeaveType, Labels DEF Interrupt
    <3>2. (launches \in [Job -> Nat])' /\ (hooks \subseteq Job)'
      BY <2>4 DEF Interrupt
    <3>3. (procs \in [Job -> {"none", "running", "orphans", "gone"}])'
      BY <2>4 DEF Interrupt
    <3>4. (todo \in [Watcher -> SUBSET Job])'
      BY <2>4 DEF Interrupt
    <3> QED BY <2>4, <3>1, <3>2, <3>3, <3>4 DEF Interrupt
  <2>5. CASE Crash(w)
    BY <2>5, Labels, Statuses, ForgetType DEF Crash
  <2> QED BY <1>7, <2>1, <2>2, <2>3, <2>4, <2>5 DEF Disturb
<1>8. ASSUME NEW j \in Job, World(j) PROVE TypeOK'
  <2>1. CASE PublishRequest(j) \/ PublishCancel(j) \/ Expire(j)
    BY <2>1 DEF PublishRequest, PublishCancel, Expire
  <2>2. CASE ProcessEnds(j)
    BY <2>2 DEF ProcessEnds
  <2> QED BY <1>8, <2>1, <2>2 DEF World
<1>9. CASE OperatorRemovesLock
  BY <1>9 DEF OperatorRemovesLock
<1>10. CASE UNCHANGED vars
  BY <1>10
<1> QED BY <1>1, <1>2, <1>3, <1>4, <1>5, <1>6, <1>7, <1>8, <1>9, <1>10 DEF Next, Step

-----------------------------------------------------------------------------
\* The conjuncts of ClaimInv, each preserved by every step.

\* No step loses track of the job being worked on.
LEMMA JobKnownStep == TypeOK /\ JobKnown /\ [Next]_vars => JobKnown'
<1> SUFFICES ASSUME TypeOK, JobKnown, [Next]_vars PROVE JobKnown'
  OBVIOUS
<1> USE DEF TypeOK, JobKnown, Up, Serving, Pulsed, Recovering, Preparing,
        Committing, Spawned, Publishing, Claimants, BeforeSpawn, Erring,
        Goto, Leave, Fail, vars, worldVars, storeVars, osVars, flagVars,
        localVars
<1>1. ASSUME NEW w \in Watcher, RecoverStep(w) PROVE JobKnown'
  BY <1>1 DEF RecoverStep, Boot, WriteOwner, Forget, ListClaims, Recovered,
         RecoverClaim
<1>2. ASSUME NEW w \in Watcher, PrepareStep(w) PROVE JobKnown'
  BY <1>2 DEF PrepareStep, TakeJob, WriteClaim, WriteClaimed, Verify,
         Prelaunch, CheckUpload, Approve, HookDecides, ReapHook, RejectJob
<1>3. ASSUME NEW w \in Watcher, LaunchStep(w) PROVE JobKnown'
  BY <1>3 DEF LaunchStep, CheckStart, Prelaunch, WriteStarted, CheckRun,
         WriteRunning, CheckSpawn, Spawn
<1>4. ASSUME NEW w \in Watcher, ExecuteStep(w) PROVE JobKnown'
  BY <1>4 DEF ExecuteStep, CancelRunning, TimeOut, Complete, Drained,
         FailJob, Reap, Collect
<1>5. ASSUME NEW w \in Watcher, PublishStep(w) PROVE JobKnown'
  BY <1>5 DEF PublishStep, Abort, WriteGeneration, PublishFailed, WriteFinal
<1>6. ASSUME NEW w \in Watcher, LeaveStep(w) PROVE JobKnown'
  BY <1>6 DEF LeaveStep, LeaveLoop, Unwind, Release, Forget,
         RemoveOwnLock
<1>7. ASSUME NEW w \in Watcher, Disturb(w) PROVE JobKnown'
  BY <1>7 DEF Disturb, CleanupFails, PulseFails, SetStop, Interrupt,
         Crash, Forget
<1>8. ASSUME NEW j \in Job, World(j) PROVE JobKnown'
  BY <1>8 DEF World, PublishRequest, PublishCancel, Expire, ProcessEnds
<1>9. CASE OperatorRemovesLock
  BY <1>9 DEF OperatorRemovesLock
<1>10. CASE UNCHANGED vars
  BY <1>10
<1> QED BY <1>1, <1>2, <1>3, <1>4, <1>5, <1>6, <1>7, <1>8, <1>9, <1>10 DEF Next, Step

\* The claim of the job being worked on stays in place: it is never removed or
\* handed over, and mkdir gives an unsigned claim to one watcher only.
LEMMA ClaimHeldStep == TypeOK /\ JobKnown /\ ClaimHeld /\ [Next]_vars => ClaimHeld'
<1> SUFFICES ASSUME TypeOK, JobKnown, ClaimHeld, [Next]_vars PROVE ClaimHeld'
  OBVIOUS
<1> USE WatcherAssumption DEF TypeOK, JobKnown, ClaimHeld, Up, Serving,
        Pulsed, Recovering, Preparing, Committing, Spawned, Publishing,
        Claimants, BeforeSpawn, Erring, Goto, Leave, Fail, Mark, vars,
        worldVars, storeVars, osVars, flagVars, localVars
<1>1. ASSUME NEW w \in Watcher, RecoverStep(w) PROVE ClaimHeld'
  <2>1. CASE Boot(w)
    BY <2>1 DEF Boot
  <2>2. CASE WriteOwner(w)
    BY <2>2 DEF WriteOwner, Forget
  <2>3. CASE ListClaims(w)
    BY <2>3 DEF ListClaims
  <2>4. CASE Recovered(w)
    BY <2>4 DEF Recovered
  <2>5. ASSUME NEW j \in Job, RecoverClaim(w, j) PROVE ClaimHeld'
    BY <2>5 DEF RecoverClaim
  <2> QED BY <1>1, <2>1, <2>2, <2>3, <2>4, <2>5 DEF RecoverStep
<1>2. ASSUME NEW w \in Watcher, PrepareStep(w) PROVE ClaimHeld'
  BY <1>2 DEF PrepareStep, TakeJob, WriteClaim, WriteClaimed, Verify,
         Prelaunch, CheckUpload, Approve, HookDecides, ReapHook, RejectJob
<1>3. ASSUME NEW w \in Watcher, LaunchStep(w) PROVE ClaimHeld'
  BY <1>3 DEF LaunchStep, CheckStart, Prelaunch, WriteStarted, CheckRun,
         WriteRunning, CheckSpawn, Spawn
<1>4. ASSUME NEW w \in Watcher, ExecuteStep(w) PROVE ClaimHeld'
  BY <1>4 DEF ExecuteStep, CancelRunning, TimeOut, Complete, Drained,
         FailJob, Reap, Collect
<1>5. ASSUME NEW w \in Watcher, PublishStep(w) PROVE ClaimHeld'
  <2>1. CASE Abort(w)
    BY <2>1 DEF Abort
  <2>2. CASE WriteGeneration(w)
    BY <2>2 DEF WriteGeneration, PublishFailed
  <2>3. CASE WriteFinal(w)
    <3>1. UNCHANGED <<claim, todo>>
      BY <2>3 DEF WriteFinal
    <3>2. \/ Leave(w, "recovering") \/ Leave(w, "scanning")
          \/ pc[w] = "final" /\ Fail(w, "aborting", "FAILED")
      BY <2>3 DEF WriteFinal, PublishFailed
    <3> QED BY <3>1, <3>2
  <2> QED BY <1>5, <2>1, <2>2, <2>3 DEF PublishStep
<1>6. ASSUME NEW w \in Watcher, LeaveStep(w) PROVE ClaimHeld'
  <2>1. CASE LeaveLoop(w)
    BY <2>1 DEF LeaveLoop
  <2>2. CASE Unwind(w)
    BY <2>2 DEF Unwind
  <2>3. CASE Release(w)
    BY <2>3 DEF Release, Forget
  <2>4. CASE RemoveOwnLock(w)
    BY <2>4 DEF RemoveOwnLock, Forget
  <2> QED BY <1>6, <2>1, <2>2, <2>3, <2>4 DEF LeaveStep
<1>7. ASSUME NEW w \in Watcher, Disturb(w) PROVE ClaimHeld'
  <2>1. CASE CleanupFails(w)
    BY <2>1 DEF CleanupFails
  <2>2. CASE PulseFails(w)
    BY <2>2 DEF PulseFails
  <2>3. CASE SetStop(w)
    BY <2>3 DEF SetStop
  <2>4. CASE Interrupt(w)
    BY <2>4 DEF Interrupt
  <2>5. CASE Crash(w)
    BY <2>5 DEF Crash, Forget
  <2> QED BY <1>7, <2>1, <2>2, <2>3, <2>4, <2>5 DEF Disturb
<1>8. ASSUME NEW j \in Job, World(j) PROVE ClaimHeld'
  BY <1>8 DEF World, PublishRequest, PublishCancel, Expire, ProcessEnds
<1>9. CASE OperatorRemovesLock
  BY <1>9 DEF OperatorRemovesLock
<1>10. CASE UNCHANGED vars
  BY <1>10
<1> QED BY <1>1, <1>2, <1>3, <1>4, <1>5, <1>6, <1>7, <1>8, <1>9, <1>10 DEF Next, Step

\* Popen runs for a job with no launch yet.
LEMMA LaunchOnceStep == TypeOK /\ JobKnown /\ ClaimHeld /\ LaunchOnce /\ [Next]_vars => LaunchOnce'
<1> SUFFICES ASSUME TypeOK, JobKnown, ClaimHeld, LaunchOnce, [Next]_vars PROVE LaunchOnce'
  OBVIOUS
<1> USE WatcherAssumption DEF TypeOK, JobKnown, ClaimHeld, LaunchOnce, Up,
        Serving, Pulsed, Recovering, Preparing, Committing, Spawned,
        Publishing, Claimants, BeforeSpawn, Erring, Goto, Leave, Fail, Mark,
        vars, worldVars, storeVars, osVars, flagVars, localVars
<1>1. ASSUME NEW w \in Watcher, RecoverStep(w) PROVE LaunchOnce'
  BY <1>1 DEF RecoverStep, Boot, WriteOwner, Forget, ListClaims, Recovered,
         RecoverClaim
<1>2. ASSUME NEW w \in Watcher, PrepareStep(w) PROVE LaunchOnce'
  BY <1>2 DEF PrepareStep, TakeJob, WriteClaim, WriteClaimed, Verify,
         Prelaunch, CheckUpload, Approve, HookDecides, ReapHook, RejectJob
<1>3. ASSUME NEW w \in Watcher, LaunchStep(w) PROVE LaunchOnce'
  <2>1. CASE CheckStart(w)
    BY <2>1 DEF CheckStart, Prelaunch
  <2>2. CASE WriteStarted(w)
    BY <2>2 DEF WriteStarted
  <2>3. CASE CheckRun(w)
    BY <2>3 DEF CheckRun, Prelaunch
  <2>4. CASE WriteRunning(w)
    BY <2>4 DEF WriteRunning
  <2>5. CASE CheckSpawn(w)
    BY <2>5 DEF CheckSpawn, Prelaunch
  <2>6. CASE Spawn(w)
    BY <2>6 DEF Spawn
  <2> QED BY <1>3, <2>1, <2>2, <2>3, <2>4, <2>5, <2>6 DEF LaunchStep
<1>4. ASSUME NEW w \in Watcher, ExecuteStep(w) PROVE LaunchOnce'
  BY <1>4 DEF ExecuteStep, CancelRunning, TimeOut, Complete, Drained,
         FailJob, Reap, Collect
<1>5. ASSUME NEW w \in Watcher, PublishStep(w) PROVE LaunchOnce'
  <2>1. CASE Abort(w)
    BY <2>1 DEF Abort
  <2>2. CASE WriteGeneration(w)
    BY <2>2 DEF WriteGeneration, PublishFailed
  <2>3. CASE WriteFinal(w)
    BY <2>3 DEF WriteFinal, PublishFailed
  <2> QED BY <1>5, <2>1, <2>2, <2>3 DEF PublishStep
<1>6. ASSUME NEW w \in Watcher, LeaveStep(w) PROVE LaunchOnce'
  <2>1. CASE LeaveLoop(w)
    BY <2>1 DEF LeaveLoop
  <2>2. CASE Unwind(w)
    BY <2>2 DEF Unwind
  <2>3. CASE Release(w)
    BY <2>3 DEF Release, Forget
  <2>4. CASE RemoveOwnLock(w)
    BY <2>4 DEF RemoveOwnLock, Forget
  <2> QED BY <1>6, <2>1, <2>2, <2>3, <2>4 DEF LeaveStep
<1>7. ASSUME NEW w \in Watcher, Disturb(w) PROVE LaunchOnce'
  <2>1. CASE CleanupFails(w)
    BY <2>1 DEF CleanupFails
  <2>2. CASE PulseFails(w)
    BY <2>2 DEF PulseFails
  <2>3. CASE SetStop(w)
    BY <2>3 DEF SetStop
  <2>4. CASE Interrupt(w)
    <3>1. CASE UNCHANGED <<procs, hooks, launches>>
      BY <2>4, <3>1 DEF Interrupt
    <3>2. CASE pc[w] = "spawning" /\ Leave(w, "leaving")
               /\ launches' = [launches EXCEPT ![job[w]] = launches[job[w]] + 1]
      <4>1. job[w] \in Job /\ claim[job[w]] = w /\ launches[job[w]] = 0
        BY <3>2
      <4>2. UNCHANGED <<claim, marks>>
        BY <2>4 DEF Interrupt
      <4>3. launches'[job[w]] = 1
        BY <3>2, <4>1
      <4>4. \A j \in Job : j # job[w] => launches'[j] = launches[j]
        BY <3>2, <4>1
      <4>5. \A v \in Watcher : pc'[v] \in BeforeSpawn \cup Spawned \cup Claimants =>
              v # w /\ pc'[v] = pc[v] /\ job'[v] = job[v]
        BY <3>2
      <4> QED BY <4>1, <4>2, <4>3, <4>4, <4>5
    <3>3. \/ UNCHANGED <<procs, hooks, launches>>
          \/ /\ pc[w] = "spawning" /\ Leave(w, "leaving")
             /\ launches' = [launches EXCEPT ![job[w]] = launches[job[w]] + 1]
      BY <2>4, InterruptCases
    <3> QED BY <3>1, <3>2, <3>3
  <2>5. CASE Crash(w)
    BY <2>5 DEF Crash, Forget
  <2> QED BY <1>7, <2>1, <2>2, <2>3, <2>4, <2>5 DEF Disturb
<1>8. ASSUME NEW j \in Job, World(j) PROVE LaunchOnce'
  BY <1>8 DEF World, PublishRequest, PublishCancel, Expire, ProcessEnds
<1>9. CASE OperatorRemovesLock
  BY <1>9 DEF OperatorRemovesLock
<1>10. CASE UNCHANGED vars
  BY <1>10
<1> QED BY <1>1, <1>2, <1>3, <1>4, <1>5, <1>6, <1>7, <1>8, <1>9, <1>10 DEF Next, Step

\* STARTED and RUNNING are written on the way to Popen and never removed.
LEMMA MarksKeptStep == TypeOK /\ JobKnown /\ ClaimHeld /\ MarksKept /\ [Next]_vars => MarksKept'
<1> SUFFICES ASSUME TypeOK, JobKnown, ClaimHeld, MarksKept, [Next]_vars PROVE MarksKept'
  OBVIOUS
<1> USE WatcherAssumption DEF TypeOK, JobKnown, ClaimHeld, MarksKept, Up,
        Serving, Pulsed, Recovering, Preparing, Committing, Spawned,
        Publishing, Claimants, BeforeSpawn, Erring, Goto, Leave, Fail, Mark,
        vars, worldVars, storeVars, osVars, flagVars, localVars
<1>1. ASSUME NEW w \in Watcher, RecoverStep(w) PROVE MarksKept'
  BY <1>1 DEF RecoverStep, Boot, WriteOwner, Forget, ListClaims, Recovered,
         RecoverClaim
<1>2. ASSUME NEW w \in Watcher, PrepareStep(w) PROVE MarksKept'
  <2>1. ASSUME NEW j \in Job, TakeJob(w, j) PROVE MarksKept'
    BY <2>1 DEF TakeJob
  <2>2. CASE WriteClaim(w)
    BY <2>2 DEF WriteClaim
  <2>3. CASE WriteClaimed(w)
    <3>1. \A k \in Job : marks[k] \subseteq marks'[k]
      BY <2>3 DEF WriteClaimed
    <3>2. \A v \in Watcher : \/ pc'[v] \in {"verifying", "aborting"}
                             \/ pc'[v] = pc[v] /\ job'[v] = job[v]
      BY <2>3 DEF WriteClaimed
    <3>3. UNCHANGED <<claim, launches>>
      BY <2>3 DEF WriteClaimed
    <3> QED BY <3>1, <3>2, <3>3
  <2>4. CASE Verify(w)
    BY <2>4 DEF Verify, Prelaunch
  <2>5. CASE CheckUpload(w)
    BY <2>5 DEF CheckUpload, Prelaunch
  <2>6. CASE Approve(w)
    BY <2>6 DEF Approve
  <2>7. CASE HookDecides(w)
    BY <2>7 DEF HookDecides
  <2>8. CASE ReapHook(w)
    BY <2>8 DEF ReapHook
  <2>9. CASE RejectJob(w)
    <3>1. \A j \in Job : marks[j] \subseteq marks'[j]
      BY <2>9 DEF RejectJob
    <3>2. launches' = launches /\ pc' = [pc EXCEPT ![w] = "aborting"] /\ job' = job
      BY <2>9 DEF RejectJob
    <3> QED BY <3>1, <3>2
  <2> QED BY <1>2, <2>1, <2>2, <2>3, <2>4, <2>5, <2>6, <2>7, <2>8, <2>9 DEF PrepareStep
<1>3. ASSUME NEW w \in Watcher, LaunchStep(w) PROVE MarksKept'
  BY <1>3 DEF LaunchStep, CheckStart, Prelaunch, WriteStarted, CheckRun,
         WriteRunning, CheckSpawn, Spawn
<1>4. ASSUME NEW w \in Watcher, ExecuteStep(w) PROVE MarksKept'
  BY <1>4 DEF ExecuteStep, CancelRunning, TimeOut, Complete, Drained,
         FailJob, Reap, Collect
<1>5. ASSUME NEW w \in Watcher, PublishStep(w) PROVE MarksKept'
  BY <1>5 DEF PublishStep, Abort, WriteGeneration, PublishFailed, WriteFinal
<1>6. ASSUME NEW w \in Watcher, LeaveStep(w) PROVE MarksKept'
  BY <1>6 DEF LeaveStep, LeaveLoop, Unwind, Release, Forget,
         RemoveOwnLock
<1>7. ASSUME NEW w \in Watcher, Disturb(w) PROVE MarksKept'
  <2>1. CASE CleanupFails(w)
    BY <2>1 DEF CleanupFails
  <2>2. CASE PulseFails(w)
    BY <2>2 DEF PulseFails
  <2>3. CASE SetStop(w)
    BY <2>3 DEF SetStop
  <2>4. CASE Interrupt(w)
    <3>1. CASE UNCHANGED <<procs, hooks, launches>>
      BY <2>4, <3>1 DEF Interrupt
    <3>2. CASE pc[w] = "spawning" /\ Leave(w, "leaving")
               /\ launches' = [launches EXCEPT ![job[w]] = launches[job[w]] + 1]
      <4>1. job[w] \in Job /\ claim[job[w]] = w
             /\ {"STARTED", "RUNNING"} \subseteq marks[job[w]]
        BY <3>2
      <4>2. UNCHANGED <<claim, marks>>
        BY <2>4 DEF Interrupt
      <4> QED BY <3>2, <4>1, <4>2
    <3>3. \/ UNCHANGED <<procs, hooks, launches>>
          \/ /\ pc[w] = "spawning" /\ Leave(w, "leaving")
             /\ launches' = [launches EXCEPT ![job[w]] = launches[job[w]] + 1]
      BY <2>4, InterruptCases
    <3> QED BY <3>1, <3>2, <3>3
  <2>5. CASE Crash(w)
    BY <2>5 DEF Crash, Forget
  <2> QED BY <1>7, <2>1, <2>2, <2>3, <2>4, <2>5 DEF Disturb
<1>8. ASSUME NEW j \in Job, World(j) PROVE MarksKept'
  BY <1>8 DEF World, PublishRequest, PublishCancel, Expire, ProcessEnds
<1>9. CASE OperatorRemovesLock
  BY <1>9 DEF OperatorRemovesLock
<1>10. CASE UNCHANGED vars
  BY <1>10
<1> QED BY <1>1, <1>2, <1>3, <1>4, <1>5, <1>6, <1>7, <1>8, <1>9, <1>10 DEF Next, Step

\* The status to publish is set together with the step it reports.
LEMMA OutcomeTrueStep == TypeOK /\ JobKnown /\ ClaimHeld /\ LaunchOnce /\ OutcomeTrue /\ [Next]_vars => OutcomeTrue'
<1> SUFFICES ASSUME TypeOK, JobKnown, ClaimHeld, LaunchOnce, OutcomeTrue, [Next]_vars PROVE OutcomeTrue'
  OBVIOUS
<1> USE WatcherAssumption, VerdictType DEF TypeOK, JobKnown, ClaimHeld,
        LaunchOnce, OutcomeTrue, Up, Serving, Pulsed, Recovering, Preparing,
        Committing, Spawned, Publishing, Claimants, BeforeSpawn, Erring,
        Goto, Leave, Fail, Mark, vars, worldVars, storeVars, osVars,
        flagVars, localVars
<1>1. ASSUME NEW w \in Watcher, RecoverStep(w) PROVE OutcomeTrue'
  BY <1>1 DEF RecoverStep, Boot, WriteOwner, Forget, ListClaims, Recovered,
         RecoverClaim
<1>2. ASSUME NEW w \in Watcher, PrepareStep(w) PROVE OutcomeTrue'
  BY <1>2 DEF PrepareStep, TakeJob, WriteClaim, WriteClaimed, Verify,
         Prelaunch, CheckUpload, Approve, HookDecides, ReapHook, RejectJob
<1>3. ASSUME NEW w \in Watcher, LaunchStep(w) PROVE OutcomeTrue'
  BY <1>3 DEF LaunchStep, CheckStart, Prelaunch, WriteStarted, CheckRun,
         WriteRunning, CheckSpawn, Spawn
<1>4. ASSUME NEW w \in Watcher, ExecuteStep(w) PROVE OutcomeTrue'
  BY <1>4 DEF ExecuteStep, CancelRunning, TimeOut, Complete, Drained,
         FailJob, Reap, Collect
<1>5. ASSUME NEW w \in Watcher, PublishStep(w) PROVE OutcomeTrue'
  BY <1>5 DEF PublishStep, Abort, WriteGeneration, PublishFailed, WriteFinal
<1>6. ASSUME NEW w \in Watcher, LeaveStep(w) PROVE OutcomeTrue'
  BY <1>6 DEF LeaveStep, LeaveLoop, Unwind, Release, Forget,
         RemoveOwnLock
<1>7. ASSUME NEW w \in Watcher, Disturb(w) PROVE OutcomeTrue'
  BY <1>7 DEF Disturb, CleanupFails, PulseFails, SetStop, Interrupt,
         Crash, Forget
<1>8. ASSUME NEW j \in Job, World(j) PROVE OutcomeTrue'
  BY <1>8 DEF World, PublishRequest, PublishCancel, Expire, ProcessEnds
<1>9. CASE OperatorRemovesLock
  BY <1>9 DEF OperatorRemovesLock
<1>10. CASE UNCHANGED vars
  BY <1>10
<1> QED BY <1>1, <1>2, <1>3, <1>4, <1>5, <1>6, <1>7, <1>8, <1>9, <1>10 DEF Next, Step

\* Only a recovery publishes for a job whose claimant is still at work.
LEMMA NotYetClosedStep == TypeOK /\ JobKnown /\ ClaimHeld /\ OutcomeTrue /\ GenerationFirst /\ NotYetClosed /\ [Next]_vars => NotYetClosed'
<1> SUFFICES ASSUME TypeOK, JobKnown, ClaimHeld, OutcomeTrue, GenerationFirst, NotYetClosed, [Next]_vars PROVE NotYetClosed'
  OBVIOUS
<1> USE WatcherAssumption DEF TypeOK, JobKnown, ClaimHeld, OutcomeTrue,
        GenerationFirst, NotYetClosed, Up, Serving, Pulsed, Recovering,
        Preparing, Committing, Spawned, Publishing, Claimants, BeforeSpawn,
        Erring, Goto, Leave, Fail, Mark, vars, worldVars, storeVars, osVars,
        flagVars, localVars
<1>1. ASSUME NEW w \in Watcher, RecoverStep(w) PROVE NotYetClosed'
  BY <1>1 DEF RecoverStep, Boot, WriteOwner, Forget, ListClaims, Recovered,
         RecoverClaim
<1>2. ASSUME NEW w \in Watcher, PrepareStep(w) PROVE NotYetClosed'
  BY <1>2 DEF PrepareStep, TakeJob, WriteClaim, WriteClaimed, Verify,
         Prelaunch, CheckUpload, Approve, HookDecides, ReapHook, RejectJob
<1>3. ASSUME NEW w \in Watcher, LaunchStep(w) PROVE NotYetClosed'
  BY <1>3 DEF LaunchStep, CheckStart, Prelaunch, WriteStarted, CheckRun,
         WriteRunning, CheckSpawn, Spawn
<1>4. ASSUME NEW w \in Watcher, ExecuteStep(w) PROVE NotYetClosed'
  BY <1>4 DEF ExecuteStep, CancelRunning, TimeOut, Complete, Drained,
         FailJob, Reap, Collect
<1>5. ASSUME NEW w \in Watcher, PublishStep(w) PROVE NotYetClosed'
  BY <1>5 DEF PublishStep, Abort, WriteGeneration, PublishFailed, WriteFinal
<1>6. ASSUME NEW w \in Watcher, LeaveStep(w) PROVE NotYetClosed'
  BY <1>6 DEF LeaveStep, LeaveLoop, Unwind, Release, Forget,
         RemoveOwnLock
<1>7. ASSUME NEW w \in Watcher, Disturb(w) PROVE NotYetClosed'
  BY <1>7 DEF Disturb, CleanupFails, PulseFails, SetStop, Interrupt,
         Crash, Forget
<1>8. ASSUME NEW j \in Job, World(j) PROVE NotYetClosed'
  BY <1>8 DEF World, PublishRequest, PublishCancel, Expire, ProcessEnds
<1>9. CASE OperatorRemovesLock
  BY <1>9 DEF OperatorRemovesLock
<1>10. CASE UNCHANGED vars
  BY <1>10
<1> QED BY <1>1, <1>2, <1>3, <1>4, <1>5, <1>6, <1>7, <1>8, <1>9, <1>10 DEF Next, Step

\* A generation is complete before FINAL points to it.
LEMMA GenerationFirstStep == TypeOK /\ JobKnown /\ ClaimHeld /\ OutcomeTrue /\ GenerationFirst /\ [Next]_vars => GenerationFirst'
<1> SUFFICES ASSUME TypeOK, JobKnown, ClaimHeld, OutcomeTrue, GenerationFirst, [Next]_vars PROVE GenerationFirst'
  OBVIOUS
<1> USE WatcherAssumption DEF TypeOK, JobKnown, ClaimHeld, OutcomeTrue,
        GenerationFirst, NoFinal, Up, Serving, Pulsed, Recovering, Preparing,
        Committing, Spawned, Publishing, Claimants, BeforeSpawn, Erring,
        Goto, Leave, Fail, Mark, vars, worldVars, storeVars, osVars,
        flagVars, localVars
<1>1. ASSUME NEW w \in Watcher, RecoverStep(w) PROVE GenerationFirst'
  BY <1>1 DEF RecoverStep, Boot, WriteOwner, Forget, ListClaims, Recovered,
         RecoverClaim
<1>2. ASSUME NEW w \in Watcher, PrepareStep(w) PROVE GenerationFirst'
  <2>1. ASSUME NEW j \in Job, TakeJob(w, j) PROVE GenerationFirst'
    BY <2>1 DEF TakeJob
  <2>2. CASE WriteClaim(w)
    BY <2>2 DEF WriteClaim
  <2>3. CASE WriteClaimed(w)
    BY <2>3 DEF WriteClaimed
  <2>4. CASE Verify(w)
    BY <2>4 DEF Verify, Prelaunch
  <2>5. CASE CheckUpload(w)
    BY <2>5 DEF CheckUpload, Prelaunch
  <2>6. CASE Approve(w)
    BY <2>6 DEF Approve
  <2>7. CASE HookDecides(w)
    BY <2>7 DEF HookDecides
  <2>8. CASE ReapHook(w)
    BY <2>8 DEF ReapHook
  <2>9. CASE RejectJob(w)
    BY <2>9 DEF RejectJob
  <2> QED BY <1>2, <2>1, <2>2, <2>3, <2>4, <2>5, <2>6, <2>7, <2>8, <2>9 DEF PrepareStep
<1>3. ASSUME NEW w \in Watcher, LaunchStep(w) PROVE GenerationFirst'
  BY <1>3 DEF LaunchStep, CheckStart, Prelaunch, WriteStarted, CheckRun,
         WriteRunning, CheckSpawn, Spawn
<1>4. ASSUME NEW w \in Watcher, ExecuteStep(w) PROVE GenerationFirst'
  <2>1. CASE CancelRunning(w)
    BY <2>1 DEF CancelRunning
  <2>2. CASE TimeOut(w)
    BY <2>2 DEF TimeOut
  <2>3. CASE Complete(w)
    BY <2>3 DEF Complete
  <2>4. CASE Drained(w)
    BY <2>4 DEF Drained
  <2>5. CASE FailJob(w)
    BY <2>5 DEF FailJob
  <2>6. CASE Reap(w)
    BY <2>6 DEF Reap
  <2>7. CASE Collect(w)
    BY <2>7 DEF Collect
  <2> QED BY <1>4, <2>1, <2>2, <2>3, <2>4, <2>5, <2>6, <2>7 DEF ExecuteStep
<1>5. ASSUME NEW w \in Watcher, PublishStep(w) PROVE GenerationFirst'
  <2>1. CASE Abort(w)
    BY <2>1 DEF Abort
  <2>2. CASE WriteGeneration(w)
    BY <2>2 DEF WriteGeneration, PublishFailed
  <2>3. CASE WriteFinal(w)
    <3>1. UNCHANGED <<claim, gens>>
      BY <2>3 DEF WriteFinal
    <3>2. /\ job[w] \in Job /\ claim[job[w]] # Nobody
          /\ claim[job[w]] = Unsigned => outcome[w] = "AVAILABILITY_UNKNOWN"
      BY <2>3 DEF WriteFinal
    <3>3. final' = final
          \/ final' = [final EXCEPT ![job[w]] = [by |-> w, status |-> outcome[w]]]
      BY <2>3 DEF WriteFinal
    <3>4. \/ Leave(w, "recovering") \/ Leave(w, "scanning")
          \/ pc[w] = "final" /\ Fail(w, "aborting", "FAILED")
      BY <2>3 DEF WriteFinal, PublishFailed
    <3>5. \A v \in Watcher : pc'[v] \in {"final", "errFinal", "recFinal"} =>
            v # w /\ pc'[v] = pc[v] /\ job'[v] = job[v] /\ outcome'[v] = outcome[v]
      BY <3>4
    <3>6. \A j \in Job : j # job[w] => final'[j] = final[j]
      BY <3>2, <3>3
    <3>7. final'[job[w]].status = outcome[w] \/ final'[job[w]] = final[job[w]]
      BY <3>2, <3>3
    <3> QED BY <3>1, <3>2, <3>5, <3>6, <3>7
  <2> QED BY <1>5, <2>1, <2>2, <2>3 DEF PublishStep
<1>6. ASSUME NEW w \in Watcher, LeaveStep(w) PROVE GenerationFirst'
  <2>1. CASE LeaveLoop(w)
    BY <2>1 DEF LeaveLoop
  <2>2. CASE Unwind(w)
    BY <2>2 DEF Unwind
  <2>3. CASE Release(w)
    BY <2>3 DEF Release, Forget
  <2>4. CASE RemoveOwnLock(w)
    BY <2>4 DEF RemoveOwnLock, Forget
  <2> QED BY <1>6, <2>1, <2>2, <2>3, <2>4 DEF LeaveStep
<1>7. ASSUME NEW w \in Watcher, Disturb(w) PROVE GenerationFirst'
  <2>1. CASE CleanupFails(w)
    BY <2>1 DEF CleanupFails
  <2>2. CASE PulseFails(w)
    BY <2>2 DEF PulseFails
  <2>3. CASE SetStop(w)
    BY <2>3 DEF SetStop
  <2>4. CASE Interrupt(w)
    BY <2>4 DEF Interrupt
  <2>5. CASE Crash(w)
    BY <2>5 DEF Crash, Forget
  <2> QED BY <1>7, <2>1, <2>2, <2>3, <2>4, <2>5 DEF Disturb
<1>8. ASSUME NEW j \in Job, World(j) PROVE GenerationFirst'
  BY <1>8 DEF World, PublishRequest, PublishCancel, Expire, ProcessEnds
<1>9. CASE OperatorRemovesLock
  BY <1>9 DEF OperatorRemovesLock
<1>10. CASE UNCHANGED vars
  BY <1>10
<1> QED BY <1>1, <1>2, <1>3, <1>4, <1>5, <1>6, <1>7, <1>8, <1>9, <1>10 DEF Next, Step

\* What FINAL says of the launch is true and stays true.
LEMMA VerdictIsHonestStep == TypeOK /\ JobKnown /\ ClaimHeld /\ LaunchOnce /\ OutcomeTrue /\ NotYetClosed /\ VerdictIsHonest /\ [Next]_vars => VerdictIsHonest'
<1> SUFFICES ASSUME TypeOK, JobKnown, ClaimHeld, LaunchOnce, OutcomeTrue, NotYetClosed, VerdictIsHonest, [Next]_vars PROVE VerdictIsHonest'
  OBVIOUS
<1> USE WatcherAssumption DEF TypeOK, JobKnown, ClaimHeld, LaunchOnce,
        OutcomeTrue, NotYetClosed, VerdictIsHonest, NoFinal, Up, Serving,
        Pulsed, Recovering, Preparing, Committing, Spawned, Publishing,
        Claimants, BeforeSpawn, Erring, Goto, Leave, Fail, Mark, vars,
        worldVars, storeVars, osVars, flagVars, localVars
<1>1. ASSUME NEW w \in Watcher, RecoverStep(w) PROVE VerdictIsHonest'
  BY <1>1 DEF RecoverStep, Boot, WriteOwner, Forget, ListClaims, Recovered,
         RecoverClaim
<1>2. ASSUME NEW w \in Watcher, PrepareStep(w) PROVE VerdictIsHonest'
  BY <1>2 DEF PrepareStep, TakeJob, WriteClaim, WriteClaimed, Verify,
         Prelaunch, CheckUpload, Approve, HookDecides, ReapHook, RejectJob
<1>3. ASSUME NEW w \in Watcher, LaunchStep(w) PROVE VerdictIsHonest'
  BY <1>3 DEF LaunchStep, CheckStart, Prelaunch, WriteStarted, CheckRun,
         WriteRunning, CheckSpawn, Spawn
<1>4. ASSUME NEW w \in Watcher, ExecuteStep(w) PROVE VerdictIsHonest'
  BY <1>4 DEF ExecuteStep, CancelRunning, TimeOut, Complete, Drained,
         FailJob, Reap, Collect
<1>5. ASSUME NEW w \in Watcher, PublishStep(w) PROVE VerdictIsHonest'
  <2>1. CASE Abort(w)
    BY <2>1 DEF Abort
  <2>2. CASE WriteGeneration(w)
    BY <2>2 DEF WriteGeneration, PublishFailed
  <2>3. CASE WriteFinal(w)
    BY <2>3 DEF WriteFinal, PublishFailed
  <2> QED BY <1>5, <2>1, <2>2, <2>3 DEF PublishStep
<1>6. ASSUME NEW w \in Watcher, LeaveStep(w) PROVE VerdictIsHonest'
  BY <1>6 DEF LeaveStep, LeaveLoop, Unwind, Release, Forget,
         RemoveOwnLock
<1>7. ASSUME NEW w \in Watcher, Disturb(w) PROVE VerdictIsHonest'
  <2>1. CASE CleanupFails(w)
    BY <2>1 DEF CleanupFails
  <2>2. CASE PulseFails(w)
    BY <2>2 DEF PulseFails
  <2>3. CASE SetStop(w)
    BY <2>3 DEF SetStop
  <2>4. CASE Interrupt(w)
    BY <2>4 DEF Interrupt
  <2>5. CASE Crash(w)
    BY <2>5 DEF Crash, Forget
  <2> QED BY <1>7, <2>1, <2>2, <2>3, <2>4, <2>5 DEF Disturb
<1>8. ASSUME NEW j \in Job, World(j) PROVE VerdictIsHonest'
  BY <1>8 DEF World, PublishRequest, PublishCancel, Expire, ProcessEnds
<1>9. CASE OperatorRemovesLock
  BY <1>9 DEF OperatorRemovesLock
<1>10. CASE UNCHANGED vars
  BY <1>10
<1> QED BY <1>1, <1>2, <1>3, <1>4, <1>5, <1>6, <1>7, <1>8, <1>9, <1>10 DEF Next, Step

\* FINAL keeps its generation, and its author keeps the claim.
LEMMA FinalIsFencedStep == TypeOK /\ JobKnown /\ ClaimHeld /\ OutcomeTrue /\ GenerationFirst /\ FinalIsFenced /\ [Next]_vars => FinalIsFenced'
<1> SUFFICES ASSUME TypeOK, JobKnown, ClaimHeld, OutcomeTrue, GenerationFirst, FinalIsFenced, [Next]_vars PROVE FinalIsFenced'
  OBVIOUS
<1> USE WatcherAssumption DEF TypeOK, JobKnown, ClaimHeld, OutcomeTrue,
        GenerationFirst, FinalIsFenced, NoFinal, Up, Serving, Pulsed,
        Recovering, Preparing, Committing, Spawned, Publishing, Claimants,
        BeforeSpawn, Erring, Goto, Leave, Fail, Mark, vars, worldVars,
        storeVars, osVars, flagVars, localVars
<1>1. ASSUME NEW w \in Watcher, RecoverStep(w) PROVE FinalIsFenced'
  BY <1>1 DEF RecoverStep, Boot, WriteOwner, Forget, ListClaims, Recovered,
         RecoverClaim
<1>2. ASSUME NEW w \in Watcher, PrepareStep(w) PROVE FinalIsFenced'
  BY <1>2 DEF PrepareStep, TakeJob, WriteClaim, WriteClaimed, Verify,
         Prelaunch, CheckUpload, Approve, HookDecides, ReapHook, RejectJob
<1>3. ASSUME NEW w \in Watcher, LaunchStep(w) PROVE FinalIsFenced'
  BY <1>3 DEF LaunchStep, CheckStart, Prelaunch, WriteStarted, CheckRun,
         WriteRunning, CheckSpawn, Spawn
<1>4. ASSUME NEW w \in Watcher, ExecuteStep(w) PROVE FinalIsFenced'
  BY <1>4 DEF ExecuteStep, CancelRunning, TimeOut, Complete, Drained,
         FailJob, Reap, Collect
<1>5. ASSUME NEW w \in Watcher, PublishStep(w) PROVE FinalIsFenced'
  BY <1>5 DEF PublishStep, Abort, WriteGeneration, PublishFailed, WriteFinal
<1>6. ASSUME NEW w \in Watcher, LeaveStep(w) PROVE FinalIsFenced'
  BY <1>6 DEF LeaveStep, LeaveLoop, Unwind, Release, Forget,
         RemoveOwnLock
<1>7. ASSUME NEW w \in Watcher, Disturb(w) PROVE FinalIsFenced'
  BY <1>7 DEF Disturb, CleanupFails, PulseFails, SetStop, Interrupt,
         Crash, Forget
<1>8. ASSUME NEW j \in Job, World(j) PROVE FinalIsFenced'
  BY <1>8 DEF World, PublishRequest, PublishCancel, Expire, ProcessEnds
<1>9. CASE OperatorRemovesLock
  BY <1>9 DEF OperatorRemovesLock
<1>10. CASE UNCHANGED vars
  BY <1>10
<1> QED BY <1>1, <1>2, <1>3, <1>4, <1>5, <1>6, <1>7, <1>8, <1>9, <1>10 DEF Next, Step

-----------------------------------------------------------------------------
\* The invariant of ClaimInv holds initially.
LEMMA ClaimInit == Init => TypeOK /\ ClaimInv
<1> SUFFICES ASSUME Init PROVE TypeOK /\ ClaimInv
  OBVIOUS
<1> USE WatcherAssumption DEF Init
<1>1. TypeOK
  BY DEF TypeOK, NoFinal, Up
<1>2. \A w \in Watcher : pc[w] \notin Up
  BY DEF Up, Serving, Pulsed, Recovering, Preparing, Committing, Spawned,
         Publishing
<1>3. JobKnown /\ ClaimHeld
  BY <1>2 DEF JobKnown, ClaimHeld, Claimants, Up, Serving, Recovering
<1>4. LaunchOnce /\ MarksKept
  BY DEF LaunchOnce, MarksKept, BeforeSpawn, Preparing, Committing, Spawned
<1>5. OutcomeTrue /\ NotYetClosed
  BY DEF OutcomeTrue, NotYetClosed, Erring, BeforeSpawn, Preparing, Committing,
         Spawned
<1>6. GenerationFirst /\ VerdictIsHonest /\ FinalIsFenced
  BY DEF GenerationFirst, VerdictIsHonest, FinalIsFenced, NoFinal
<1> QED BY <1>1, <1>3, <1>4, <1>5, <1>6 DEF ClaimInv

\* In every behaviour, whatever the operator, the crashes and the interrupts,
\* the variables keep their types and ClaimInv holds: no action of Watcher
\* escapes the claim protocol of _claim, _check_owner and publish_final.
THEOREM Invariance == Spec => [](TypeOK /\ ClaimInv)
<1>1. Init => TypeOK /\ ClaimInv
  BY ClaimInit
<1>2. TypeOK /\ ClaimInv /\ [Next]_vars => (TypeOK /\ ClaimInv)'
  BY TypeStep, JobKnownStep, ClaimHeldStep, LaunchOnceStep, MarksKeptStep,
     OutcomeTrueStep, NotYetClosedStep, GenerationFirstStep,
     VerdictIsHonestStep, FinalIsFencedStep
  DEF ClaimInv
<1> QED BY <1>1, <1>2, PTL DEF Spec

\* Every variable keeps its type (the part of Invariance a reader meets first).
THEOREM TypeCorrect == Spec => []TypeOK
BY Invariance, PTL

\* No incarnation starts a command a second time, whatever crashes, fails or
\* takes over: mkdir of the claim decides, and claims are never removed.
THEOREM LaunchedAtMostOnce == Spec => []AtMostOnce
<1>1. TypeOK /\ ClaimInv => AtMostOnce
  <2> SUFFICES ASSUME ClaimInv, NEW j \in Job PROVE launches[j] <= 1
    BY DEF AtMostOnce
  <2>1. launches[j] = 0 \/ launches[j] = 1
    BY DEF ClaimInv, LaunchOnce
  <2> QED BY <2>1
<1> QED BY <1>1, Invariance, PTL

\* An effect of a command leaves its markers: the claim, STARTED and RUNNING.
THEOREM LaunchLeavesMarks == Spec => []LaunchIsRecorded
<1>1. TypeOK /\ ClaimInv => LaunchIsRecorded
  BY DEF ClaimInv, LaunchOnce, MarksKept, LaunchIsRecorded, TypeOK
<1> QED BY <1>1, Invariance, PTL

\* A published status never contradicts what happened to the command.
THEOREM HonestVerdicts == Spec => []VerdictIsHonest
<1>1. TypeOK /\ ClaimInv => VerdictIsHonest
  BY DEF ClaimInv
<1> QED BY <1>1, Invariance, PTL

\* FINAL points to a complete generation of the claimant or of a recovery.
THEOREM FencedFinals == Spec => []FinalIsFenced
<1>1. TypeOK /\ ClaimInv => FinalIsFenced
  BY DEF ClaimInv
<1> QED BY <1>1, Invariance, PTL

\* FINAL is linked exclusively: no later publication, recovery or takeover
\* replaces it, even when exists() answered from a stale cache.
THEOREM FirstFinalWins == Spec => FinalImmutable
<1>1. TypeOK /\ JobKnown /\ [Next]_vars =>
        [\A j \in Job : final[j] # NoFinal => final'[j] = final[j]]_vars
  <2> SUFFICES ASSUME TypeOK, JobKnown, Next,
                      NEW i \in Job, final[i] # NoFinal
               PROVE  final'[i] = final[i]
    OBVIOUS
  <2>1. CASE UNCHANGED final
    BY <2>1
  <2>2. ASSUME NEW w \in Watcher, WriteFinal(w) PROVE final'[i] = final[i]
    <3>1. job[w] \in Job
      BY <2>2 DEF WriteFinal, JobKnown, Claimants, Pulsed, Publishing
    <3> QED BY <2>2, <3>1 DEF WriteFinal, TypeOK
  <2>3. (\E w \in Watcher : WriteFinal(w)) \/ UNCHANGED final
    <3> USE DEF worldVars, storeVars, osVars, localVars
    <3>1. ASSUME NEW w \in Watcher, RecoverStep(w) \/ LeaveStep(w)
          PROVE  UNCHANGED final
      BY <3>1 DEF RecoverStep, Boot, WriteOwner, ListClaims, Recovered,
         RecoverClaim, LeaveStep, LeaveLoop, Unwind, Release, RemoveOwnLock
    <3>2. ASSUME NEW w \in Watcher, PrepareStep(w) \/ LaunchStep(w)
          PROVE  UNCHANGED final
      BY <3>2 DEF PrepareStep, TakeJob, WriteClaim, WriteClaimed, Verify,
         CheckUpload, Approve, HookDecides, ReapHook, RejectJob, LaunchStep,
         CheckStart, WriteStarted, CheckRun, WriteRunning, CheckSpawn, Spawn
    <3>3. ASSUME NEW w \in Watcher, ExecuteStep(w) \/ Disturb(w)
          PROVE  UNCHANGED final
      BY <3>3 DEF ExecuteStep, CancelRunning, TimeOut, Complete, Drained,
         FailJob, Reap, Collect, Disturb, CleanupFails, PulseFails, SetStop,
         Interrupt, Crash
    <3>4. ASSUME NEW w \in Watcher, PublishStep(w)
          PROVE  WriteFinal(w) \/ UNCHANGED final
      BY <3>4 DEF PublishStep, Abort, WriteGeneration
    <3>5. ASSUME NEW j \in Job, World(j) \/ OperatorRemovesLock
          PROVE  UNCHANGED final
      BY <3>5 DEF World, PublishRequest, PublishCancel, Expire, ProcessEnds,
         OperatorRemovesLock
    <3>6. CASE OperatorRemovesLock
      BY <3>6 DEF OperatorRemovesLock
    <3> QED BY <3>1, <3>2, <3>3, <3>4, <3>5, <3>6 DEF Next, Step
  <2> QED BY <2>1, <2>2, <2>3
<1>2. TypeOK /\ ClaimInv => TypeOK /\ JobKnown
  BY DEF ClaimInv
<1> QED BY <1>1, <1>2, Invariance, PTL DEF Spec, FinalImmutable

\* A cancelled job that has not been launched stays so, unless a watcher has done its
\* last check already.
CancelledInTime(j) ==
  /\ j \in cancel /\ launches[j] = 0
  /\ \A w \in Watcher : pc[w] = "spawning" => job[w] # j

LEMMA CancelledInTimeStep ==
  ASSUME TypeOK, JobKnown, NEW c \in Job, CancelledInTime(c), [Next]_vars
  PROVE  CancelledInTime(c)'
<1> USE DEF TypeOK, LocalType, PcType, CancelledInTime, Up, Serving, Pulsed, Recovering,
        Preparing, Committing, Spawned, Publishing, Claimants, BeforeSpawn, Erring,
        Goto, Leave, Fail, vars, worldVars, storeVars, osVars, flagVars, localVars
<1>1. ASSUME NEW w \in Watcher, RecoverStep(w) PROVE CancelledInTime(c)'
  BY <1>1 DEF RecoverStep, Boot, WriteOwner, Forget, ListClaims, Recovered, RecoverClaim
<1>2. ASSUME NEW w \in Watcher, PrepareStep(w) PROVE CancelledInTime(c)'
  BY <1>2 DEF PrepareStep, TakeJob, WriteClaim, WriteClaimed, Verify,
         Prelaunch, CheckUpload, Approve, HookDecides, ReapHook, RejectJob
<1>3. ASSUME NEW w \in Watcher, LaunchStep(w) PROVE CancelledInTime(c)'
  <2>1. CASE CheckStart(w)
    BY <2>1 DEF CheckStart, Prelaunch
  <2>2. CASE WriteStarted(w)
    BY <2>2 DEF WriteStarted
  <2>3. CASE CheckRun(w)
    BY <2>3 DEF CheckRun, Prelaunch
  <2>4. CASE WriteRunning(w)
    BY <2>4 DEF WriteRunning
  <2>5. CASE CheckSpawn(w)
    <3>1. job[w] = c => Verdict(w, job[w]) = "CANCELLED"
      BY DEF Verdict
    <3> QED BY <2>5, <3>1 DEF CheckSpawn, Prelaunch
  <2>6. CASE Spawn(w)
    BY <2>6 DEF Spawn
  <2> QED BY <1>3, <2>1, <2>2, <2>3, <2>4, <2>5, <2>6 DEF LaunchStep
<1>4. ASSUME NEW w \in Watcher, ExecuteStep(w) PROVE CancelledInTime(c)'
  BY <1>4 DEF ExecuteStep, CancelRunning, TimeOut, Complete, Drained, FailJob, Reap, Collect
<1>5. ASSUME NEW w \in Watcher, PublishStep(w) PROVE CancelledInTime(c)'
  BY <1>5 DEF PublishStep, Abort, WriteGeneration, PublishFailed, WriteFinal
<1>6. ASSUME NEW w \in Watcher, LeaveStep(w) PROVE CancelledInTime(c)'
  BY <1>6 DEF LeaveStep, LeaveLoop, Unwind, Release, Forget, RemoveOwnLock
<1>7. ASSUME NEW w \in Watcher, Disturb(w) PROVE CancelledInTime(c)'
  <2>1. CASE CleanupFails(w)
    BY <2>1 DEF CleanupFails
  <2>2. CASE PulseFails(w) \/ SetStop(w)
    BY <2>2 DEF PulseFails, SetStop
  <2>3. CASE Interrupt(w)
    <3>1. /\ UNCHANGED cancel
          /\ \A v \in Watcher :
               pc'[v] = "spawning" => pc[v] = "spawning" /\ job'[v] = job[v]
      BY <2>3 DEF Interrupt
    <3>2. \/ UNCHANGED launches
          \/ /\ job[w] # c
             /\ launches' = [launches EXCEPT ![job[w]] = launches[job[w]] + 1]
      BY <2>3, InterruptCases
    <3> QED BY <3>1, <3>2
  <2>4. CASE Crash(w)
    BY <2>4 DEF Crash, Forget
  <2> QED BY <1>7, <2>1, <2>2, <2>3, <2>4 DEF Disturb
<1>8. ASSUME NEW j \in Job, World(j) PROVE CancelledInTime(c)'
  BY <1>8 DEF World, PublishRequest, PublishCancel, Expire, ProcessEnds
<1>9. CASE OperatorRemovesLock
  BY <1>9 DEF OperatorRemovesLock
<1>10. CASE UNCHANGED vars
  BY <1>10
<1> QED BY <1>1, <1>2, <1>3, <1>4, <1>5, <1>6, <1>7, <1>8, <1>9, <1>10 DEF Next, Step

\* One cancelled job.  RUNNING is written before the last check, which sees the marker.
LEMMA CancelKeeps ==
  ASSUME NEW j \in Job
  PROVE  Spec => [](j \in cancel /\ "RUNNING" \notin marks[j] => [](launches[j] = 0))
<1>1. TypeOK /\ ClaimInv /\ j \in cancel /\ "RUNNING" \notin marks[j] => CancelledInTime(j)
  BY DEF ClaimInv, LaunchOnce, MarksKept, CancelledInTime, JobKnown
<1>2. TypeOK /\ ClaimInv /\ CancelledInTime(j) /\ [Next]_vars => CancelledInTime(j)'
  BY CancelledInTimeStep DEF ClaimInv
<1>3. CancelledInTime(j) => launches[j] = 0
  BY DEF CancelledInTime
<1> QED BY <1>1, <1>2, <1>3, Invariance, PTL DEF Spec

\* A job whose cancellation is there before RUNNING is never launched, by this watcher
\* or a later one (watcher.py, _prelaunch between RUNNING and Popen).
THEOREM CancelStopsLaunch == Spec => CancelledBeforeRunning
BY CancelKeeps, SMTT(30) DEF CancelledBeforeRunning
=============================================================================
