------------------------- MODULE WatcherLockProofs --------------------------
(***************************************************************************)
(* TLAPS proofs of what the lock of the watcher gives, for any sets of jobs*)
(* and incarnations, when the operator is careful and no interrupt lands   *)
(* inside the cleanup; and that Watcher then implements JobRelay.  The     *)
(* children are those the cleanup answers for (Contained): all of them on  *)
(* POSIX, on Windows the leader of the command.                            *)
(***************************************************************************)
EXTENDS WatcherProofs

-----------------------------------------------------------------------------
\* What killing comes to, on either platform.

\* A kill ends what it answers for of the command of one job.
LEMMA KilledEnds ==
  ASSUME TypeOK, NEW j \in Job, procs' \in Killed(j), UNCHANGED windows
  PROVE  /\ ~CommandRuns(j)'
         /\ \A i \in Job : CommandRuns(i)' => CommandRuns(i)
<1>1. PICK p \in {"none", "orphans", "gone"} :
        procs' = [procs EXCEPT ![j] = p] /\ (p = "orphans" => windows)
  BY DEF Killed, Killing
<1>2. \A i \in Job : procs'[i] = IF i = j THEN p ELSE procs[i]
  BY <1>1 DEF TypeOK
<1> QED BY <1>1, <1>2 DEF CommandRuns

\* So it does of the hook.
LEMMA HookKilledEnds ==
  ASSUME NEW j, hooks' \in HookKilled(j)
  PROVE  hooks' \subseteq hooks /\ (~windows => j \notin hooks')
BY DEF HookKilled

\* The conjuncts of LockInv, each preserved by every step.

\* mkdir admits one watcher while the lock directory stands.
LEMMA ExclusiveStep ==
  ASSUME Prudent, TypeOK, Exclusive, LockHeld, [Next]_vars
  PROVE  Exclusive'
<1> USE WatcherAssumption
    DEF TypeOK, Prudent, Exclusive, LockHeld, Up, Serving, Pulsed,
        Recovering, Preparing, Committing, Spawned, Publishing, Claimants,
        BeforeSpawn, Erring, Goto, Leave, Fail, vars, worldVars, storeVars,
        osVars, flagVars, localVars
<1>1. ASSUME NEW w \in Watcher, RecoverStep(w) PROVE Exclusive'
  BY <1>1 DEF RecoverStep, Boot, WriteOwner, Forget, ListClaims, Recovered,
         RecoverClaim
<1>2. ASSUME NEW w \in Watcher, PrepareStep(w) PROVE Exclusive'
  BY <1>2 DEF PrepareStep, TakeJob, WriteClaim, WriteClaimed, Verify,
         Prelaunch, CheckUpload, Approve, HookDecides, ReapHook, RejectJob
<1>3. ASSUME NEW w \in Watcher, LaunchStep(w) PROVE Exclusive'
  BY <1>3 DEF LaunchStep, CheckStart, Prelaunch, WriteStarted, CheckRun,
         WriteRunning, CheckSpawn, Spawn
<1>4. ASSUME NEW w \in Watcher, ExecuteStep(w) PROVE Exclusive'
  BY <1>4 DEF ExecuteStep, CancelRunning, TimeOut, Complete, Drained,
         FailJob, Reap, Collect
<1>5. ASSUME NEW w \in Watcher, PublishStep(w) PROVE Exclusive'
  BY <1>5 DEF PublishStep, Abort, WriteGeneration, PublishFailed, WriteFinal
<1>6. ASSUME NEW w \in Watcher, LeaveStep(w) PROVE Exclusive'
  BY <1>6 DEF LeaveStep, LeaveLoop, Unwind, Release, Forget,
         RemoveOwnLock
<1>7. ASSUME NEW w \in Watcher, Disturb(w) PROVE Exclusive'
  BY <1>7 DEF Disturb, CleanupFails, PulseFails, SetStop, Interrupt,
         Crash, Forget
<1>8. ASSUME NEW j \in Job, World(j) PROVE Exclusive'
  BY <1>8 DEF World, PublishRequest, PublishCancel, Expire, ProcessEnds
<1>9. CASE OperatorRemovesLock
  BY <1>9 DEF OperatorRemovesLock
<1>10. CASE UNCHANGED vars
  BY <1>10
<1> QED BY <1>1, <1>2, <1>3, <1>4, <1>5, <1>6, <1>7, <1>8, <1>9, <1>10 DEF Next, Step

\* The directory stands as long as its owner is up.
LEMMA LockHeldStep ==
  ASSUME Prudent, TypeOK, Exclusive, LockHeld, [Next]_vars
  PROVE  LockHeld'
<1> USE WatcherAssumption
    DEF TypeOK, Prudent, Exclusive, LockHeld, Up, Serving, Pulsed,
        Recovering, Preparing, Committing, Spawned, Publishing, Claimants,
        BeforeSpawn, Erring, Goto, Leave, Fail, vars, worldVars, storeVars,
        osVars, flagVars, localVars
<1>1. ASSUME NEW w \in Watcher, RecoverStep(w) PROVE LockHeld'
  BY <1>1 DEF RecoverStep, Boot, WriteOwner, Forget, ListClaims, Recovered,
         RecoverClaim
<1>2. ASSUME NEW w \in Watcher, PrepareStep(w) PROVE LockHeld'
  BY <1>2 DEF PrepareStep, TakeJob, WriteClaim, WriteClaimed, Verify,
         Prelaunch, CheckUpload, Approve, HookDecides, ReapHook, RejectJob
<1>3. ASSUME NEW w \in Watcher, LaunchStep(w) PROVE LockHeld'
  BY <1>3 DEF LaunchStep, CheckStart, Prelaunch, WriteStarted, CheckRun,
         WriteRunning, CheckSpawn, Spawn
<1>4. ASSUME NEW w \in Watcher, ExecuteStep(w) PROVE LockHeld'
  BY <1>4 DEF ExecuteStep, CancelRunning, TimeOut, Complete, Drained,
         FailJob, Reap, Collect
<1>5. ASSUME NEW w \in Watcher, PublishStep(w) PROVE LockHeld'
  BY <1>5 DEF PublishStep, Abort, WriteGeneration, PublishFailed, WriteFinal
<1>6. ASSUME NEW w \in Watcher, LeaveStep(w) PROVE LockHeld'
  BY <1>6 DEF LeaveStep, LeaveLoop, Unwind, Release, Forget,
         RemoveOwnLock
<1>7. ASSUME NEW w \in Watcher, Disturb(w) PROVE LockHeld'
  BY <1>7 DEF Disturb, CleanupFails, PulseFails, SetStop, Interrupt,
         Crash, Forget
<1>8. ASSUME NEW j \in Job, World(j) PROVE LockHeld'
  BY <1>8 DEF World, PublishRequest, PublishCancel, Expire, ProcessEnds
<1>9. CASE OperatorRemovesLock
  BY <1>9 DEF OperatorRemovesLock
<1>10. CASE UNCHANGED vars
  BY <1>10
<1> QED BY <1>1, <1>2, <1>3, <1>4, <1>5, <1>6, <1>7, <1>8, <1>9, <1>10 DEF Next, Step

\* A watcher leaves the program points of a child only when the child is dead,
\* as far as the cleanup answers for it.
LEMMA ChildrenKnownStep ==
  ASSUME Prudent, TypeOK, JobKnown, Exclusive, LockHeld, ChildHoldsLock,
         ChildrenKnown, [Next]_vars
  PROVE  ChildrenKnown'
<1> USE WatcherAssumption
    DEF TypeOK, Prudent, JobKnown, Exclusive, LockHeld, ChildHoldsLock,
        Contained, CommandRuns, ChildrenKnown, CommandAt, HookAt, Up, Serving, Pulsed,
        Recovering, Preparing, Committing, Spawned, Publishing, Claimants,
        BeforeSpawn, Erring, Goto, Leave, Fail, vars, worldVars, storeVars,
        osVars, flagVars, localVars
<1>1. ASSUME NEW w \in Watcher, RecoverStep(w) PROVE ChildrenKnown'
  BY <1>1 DEF RecoverStep, Boot, WriteOwner, Forget, ListClaims, Recovered,
         RecoverClaim
<1>2. ASSUME NEW w \in Watcher, PrepareStep(w) PROVE ChildrenKnown'
  BY <1>2, HookKilledEnds DEF PrepareStep, TakeJob, WriteClaim, WriteClaimed, Verify,
         Prelaunch, CheckUpload, Approve, HookDecides, ReapHook, RejectJob
<1>3. ASSUME NEW w \in Watcher, LaunchStep(w) PROVE ChildrenKnown'
  BY <1>3 DEF LaunchStep, CheckStart, Prelaunch, WriteStarted, CheckRun,
         WriteRunning, CheckSpawn, Spawn
<1>4. ASSUME NEW w \in Watcher, ExecuteStep(w) PROVE ChildrenKnown'
  BY <1>4, KilledEnds DEF ExecuteStep, CancelRunning, TimeOut, Complete, Drained,
         FailJob, Reap, Collect
<1>5. ASSUME NEW w \in Watcher, PublishStep(w) PROVE ChildrenKnown'
  BY <1>5 DEF PublishStep, Abort, WriteGeneration, PublishFailed, WriteFinal
<1>6. ASSUME NEW w \in Watcher, LeaveStep(w) PROVE ChildrenKnown'
  BY <1>6, KilledEnds, HookKilledEnds DEF LeaveStep, LeaveLoop, Unwind, Release, Forget,
         RemoveOwnLock
<1>7. ASSUME NEW w \in Watcher, Disturb(w) PROVE ChildrenKnown'
  BY <1>7, KilledEnds DEF Disturb, CleanupFails, PulseFails, SetStop, Interrupt,
         Crash, Forget
<1>8. ASSUME NEW j \in Job, World(j) PROVE ChildrenKnown'
  BY <1>8 DEF World, PublishRequest, PublishCancel, Expire, ProcessEnds
<1>9. CASE OperatorRemovesLock
  BY <1>9 DEF OperatorRemovesLock, Alive
<1>10. CASE UNCHANGED vars
  BY <1>10
<1> QED BY <1>1, <1>2, <1>3, <1>4, <1>5, <1>6, <1>7, <1>8, <1>9, <1>10 DEF Next, Step

\* Nobody but the claimant is up to publish for a job being prepared.
LEMMA StillOpenStep ==
  ASSUME Prudent, TypeOK, JobKnown, Exclusive, GenerationFirst, StillOpen,
         [Next]_vars
  PROVE  StillOpen'
<1> USE WatcherAssumption
    DEF TypeOK, Prudent, JobKnown, Exclusive, GenerationFirst, StillOpen, Up,
        Serving, Pulsed, Recovering, Preparing, Committing, Spawned,
        Publishing, Claimants, BeforeSpawn, Erring, Goto, Leave, Fail, vars,
        worldVars, storeVars, osVars, flagVars, localVars
<1>1. ASSUME NEW w \in Watcher, RecoverStep(w) PROVE StillOpen'
  BY <1>1 DEF RecoverStep, Boot, WriteOwner, Forget, ListClaims, Recovered,
         RecoverClaim
<1>2. ASSUME NEW w \in Watcher, PrepareStep(w) PROVE StillOpen'
  BY <1>2 DEF PrepareStep, TakeJob, WriteClaim, WriteClaimed, Verify,
         Prelaunch, CheckUpload, Approve, HookDecides, ReapHook, RejectJob
<1>3. ASSUME NEW w \in Watcher, LaunchStep(w) PROVE StillOpen'
  BY <1>3 DEF LaunchStep, CheckStart, Prelaunch, WriteStarted, CheckRun,
         WriteRunning, CheckSpawn, Spawn
<1>4. ASSUME NEW w \in Watcher, ExecuteStep(w) PROVE StillOpen'
  BY <1>4 DEF ExecuteStep, CancelRunning, TimeOut, Complete, Drained,
         FailJob, Reap, Collect
<1>5. ASSUME NEW w \in Watcher, PublishStep(w) PROVE StillOpen'
  BY <1>5 DEF PublishStep, Abort, WriteGeneration, PublishFailed, WriteFinal
<1>6. ASSUME NEW w \in Watcher, LeaveStep(w) PROVE StillOpen'
  BY <1>6 DEF LeaveStep, LeaveLoop, Unwind, Release, Forget,
         RemoveOwnLock
<1>7. ASSUME NEW w \in Watcher, Disturb(w) PROVE StillOpen'
  BY <1>7 DEF Disturb, CleanupFails, PulseFails, SetStop, Interrupt,
         Crash, Forget
<1>8. ASSUME NEW j \in Job, World(j) PROVE StillOpen'
  BY <1>8 DEF World, PublishRequest, PublishCancel, Expire, ProcessEnds
<1>9. CASE OperatorRemovesLock
  BY <1>9 DEF OperatorRemovesLock
<1>10. CASE UNCHANGED vars
  BY <1>10
<1> QED BY <1>1, <1>2, <1>3, <1>4, <1>5, <1>6, <1>7, <1>8, <1>9, <1>10 DEF Next, Step

\* The lock is removed only when no child is left.
LEMMA ChildHoldsLockStep ==
  ASSUME Prudent, TypeOK, JobKnown, LockHeld, ChildrenKnown, ChildHoldsLock,
         [Next]_vars
  PROVE  ChildHoldsLock'
<1> USE WatcherAssumption
    DEF TypeOK, Prudent, JobKnown, LockHeld, ChildrenKnown, ChildHoldsLock,
        Contained, CommandRuns, CommandAt, HookAt, Up, Serving, Pulsed, Recovering, Preparing,
        Committing, Spawned, Publishing, Claimants, BeforeSpawn, Erring,
        Goto, Leave, Fail, vars, worldVars, storeVars, osVars, flagVars,
        localVars
<1>1. ASSUME NEW w \in Watcher, RecoverStep(w) PROVE ChildHoldsLock'
  BY <1>1 DEF RecoverStep, Boot, WriteOwner, Forget, ListClaims, Recovered,
         RecoverClaim
<1>2. ASSUME NEW w \in Watcher, PrepareStep(w) PROVE ChildHoldsLock'
  BY <1>2, HookKilledEnds DEF PrepareStep, TakeJob, WriteClaim, WriteClaimed, Verify,
         Prelaunch, CheckUpload, Approve, HookDecides, ReapHook, RejectJob
<1>3. ASSUME NEW w \in Watcher, LaunchStep(w) PROVE ChildHoldsLock'
  BY <1>3 DEF LaunchStep, CheckStart, Prelaunch, WriteStarted, CheckRun,
         WriteRunning, CheckSpawn, Spawn
<1>4. ASSUME NEW w \in Watcher, ExecuteStep(w) PROVE ChildHoldsLock'
  BY <1>4, KilledEnds DEF ExecuteStep, CancelRunning, TimeOut, Complete, Drained,
         FailJob, Reap, Collect
<1>5. ASSUME NEW w \in Watcher, PublishStep(w) PROVE ChildHoldsLock'
  BY <1>5 DEF PublishStep, Abort, WriteGeneration, PublishFailed, WriteFinal
<1>6. ASSUME NEW w \in Watcher, LeaveStep(w) PROVE ChildHoldsLock'
  BY <1>6, KilledEnds, HookKilledEnds DEF LeaveStep, LeaveLoop, Unwind, Release, Forget,
         RemoveOwnLock
<1>7. ASSUME NEW w \in Watcher, Disturb(w) PROVE ChildHoldsLock'
  BY <1>7, KilledEnds DEF Disturb, CleanupFails, PulseFails, SetStop, Interrupt,
         Crash, Forget
<1>8. ASSUME NEW j \in Job, World(j) PROVE ChildHoldsLock'
  BY <1>8 DEF World, PublishRequest, PublishCancel, Expire, ProcessEnds
<1>9. CASE OperatorRemovesLock
  BY <1>9 DEF OperatorRemovesLock, Alive
<1>10. CASE UNCHANGED vars
  BY <1>10
<1> QED BY <1>1, <1>2, <1>3, <1>4, <1>5, <1>6, <1>7, <1>8, <1>9, <1>10 DEF Next, Step

\* FINAL is published with no child left, and a child starts for an open job.
LEMMA FinalMeansQuietStep ==
  ASSUME Prudent, TypeOK, JobKnown, ChildrenKnown, StillOpen,
         FinalMeansQuiet, [Next]_vars
  PROVE  FinalMeansQuiet'
<1> USE WatcherAssumption
    DEF TypeOK, Prudent, JobKnown, ChildrenKnown, StillOpen, FinalMeansQuiet,
        Contained, CommandRuns, CommandAt, HookAt, Up, Serving, Pulsed, Recovering, Preparing,
        Committing, Spawned, Publishing, Claimants, BeforeSpawn, Erring,
        Goto, Leave, Fail, vars, worldVars, storeVars, osVars, flagVars,
        localVars
<1>1. ASSUME NEW w \in Watcher, RecoverStep(w) PROVE FinalMeansQuiet'
  BY <1>1 DEF RecoverStep, Boot, WriteOwner, Forget, ListClaims, Recovered,
         RecoverClaim
<1>2. ASSUME NEW w \in Watcher, PrepareStep(w) PROVE FinalMeansQuiet'
  BY <1>2, HookKilledEnds DEF PrepareStep, TakeJob, WriteClaim, WriteClaimed, Verify,
         Prelaunch, CheckUpload, Approve, HookDecides, ReapHook, RejectJob
<1>3. ASSUME NEW w \in Watcher, LaunchStep(w) PROVE FinalMeansQuiet'
  BY <1>3 DEF LaunchStep, CheckStart, Prelaunch, WriteStarted, CheckRun,
         WriteRunning, CheckSpawn, Spawn
<1>4. ASSUME NEW w \in Watcher, ExecuteStep(w) PROVE FinalMeansQuiet'
  BY <1>4, KilledEnds DEF ExecuteStep, CancelRunning, TimeOut, Complete, Drained,
         FailJob, Reap, Collect
<1>5. ASSUME NEW w \in Watcher, PublishStep(w) PROVE FinalMeansQuiet'
  BY <1>5 DEF PublishStep, Abort, WriteGeneration, PublishFailed, WriteFinal
<1>6. ASSUME NEW w \in Watcher, LeaveStep(w) PROVE FinalMeansQuiet'
  BY <1>6, KilledEnds, HookKilledEnds DEF LeaveStep, LeaveLoop, Unwind, Release, Forget,
         RemoveOwnLock
<1>7. ASSUME NEW w \in Watcher, Disturb(w) PROVE FinalMeansQuiet'
  BY <1>7, KilledEnds DEF Disturb, CleanupFails, PulseFails, SetStop, Interrupt,
         Crash, Forget
<1>8. ASSUME NEW j \in Job, World(j) PROVE FinalMeansQuiet'
  BY <1>8 DEF World, PublishRequest, PublishCancel, Expire, ProcessEnds
<1>9. CASE OperatorRemovesLock
  BY <1>9 DEF OperatorRemovesLock, Alive
<1>10. CASE UNCHANGED vars
  BY <1>10
<1> QED BY <1>1, <1>2, <1>3, <1>4, <1>5, <1>6, <1>7, <1>8, <1>9, <1>10 DEF Next, Step

\* Claims are made for committed requests.
LEMMA SubmittedStep ==
  ASSUME Prudent, TypeOK, JobKnown, ClaimHeld, Submitted, [Next]_vars
  PROVE  Submitted'
<1> USE WatcherAssumption
    DEF TypeOK, JobKnown, ClaimHeld, Submitted, Up, Serving, Pulsed,
        Recovering, Preparing, Committing, Spawned, Publishing, Claimants,
        BeforeSpawn, Erring, Goto, Leave, Fail, vars, worldVars, storeVars,
        osVars, flagVars, localVars
<1>1. ASSUME NEW w \in Watcher, RecoverStep(w) PROVE Submitted'
  BY <1>1 DEF RecoverStep, Boot, WriteOwner, Forget, ListClaims, Recovered,
         RecoverClaim
<1>2. ASSUME NEW w \in Watcher, PrepareStep(w) PROVE Submitted'
  BY <1>2 DEF PrepareStep, TakeJob, WriteClaim, WriteClaimed, Verify,
         Prelaunch, CheckUpload, Approve, HookDecides, ReapHook, RejectJob
<1>3. ASSUME NEW w \in Watcher, LaunchStep(w) PROVE Submitted'
  BY <1>3 DEF LaunchStep, CheckStart, Prelaunch, WriteStarted, CheckRun,
         WriteRunning, CheckSpawn, Spawn
<1>4. ASSUME NEW w \in Watcher, ExecuteStep(w) PROVE Submitted'
  BY <1>4 DEF ExecuteStep, CancelRunning, TimeOut, Complete, Drained,
         FailJob, Reap, Collect
<1>5. ASSUME NEW w \in Watcher, PublishStep(w) PROVE Submitted'
  BY <1>5 DEF PublishStep, Abort, WriteGeneration, PublishFailed, WriteFinal
<1>6. ASSUME NEW w \in Watcher, LeaveStep(w) PROVE Submitted'
  BY <1>6 DEF LeaveStep, LeaveLoop, Unwind, Release, Forget,
         RemoveOwnLock
<1>7. ASSUME NEW w \in Watcher, Disturb(w) PROVE Submitted'
  BY <1>7 DEF Disturb, CleanupFails, PulseFails, SetStop, Interrupt,
         Crash, Forget
<1>8. ASSUME NEW j \in Job, World(j) PROVE Submitted'
  BY <1>8 DEF World, PublishRequest, PublishCancel, Expire, ProcessEnds
<1>9. CASE OperatorRemovesLock
  BY <1>9 DEF OperatorRemovesLock
<1>10. CASE UNCHANGED vars
  BY <1>10
<1> QED BY <1>1, <1>2, <1>3, <1>4, <1>5, <1>6, <1>7, <1>8, <1>9, <1>10 DEF Next, Step

-----------------------------------------------------------------------------
\* The invariant of LockInv holds initially.
LEMMA LockInit == Init => LockInv
<1> SUFFICES ASSUME Init PROVE LockInv
  OBVIOUS
<1> USE DEF Init
<1>1. \A w \in Watcher : pc[w] = "off" /\ pc[w] \notin Up
  BY DEF Up, Serving, Pulsed, Recovering, Preparing, Committing, Spawned,
         Publishing
<1>2. \A w \in Watcher : pc[w] \notin {"claiming"} \cup BeforeSpawn
  BY <1>1 DEF BeforeSpawn, Preparing, Committing
<1>3. \A j \in Job : ~CommandRuns(j) /\ ~Contained(j)
  BY DEF CommandRuns, Contained
<1> QED
  BY <1>1, <1>2, <1>3
  DEF LockInv, Exclusive, LockHeld, ChildrenKnown, StillOpen, ChildHoldsLock,
      FinalMeansQuiet, Submitted

\* With a careful operator the lock works on either platform: LockInv holds in
\* every behaviour.
THEOREM LockWorks ==
  ASSUME Prudent
  PROVE  Spec => [](TypeOK /\ ClaimInv /\ LockInv)
<1>1. Init => LockInv
  BY LockInit
<1>2. TypeOK /\ ClaimInv /\ LockInv /\ [Next]_vars => LockInv'
  BY Prudent, ExclusiveStep, LockHeldStep, ChildrenKnownStep, StillOpenStep,
     ChildHoldsLockStep, FinalMeansQuietStep, SubmittedStep
  DEF ClaimInv, LockInv
<1> QED BY <1>1, <1>2, Invariance, PTL DEF Spec

\* One incarnation at a time is past acquire_singleton.
THEOREM OneWatcher ==
  ASSUME Prudent
  PROVE  Spec => []Exclusive
<1>1. LockInv => Exclusive
  BY DEF LockInv
<1> QED BY <1>1, LockWorks, PTL

\* No incarnation starts beside a live child of an earlier one: of its group on
\* POSIX; on Windows beside no leader, but maybe beside descendants of one.
THEOREM ChildrenKeepTheLock ==
  ASSUME Prudent
  PROVE  Spec => []ChildHoldsLock
<1>1. LockInv => ChildHoldsLock
  BY DEF LockInv
<1> QED BY <1>1, LockWorks, PTL

\* On POSIX nothing of a job's groups runs once its FINAL is there, on Windows the
\* leader of the command does not.
THEOREM FinalsAreQuiet ==
  ASSUME Prudent
  PROVE  Spec => []FinalMeansQuiet
<1>1. LockInv => FinalMeansQuiet
  BY DEF LockInv
<1> QED BY <1>1, LockWorks, PTL

-----------------------------------------------------------------------------
\* The refinement.  Each lemma gives the effect of some actions on the four
\* variables of JobRelay.

Ran == {j \in Job : launches[j] > 0}
Living == {j \in Job : CommandRuns(j)}
Verdicts == [j \in Job |-> final[j].status]

\* Less of one command running is a Stop, or nothing the relay sees.
LEMMA EndingStops ==
  ASSUME NEW j \in Job, Living' \in {Living, Living \ {j}},
         UNCHANGED <<inbox, windows, launches, final>>
  PROVE  [Relay!RelayNext]_(Relay!jobVars)
<1>1. CASE Living' = Living
  BY <1>1 DEF Relay!jobVars, Living
<1>2. CASE j \in Living /\ Living' = Living \ {j}
  <2>1. Relay!Stop(j)
    BY <1>2 DEF Relay!Stop, Living
  <2> QED BY <2>1 DEF Relay!RelayNext
<1> QED BY <1>1, <1>2

\* So is a kill of what is left of it.
LEMMA KilledStops ==
  ASSUME TypeOK, NEW j \in Job, procs' \in Killed(j),
         UNCHANGED <<inbox, windows, launches, final>>
  PROVE  [Relay!RelayNext]_(Relay!jobVars)
<1>1. PICK p \in {"none", "orphans", "gone"} :
        procs' = [procs EXCEPT ![j] = p] /\ (p = "orphans" => windows)
  BY DEF Killed, Killing
<1>2. \A i \in Job : procs'[i] = IF i = j THEN p ELSE procs[i]
  BY <1>1 DEF TypeOK
<1>3. Living' = Living \ {j}
  BY <1>1, <1>2 DEF Living, CommandRuns
<1> QED BY <1>3, EndingStops

\* So is an end that comes by itself, of the leader or of all.
LEMMA EndsStop ==
  ASSUME TypeOK, NEW j \in Job, ProcessEnds(j)
  PROVE  [Relay!RelayNext]_(Relay!jobVars)
<1>1. UNCHANGED <<inbox, windows, launches, final>>
  BY DEF ProcessEnds, worldVars, storeVars
<1>2. CASE procs' = procs
  <2>1. Living' = Living
    BY <1>1, <1>2 DEF Living, CommandRuns
  <2> QED BY <1>1, <2>1, EndingStops
<1>3. ASSUME NEW p \in {"orphans", "gone"}, procs' = [procs EXCEPT ![j] = p],
             p = "orphans" => procs[j] = "running"
      PROVE  Living' \in {Living, Living \ {j}}
  <2>1. \A i \in Job : procs'[i] = IF i = j THEN p ELSE procs[i]
    BY <1>3 DEF TypeOK
  <2>2. CASE p = "gone" \/ windows
    <3>1. Living' = Living \ {j}
      BY <1>1, <1>3, <2>1, <2>2 DEF Living, CommandRuns
    <3> QED BY <3>1
  <2>3. CASE p = "orphans" /\ ~windows
    <3>1. Living' = Living
      BY <1>1, <1>3, <2>1, <2>3 DEF Living, CommandRuns
    <3> QED BY <3>1
  <2> QED BY <2>2, <2>3
<1> QED BY <1>1, <1>2, <1>3, EndingStops DEF ProcessEnds

\* Popen is a Start of an open, committed job that never ran.
LEMMA SpawnStarts ==
  ASSUME TypeOK, ClaimInv, LockInv, NEW w \in Watcher, Spawn(w)
  PROVE  [Relay!RelayNext]_(Relay!jobVars)
<1>0. PICK j \in Job : j = job[w]
  BY DEF Spawn, ClaimInv, JobKnown, Claimants, Pulsed, Committing
<1>1. claim[j] = w /\ launches[j] = 0 /\ final[j] = NoFinal
  BY <1>0 DEF Spawn, ClaimInv, ClaimHeld, LaunchOnce, LockInv, StillOpen,
              Claimants, Pulsed, BeforeSpawn, Committing
<1>2. j \in inbox
  BY <1>1, WatcherAssumption DEF LockInv, Submitted
<1>3. /\ launches' = [launches EXCEPT ![j] = 1]
      /\ procs' = [procs EXCEPT ![j] = "running"]
      /\ UNCHANGED <<inbox, windows, final>>
  BY <1>0, <1>1 DEF Spawn, worldVars, storeVars, TypeOK
<1>4. Ran' = Ran \cup {j} /\ j \notin Ran /\ Living' = Living \cup {j}
  BY <1>1, <1>3 DEF Ran, Living, CommandRuns, TypeOK
<1>5. Verdicts' = Verdicts /\ Verdicts[j] = "OPEN"
  BY <1>1, <1>3 DEF Verdicts, NoFinal
<1>6. Relay!Start(j)
  BY <1>2, <1>3, <1>4, <1>5 DEF Relay!Start, Ran, Living, Verdicts
<1> QED BY <1>6 DEF Relay!RelayNext

\* Linking FINAL is a Close with a status that fits the launch.
LEMMA FinalCloses ==
  ASSUME TypeOK, ClaimInv, LockInv, LockInv', NEW w \in Watcher, WriteFinal(w)
  PROVE  [Relay!RelayNext]_(Relay!jobVars)
<1>0. PICK j \in Job : j = job[w]
  BY DEF WriteFinal, ClaimInv, JobKnown, Claimants, Pulsed, Publishing
<1>1. claim[j] # Nobody
  BY <1>0, WatcherAssumption
  DEF WriteFinal, ClaimInv, ClaimHeld, Claimants, Pulsed, Publishing
<1>2. j \in inbox
  BY <1>1 DEF LockInv, Submitted
<1>3. UNCHANGED <<inbox, windows, launches, procs, hooks>>
  BY DEF WriteFinal, worldVars, osVars
<1>4. CASE final' = final
  BY <1>3, <1>4 DEF Relay!jobVars, CommandRuns
<1>5. CASE /\ final[j] = NoFinal
           /\ final' = [final EXCEPT ![j] = [by |-> w, status |-> outcome[w]]]
  <2>1. j \notin Living
    <3>1. final'[j] # NoFinal
      BY <1>1, <1>5, WatcherAssumption DEF NoFinal, TypeOK
    <3> QED BY <1>1, <1>3, <3>1 DEF LockInv, FinalMeansQuiet, Contained, CommandRuns, Living
  <2>2. outcome[w] \in IF j \in Ran THEN Relay!RunStatus ELSE Relay!NotRunStatus
    BY <1>0 DEF WriteFinal, ClaimInv, OutcomeTrue, Erring, Ran,
                Relay!RunStatus, Relay!NotRunStatus
  <2>3. Verdicts' = [Verdicts EXCEPT ![j] = outcome[w]] /\ Verdicts[j] = "OPEN"
    <3>1. \A i \in Job : final'[i] =
            IF i = j THEN [by |-> w, status |-> outcome[w]] ELSE final[i]
      BY <1>5 DEF TypeOK
    <3>2. \A i \in Job :
            final'[i].status = IF i = j THEN outcome[w] ELSE final[i].status
      BY <3>1
    <3>3. final[j].status = "OPEN"
      BY <1>5 DEF NoFinal
    <3> QED BY <3>2, <3>3 DEF Verdicts
  <2>4. Ran' = Ran /\ Living' = Living
    BY <1>3 DEF Ran, Living, CommandRuns
  <2>5. Relay!Close(j)
    BY <1>2, <1>3, <2>1, <2>2, <2>3, <2>4
    DEF Relay!Close, Living, Ran, Verdicts
  <2> QED BY <2>5 DEF Relay!RelayNext
<1> QED BY <1>0, <1>4, <1>5 DEF WriteFinal

\* Every step of Watcher is a step of the relay or invisible to it.
LEMMA StepRefines ==
  ASSUME Prudent, TypeOK, ClaimInv, LockInv, LockInv', [Next]_vars
  PROVE  [Relay!RelayNext]_(Relay!jobVars)
<1> DEFINE Quiet == UNCHANGED <<inbox, windows, launches, procs, final>>
           Refined == [Relay!RelayNext]_(Relay!jobVars)
<1> USE DEF worldVars, storeVars, osVars, localVars
<1>1. Quiet => Refined
  BY DEF Relay!jobVars, CommandRuns
<1>2. ASSUME NEW w \in Watcher, RecoverStep(w) PROVE Quiet
  BY <1>2 DEF RecoverStep, Boot, WriteOwner, ListClaims, Recovered,
     RecoverClaim
<1>3. ASSUME NEW w \in Watcher, PrepareStep(w) PROVE Quiet
  BY <1>3 DEF PrepareStep, TakeJob, WriteClaim, WriteClaimed, Verify,
     CheckUpload, Approve, HookDecides, ReapHook, RejectJob
<1>4. ASSUME NEW w \in Watcher, LaunchStep(w) PROVE Quiet \/ Spawn(w)
  BY <1>4 DEF LaunchStep, CheckStart, WriteStarted, CheckRun, WriteRunning,
     CheckSpawn
<1>5. ASSUME NEW w \in Watcher, pc[w] \in {"watching", "reaping", "unwinding"},
             procs' \in Killed(job[w]), UNCHANGED <<inbox, windows, launches, final>>
      PROVE  Refined
  <2>1. job[w] \in Job
    BY <1>5 DEF ClaimInv, JobKnown, Claimants, Pulsed, Spawned
  <2> QED BY <1>5, <2>1, KilledStops
<1>6. ASSUME NEW w \in Watcher, ExecuteStep(w) PROVE Refined
  <2>1. CASE CancelRunning(w) \/ TimeOut(w) \/ Reap(w)
    BY <1>5, <2>1 DEF CancelRunning, TimeOut, Reap
  <2>2. CASE Complete(w) \/ Drained(w) \/ FailJob(w) \/ Collect(w)
    BY <1>1, <2>2 DEF Complete, Drained, FailJob, Collect
  <2> QED BY <1>6, <2>1, <2>2 DEF ExecuteStep
<1>7. ASSUME NEW w \in Watcher, PublishStep(w) PROVE Quiet \/ WriteFinal(w)
  BY <1>7 DEF PublishStep, Abort, WriteGeneration
<1>8. ASSUME NEW w \in Watcher, LeaveStep(w) PROVE Refined
  <2>1. CASE Unwind(w)
    BY <1>5, <2>1 DEF Unwind
  <2>2. CASE LeaveLoop(w) \/ Release(w) \/ RemoveOwnLock(w)
    BY <1>1, <2>2 DEF LeaveLoop, Release, RemoveOwnLock
  <2> QED BY <1>8, <2>1, <2>2 DEF LeaveStep
<1>9. ASSUME NEW w \in Watcher, Disturb(w) PROVE Refined
  <2>1. CASE CleanupFails(w)
    <3>1. CASE procs' = procs
      BY <1>1, <2>1, <3>1 DEF CleanupFails
    <3>2. CASE procs' \in Killed(job[w]) /\ pc[w] # "unhooking"
      BY <1>5, <2>1, <3>2 DEF CleanupFails
    <3>3. CASE procs' \in Killed(job[w]) /\ pc[w] = "unhooking"
      <4>1. job[w] \in Job
        BY <3>3 DEF ClaimInv, JobKnown, Claimants, Pulsed, Preparing
      <4> QED BY <2>1, <3>3, <4>1, KilledStops DEF CleanupFails
    <3> QED BY <2>1, <3>1, <3>2, <3>3 DEF CleanupFails
  <2>2. CASE PulseFails(w) \/ SetStop(w) \/ Interrupt(w) \/ Crash(w)
    BY <1>1, <2>2, Prudent
    DEF Prudent, PulseFails, SetStop, Interrupt, Crash
  <2> QED BY <1>9, <2>1, <2>2 DEF Disturb
<1>10. ASSUME NEW j \in Job, World(j) PROVE Refined
  <2>1. CASE PublishRequest(j)
    <3>1. Relay!Submit(j)
      BY <2>1 DEF PublishRequest, CommandRuns, Relay!Submit
    <3> QED BY <3>1 DEF Relay!RelayNext
  <2>2. CASE PublishCancel(j) \/ Expire(j)
    BY <1>1, <2>2 DEF PublishCancel, Expire
  <2>3. CASE ProcessEnds(j)
    BY <2>3, EndsStop
  <2> QED BY <1>10, <2>1, <2>2, <2>3 DEF World
<1>11. CASE OperatorRemovesLock
  BY <1>1, <1>11 DEF OperatorRemovesLock
<1>12. CASE UNCHANGED vars
  BY <1>1, <1>12 DEF vars
<1> QED
  BY <1>1, <1>2, <1>3, <1>4, <1>6, <1>7, <1>8, <1>9, <1>10, <1>11, <1>12,
     SpawnStarts, FinalCloses
  DEF Next, Step

\* An empty share is an empty relay.
LEMMA InitRefines == Init => Relay!RelayInit
BY DEF Init, NoFinal, CommandRuns, Relay!RelayInit

\* Watcher implements the abstract relay: started at most once, one verdict,
\* nothing alive at or after the verdict that a kill is sure to end, and a verdict
\* that fits the launch.
THEOREM WatcherRefinesRelay ==
  ASSUME Prudent
  PROVE  Spec => ImplementsRelay
<1>1. Init => Relay!RelayInit
  BY InitRefines
<1>2. /\ TypeOK /\ ClaimInv /\ LockInv
      /\ (TypeOK /\ ClaimInv /\ LockInv)'
      /\ [Next]_vars
      => [Relay!RelayNext]_(Relay!jobVars)
  BY Prudent, StepRefines
<1> QED
  BY <1>1, <1>2, LockWorks, PTL DEF Spec, ImplementsRelay, Relay!RelaySpec
=============================================================================
