------------------------------ MODULE Watcher -------------------------------
(***************************************************************************)
(* fs_exec/watcher.py with the markers of fs_exec/protocol.py: incarnations*)
(* of the watcher process serve jobs out of one shared directory, crash    *)
(* anywhere, are interrupted, hit I/O errors, and are replaced.            *)
(*                                                                         *)
(* An element of Watcher is one process (watcher_id is drawn afresh at     *)
(* every start), so a restart is another element.  A start that finds the  *)
(* lock exits and is retried by the service manager: it stays "off".       *)
(* Bytes, hashes, uploads, output chunks, heartbeats and pongs are         *)
(* abstracted: of a heartbeat only its failure is kept.                    *)
(*                                                                         *)
(* An operator commented "Variant" is no part of the model: it is a version*)
(* of the action after it with a likely mistake in it, kept to show which  *)
(* property of WatcherProps notices.                                       *)
(***************************************************************************)
EXTENDS Naturals

CONSTANTS
  Job,               \* job ids
  Watcher,           \* watcher processes, each started at most once
  Unreliable,        \* those that may crash, be interrupted or meet I/O errors
  HasHook,           \* policy.approval_hook is configured
  Careful,           \* the operator verifies before removing a stale lock
  StaleReads,        \* FINAL.exists() may answer from a stale cache
  NestedInterrupts,  \* an interrupt may land inside Popen or the cleanup
  Nobody,            \* no owner: the directory does not exist
  Unsigned,          \* the directory exists, its owner record does not
  NoJob

ASSUME WatcherAssumption ==
  /\ Unreliable \subseteq Watcher
  /\ {HasHook, Careful, StaleReads, NestedInterrupts} \subseteq BOOLEAN
  /\ Nobody \notin Watcher /\ Unsigned \notin Watcher /\ Nobody # Unsigned
  /\ NoJob \notin Job

VARIABLES
  \* what clients and time do to the share, and what it is served from
  inbox,      \* jobs with a visible COMMIT: inbox/JOB.ready
  cancel,     \* control/cancel/JOB
  expired,    \* jobs whose expires_ns or queue-age deadline has passed
  windows,    \* the host: os.name = "nt", where processes have no group to kill
  \* what watchers keep on the share
  lock,       \* health/watcher.lock: Nobody, Unsigned or the owner
  claim,      \* claims/JOB: Nobody, Unsigned (no CLAIM) or the fenced claimant
  marks,      \* CLAIMED, STARTED, RUNNING
  gens,       \* result-UUID.json generations
  final,      \* FINAL, a pointer to one generation
  \* operating-system processes
  procs,      \* the command's leader and descendants, on POSIX its group
  hooks,      \* jobs with a live process of the approval hook
  launches,   \* history: how often the command was started
  \* the memory of each watcher
  pc, job, outcome,
  todo,       \* claims recover_interrupted has yet to visit
  stop,       \* stop_event
  hbFailed,   \* _heartbeat_failed
  cleanupFailed

worldVars == <<inbox, cancel, expired, windows>>
storeVars == <<lock, claim, marks, gens, final>>
osVars == <<procs, hooks, launches>>
flagVars == <<stop, hbFailed, cleanupFailed>>
localVars == <<pc, job, outcome, todo, stop, hbFailed, cleanupFailed>>
vars == <<worldVars, storeVars, osVars, localVars>>

\* Something of the command runs that a kill is sure to end: any of its group on
\* POSIX, on Windows the leader.
CommandRuns(j) ==
  procs[j] = "running" \/ (procs[j] = "orphans" /\ ~windows)

Relay == INSTANCE JobRelay WITH
  submitted <- inbox,
  ran <- {j \in Job : launches[j] > 0},
  alive <- {j \in Job : CommandRuns(j)},
  verdict <- [j \in Job |-> final[j].status]

Status == Relay!TerminalStatus
NoFinal == [by |-> Nobody, status |-> "OPEN"]

\* Where the main thread is, in the order of run() and process_job().
Recovering == {"recovering", "recGen", "recFinal"}
Preparing == {"claimed", "verifying", "preparing", "approving", "unhooking"}
Committing == {"checkStart", "writeStarted", "checkRun", "writeRunning",
               "checkSpawn", "spawning"}
Spawned == {"watching", "draining", "reaping", "collecting"}
Publishing == {"gen", "final", "aborting", "errGen", "errFinal"}
Pulsed == Preparing \cup Committing \cup Spawned \cup Publishing
Serving == Recovering \cup Pulsed \cup {"listing", "scanning", "claiming"}
Up == Serving \cup {"locking", "unwinding", "leaving", "removing"}

TypeOK ==
  /\ inbox \subseteq Job /\ cancel \subseteq Job /\ expired \subseteq Job
  /\ windows \in BOOLEAN
  /\ lock \in Watcher \cup {Nobody, Unsigned}
  /\ claim \in [Job -> Watcher \cup {Nobody, Unsigned}]
  /\ marks \in [Job -> SUBSET {"CLAIMED", "STARTED", "RUNNING"}]
  /\ gens \subseteq [job : Job, by : Watcher, status : Status]
  /\ final \in [Job -> [by : Watcher, status : Status] \cup {NoFinal}]
  /\ procs \in [Job -> {"none", "running", "orphans", "gone"}]
  /\ hooks \subseteq Job
  /\ launches \in [Job -> Nat]
  /\ pc \in [Watcher -> Up \cup {"off", "down"}]
  /\ job \in [Watcher -> Job \cup {NoJob}]
  /\ outcome \in [Watcher -> Status \cup {"NONE"}]
  /\ todo \in [Watcher -> SUBSET Job]
  /\ stop \in [Watcher -> BOOLEAN]
  /\ hbFailed \in [Watcher -> BOOLEAN]
  /\ cleanupFailed \in [Watcher -> BOOLEAN]

Init ==
  /\ inbox = {} /\ cancel = {} /\ expired = {} /\ windows \in BOOLEAN
  /\ lock = Nobody
  /\ claim = [j \in Job |-> Nobody]
  /\ marks = [j \in Job |-> {}]
  /\ gens = {}
  /\ final = [j \in Job |-> NoFinal]
  /\ procs = [j \in Job |-> "none"] /\ hooks = {}
  /\ launches = [j \in Job |-> 0]
  /\ pc = [w \in Watcher |-> "off"]
  /\ job = [w \in Watcher |-> NoJob]
  /\ outcome = [w \in Watcher |-> "NONE"]
  /\ todo = [w \in Watcher |-> {}]
  /\ stop = [w \in Watcher |-> FALSE]
  /\ hbFailed = [w \in Watcher |-> FALSE]
  /\ cleanupFailed = [w \in Watcher |-> FALSE]

-----------------------------------------------------------------------------
\* Clients and time.

\* publish_request: COMMIT appears with the rename of the staging directory,
\* which fails on an existing JOB.ready.
PublishRequest(j) ==
  /\ j \notin inbox
  /\ inbox' = inbox \cup {j}
  /\ UNCHANGED <<cancel, expired, windows, storeVars, osVars, localVars>>

\* publish_cancel: exclusive and idempotent; the job need not exist.
PublishCancel(j) ==
  /\ j \notin cancel
  /\ cancel' = cancel \cup {j}
  /\ UNCHANGED <<inbox, expired, windows, storeVars, osVars, localVars>>

Expire(j) ==
  /\ j \in inbox \ expired
  /\ expired' = expired \cup {j}
  /\ UNCHANGED <<inbox, cancel, windows, storeVars, osVars, localVars>>

-----------------------------------------------------------------------------
\* Steps of one watcher.

Goto(w, p) == pc' = [pc EXCEPT ![w] = p]

Leave(w, p) ==         \* process_job returns, or one recovery item is done
  /\ Goto(w, p)
  /\ job' = [job EXCEPT ![w] = NoJob]
  /\ outcome' = [outcome EXCEPT ![w] = "NONE"]

Fail(w, p, s) ==       \* an exception reaches the handler at p with status s
  /\ Goto(w, p)
  /\ outcome' = [outcome EXCEPT ![w] = s]
  /\ UNCHANGED job

\* The process is gone; its children are not.
Forget(w) ==
  /\ Leave(w, "down")
  /\ todo' = [todo EXCEPT ![w] = {}]
  /\ stop' = [stop EXCEPT ![w] = FALSE]
  /\ hbFailed' = [hbFailed EXCEPT ![w] = FALSE]
  /\ cleanupFailed' = [cleanupFailed EXCEPT ![w] = FALSE]

\* FINAL.exists() may answer yes; it may answer no.
SeesFinal(j) == final[j] # NoFinal
MissesFinal(j) == final[j] = NoFinal \/ StaleReads

\* _check_owner may pass; it may raise.
Owns(w, j) == lock = w /\ claim[j] = w /\ MissesFinal(j)
Disowned(w, j) == lock # w \/ claim[j] # w \/ SeesFinal(j)

Mark(j, m) == marks' = [marks EXCEPT ![j] = @ \cup {m}]

\* Variant: mkdir of the lock with exist_ok.
BootBeside(w) ==
  /\ pc[w] = "off"
  /\ lock' = IF lock = Nobody THEN Unsigned ELSE lock
  /\ Goto(w, "locking")
  /\ UNCHANGED <<worldVars, claim, marks, gens, final, osVars, job, outcome,
                 todo, flagVars>>

\* acquire_singleton: mkdir, then owner.json.
Boot(w) ==
  /\ pc[w] = "off" /\ lock = Nobody
  /\ lock' = Unsigned
  /\ Goto(w, "locking")
  /\ UNCHANGED <<worldVars, claim, marks, gens, final, osVars, job, outcome,
                 todo, flagVars>>

\* owner.json is exclusive too: another start may have slipped in.
WriteOwner(w) ==
  /\ pc[w] = "locking"
  /\ \/ /\ lock \in {Nobody, Unsigned}
        /\ lock' = w
        /\ Goto(w, "listing")
        /\ UNCHANGED <<job, outcome, todo, flagVars>>
     \/ /\ lock \in Watcher
        /\ Forget(w)
        /\ UNCHANGED lock
  /\ UNCHANGED <<worldVars, claim, marks, gens, final, osVars>>

\* recover_interrupted: iterdir() takes one listing of claims/.
ListClaims(w) ==
  /\ pc[w] = "listing"
  /\ todo' = [todo EXCEPT ![w] = {j \in Job : claim[j] # Nobody}]
  /\ Goto(w, "recovering")
  /\ UNCHANGED <<worldVars, storeVars, osVars, job, outcome, flagVars>>

\* Variant: an interrupted job is called REJECTED.
RecoverAsRejected(w, j) ==
  /\ pc[w] = "recovering" /\ j \in todo[w] /\ MissesFinal(j)
  /\ todo' = [todo EXCEPT ![w] = @ \ {j}]
  /\ Goto(w, "recGen")
  /\ job' = [job EXCEPT ![w] = j]
  /\ outcome' = [outcome EXCEPT ![w] = "REJECTED"]
  /\ UNCHANGED <<worldVars, storeVars, osVars, flagVars>>

\* One listed claim: skipped when FINAL is seen or on any error (ownership
\* lost, I/O), otherwise closed as AVAILABILITY_UNKNOWN.
RecoverClaim(w, j) ==
  /\ pc[w] = "recovering" /\ j \in todo[w]
  /\ todo' = [todo EXCEPT ![w] = @ \ {j}]
  /\ \/ /\ MissesFinal(j) /\ lock = w
        /\ Goto(w, "recGen")
        /\ job' = [job EXCEPT ![w] = j]
        /\ outcome' = [outcome EXCEPT ![w] = "AVAILABILITY_UNKNOWN"]
     \/ /\ SeesFinal(j) \/ lock # w \/ w \in Unreliable
        /\ UNCHANGED <<pc, job, outcome>>
  /\ UNCHANGED <<worldVars, storeVars, osVars, flagVars>>

\* Variant: the first claim that fails ends the recovery.
RecoveredEarly(w) ==
  /\ pc[w] = "recovering"
  /\ Goto(w, "scanning")
  /\ todo' = [todo EXCEPT ![w] = {}]
  /\ UNCHANGED <<worldVars, storeVars, osVars, job, outcome, flagVars>>

Recovered(w) ==
  /\ pc[w] = "recovering" /\ todo[w] = {}
  /\ Goto(w, "scanning")
  /\ UNCHANGED <<worldVars, storeVars, osVars, job, outcome, todo, flagVars>>

-----------------------------------------------------------------------------
\* process_job up to the launch.

\* FINAL check and the exclusive mkdir of claims/JOB.
TakeJob(w, j) ==
  /\ pc[w] = "scanning" /\ ~stop[w] /\ j \in inbox
  /\ MissesFinal(j)
  /\ claim[j] = Nobody
  /\ claim' = [claim EXCEPT ![j] = Unsigned]
  /\ Goto(w, "claiming")
  /\ job' = [job EXCEPT ![w] = j]
  /\ UNCHANGED <<worldVars, lock, marks, gens, final, osVars, outcome, todo,
                 flagVars>>

\* _claim writes CLAIM.  An error, before or after the link, leaves
\* process_job without a claim: it returns and the job stays taken.
WriteClaim(w) ==
  /\ pc[w] = "claiming"
  /\ \/ /\ claim' = [claim EXCEPT ![job[w]] = w]
        /\ hbFailed' = [hbFailed EXCEPT ![w] = FALSE]
        /\ Goto(w, "claimed")
        /\ UNCHANGED <<job, outcome>>
     \/ /\ w \in Unreliable
        /\ claim' \in {claim, [claim EXCEPT ![job[w]] = w]}
        /\ Leave(w, "scanning")
        /\ UNCHANGED hbFailed
  /\ UNCHANGED <<worldVars, lock, marks, gens, final, osVars, todo, stop,
                 cleanupFailed>>

\* heartbeat("BUSY"), _check_owner, CLAIMED.
WriteClaimed(w) ==
  /\ pc[w] = "claimed"
  /\ \/ /\ Owns(w, job[w])
        /\ Mark(job[w], "CLAIMED")
        /\ Goto(w, "verifying")
        /\ UNCHANGED <<job, outcome>>
     \/ /\ Disowned(w, job[w])
        /\ Fail(w, "aborting", "REJECTED")
        /\ UNCHANGED marks
  /\ UNCHANGED <<worldVars, lock, claim, gens, final, osVars, todo, flagVars>>

\* What _prelaunch makes of the stop event, the cancel marker and the clock.
Verdict(w, j) ==
  IF stop[w] \/ j \in cancel THEN "CANCELLED"
  ELSE IF j \in expired THEN "EXPIRED"
  ELSE "NONE"

\* Variant: the refusal does not say which status it stands for.
PrelaunchSilent(w, next) ==
  /\ UNCHANGED <<job, outcome>>
  /\ Goto(w, IF Owns(w, job[w]) /\ Verdict(w, job[w]) = "NONE"
               THEN next ELSE "aborting")

\* _prelaunch between two steps: on to next, or into the except clause.
Prelaunch(w, next) ==
  \/ /\ Owns(w, job[w]) /\ ~hbFailed[w]
     /\ Verdict(w, job[w]) = "NONE"
     /\ Goto(w, next)
     /\ UNCHANGED <<job, outcome>>
  \/ /\ Owns(w, job[w]) /\ ~hbFailed[w]
     /\ Verdict(w, job[w]) # "NONE"
     /\ Fail(w, "aborting", Verdict(w, job[w]))
  \/ /\ Disowned(w, job[w]) \/ hbFailed[w]
     /\ Fail(w, "aborting", "REJECTED")

\* verify_request succeeded; first check of the deadline and the markers.
Verify(w) ==
  /\ pc[w] = "verifying"
  /\ Prelaunch(w, "preparing")
  /\ UNCHANGED <<worldVars, storeVars, osVars, todo, flagVars>>

\* A check between two uploads.
CheckUpload(w) ==
  /\ pc[w] = "preparing"
  /\ Prelaunch(w, "preparing")
  /\ UNCHANGED <<worldVars, storeVars, osVars, todo, flagVars>>

\* Uploads copied, command and cwd allowed; _approve starts the hook, if any.
Approve(w) ==
  /\ pc[w] = "preparing"
  /\ IF HasHook THEN hooks' = hooks \cup {job[w]} /\ Goto(w, "approving")
                ELSE Goto(w, "checkStart") /\ UNCHANGED hooks
  /\ UNCHANGED <<worldVars, storeVars, procs, launches, job, outcome, todo,
                 flagVars>>

\* The hook approves, is refused, overruns its 30 s, or a poll's _prelaunch
\* raises; each way leads to the finally clause.
HookDecides(w) ==
  /\ pc[w] = "approving"
  /\ \/ \E s \in {"NONE", "REJECTED"} : Fail(w, "unhooking", s)
     \/ /\ Owns(w, job[w]) /\ ~hbFailed[w]
        /\ Fail(w, "unhooking", Verdict(w, job[w]))
  /\ UNCHANGED <<worldVars, storeVars, osVars, todo, flagVars>>

\* What the kill of a job's hook leaves.
HookKilled(j) == {hooks \ {j}} \cup IF windows THEN {hooks} ELSE {}

\* _terminate_tree of the hook.
ReapHook(w) ==
  /\ pc[w] = "unhooking"
  /\ hooks' \in HookKilled(job[w])
  /\ Goto(w, IF outcome[w] = "NONE" THEN "checkStart" ELSE "aborting")
  /\ UNCHANGED <<worldVars, storeVars, procs, launches, job, outcome, todo,
                 flagVars>>

CheckStart(w) ==
  /\ pc[w] = "checkStart"
  /\ Prelaunch(w, "writeStarted")
  /\ UNCHANGED <<worldVars, storeVars, osVars, todo, flagVars>>

WriteStarted(w) ==
  /\ pc[w] = "writeStarted"
  /\ Mark(job[w], "STARTED")
  /\ Goto(w, "checkRun")
  /\ UNCHANGED <<worldVars, lock, claim, gens, final, osVars, job, outcome,
                 todo, flagVars>>

\* Variant: RUNNING is left to the heartbeat.
CheckRunOnly(w) ==
  /\ pc[w] = "checkRun"
  /\ Prelaunch(w, "checkSpawn")
  /\ UNCHANGED <<worldVars, storeVars, osVars, todo, flagVars>>

CheckRun(w) ==
  /\ pc[w] = "checkRun"
  /\ Prelaunch(w, "writeRunning")
  /\ UNCHANGED <<worldVars, storeVars, osVars, todo, flagVars>>

WriteRunning(w) ==
  /\ pc[w] = "writeRunning"
  /\ Mark(job[w], "RUNNING")
  /\ Goto(w, "checkSpawn")
  /\ UNCHANGED <<worldVars, lock, claim, gens, final, osVars, job, outcome,
                 todo, flagVars>>

\* Variant: no check between RUNNING and Popen.
SpawnUnchecked(w) ==
  /\ pc[w] = "checkSpawn"
  /\ Goto(w, "spawning")
  /\ UNCHANGED <<worldVars, storeVars, osVars, job, outcome, todo, flagVars>>

CheckSpawn(w) ==
  /\ pc[w] = "checkSpawn"
  /\ Prelaunch(w, "spawning")
  /\ UNCHANGED <<worldVars, storeVars, osVars, todo, flagVars>>

\* Variant: Popen is tried again after an error.
SpawnAgain(w) ==
  /\ pc[w] = "spawning"
  /\ procs' = [procs EXCEPT ![job[w]] = "running"]
  /\ launches' = [launches EXCEPT ![job[w]] = @ + 1]
  /\ \/ Goto(w, "watching")
     \/ w \in Unreliable /\ Goto(w, "spawning")
  /\ UNCHANGED <<worldVars, storeVars, hooks, job, outcome, todo, flagVars>>

Spawn(w) ==
  /\ pc[w] = "spawning"
  /\ procs' = [procs EXCEPT ![job[w]] = "running"]
  /\ launches' = [launches EXCEPT ![job[w]] = @ + 1]
  /\ Goto(w, "watching")
  /\ UNCHANGED <<worldVars, storeVars, hooks, job, outcome, todo, flagVars>>

\* Any other exception before the child exists: malformed or refused request,
\* timestamp in the future, I/O error (a marker may have been linked already),
\* Popen failure.
RejectJob(w) ==
  /\ pc[w] \in (Preparing \cup Committing) \ {"approving", "unhooking"}
  /\ Fail(w, "aborting", "REJECTED")
  /\ \/ UNCHANGED marks
     \/ pc[w] = "claimed" /\ Mark(job[w], "CLAIMED")
     \/ pc[w] = "writeStarted" /\ Mark(job[w], "STARTED")
     \/ pc[w] = "writeRunning" /\ Mark(job[w], "RUNNING")
  /\ UNCHANGED <<worldVars, lock, claim, gens, final, osVars, todo, flagVars>>

-----------------------------------------------------------------------------
\* The output loop of _execute, cleanup and publication.

Killing(j, left) == {[procs EXCEPT ![j] = p] : p \in left}

\* Variant: the signal goes to the leader, not to its group.
KilledLeader(j) ==
  Killing(j, IF procs[j] = "running" THEN {"orphans"} ELSE {procs[j]})

\* Variant: the leader is left to taskkill, whose failure nobody notices.
KilledByTool(j) ==
  Killing(j, IF procs[j] = "none" THEN {"none"} ELSE {procs[j], "gone"})

\* What may be left once _kill_and_reap has returned.  The signal to the group
\* ends it, though its leader may have exited before.  taskkill may miss
\* descendants, and finds none of a leader that has exited; its answer is not
\* checked, so that only the leader is dead for certain.
Killed(j) ==
  Killing(j, IF procs[j] \in {"running", "orphans"} /\ windows
               THEN {"orphans", "gone"}
             ELSE IF procs[j] = "none" THEN {"none"} ELSE {"gone"})

\* One pass sees the stop event or the cancel marker: cancellation comes
\* before the timeout, and the tree is killed before anything else.
CancelRunning(w) ==
  /\ pc[w] = "watching"
  /\ Owns(w, job[w]) /\ ~hbFailed[w]
  /\ stop[w] \/ job[w] \in cancel
  /\ procs' \in Killed(job[w])
  /\ Fail(w, "draining", "CANCELLED")
  /\ UNCHANGED <<worldVars, storeVars, hooks, launches, todo, flagVars>>

TimeOut(w) ==
  /\ pc[w] = "watching"
  /\ Owns(w, job[w]) /\ ~hbFailed[w]
  /\ ~stop[w] /\ job[w] \notin cancel
  /\ procs' \in Killed(job[w])
  /\ Fail(w, "draining", "TIMED_OUT")
  /\ UNCHANGED <<worldVars, storeVars, hooks, launches, todo, flagVars>>

\* The leader has exited and both pipes are drained.  Members of its group may
\* survive it.
Complete(w) ==
  /\ pc[w] = "watching" /\ procs[job[w]] # "running" /\ ~hbFailed[w]
  /\ Fail(w, "reaping", "COMPLETED")
  /\ UNCHANGED <<worldVars, storeVars, osVars, todo, flagVars>>

\* The pipes close after a kill.
Drained(w) ==
  /\ pc[w] = "draining" /\ ~hbFailed[w]
  /\ Goto(w, "reaping")
  /\ UNCHANGED <<worldVars, storeVars, osVars, job, outcome, todo, flagVars>>

\* Variant: a failure of the running command is called REJECTED.
FailAsRejected(w) ==
  /\ pc[w] = "collecting"
  /\ Fail(w, "aborting", "REJECTED")
  /\ UNCHANGED <<worldVars, storeVars, osVars, todo, flagVars>>

\* Ownership lost, heartbeat or reader failed, chunk write failed, pipes
\* retained by a descendant; or the artifact copy failed.
FailJob(w) ==
  /\ \/ pc[w] \in {"watching", "draining"} /\ Fail(w, "reaping", "FAILED")
     \/ pc[w] = "collecting" /\ Fail(w, "aborting", "FAILED")
  /\ UNCHANGED <<worldVars, storeVars, osVars, todo, flagVars>>

\* The finally clause of _execute.
Reap(w) ==
  /\ pc[w] = "reaping"
  /\ procs' \in Killed(job[w])
  /\ Goto(w, IF outcome[w] = "FAILED" THEN "aborting" ELSE "collecting")
  /\ UNCHANGED <<worldVars, storeVars, hooks, launches, job, outcome, todo,
                 flagVars>>

\* CleanupFailed: the claim and the lock are kept, nothing is published.  When
\* the kill inside the loop failed, the finally clause may still succeed.
CleanupFails(w) ==
  /\ w \in Unreliable
  /\ pc[w] \in {"unhooking", "watching", "reaping", "unwinding"}
  /\ procs' \in {procs} \cup Killed(job[w])
  /\ cleanupFailed' = [cleanupFailed EXCEPT ![w] = TRUE]
  /\ stop' = [stop EXCEPT ![w] = TRUE]
  /\ Leave(w, "scanning")
  /\ UNCHANGED <<worldVars, storeVars, hooks, launches, todo, hbFailed>>

\* _copy_artifacts, then _check_owner before the result is published.
Collect(w) ==
  /\ pc[w] = "collecting"
  /\ \/ Owns(w, job[w]) /\ Goto(w, "gen") /\ UNCHANGED <<job, outcome>>
     \/ Disowned(w, job[w]) /\ Fail(w, "aborting", "FAILED")
  /\ UNCHANGED <<worldVars, storeVars, osVars, todo, flagVars>>

\* Variant: an exception leaves no result.
AbortSilently(w) ==
  /\ pc[w] = "aborting"
  /\ Leave(w, "scanning")
  /\ UNCHANGED <<worldVars, storeVars, osVars, todo, flagVars>>

\* The except clause: the status is published only by the job's owner.
Abort(w) ==
  /\ pc[w] = "aborting"
  /\ \/ Owns(w, job[w]) /\ Goto(w, "errGen") /\ UNCHANGED <<job, outcome>>
     \/ /\ Disowned(w, job[w]) \/ w \in Unreliable
        /\ Leave(w, "scanning")
  /\ UNCHANGED <<worldVars, storeVars, osVars, todo, flagVars>>

\* Where publish_final was called from, and where its exception leads.
PublishFailed(w) ==
  \/ pc[w] \in {"gen", "final"} /\ Fail(w, "aborting", "FAILED")
  \/ pc[w] \in {"errGen", "errFinal"} /\ Leave(w, "scanning")
  \/ pc[w] \in {"recGen", "recFinal"} /\ Leave(w, "recovering")

\* publish_final, first half: FINAL must not be seen; write the generation.
WriteGeneration(w) ==
  LET g == [job |-> job[w], by |-> w, status |-> outcome[w]] IN
  /\ pc[w] \in {"gen", "errGen", "recGen"}
  /\ \/ /\ MissesFinal(job[w])
        /\ gens' = gens \cup {g}
        /\ \/ pc[w] = "gen" /\ Goto(w, "final")
           \/ pc[w] = "errGen" /\ Goto(w, "errFinal")
           \/ pc[w] = "recGen" /\ Goto(w, "recFinal")
        /\ UNCHANGED <<job, outcome>>
     \/ /\ SeesFinal(job[w]) \/ w \in Unreliable
        /\ gens' = gens
        /\ PublishFailed(w)
     \/ /\ w \in Unreliable /\ MissesFinal(job[w])
        /\ gens' = gens \cup {g}
        /\ PublishFailed(w)
  /\ UNCHANGED <<worldVars, lock, claim, marks, final, osVars, todo, flagVars>>

\* Variant: FINAL is replaced.
ReplaceFinal(w) ==
  /\ pc[w] \in {"final", "errFinal", "recFinal"}
  /\ final' = [final EXCEPT ![job[w]] = [by |-> w, status |-> outcome[w]]]
  /\ Leave(w, IF pc[w] = "recFinal" THEN "recovering" ELSE "scanning")
  /\ UNCHANGED <<worldVars, lock, claim, marks, gens, osVars, todo, flagVars>>

\* publish_final, second half: FINAL is linked without replacement.  An I/O
\* error may strike before or after the link.
WriteFinal(w) ==
  LET f == [by |-> w, status |-> outcome[w]]
      linked == [final EXCEPT ![job[w]] = f]
  IN
  /\ pc[w] \in {"final", "errFinal", "recFinal"}
  /\ \/ /\ final[job[w]] = NoFinal
        /\ final' = linked
        /\ Leave(w, IF pc[w] = "recFinal" THEN "recovering" ELSE "scanning")
     \/ /\ final[job[w]] # NoFinal \/ w \in Unreliable
        /\ final' = final
        /\ PublishFailed(w)
     \/ /\ final[job[w]] = NoFinal /\ w \in Unreliable
        /\ final' = linked
        /\ PublishFailed(w)
  /\ UNCHANGED <<worldVars, lock, claim, marks, gens, osVars, todo, flagVars>>

-----------------------------------------------------------------------------
\* Stopping, crashing, replacing.

\* The heartbeat thread dies: the lock is no longer ours, or an I/O error.
PulseFails(w) ==
  /\ pc[w] \in Pulsed /\ ~hbFailed[w]
  /\ lock # w \/ w \in Unreliable
  /\ hbFailed' = [hbFailed EXCEPT ![w] = TRUE]
  /\ UNCHANGED <<worldVars, storeVars, osVars, pc, job, outcome, todo, stop,
                 cleanupFailed>>

SetStop(w) ==
  /\ pc[w] \in Serving /\ ~stop[w]
  /\ stop' = [stop EXCEPT ![w] = TRUE]
  /\ UNCHANGED <<worldVars, storeVars, osVars, pc, job, outcome, todo,
                 hbFailed, cleanupFailed>>

\* run() leaves its loop: stop event, or heartbeat("READY") raised.
LeaveLoop(w) ==
  /\ pc[w] = "scanning"
  /\ stop[w] \/ lock # w \/ w \in Unreliable
  /\ Goto(w, "leaving")
  /\ UNCHANGED <<worldVars, storeVars, osVars, job, outcome, todo, flagVars>>

\* KeyboardInterrupt unwinds through the finally clauses, publishing nothing.
\* Inside Popen or the cleanup itself it escapes before the tree is killed.
Interrupt(w) ==
  /\ w \in Unreliable
  /\ pc[w] \in Serving \cup {"unwinding"}
  /\ \/ /\ pc[w] \in {"approving", "watching", "draining"}
        /\ Goto(w, "unwinding")
        /\ UNCHANGED <<osVars, job, outcome>>
     \/ /\ pc[w] \in {"unhooking", "reaping", "unwinding"} /\ NestedInterrupts
        /\ Leave(w, "leaving")
        /\ UNCHANGED osVars
     \/ /\ pc[w] = "spawning" /\ NestedInterrupts
        /\ procs' = [procs EXCEPT ![job[w]] = "running"]
        /\ launches' = [launches EXCEPT ![job[w]] = @ + 1]
        /\ Leave(w, "leaving")
        /\ UNCHANGED hooks
     \/ /\ pc[w] \in Serving \ {"approving", "watching", "draining",
                                "unhooking", "reaping"}
        /\ Leave(w, "leaving")
        /\ UNCHANGED osVars
  /\ todo' = [todo EXCEPT ![w] = {}]
  /\ UNCHANGED <<worldVars, storeVars, flagVars>>

Unwind(w) ==
  /\ pc[w] = "unwinding"
  /\ procs' \in Killed(job[w])
  /\ hooks' \in HookKilled(job[w])
  /\ Leave(w, "leaving")
  /\ UNCHANGED <<worldVars, storeVars, launches, todo, flagVars>>

\* Variant: the lock is removed whatever became of the children.
ReleaseAlways(w) ==
  /\ pc[w] = "leaving"
  /\ IF lock = w THEN Goto(w, "removing")
                      /\ UNCHANGED <<job, outcome, todo, flagVars>>
                 ELSE Forget(w)
  /\ UNCHANGED <<worldVars, storeVars, osVars>>

\* release_singleton: kept after a failed cleanup, removed only if ours.
Release(w) ==
  /\ pc[w] = "leaving"
  /\ IF ~cleanupFailed[w] /\ lock = w
       THEN Goto(w, "removing")
            /\ UNCHANGED <<job, outcome, todo, flagVars>>
       ELSE Forget(w)
  /\ UNCHANGED <<worldVars, storeVars, osVars>>

\* rmtree of the lock directory; its errors are ignored and may leave it there
\* with or without owner.json.
RemoveOwnLock(w) ==
  /\ pc[w] = "removing"
  /\ \/ lock' = Nobody
     \/ w \in Unreliable /\ lock' \in {lock, Unsigned} /\ lock # Nobody
  /\ Forget(w)
  /\ UNCHANGED <<worldVars, claim, marks, gens, final, osVars>>

Crash(w) ==
  /\ w \in Unreliable /\ pc[w] \in Up
  /\ Forget(w)
  /\ UNCHANGED <<worldVars, storeVars, osVars>>

\* Processes end by themselves, the leader alone or the whole group.
ProcessEnds(j) ==
  /\ \/ /\ procs[j] = "running"
        /\ procs' = [procs EXCEPT ![j] = "orphans"]
        /\ UNCHANGED hooks
     \/ /\ procs[j] \in {"running", "orphans"}
        /\ procs' = [procs EXCEPT ![j] = "gone"]
        /\ UNCHANGED hooks
     \/ /\ j \in hooks
        /\ hooks' = hooks \ {j}
        /\ UNCHANGED procs
  /\ UNCHANGED <<worldVars, storeVars, launches, localVars>>

Alive(j) == procs[j] \in {"running", "orphans"} \/ j \in hooks

\* The operator removes a stale lock.  A careful one has verified that every
\* watcher and all their children are stopped.
OperatorRemovesLock ==
  /\ lock # Nobody
  /\ Careful => /\ \A w \in Watcher : pc[w] \in {"off", "down"}
                /\ \A j \in Job : ~Alive(j)
  /\ lock' = Nobody
  /\ UNCHANGED <<worldVars, claim, marks, gens, final, osVars, localVars>>

-----------------------------------------------------------------------------
RecoverStep(w) ==
  \/ Boot(w) \/ WriteOwner(w) \/ ListClaims(w) \/ Recovered(w)
  \/ \E j \in Job : RecoverClaim(w, j)

PrepareStep(w) ==
  \/ \E j \in Job : TakeJob(w, j)
  \/ WriteClaim(w) \/ WriteClaimed(w) \/ Verify(w) \/ CheckUpload(w)
  \/ Approve(w) \/ HookDecides(w) \/ ReapHook(w) \/ RejectJob(w)

LaunchStep(w) ==
  \/ CheckStart(w) \/ WriteStarted(w) \/ CheckRun(w) \/ WriteRunning(w)
  \/ CheckSpawn(w) \/ Spawn(w)

ExecuteStep(w) ==
  \/ CancelRunning(w) \/ TimeOut(w) \/ Complete(w) \/ Drained(w)
  \/ FailJob(w) \/ Reap(w) \/ Collect(w)

PublishStep(w) == Abort(w) \/ WriteGeneration(w) \/ WriteFinal(w)

LeaveStep(w) == LeaveLoop(w) \/ Unwind(w) \/ Release(w) \/ RemoveOwnLock(w)

\* What the code does by itself, and what happens to it.
Step(w) ==
  \/ RecoverStep(w) \/ PrepareStep(w) \/ LaunchStep(w)
  \/ ExecuteStep(w) \/ PublishStep(w) \/ LeaveStep(w)

Disturb(w) ==
  CleanupFails(w) \/ PulseFails(w) \/ SetStop(w) \/ Interrupt(w) \/ Crash(w)

World(j) ==
  PublishRequest(j) \/ PublishCancel(j) \/ Expire(j) \/ ProcessEnds(j)

Next ==
  \/ \E w \in Watcher : Step(w) \/ Disturb(w)
  \/ \E j \in Job : World(j)
  \/ OperatorRemovesLock

Spec == Init /\ [][Next]_vars
=============================================================================
