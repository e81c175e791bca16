----------------------------- MODULE WatcherInv -----------------------------
(***************************************************************************)
(* The inductive invariants behind the properties of WatcherProps.         *)
(* ClaimInv holds whatever the operator does; LockInv needs a careful      *)
(* operator and no interrupt inside the cleanup.                           *)
(***************************************************************************)
EXTENDS WatcherProps

Claimants == Pulsed \cup {"unwinding"}
BeforeSpawn == Preparing \cup Committing
Erring == {"aborting", "errGen", "errFinal"}

\* A watcher that works on a job knows which.
JobKnown ==
  \A w \in Watcher :
    pc[w] \in Claimants \cup {"claiming", "recGen", "recFinal"} => job[w] \in Job

\* The watcher working on a job holds its claim; a mkdir without CLAIM belongs
\* to one watcher at most.
ClaimHeld ==
  /\ \A w \in Watcher :
       /\ pc[w] \in Claimants => claim[job[w]] = w
       /\ pc[w] = "claiming" => claim[job[w]] = Unsigned
       /\ pc[w] \in {"recGen", "recFinal"} => claim[job[w]] # Nobody
       /\ \A j \in todo[w] : claim[j] # Nobody
  /\ \A v, w \in Watcher :
       pc[v] = "claiming" /\ pc[w] = "claiming" /\ job[v] = job[w] => v = w

\* A launch needs a claim, happens once, and only its claimant can do it.
LaunchOnce ==
  /\ \A j \in Job : launches[j] \in {0, 1}
  /\ \A j \in Job : claim[j] \in {Nobody, Unsigned} => launches[j] = 0
  /\ \A w \in Watcher :
       /\ pc[w] \in BeforeSpawn => launches[job[w]] = 0
       /\ pc[w] \in Spawned => launches[job[w]] = 1

MarksKept ==
  /\ \A j \in Job : launches[j] > 0 => {"STARTED", "RUNNING"} \subseteq marks[j]
  /\ \A w \in Watcher :
       /\ pc[w] \in {"checkRun", "writeRunning", "checkSpawn", "spawning"}
            => "STARTED" \in marks[job[w]]
       /\ pc[w] \in {"checkSpawn", "spawning"} => "RUNNING" \in marks[job[w]]

\* The status a watcher is about to publish agrees with what it did.
OutcomeTrue ==
  \A w \in Watcher :
    /\ pc[w] = "unhooking" =>
         outcome[w] \in {"NONE", "REJECTED", "CANCELLED", "EXPIRED"}
    /\ pc[w] = "draining" => outcome[w] \in {"CANCELLED", "TIMED_OUT"}
    /\ pc[w] = "reaping" =>
         outcome[w] \in {"COMPLETED", "CANCELLED", "TIMED_OUT", "FAILED"}
    /\ pc[w] \in {"collecting", "gen", "final"} =>
         /\ outcome[w] \in {"COMPLETED", "CANCELLED", "TIMED_OUT"}
         /\ launches[job[w]] = 1
    /\ pc[w] \in Erring =>
         \/ outcome[w] \in {"REJECTED", "CANCELLED", "EXPIRED"}
            /\ launches[job[w]] = 0
         \/ outcome[w] = "FAILED" /\ launches[job[w]] = 1
    /\ pc[w] \in {"recGen", "recFinal"} => outcome[w] = "AVAILABILITY_UNKNOWN"

\* Before and during the run of a job only a recovery can have closed it.
NotYetClosed ==
  \A w \in Watcher : pc[w] \in BeforeSpawn \cup Spawned =>
    final[job[w]].status \in {"OPEN", "AVAILABILITY_UNKNOWN"}

\* A generation precedes its FINAL; an unclaimed job has no FINAL.
GenerationFirst ==
  /\ \A w \in Watcher : pc[w] \in {"final", "errFinal", "recFinal"} =>
       [job |-> job[w], by |-> w, status |-> outcome[w]] \in gens
  /\ \A j \in Job : claim[j] \in {Nobody, Unsigned} =>
       final[j].status \in {"OPEN", "AVAILABILITY_UNKNOWN"}
  /\ \A j \in Job : claim[j] = Nobody => final[j] = NoFinal

ClaimInv ==
  /\ JobKnown /\ ClaimHeld /\ LaunchOnce /\ MarksKept /\ OutcomeTrue
  /\ NotYetClosed /\ GenerationFirst /\ VerdictIsHonest /\ FinalIsFenced

-----------------------------------------------------------------------------
CommandAt == {"watching", "draining", "reaping", "unwinding"}
HookAt == {"approving", "unhooking", "unwinding"}

\* docs/operations.md asks it of the operator; SIGINT is not part of operation.
Prudent == Careful /\ ~NestedInterrupts

\* The one watcher that is up owns the lock, or has just made its directory.
LockHeld ==
  \A w \in Watcher :
    /\ pc[w] = "locking" => lock = Unsigned
    /\ pc[w] \in Up \ {"locking"} => lock = w

\* A running watcher's live children, as far as its cleanup answers for them, are
\* those of its current job, unless the cleanup failed, and then it takes no
\* other job.
ChildrenKnown ==
  \A w \in Watcher :
    /\ cleanupFailed[w] => stop[w] /\ pc[w] \in {"scanning", "leaving"}
    /\ pc[w] \in Up /\ ~cleanupFailed[w] =>
         \A j \in Job :
           /\ CommandRuns(j) => pc[w] \in CommandAt /\ job[w] = j
           /\ j \in hooks /\ ~windows => pc[w] \in HookAt /\ job[w] = j

\* Under the lock a job stays open until its command has started.
StillOpen ==
  \A w \in Watcher :
    pc[w] \in {"claiming"} \cup BeforeSpawn => final[job[w]] = NoFinal

\* Claims are made for committed requests only.
Submitted == \A j \in Job : claim[j] # Nobody => j \in inbox

LockInv ==
  /\ Exclusive /\ LockHeld /\ ChildrenKnown /\ StillOpen
  /\ ChildHoldsLock /\ FinalMeansQuiet /\ Submitted
=============================================================================
