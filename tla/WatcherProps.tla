---------------------------- MODULE WatcherProps ----------------------------
(***************************************************************************)
(* What must hold of Watcher, whoever crashes and whenever.                *)
(***************************************************************************)
EXTENDS Watcher

\* A job's command is started at most once over all incarnations, crashes,
\* failed writes and stolen locks (_claim never takes an existing claim).
AtMostOnce == \A j \in Job : launches[j] <= 1

\* STARTED and RUNNING are on the share before the command exists, so an audit
\* of the claim never misses an effect.
LaunchIsRecorded ==
  \A j \in Job : launches[j] > 0 =>
    claim[j] \in Watcher /\ {"STARTED", "RUNNING"} \subseteq marks[j]

\* The status tells whether the command ran: a REJECTED or EXPIRED job never
\* did, a COMPLETED, TIMED_OUT or FAILED one did.
VerdictIsHonest ==
  \A j \in Job :
    /\ final[j].status \in {"REJECTED", "EXPIRED"} => launches[j] = 0
    /\ final[j].status \in {"COMPLETED", "TIMED_OUT", "FAILED"}
         => launches[j] = 1

\* FINAL points to a generation that was written, and a status other than the
\* recovery's was published by the holder of the claim.
FinalIsFenced ==
  \A j \in Job : final[j] # NoFinal =>
    /\ [job |-> j, by |-> final[j].by, status |-> final[j].status] \in gens
    /\ final[j].status # "AVAILABILITY_UNKNOWN" => claim[j] = final[j].by

\* The first FINAL wins for ever (publish_final links without replacement).
FinalImmutable ==
  [][\A j \in Job : final[j] # NoFinal => final'[j] = final[j]]_vars

\* What the cleanup answers for: on POSIX the groups of command and hook, on
\* Windows, where nothing contains descendants, the leader of the command.
Contained(j) == CommandRuns(j) \/ (j \in hooks /\ ~windows)

\* Once FINAL is published nothing of the job runs that the cleanup answers for:
\* on POSIX neither the command's group nor that of its approval hook, on
\* Windows not the command's leader.
FinalMeansQuiet == \A j \in Job : final[j] # NoFinal => ~Contained(j)

\* A live child that the cleanup answers for keeps the lock directory in place,
\* so no new incarnation starts beside it; and there is one of them at a time.
ChildHoldsLock ==
  /\ (\E j \in Job : Contained(j)) => lock # Nobody
  /\ \A i, j \in Job : Contained(i) /\ Contained(j) => i = j

\* A marker visible before RUNNING is written stops the launch (_prelaunch
\* runs once more between RUNNING and Popen).
CancelledBeforeRunning ==
  \A j \in Job :
    [](j \in cancel /\ "RUNNING" \notin marks[j] => [](launches[j] = 0))

\* Watchers exclude each other from the moment they own the lock.
Exclusive ==
  \A v, w \in Watcher :
    pc[v] \in Up /\ pc[w] \in Up => v = w

\* Every behaviour is one the abstract relay allows (JobRelay, under the mapping
\* that takes launches to "ran", the processes a kill is sure to end to "alive",
\* on Windows the leader only, and FINAL to the verdict).
ImplementsRelay == Relay!RelaySpec

-----------------------------------------------------------------------------
\* Every line of the program that can run does run, unless its process is
\* disturbed; deadlines bound the hook, the command and the drain.
FairSpec == Spec /\ \A w \in Watcher : WF_vars(Step(w))

Reliable == Watcher \ Unreliable

\* A reliable incarnation that acquires the lock closes every claim that its
\* predecessors left behind.
RecoveryCloses ==
  \A w \in Reliable, j \in Job :
    (pc[w] = "listing" /\ claim[j] # Nobody) ~> final[j] # NoFinal

\* Once it is scanning, every committed request gets a FINAL unless the watcher
\* is told to stop.
ServiceCloses ==
  \A w \in Reliable, j \in Job :
    (pc[w] = "scanning" /\ j \in inbox) ~> (final[j] # NoFinal \/ stop[w])
=============================================================================
