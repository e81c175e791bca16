------------------------------ MODULE JobRelay ------------------------------
(***************************************************************************)
(* What the relay promises about a job, whatever happens to the watchers:  *)
(* its command starts at most once, it gets at most one terminal status,   *)
(* nothing runs or starts once that status is published, and the status    *)
(* does not lie about whether the command ran.                             *)
(***************************************************************************)
CONSTANT Job

VARIABLES
  submitted,   \* jobs whose COMMIT is visible in the inbox
  ran,         \* jobs whose command was started
  alive,       \* jobs with a live process of the command's group
  verdict      \* the published terminal status, or "OPEN"

jobVars == <<submitted, ran, alive, verdict>>

\* Statuses published for a command that never started, and for one that did.
NotRunStatus == {"REJECTED", "EXPIRED", "CANCELLED", "AVAILABILITY_UNKNOWN"}
RunStatus == {"COMPLETED", "TIMED_OUT", "FAILED", "CANCELLED",
              "AVAILABILITY_UNKNOWN"}
TerminalStatus == NotRunStatus \cup RunStatus

RelayInit ==
  /\ submitted = {} /\ ran = {} /\ alive = {}
  /\ verdict = [j \in Job |-> "OPEN"]

Submit(j) ==
  /\ j \notin submitted
  /\ submitted' = submitted \cup {j}
  /\ UNCHANGED <<ran, alive, verdict>>

Start(j) ==
  /\ j \in submitted \ ran
  /\ verdict[j] = "OPEN"
  /\ ran' = ran \cup {j}
  /\ alive' = alive \cup {j}
  /\ UNCHANGED <<submitted, verdict>>

Stop(j) ==
  /\ j \in alive
  /\ alive' = alive \ {j}
  /\ UNCHANGED <<submitted, ran, verdict>>

Close(j) ==
  /\ j \in submitted \ alive
  /\ verdict[j] = "OPEN"
  /\ \E s \in IF j \in ran THEN RunStatus ELSE NotRunStatus :
       verdict' = [verdict EXCEPT ![j] = s]
  /\ UNCHANGED <<submitted, ran, alive>>

RelayNext == \E j \in Job : Submit(j) \/ Start(j) \/ Stop(j) \/ Close(j)

RelaySpec == RelayInit /\ [][RelayNext]_jobVars
=============================================================================
