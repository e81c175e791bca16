---------------------------- MODULE BridgeProps ----------------------------
(***************************************************************************)
(* What must hold of Bridge under crashes, requests whose outcome is not   *)
(* known, stale reads, concurrent cancellations and an operator.           *)
(***************************************************************************)
EXTENDS Bridge

Phases ==
  {"none", "queued", "posting", "ambiguous", "posted", "resulted", "rejected",
   "cancelled", "done", "stuck"}
Count(s, x) == Cardinality({i \in DOMAIN s : s[i] = x})

Statuses == DOMAIN Transitions
Events == [by : {"bridge", "coordinator"}, seq : Nat, task : Task, status : Statuses,
           ok : BOOLEAN]
Messages == [task : Task, status : Statuses, rev : Nat]
Reports == [status : Statuses, rev : Nat, seq : Nat]
Results == [task : Task, to : Nat, status : Verdict]
Sweeps == [from : Nat, unread : SUBSET Nat]

ChannelTypes ==
  /\ feed \in Seq(Events) /\ Len(feed) <= MaxEvents
  /\ sent \in Seq(Messages)
  /\ synced \in Nat /\ Admitted <= synced /\ synced <= Len(sent)
  /\ Len(sent) - synced <= MaxPending

TeamsTypes ==
  /\ posts \in Seq(Task) /\ flight \subseteq Task
  /\ results \in Seq(Results) /\ \A i \in DOMAIN results : results[i].to \in 0..Len(posts)

RowTypes ==
  /\ cursor \in 0..Len(feed)
  /\ phase \in [Task -> Phases] /\ Cardinality(InPhase(Active)) <= MaxOutstanding
  /\ fs \in [Task -> Statuses] /\ rev \in [Task -> 0..cursor]
  /\ pending \in [Task -> Reports \cup {Nothing}]

AnswerTypes ==
  /\ mid \in [Task -> 0..Len(posts)] /\ late \in [Task -> BOOLEAN]
  /\ result \in [Task -> 0..Len(results)] /\ cand \in [Task -> 0..Len(results)]
  /\ sweep \in [Task -> Sweeps \cup {Nothing}]

ProcessTypes ==
  /\ work \in Seq(Task) /\ at \in Task \cup {Nothing} /\ mark \in 0..Len(posts)
  /\ scanned \in BOOLEAN /\ roots \subseteq DOMAIN results

OperatorTypes == reposts \in [Task -> 0..MaxReposts] /\ abandoned \subseteq Task

TypeOK ==
  ChannelTypes /\ TeamsTypes /\ RowTypes /\ AnswerTypes /\ ProcessTypes /\ OperatorTypes

\* docs/copilot365.md: the bridge never reposts automatically.  A task reaches
\* Teams once, and once more for each --repost, whatever crashes, timeouts and
\* late arrivals there are; a POST on its way counts.
OneDispatch ==
  \A t \in Task : Count(posts, t) + Cardinality(flight \cap {t}) <= 1 + reposts[t]

\* A task that waits in the queue, or that the coordinator is told failed
\* without a dispatch, has not been and will not be posted, unless an operator
\* gave up on it or asserted so in error.
UndispatchedIsTrue ==
  \A t \in Task :
    phase[t] \in {"queued", "rejected"} /\ t \notin abandoned /\ reposts[t] = 0
      => t \notin ToSet(posts) \cup flight

\* A report that is waited for is still to come in the feed: were its event
\* passed before its number is known, nothing would be reported any more.
PendingIsAhead ==
  \A t \in Task : Waiting(t) =>
    \A i \in 1..cursor : feed[i].by = "bridge" => feed[i].seq # pending[t].seq

\* A task ends as cancelled or done, never stuck, for a report is rejected because of
\* a concurrent update only; and what the coordinator has cancelled or has been told
\* the end of stays so in the journal, with its message and its result.
EndedStays ==
  [][\A t \in Task :
       /\ phase[t] \in {"cancelled", "done"} =>
            <<phase[t], mid[t], result[t]>>' = <<phase[t], mid[t], result[t]>>
       /\ phase'[t] # "stuck"]_vars

\* The result that is taken comes before every reply that was in the thread when
\* the sweep of its pages began, over as many rounds and failures as it takes.
EarliestWins ==
  [][\A t \in Task : phase'[t] = "resulted" /\ phase[t] # "resulted" =>
       \A r \in Thread(t) : r <= Sweep(t).from => result'[t] <= r]_vars

Handed == {t \in Task : Accepted(t) # {}}
Dispatches == [t \in Task |-> Count(posts, t)]
Said == [t \in Task |->
  {results[r].status : r \in {i \in DOMAIN results : results[i].task = t}}]
Outcome == [t \in Task |->
  IF Status(t) \in Verdict \cup {"cancelled"} THEN Status(t) ELSE "open"]

\* The bridge runs the coordinator's errands (Errand).
TheErrand == INSTANCE Errand WITH
  asked <- Handed, sendings <- Dispatches, leave <- reposts, heard <- Said, verdict <- Outcome
ImplementsErrand == TheErrand!ErrandSpec

-----------------------------------------------------------------------------
\* A step that the machine, Teams or a stale read decides.
Fault ==
  \/ Crash \/ ScanFails \/ BreakOff
  \/ ReadFails /\ Best(Here, Thread(Here)) # 0
  \/ EndIntake /\ cursor < Len(feed)
  \/ Sync /\ synced' < Len(sent)

\* The bridge is restarted and makes rounds, the broker admits, faults cease.  A
\* request ends after its timeout, so Unknown is no fault.
FairSpec ==
  /\ Spec
  /\ <>[][~Fault]_vars
  /\ WF_vars(Round /\ ~Fault)
  /\ WF_vars(Admit)

Ended(t) == Status(t) \in Verdict \cup {"cancelled"}

\* A result that was taken is reported, through whatever concurrent updates.
ResultTold ==
  \A t \in Task : phase[t] = "resulted" ~> Ended(t)

\* A dispatch whose outcome stays unknown is shown as blocked.
AmbiguityTold ==
  \A t \in Task : phase[t] \in {"posting", "ambiguous"} ~>
    phase[t] \notin {"posting", "ambiguous"} \/ Status(t) = "blocked" \/ Ended(t)
=============================================================================
