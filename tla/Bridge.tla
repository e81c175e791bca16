------------------------------- MODULE Bridge -------------------------------
(***************************************************************************)
(* fs_exec/copilot365.py: the bridge takes tasks from the channel, posts   *)
(* each into a Teams channel where somebody works on it, looks for the     *)
(* answer, and reports on the task in the channel.                         *)
(*                                                                         *)
(* Its journal survives everything; between any two transactions it may    *)
(* crash.  An exception that ends a round is a crash and a start: nothing  *)
(* but the back-off is kept in memory.  The broker is the one of Channel,  *)
(* cut down to what it does with a task; texts, links, tokens and the      *)
(* recognition of messages are left out.                                   *)
(*                                                                         *)
(* An operator commented "Variant" is no part of the model: it is a version*)
(* of the definition after it with a likely mistake in it.                 *)
(***************************************************************************)
EXTENDS Naturals, Sequences, FiniteSets, SequencesExt, FiniteSetsExt

CONSTANTS
  Task,
  MaxOutstanding,   \* config.max_outstanding
  MaxPending,       \* channel.max_pending
  MaxEvents,        \* channel.max_events
  MaxReposts,       \* bound on an operator's errors for each task
  MaxResults,       \* bound on the responder's messages
  Flaky,            \* crashes, failed requests, stale reads
  Nothing

ASSUME BridgeAssumption ==
  /\ {MaxOutstanding, MaxPending, MaxEvents, MaxReposts, MaxResults} \subseteq Nat
  /\ Flaky \in BOOLEAN

Active == {"posting", "ambiguous", "posted"}
Verdict == {"completed", "failed"}

Transitions ==
  [none |-> {},
   assigned |-> {"running", "blocked", "cancelled"},
   running |-> {"blocked", "completed", "failed", "cancelled"},
   blocked |-> {"running", "failed", "cancelled"},
   completed |-> {}, failed |-> {}, cancelled |-> {}]

ASSUME NothingAssumption ==
  Nothing \notin [status : DOMAIN Transitions, rev : Nat, seq : Nat]

VARIABLES
  feed,       \* the channel's events: [by, seq, task, status, ok]
  \* the bridge's client of the channel
  sent,       \* its messages: [task, status, rev]
  synced,     \* how many have left its outbox
  \* Teams
  posts,      \* the task of each AMP_TASK, in order
  results,    \* AMP_RESULTs by time: [task, to, status], to a post or 0 (root)
  flight,     \* tasks whose POST may still arrive
  \* the bridge's journal
  cursor, phase, fs, rev, mid, result, pending,
  late,       \* the time to answer is over
  sweep,      \* reply_cursor: [from, unread], or Nothing
  cand,       \* candidate, or 0
  \* the process
  pc, work, at,
  mark,       \* posts there were when it began to post
  scanned, roots,
  \* an operator's decisions
  reposts, abandoned

channelVars == <<feed, sent, synced>>
teamsVars == <<posts, results, flight>>
fsVars == <<fs, rev>>
postVars == <<mid, late>>
answerVars == <<result, sweep, cand>>
rowVars == <<phase, fsVars, postVars, answerVars, pending>>
procVars == <<pc, work, at, mark, scanned, roots>>
operatorVars == <<reposts, abandoned>>
vars == <<channelVars, teamsVars, cursor, rowVars, procVars, operatorVars>>

All(x) == [t \in Task |-> x]

Init ==
  /\ feed = <<>> /\ sent = <<>> /\ synced = 0
  /\ posts = <<>> /\ results = <<>> /\ flight = {}
  /\ cursor = 0
  /\ phase = All("none") /\ fs = All("none") /\ rev = All(0)
  /\ mid = All(0) /\ result = All(0) /\ pending = All(Nothing)
  /\ late = All(FALSE) /\ sweep = All(Nothing) /\ cand = All(0)
  /\ pc = "down" /\ work = <<>> /\ at = Nothing /\ mark = 0
  /\ scanned = FALSE /\ roots = {}
  /\ reposts = All(0) /\ abandoned = {}

-----------------------------------------------------------------------------
\* The channel.

Aside == UNCHANGED <<cursor, rowVars, procVars, operatorVars>>

Accepted(t) == {i \in DOMAIN feed : feed[i].task = t /\ feed[i].ok}
Latest(t) == Max({0} \cup Accepted(t))
Status(t) == IF Accepted(t) = {} THEN "none" ELSE feed[Latest(t)].status
Admitted == Cardinality({i \in DOMAIN feed : feed[i].by = "bridge"})

Say(by, seq, t, status, ok) ==
  /\ Len(feed) < MaxEvents
  /\ feed' = Append(feed, [by |-> by, seq |-> seq, task |-> t, status |-> status, ok |-> ok])
  /\ UNCHANGED <<sent, synced, teamsVars>> /\ Aside

Assign(t) == Accepted(t) = {} /\ Say("coordinator", 0, t, "assigned", TRUE)

Cancel(t) ==
  /\ "cancelled" \in Transitions[Status(t)]
  /\ Say("coordinator", 0, t, "cancelled", TRUE)

Admit ==
  /\ Admitted < synced
  /\ LET m == sent[Admitted + 1] IN
       Say("bridge", Admitted + 1, m.task, m.status,
                   m.rev = Latest(m.task) /\ m.status \in Transitions[Status(m.task)])

-----------------------------------------------------------------------------
\* Teams.

Arrive(t) ==
  /\ t \in flight
  /\ posts' = Append(posts, t)
  /\ flight' = flight \ {t}
  /\ UNCHANGED <<results, channelVars>> /\ Aside

Lose(t) ==
  /\ Flaky /\ t \in flight
  /\ flight' = flight \ {t}
  /\ UNCHANGED <<posts, results, channelVars>> /\ Aside

\* The responder answers a post, in its thread or at the root.
Respond ==
  /\ Len(results) < MaxResults
  /\ \E i \in DOMAIN posts, to \in {0} \cup DOMAIN posts, s \in Verdict :
       /\ to \in {0, i}
       /\ results' = Append(results, [task |-> posts[i], to |-> to, status |-> s])
  /\ UNCHANGED <<posts, flight, channelVars>> /\ Aside

\* result_timeout passes.
Elapse(t) ==
  /\ phase[t] = "posted" /\ ~late[t]
  /\ late' = [late EXCEPT ![t] = TRUE]
  /\ UNCHANGED <<channelVars, teamsVars, cursor, phase, fsVars, mid, answerVars, pending>>
  /\ UNCHANGED <<procVars, operatorVars>>

-----------------------------------------------------------------------------
\* The round: once().

Outside == UNCHANGED <<channelVars, teamsVars, operatorVars>>
Goto(p) == pc' = p /\ UNCHANGED <<work, at, mark, scanned, roots>>

\* Rows are taken in the order in which the tasks came.
InPhase(S) == {t \in Task : phase[t] \in S}
First(t) == Min({i \in DOMAIN feed : feed[i].task = t})
Rows(S) ==
  {w \in SetToSeqs(InPhase(S)) :
     \A i, j \in DOMAIN w : i < j => First(w[i]) < First(w[j])}

Turn(from, to) == pc = from /\ Goto(to) /\ Outside /\ UNCHANGED <<cursor, rowVars>>

Start == Turn("down", "recover")

NumberOf(m) == CHOOSE i \in DOMAIN sent : sent[i] = m
Message(t) == [task |-> t, status |-> pending[t].status, rev |-> pending[t].rev]

\* Variant: what was queued before a crash is left for report() to find.
RecoverNothing == Turn("recover", "sync")

\* recover_pending(): a report that reached the client gets its number, one that
\* did not is dropped.
Recover ==
  /\ pc = "recover"
  /\ pending' = [t \in Task |->
       IF pending[t] = Nothing \/ pending[t].seq > 0 THEN pending[t]
       ELSE IF Message(t) \notin ToSet(sent) THEN Nothing
       ELSE [pending[t] EXCEPT !.seq = NumberOf(Message(t))]]
  /\ Goto("sync")
  /\ Outside /\ UNCHANGED <<cursor, phase, fsVars, postVars, answerVars>>

\* Client.sync(), which may break off, at the start and the end of a round.
Sync ==
  /\ pc \in {"sync", "sync again"}
  /\ synced' \in {n \in synced..Len(sent) : n = Len(sent) \/ Flaky}
  /\ Goto(IF pc = "sync" THEN "intake" ELSE "intake again")
  /\ UNCHANGED <<feed, sent, teamsVars, operatorVars, cursor, rowVars>>

-----------------------------------------------------------------------------
\* ingest() and _apply(): one event is one transaction.

Intakes == {"intake", "drain", "intake again"}
Event == feed[cursor + 1]
Ours(t) == Event.by = "bridge" /\ pending[t] # Nothing /\ pending[t].seq = Event.seq
Ingest ==
  /\ pc \in Intakes /\ cursor < Len(feed)
  /\ cursor' = cursor + 1
  /\ pending' = [t \in Task |-> IF Ours(t) THEN Nothing ELSE pending[t]]
  /\ Outside /\ UNCHANGED <<postVars, answerVars, procVars>>

\* Without a concurrent update the report would be rejected again.
Hopeless(t) == pending[t].rev = rev[t]

ApplyRejected ==
  /\ Ingest /\ ~Event.ok
  /\ phase' = [t \in Task |-> IF Ours(t) /\ Hopeless(t) THEN "stuck" ELSE phase[t]]
  /\ UNCHANGED fsVars

\* policy() decides.
ApplyAssign ==
  /\ Ingest /\ Event.ok /\ Event.status = "assigned"
  /\ phase[Event.task] = "none"
  /\ \E p \in {"queued", "rejected"} : phase' = [phase EXCEPT ![Event.task] = p]
  /\ fs' = [fs EXCEPT ![Event.task] = "assigned"]
  /\ rev' = [rev EXCEPT ![Event.task] = cursor']

ApplyStatus ==
  /\ Ingest /\ Event.ok /\ Event.status # "assigned"
  /\ phase' = [phase EXCEPT ![Event.task] =
       IF Event.status \in Verdict THEN "done"
       ELSE IF Event.status = "cancelled" THEN "cancelled" ELSE @]
  /\ fs' = [fs EXCEPT ![Event.task] = Event.status]
  /\ rev' = [rev EXCEPT ![Event.task] = cursor']

\* The HEAD that is visible may be an old one.
CaughtUp == cursor = Len(feed) \/ Flaky

EndIntake ==
  /\ CaughtUp
  /\ Turn("intake", "scan") \/ Turn("drain", "post") \/ Turn("intake again", "recover")

-----------------------------------------------------------------------------
\* teams().

NoScan == InPhase(Active) = {} /\ Turn("scan", "drain")

BeginCollect == pc' = "collect" /\ work' \in Rows(Active) /\ UNCHANGED <<at, mark>>

Unresolved(t) == phase[t] \in {"posting", "ambiguous"} /\ mid[t] = 0

\* Variant: a post that a scan does not find goes back to the queue.
NotFoundRequeued == "queued"

NotFound == "ambiguous"

\* list_roots() and reconcile(): the scan is bounded and may miss messages.
Scan ==
  /\ pc = "scan" /\ InPhase(Active) # {}
  /\ \E seen \in SUBSET DOMAIN posts, found \in SUBSET DOMAIN results :
       /\ Flaky \/ (seen = DOMAIN posts /\ found = DOMAIN results)
       /\ roots' = {r \in found : results[r].to = 0}
       /\ LET of(t) == {i \in seen : posts[i] = t} IN
          /\ \E pick \in [Task -> {0} \cup DOMAIN posts] :
               /\ \A t \in Task : pick[t] \in IF of(t) = {} THEN {0} ELSE of(t)
               /\ mid' = [t \in Task |-> IF Unresolved(t) THEN pick[t] ELSE mid[t]]
          /\ phase' = [t \in Task |->
               IF ~Unresolved(t) THEN phase[t]
               ELSE IF of(t) # {} THEN "posted" ELSE NotFound]
          /\ late' = [t \in Task |-> late[t] /\ ~(Unresolved(t) /\ of(t) # {})]
  /\ scanned' = TRUE /\ BeginCollect
  /\ Outside /\ UNCHANGED <<cursor, fsVars, answerVars, pending>>

ScanFails ==
  /\ Flaky /\ pc = "scan" /\ InPhase(Active) # {}
  /\ roots' = {} /\ scanned' = FALSE /\ BeginCollect
  /\ Outside /\ UNCHANGED <<cursor, rowVars>>

\* collect() of the first row in work.
Here == Head(work)
Collecting == pc = "collect" /\ work # <<>>
NextRow == work' = Tail(work) /\ UNCHANGED <<pc, at, mark, scanned, roots>>

Thread(t) ==
  IF mid[t] = 0 THEN {}
  ELSE {r \in DOMAIN results : results[r].task = t /\ results[r].to = mid[t]}
Sweep(t) ==
  IF sweep[t] # Nothing THEN sweep[t]
  ELSE [from |-> Len(results), unread |-> Thread(t)]
Best(t, read) ==
  LET all == ({cand[t]} \ {0}) \cup read \cup {r \in roots : results[r].task = t}
  IN  IF all = {} THEN 0 ELSE Min(all)

\* Some pages of the thread are read; in what order they come is not specified.
Reading(read) ==
  /\ Collecting
  /\ read \subseteq Thread(Here)
  /\ Sweep(Here).unread = {} \/ read \cap Sweep(Here).unread # {}

\* Variant: the best answer of a part of the thread will do.
FinishedEarly(read) == TRUE

Finished(read) == Sweep(Here).unread \subseteq read

Keep(s, c) ==
  /\ sweep' = [sweep EXCEPT ![Here] = s]
  /\ cand' = [cand EXCEPT ![Here] = c]
  /\ NextRow
  /\ Outside /\ UNCHANGED <<cursor, fsVars, postVars, pending>>

\* More pages are left for the next round.
ReadPart(read) ==
  /\ Reading(read) /\ ~Finished(read)
  /\ Keep([Sweep(Here) EXCEPT !.unread = @ \ read], Best(Here, read))
  /\ UNCHANGED <<phase, result>>

\* The thread is read, but nothing is found or the root scan has failed.
ReadAll(read) ==
  /\ Reading(read) /\ Finished(read)
  /\ Best(Here, read) = 0 \/ ~scanned
  /\ Keep(Nothing, Best(Here, read))
  /\ UNCHANGED <<phase, result>>

TakeResult(read) ==
  /\ Reading(read) /\ Finished(read)
  /\ Best(Here, read) # 0 /\ scanned
  /\ phase' = [phase EXCEPT ![Here] = "resulted"]
  /\ result' = [result EXCEPT ![Here] = Best(Here, read)]
  /\ Keep(Nothing, 0)

ReadFails ==
  /\ Flaky /\ Collecting /\ mid[Here] # 0
  /\ Keep(Nothing, 0)
  /\ UNCHANGED <<phase, result>>

Leave(p) ==
  /\ pc' = p /\ work' = <<>> /\ scanned' = FALSE /\ roots' = {}
  /\ Outside /\ UNCHANGED <<at, mark, cursor, rowVars>>

Collected == pc = "collect" /\ work = <<>> /\ Leave("drain")

\* The account is the wrong one, requests are throttled, or too many pages of the
\* feed are left: the Teams part of the round ends.
BreakOff == Flaky /\ pc \in {"scan", "collect", "drain"} /\ Leave("reports")

-----------------------------------------------------------------------------
\* post().

\* Variant: what may not have been posted is not counted.
OccupiedPosted == InPhase({"posted"})

Occupied == InPhase(Active)
Room == Cardinality(Occupied) < MaxOutstanding

NoPost ==
  /\ InPhase({"queued"}) = {} \/ ~Room
  /\ Turn("post", "reports")

PostFrame ==
  /\ UNCHANGED <<work, scanned, roots, channelVars, posts, results, operatorVars>>
  /\ UNCHANGED <<cursor, fsVars, answerVars, pending>>

\* The intent is committed and the request leaves.
Post ==
  /\ pc = "post" /\ Room
  /\ \E t \in InPhase({"queued"}) :
       /\ \A u \in InPhase({"queued"}) : First(t) <= First(u)
       /\ at' = t
       /\ phase' = [phase EXCEPT ![t] = "posting"]
       /\ flight' = flight \cup {t}
  /\ mark' = Len(posts)
  /\ pc' = "sending"
  /\ UNCHANGED postVars /\ PostFrame

Sent(p) ==
  /\ pc = "sending"
  /\ phase' = [phase EXCEPT ![at] = p]
  /\ pc' = "reports" /\ at' = Nothing /\ mark' = 0
  /\ PostFrame

Answered ==
  /\ \E i \in (mark + 1)..Len(posts) : /\ posts[i] = at
                                       /\ mid' = [mid EXCEPT ![at] = i]
  /\ Sent("posted")
  /\ late' = [late EXCEPT ![at] = FALSE]
  /\ UNCHANGED flight

\* No byte was sent, the service is busy, or it refuses the message.
Refused ==
  /\ at \in flight /\ flight' = flight \ {at}
  /\ Sent("queued") \/ Sent("rejected")
  /\ UNCHANGED postVars

\* Variant: a timeout is taken for a failure.
TimeoutRequeues ==
  /\ Flaky
  /\ Sent("queued")
  /\ UNCHANGED <<flight, postVars>>

\* A timeout or an answer that cannot be read.
Unknown ==
  /\ Flaky
  /\ Sent("ambiguous")
  /\ UNCHANGED <<flight, postVars>>

-----------------------------------------------------------------------------
\* report().

BeginReport ==
  /\ pc = "reports"
  /\ pc' = "report" /\ work' \in Rows(Active \cup {"rejected", "resulted"})
  /\ UNCHANGED <<at, mark, scanned, roots>>
  /\ Outside /\ UNCHANGED <<cursor, rowVars>>

\* Variant: what may have been posted is reported as posted.
DoubtIgnored(t) == phase[t] = "posted" /\ late[t]

Doubt(t) == phase[t] \in {"posting", "ambiguous"} \/ (phase[t] = "posted" /\ late[t])

Target(t) ==
  CASE phase[t] = "rejected" -> "failed"
    [] phase[t] \in Active -> IF Doubt(t) THEN "blocked" ELSE "running"
    [] phase[t] = "resulted" -> results[result[t]].status

\* Where the channel does not allow it at once, running comes first.
Step(t) == IF Target(t) \in Transitions[fs[t]] THEN Target(t) ELSE "running"
ToReport(t) ==
  /\ Target(t) # fs[t]
  /\ Step(t) \in Transitions[fs[t]]

Reporting == pc = "report" /\ work # <<>>
Waiting(t) == pending[t] # Nothing /\ pending[t].seq > 0
Backlogged == Len(sent) - synced >= MaxPending

Pass ==
  /\ Reporting
  /\ Waiting(Here) \/ (~Backlogged /\ pending[Here] = Nothing /\ ~ToReport(Here))
  /\ NextRow
  /\ Outside /\ UNCHANGED <<cursor, rowVars>>

NoRoom == Reporting /\ ~Waiting(Here) /\ Backlogged /\ Leave("report")

\* The bytes and their key are committed.
Intend ==
  /\ Reporting /\ ~Backlogged /\ ~Waiting(Here)
  /\ pending[Here] # Nothing \/ ToReport(Here)
  /\ pending' = [pending EXCEPT ![Here] =
       IF @ # Nothing THEN @
       ELSE [status |-> Step(Here), rev |-> rev[Here], seq |-> 0]]
  /\ Goto("queue")
  /\ Outside /\ UNCHANGED <<cursor, phase, fsVars, postVars, answerVars>>

\* Client.queue() knows the message by its key.
Queue ==
  /\ pc = "queue"
  /\ sent' = IF Message(Here) \in ToSet(sent) THEN sent ELSE Append(sent, Message(Here))
  /\ Goto("number")
  /\ UNCHANGED <<feed, synced, teamsVars, operatorVars, cursor, rowVars>>

Number ==
  /\ pc = "number"
  /\ pending' = [pending EXCEPT ![Here].seq = NumberOf(Message(Here))]
  /\ pc' = "report" /\ work' = Tail(work) /\ UNCHANGED <<at, mark, scanned, roots>>
  /\ Outside /\ UNCHANGED <<cursor, phase, fsVars, postVars, answerVars>>

Reported == work = <<>> /\ Turn("report", "sync again")

-----------------------------------------------------------------------------
Crash ==
  /\ Flaky /\ pc # "down"
  /\ pc' = "down" /\ work' = <<>> /\ at' = Nothing /\ mark' = 0
  /\ scanned' = FALSE /\ roots' = {}
  /\ Outside /\ UNCHANGED <<cursor, rowVars>>

\* resolve(): an operator's word on a task, with the bridge stopped.
Resolving ==
  /\ pc = "down"
  /\ UNCHANGED <<channelVars, teamsVars, procVars, cursor, fsVars, answerVars, pending>>

\* Variant: any task can be abandoned.
AbandonableAny(t) == phase[t] # "none"

Abandonable(t) == phase[t] \in {"queued"} \cup Active

Abandon(t) ==
  /\ Resolving /\ Abandonable(t)
  /\ phase' = [phase EXCEPT ![t] = "rejected"]
  /\ abandoned' = abandoned \cup {t}
  /\ UNCHANGED <<postVars, reposts>>

\* The operator waits until the request cannot be on its way, and may yet be wrong.
Repost(t) ==
  /\ Resolving
  /\ Unresolved(t) /\ t \notin flight /\ reposts[t] < MaxReposts
  /\ phase' = [phase EXCEPT ![t] = "queued"]
  /\ reposts' = [reposts EXCEPT ![t] = @ + 1]
  /\ UNCHANGED <<postVars, abandoned>>

Adopt(t) ==
  /\ Resolving
  /\ Unresolved(t)
  /\ \E i \in DOMAIN posts : posts[i] = t /\ mid' = [mid EXCEPT ![t] = i]
  /\ phase' = [phase EXCEPT ![t] = "posted"]
  /\ late' = [late EXCEPT ![t] = FALSE]
  /\ UNCHANGED operatorVars

-----------------------------------------------------------------------------
Collect ==
  \/ \E read \in SUBSET DOMAIN results :
       ReadPart(read) \/ ReadAll(read) \/ TakeResult(read)
  \/ ReadFails \/ Collected

Round ==
  \/ Start \/ Recover \/ Sync
  \/ ApplyRejected \/ ApplyAssign \/ ApplyStatus \/ EndIntake
  \/ NoScan \/ Scan \/ ScanFails \/ Collect \/ BreakOff
  \/ NoPost \/ Post \/ Answered \/ Refused \/ Unknown
  \/ BeginReport \/ Pass \/ NoRoom \/ Intend \/ Queue \/ Number \/ Reported

Environment ==
  \/ \E t \in Task : Assign(t) \/ Cancel(t) \/ Arrive(t) \/ Lose(t) \/ Elapse(t)
  \/ Admit \/ Respond

Operator == \E t \in Task : Abandon(t) \/ Repost(t) \/ Adopt(t)

Next == Round \/ Environment \/ Operator \/ Crash

Spec == Init /\ [][Next]_vars
=============================================================================
