---------------------------- MODULE BridgeProofs ----------------------------
(***************************************************************************)
(* Proofs of the safety properties of Bridge, for any tasks, limits and    *)
(* faults.                                                                 *)
(*                                                                         *)
(* The channel's events explain themselves (Ledger), the rows of the       *)
(* journal follow them (Book), what is waited for is still to come (Slips),*)
(* each dispatch was allowed (Budget), and what is kept of a thread covers *)
(* what was in it (Threads).                                               *)
(***************************************************************************)
EXTENDS BridgeProps, FiniteSetTheorems, SequenceTheorems, TLAPS

Closing == Verdict \cup {"cancelled"}
ByBridge(i) == feed[i].by = "bridge"

\* Nothing is accepted about a task after its end; an event of the bridge carries one of
\* its messages, and was rejected only because of an event that the message did not know.
Explained(i) ==
  /\ feed[i].seq \in DOMAIN sent
  /\ feed[i].task = sent[feed[i].seq].task /\ feed[i].status = sent[feed[i].seq].status
  /\ ~feed[i].ok => \E k \in Accepted(feed[i].task) : k < i /\ sent[feed[i].seq].rev < k
Ledger ==
  /\ \A t \in Task : \A i, j \in Accepted(t) : i < j => feed[i].status \notin Closing
  /\ \A i \in DOMAIN feed : ByBridge(i) => Explained(i)

\* A message, or a report that is to become one: it follows an accepted event that allows
\* it, and what is called completed was so called by a responder.  No message is sent twice.
Told(t, s) == \E r \in DOMAIN results : results[r].task = t /\ results[r].status = s
Founded(t, s, n) ==
  /\ n \in Accepted(t) /\ n <= cursor /\ s \in Transitions[feed[n].status]
  /\ s = "completed" => Told(t, s)
Letters ==
  /\ \A n \in DOMAIN sent : Founded(sent[n].task, sent[n].status, sent[n].rev)
  /\ \A i, j \in DOMAIN sent : sent[i] = sent[j] => i = j

\* A row knows the last event about its task that the bridge has taken in.
Book ==
  /\ IsFiniteSet({t \in Task : phase[t] # "none"})
  /\ \A t \in Task :
       /\ IF rev[t] = 0 THEN fs[t] = "none"
          ELSE rev[t] \in Accepted(t) /\ fs[t] = feed[rev[t]].status
       /\ \A k \in Accepted(t) : k <= cursor => k <= rev[t]
       /\ phase[t] # "none" => rev[t] # 0
       /\ phase[t] # "stuck"
       /\ phase[t] = "done" => fs[t] \in Verdict
       /\ phase[t] = "cancelled" => fs[t] = "cancelled"
       /\ t \in flight \cup ToSet(posts) => rev[t] # 0

\* The events of the bridge that it has taken in.
Heard == {i \in 1..cursor : ByBridge(i)}

\* What is pending has not come back as an event; what has come back is out of date.
Slips ==
  /\ \A t \in Task : pending[t] # Nothing =>
       /\ Founded(t, pending[t].status, pending[t].rev)
       /\ pending[t].seq > 0 =>
            pending[t].seq \in DOMAIN sent /\ sent[pending[t].seq] = Message(t)
       /\ \A i \in Heard : sent[feed[i].seq] # Message(t)
  /\ \A i \in Heard : sent[feed[i].seq].rev < rev[sent[feed[i].seq].task]

\* Where the process is.  A report is without its number only while it is being queued,
\* or after a crash.
Reportable == Active \cup {"rejected", "resulted"}
Places ==
  /\ pc = "sending" => at \in Task /\ phase[at] = "posting"
  /\ pc = "collect" => \A i \in DOMAIN work :
       /\ phase[work[i]] \in Active
       /\ \A j \in DOMAIN work : i # j => work[i] # work[j]
  /\ pc \in {"report", "queue", "number"} => \A i \in DOMAIN work : phase[work[i]] \in Reportable
  /\ pc \in {"queue", "number"} =>
       work # <<>> /\ pending[Here] # Nothing /\ pending[Here].seq = 0
  /\ pc = "queue" => ~Backlogged
  /\ pc = "number" => Message(Here) \in ToSet(sent)
  /\ \A t \in Task : pending[t] # Nothing /\ pending[t].seq = 0 =>
       \/ pc \in {"down", "recover"}
       \/ pc \in {"queue", "number"} /\ t = Here

\* An operator may allow another post of a task; a task that waits, or has been refused,
\* is as if it had not been posted.
Sendings(t) == Count(posts, t) + Cardinality(flight \cap {t})
Unsent(t) ==
  phase[t] \in {"none", "queued"} \/ (phase[t] = "rejected" /\ t \notin abandoned)
Budget ==
  \A t \in Task : Sendings(t) <= reposts[t] + (IF Unsent(t) THEN 0 ELSE 1)

\* Answers belong to their task, and what is kept of a thread covers what is in it.
Answer(t, r) == r \in DOMAIN results /\ results[r].task = t
Threads ==
  \A t \in Task :
    /\ phase[t] \in {"none", "queued", "posting", "ambiguous"} => mid[t] = 0
    /\ mid[t] = 0 => sweep[t] = Nothing
    /\ cand[t] # 0 => Answer(t, cand[t])
    /\ phase[t] = "resulted" => Answer(t, result[t])
    /\ sweep[t] # Nothing =>
         /\ sweep[t].from <= Len(results)
         /\ \A r \in Thread(t) : r <= sweep[t].from =>
              r \in sweep[t].unread \/ (cand[t] # 0 /\ cand[t] <= r)

Inv ==
  TypeOK /\ Ledger /\ Letters /\ Book /\ Slips /\ Places /\ Budget /\ Threads

-----------------------------------------------------------------------------
\* Statuses, numbers and sequences.

LEMMA StatusFacts ==
  /\ Statuses = {"none", "completed", "failed", "cancelled", "assigned", "running", "blocked"}
  /\ \A s \in Statuses : Transitions[s] \subseteq Statuses /\ "none" \notin Transitions[s]
                        /\ "assigned" \notin Transitions[s]
  /\ \A s \in Closing : s \in Statuses /\ Transitions[s] = {}
  /\ Transitions["none"] = {} /\ "none" \notin Closing /\ "assigned" \notin Closing
  /\ Verdict \subseteq Closing /\ "cancelled" \in Closing
BY DEF Statuses, Transitions, Closing, Verdict

\* The first of some numbers.
LEMMA MinIs ==
  ASSUME NEW S \in SUBSET Nat, S # {}
  PROVE  Min(S) \in S /\ \A o \in S : Min(S) <= o
<1> DEFINE Below(n) == 0..(n - 1)
           Lower == {Below(n) : n \in S}
<1>1. Lower \subseteq FiniteSubsetsOf(Nat) /\ Lower # {}
  <2>1. ASSUME NEW n \in S PROVE Below(n) \in FiniteSubsetsOf(Nat)
    BY FS_Interval DEF FiniteSubsetsOf
  <2> QED BY <2>1
<1>2. PICK low \in Lower : \A x \in Lower : <<x, low>> \notin StrictSubsetOrdering(Nat)
  <2> HIDE DEF Lower
  <2> QED BY <1>1, FS_StrictSubsetOrderingWellFounded, WFMin
<1>3. PICK n \in S : low = Below(n)
  BY <1>2
<1>4. ASSUME NEW o \in S PROVE n <= o
  <2>1. SUFFICES ASSUME o < n PROVE FALSE
    OBVIOUS
  <2>2. Below(o) \subseteq Below(n) /\ o \in Below(n) /\ o \notin Below(o)
    BY <2>1
  <2>3. <<Below(o), low>> \in StrictSubsetOrdering(Nat)
    BY <2>2, <1>3 DEF StrictSubsetOrdering
  <2> QED BY <2>3, <1>2
<1> QED BY <1>4 DEF Min

\* The last of some numbers, if there is one.
LEMMA MaxIs ==
  ASSUME NEW S \in SUBSET Nat, NEW n \in S, \A o \in S : o <= n
  PROVE  Max(S) = n
<1>1. Max(S) \in S /\ \A o \in S : Max(S) >= o
  BY DEF Max
<1>2. n <= Max(S) /\ Max(S) <= n /\ n \in Nat /\ Max(S) \in Nat
  BY <1>1
<1> QED BY <1>2

LEMMA Grown ==
  ASSUME NEW S, NEW s \in Seq(S), NEW e \in S
  PROVE  /\ Append(s, e) \in Seq(S) /\ Len(Append(s, e)) = Len(s) + 1 /\ Len(s) \in Nat
         /\ DOMAIN s = 1..Len(s) /\ DOMAIN Append(s, e) = 1..(Len(s) + 1)
         /\ \A n \in 1..Len(s) : Append(s, e)[n] = s[n]
         /\ Append(s, e)[Len(s) + 1] = e
OBVIOUS

\* The rest of the work.
LEMMA Rest ==
  ASSUME work \in Seq(Task), work # <<>>
  PROVE  /\ Here \in Task /\ Tail(work) \in Seq(Task)
         /\ 1 \in DOMAIN work /\ Here = work[1]
         /\ \A i \in DOMAIN Tail(work) : i + 1 \in DOMAIN work /\ i \in Nat
                                        /\ Tail(work)[i] = work[i + 1] /\ i + 1 # 1
<1>1. Len(work) \in Nat /\ Len(work) # 0 /\ DOMAIN work = 1..Len(work)
  BY EmptySeq
<1>2. Head(work) = work[1] /\ Tail(work) \in Seq(Task) /\ Len(Tail(work)) = Len(work) - 1
  BY <1>1, HeadTailProperties
<1>3. \A i \in 1..Len(Tail(work)) : Tail(work)[i] = work[i + 1]
  BY <1>1, <1>2
<1>4. DOMAIN Tail(work) = 1..Len(Tail(work))
  BY <1>2
<1> QED BY <1>1, <1>2, <1>3, <1>4 DEF Here

\* Rows in order.
LEMMA RowsAre ==
  ASSUME Inv, NEW S, "none" \notin S, NEW w \in Rows(S)
  PROVE  /\ w \in Seq(Task)
         /\ \A i \in DOMAIN w : phase[w[i]] \in S /\ \A j \in DOMAIN w : i # j => w[i] # w[j]
<1>1. IsFiniteSet(InPhase(S)) /\ InPhase(S) \subseteq Task
  <2>1. InPhase(S) \in SUBSET {t \in Task : phase[t] # "none"}
    BY DEF InPhase
  <2>2. IsFiniteSet({t \in Task : phase[t] # "none"})
    BY DEF Inv, Book
  <2> QED BY <2>1, <2>2, FS_Subset
<1>2. Cardinality(InPhase(S)) \in Nat
  BY <1>1, FS_CardinalityType
<1>3. w \in [1..Cardinality(InPhase(S)) -> InPhase(S)]
      /\ \A i, j \in 1..Cardinality(InPhase(S)) : i # j => w[i] # w[j]
  BY DEF Rows, SetToSeqs
<1>4. \A t \in InPhase(S) : t \in Task /\ phase[t] \in S
  BY DEF InPhase
<1> QED BY <1>1, <1>2, <1>3, <1>4

-----------------------------------------------------------------------------
\* What leaves a part of the state alone keeps what is said of it.

LEMMA TypesKept ==
  /\ UNCHANGED <<feed, sent, synced>> /\ ChannelTypes => ChannelTypes'
  /\ UNCHANGED <<posts, flight, results>> /\ TeamsTypes => TeamsTypes'
  /\ UNCHANGED <<feed, cursor, phase, fs, rev, pending>> /\ RowTypes => RowTypes'
  /\ UNCHANGED <<posts, results, mid, late, result, cand, sweep>> /\ AnswerTypes => AnswerTypes'
  /\ UNCHANGED <<posts, results, procVars>> /\ ProcessTypes => ProcessTypes'
  /\ UNCHANGED <<reposts, abandoned>> /\ OperatorTypes => OperatorTypes'
BY DEF ChannelTypes, TeamsTypes, RowTypes, AnswerTypes, ProcessTypes, OperatorTypes, Admitted,
       InPhase, procVars

LEMMA PartsKept ==
  /\ UNCHANGED <<feed, sent>> /\ Ledger => Ledger'
  /\ UNCHANGED <<feed, sent, cursor, results>> /\ Letters => Letters'
  /\ UNCHANGED <<phase, rev, fs, feed, cursor, flight, posts>> /\ Book => Book'
  /\ UNCHANGED <<posts, flight, reposts, phase, abandoned>> /\ Budget => Budget'
  /\ UNCHANGED <<phase, mid, sweep, cand, result, results>> /\ Threads => Threads'
  /\ UNCHANGED <<pending, feed, cursor, results, sent, rev>> /\ Slips => Slips'
  /\ UNCHANGED <<procVars, phase, pending, sent, synced>> /\ Places => Places'
<1>1. UNCHANGED <<feed, sent>> /\ Ledger => Ledger'
  BY DEF Ledger, Explained, ByBridge, Accepted
<1>2. UNCHANGED <<feed, sent, cursor, results>> /\ Letters => Letters'
  BY DEF Letters, Founded, Told, Accepted
<1>3. UNCHANGED <<phase, rev, fs, feed, cursor, flight, posts>> /\ Book => Book'
  BY DEF Book, Accepted
<1>4. UNCHANGED <<posts, flight, reposts, phase, abandoned>> /\ Budget => Budget'
  BY DEF Budget, Sendings, Unsent, Count
<1>5. UNCHANGED <<phase, mid, sweep, cand, result, results>> /\ Threads => Threads'
  BY DEF Threads, Answer, Thread
<1>6. UNCHANGED <<pending, feed, cursor, results, sent, rev>> /\ Slips => Slips'
  BY DEF Slips, Founded, Told, Accepted, Heard, ByBridge, Message
<1>7. UNCHANGED <<procVars, phase, pending, sent, synced>> /\ Places => Places'
  BY DEF Places, procVars, Here, Message, ToSet, Backlogged
<1> QED BY <1>1, <1>2, <1>3, <1>4, <1>5, <1>6, <1>7

\* Steps of the process that touch nothing but its own state.
Moves ==
  \/ Start \/ EndIntake \/ NoScan \/ NoPost \/ ScanFails \/ Collected \/ BreakOff
  \/ BeginReport \/ Pass \/ NoRoom \/ Reported \/ Crash

LEMMA MovesOnly ==
  ASSUME Moves
  PROVE  /\ UNCHANGED <<channelVars, teamsVars, operatorVars, cursor, rowVars>>
         /\ UNCHANGED <<feed, sent, synced, posts, results, flight, reposts, abandoned, phase,
                       fs, rev, mid, late, result, sweep, cand, pending>>
<1>1. UNCHANGED <<channelVars, teamsVars, operatorVars, cursor, rowVars>>
  BY DEF Moves, Start, EndIntake, NoScan, NoPost, ScanFails, Collected, BreakOff, BeginReport,
         Pass, NoRoom, Reported, Crash, Turn, Leave, Outside
<1> QED BY <1>1 DEF channelVars, teamsVars, operatorVars, rowVars, fsVars, postVars, answerVars

LEMMA MovesProcess ==
  ASSUME Inv, Moves
  PROVE  ProcessTypes' /\ Places'
<1>0. /\ ProcessTypes /\ Places /\ "none" \notin Active /\ "none" \notin Reportable
      /\ UNCHANGED <<phase, pending, sent, posts, results>>
  BY MovesOnly DEF Inv, TypeOK, Active, Reportable
<1>1. CASE Start \/ EndIntake \/ NoScan \/ NoPost \/ Reported
  <2>1. /\ UNCHANGED <<work, at, mark, scanned, roots>>
        /\ pc \in {"down", "intake", "drain", "intake again", "scan", "post", "report"}
        /\ pc' \in {"recover", "scan", "post", "drain", "reports", "sync again"}
        /\ pc = "down" => pc' = "recover"
        /\ pc' = "recover" => pc \in {"down", "intake again"}
    BY <1>1 DEF Start, EndIntake, NoScan, NoPost, Reported, Turn, Goto
  <2>2. ProcessTypes'
    BY <1>0, <2>1 DEF ProcessTypes
  <2>3. Places'
    BY <1>0, <2>1 DEF Places
  <2> QED BY <2>2, <2>3
<1>2. CASE ScanFails
  <2>1. /\ pc = "scan" /\ pc' = "collect" /\ work' \in Rows(Active)
        /\ roots' = {} /\ scanned' = FALSE /\ UNCHANGED <<at, mark>>
    BY <1>2 DEF ScanFails, BeginCollect
  <2>2. /\ work' \in Seq(Task)
        /\ \A i \in DOMAIN work' : /\ phase[work'[i]] \in Active
                                   /\ \A j \in DOMAIN work' : i # j => work'[i] # work'[j]
    BY <1>0, <2>1, RowsAre
  <2>3. ProcessTypes'
    BY <1>0, <2>1, <2>2 DEF ProcessTypes
  <2>4. Places'
    BY <1>0, <2>1, <2>2 DEF Places
  <2> QED BY <2>3, <2>4
<1>3. CASE BeginReport
  <2>1. /\ pc = "reports" /\ pc' = "report" /\ work' \in Rows(Reportable)
        /\ UNCHANGED <<at, mark, scanned, roots>>
    BY <1>3 DEF BeginReport, Reportable
  <2>2. work' \in Seq(Task) /\ \A i \in DOMAIN work' : phase[work'[i]] \in Reportable
    BY <1>0, <2>1, RowsAre
  <2>3. ProcessTypes'
    BY <1>0, <2>1, <2>2 DEF ProcessTypes
  <2>4. Places'
    BY <1>0, <2>1, <2>2 DEF Places
  <2> QED BY <2>3, <2>4
<1>4. CASE Collected \/ BreakOff \/ NoRoom \/ Crash
  <2>1. /\ work' = <<>> /\ roots' = {} /\ scanned' = FALSE
        /\ at' = at \/ at' = Nothing
        /\ mark' = mark \/ mark' = 0
        /\ \/ pc' = "down"
           \/ pc \in {"scan", "collect", "drain", "report"} /\ pc' \in {"drain", "reports", "report"}
    BY <1>4 DEF Collected, BreakOff, NoRoom, Reporting, Crash, Leave
  <2>2. ProcessTypes'
    <3>1. at' \in Task \cup {Nothing}
      BY <1>0, <2>1 DEF ProcessTypes
    <3>2. mark' \in 0..Len(posts')
      BY <1>0, <2>1 DEF ProcessTypes
    <3>3. work' \in Seq(Task)
      BY <2>1
    <3>4. scanned' \in BOOLEAN /\ roots' \subseteq DOMAIN results'
      BY <2>1, Zenon
    <3> QED BY <3>1, <3>2, <3>3, <3>4 DEF ProcessTypes
  <2>3. Places'
    BY <1>0, <2>1 DEF Places
  <2> QED BY <2>2, <2>3
<1>5. CASE Pass
  <2>1. /\ pc = "report" /\ work # <<>> /\ work' = Tail(work)
        /\ UNCHANGED <<pc, at, mark, scanned, roots>>
    BY <1>5 DEF Pass, Reporting, NextRow
  <2>2. /\ work' \in Seq(Task)
        /\ \A i \in DOMAIN work' : i + 1 \in DOMAIN work /\ work'[i] = work[i + 1]
    BY <1>0, <2>1, Rest DEF ProcessTypes
  <2>3. ProcessTypes'
    BY <1>0, <2>1, <2>2 DEF ProcessTypes
  <2>4. \A i \in DOMAIN work' : phase'[work'[i]] \in Reportable
    BY <1>0, <2>1, <2>2 DEF Places
  <2>5. Places'
    BY <1>0, <2>1, <2>4 DEF Places
  <2> QED BY <2>3, <2>5
<1> QED BY <1>1, <1>2, <1>3, <1>4, <1>5 DEF Moves

LEMMA MovesInv ==
  ASSUME Inv, Moves
  PROVE  Inv'
BY MovesOnly, MovesProcess, TypesKept, PartsKept DEF Inv, TypeOK
-----------------------------------------------------------------------------
\* The channel.

\* The last accepted event gives the status.
LEMMA LatestIs ==
  ASSUME ChannelTypes, NEW t \in Task, NEW n \in Accepted(t), \A k \in Accepted(t) : k <= n
  PROVE  Latest(t) = n /\ Status(t) = feed[n].status
<1>1. {0} \cup Accepted(t) \in SUBSET Nat /\ n \in Nat
  BY DEF ChannelTypes, Accepted
<1>2. Latest(t) = n
  BY <1>1, MaxIs DEF Latest
<1> QED BY <1>2 DEF Status

\* Before an event that is allowed now there is no end.
LEMMA StatusOpen ==
  ASSUME Inv, NEW t \in Task, Transitions[Status(t)] # {}, NEW i \in Accepted(t)
  PROVE  feed[i].status \notin Closing
<1>1. SUFFICES ASSUME feed[i].status \in Closing PROVE FALSE
  OBVIOUS
<1>2. ASSUME NEW k \in Accepted(t) PROVE k <= i
  BY <1>1 DEF Inv, TypeOK, ChannelTypes, Ledger, Accepted
<1>3. Status(t) = feed[i].status
  BY <1>2, LatestIs DEF Inv, TypeOK
<1> QED BY <1>1, <1>3, StatusFacts

\* An event more, which the ledger allows.
LEMMA Spoken ==
  ASSUME Inv, NEW e \in Events, Len(feed) < MaxEvents, feed' = Append(feed, e),
         UNCHANGED <<sent, synced, teamsVars>>, Aside,
         e.ok => \A i \in Accepted(e.task) : feed[i].status \notin Closing,
         e.by = "bridge" =>
           /\ Admitted < synced
           /\ e.seq \in DOMAIN sent
           /\ e.task = sent[e.seq].task /\ e.status = sent[e.seq].status
           /\ ~e.ok => \E k \in Accepted(e.task) : sent[e.seq].rev < k
  PROVE  Inv'
<1> DEFINE n == Len(feed) + 1
<1>0. /\ TypeOK /\ Ledger /\ Letters /\ Book /\ Slips /\ Places /\ Budget /\ Threads
      /\ ChannelTypes /\ TeamsTypes /\ RowTypes /\ AnswerTypes /\ ProcessTypes /\ OperatorTypes
  BY DEF Inv, TypeOK
<1>1. /\ UNCHANGED <<sent, synced, posts, results, flight, cursor, phase, fs, rev, mid, late,
                     result, sweep, cand, pending, reposts, abandoned>>
      /\ UNCHANGED procVars
  BY DEF Aside, teamsVars, rowVars, fsVars, postVars, answerVars, operatorVars
<1>2. /\ feed' \in Seq(Events) /\ Len(feed') = n /\ Len(feed) \in Nat /\ n \in Nat
      /\ DOMAIN feed = 1..Len(feed) /\ DOMAIN feed' = 1..n
      /\ \A i \in DOMAIN feed : feed'[i] = feed[i]
      /\ feed'[n] = e
  BY <1>0, Grown DEF ChannelTypes
<1>t. /\ \A i \in DOMAIN feed : feed[i] \in Events /\ feed[i].task \in Task
      /\ \A i \in DOMAIN sent : sent[i] \in Messages /\ sent[i].task \in Task
      /\ e.task \in Task
  <2>1. \A i \in DOMAIN feed : feed[i] \in Events
    BY <1>0 DEF ChannelTypes
  <2>2. \A i \in DOMAIN sent : sent[i] \in Messages
    BY <1>0 DEF ChannelTypes
  <2> QED BY <2>1, <2>2 DEF Events, Messages
<1>3. \A t \in Task : \A i : i \in Accepted(t)' <=>
        i \in Accepted(t) \/ (i = n /\ e.task = t /\ e.ok)
  BY <1>2 DEF Accepted
<1>4. \A t \in Task : \A i \in Accepted(t) : i \in 1..Len(feed)
  BY <1>2 DEF Accepted
<1> HIDE DEF n
<1>5. Admitted' <= synced
  <2> DEFINE B == {i \in DOMAIN feed : feed[i].by = "bridge"}
             C == {i \in DOMAIN feed' : feed'[i].by = "bridge"}
  <2>1. IsFiniteSet(B) /\ n \notin B
    <3>1. IsFiniteSet(1..Len(feed))
      BY <1>2, FS_Interval
    <3> QED BY <1>2, <3>1, FS_Subset DEF n
  <2>2. Admitted = Cardinality(B) /\ Admitted' = Cardinality(C)
    BY DEF Admitted
  <2>3. CASE e.by = "bridge"
    <3>1. C = B \cup {n}
      BY <1>2, <2>3 DEF n
    <3>2. Cardinality(C) = Cardinality(B) + 1 /\ Cardinality(B) \in Nat
      <4> HIDE DEF B, C
      <4> QED BY <2>1, <3>1, FS_AddElement, FS_CardinalityType
    <3>3. Admitted < synced /\ synced \in Nat
      BY <1>0, <2>3 DEF ChannelTypes
    <3> HIDE DEF B, C
    <3> QED BY <2>2, <3>2, <3>3
  <2>4. CASE e.by # "bridge"
    <3>1. C = B
      BY <1>2, <2>4 DEF n
    <3> QED BY <2>2, <3>1, <1>0 DEF ChannelTypes
  <2> QED BY <2>3, <2>4
<1>6. TypeOK'
  <2>1. ChannelTypes'
    BY <1>0, <1>1, <1>2, <1>5, BridgeAssumption DEF ChannelTypes, n
  <2>2. RowTypes'
    BY <1>0, <1>1, <1>2 DEF RowTypes, InPhase, n
  <2> QED BY <1>0, <1>1, <2>1, <2>2, TypesKept DEF TypeOK
<1>7. Ledger'
  <2>1. ASSUME NEW t \in Task, NEW i \in Accepted(t)', NEW j \in Accepted(t)', i < j
        PROVE  feed'[i].status \notin Closing
    <3>1. i \in Accepted(t) /\ i \in DOMAIN feed
      BY <1>2, <1>3, <1>4, <2>1 DEF n
    <3> QED BY <1>0, <1>2, <1>3, <2>1, <3>1 DEF Ledger
  <2>2. ASSUME NEW i \in DOMAIN feed', ByBridge(i)' PROVE Explained(i)'
    <3>1. CASE i = n
      <4>1. e.by = "bridge" /\ feed'[i] = e
        BY <1>2, <2>2, <3>1 DEF ByBridge
      <4>2. \A k \in Accepted(e.task) : k \in Accepted(e.task)' /\ k < i
        BY <1>2, <1>3, <1>4, <1>t, <3>1 DEF n
      <4> QED BY <1>1, <4>1, <4>2 DEF Explained, Accepted
    <3>2. CASE i # n
      <4>1. i \in DOMAIN feed /\ feed'[i] = feed[i] /\ ByBridge(i)
        BY <1>2, <2>2, <3>2 DEF ByBridge, n
      <4>2. PICK u \in Task : u = feed[i].task
        BY <1>t, <4>1
      <4>3. Explained(i) /\ \A k \in Accepted(u) : k \in Accepted(u)'
        BY <1>0, <1>3, <4>1 DEF Ledger
      <4> QED BY <1>1, <4>1, <4>2, <4>3 DEF Explained, Accepted
    <3> QED BY <3>1, <3>2
  <2> QED BY <2>1, <2>2 DEF Ledger
<1>8. Letters'
  <2>1. ASSUME NEW i \in DOMAIN sent
        PROVE  Founded(sent[i].task, sent[i].status, sent[i].rev)'
    BY <1>0, <1>1, <1>2, <1>3, <1>4, <1>t DEF Letters, Founded, Told
  <2> QED BY <1>0, <1>1, <2>1 DEF Letters
<1>9. Book'
  BY <1>0, <1>1, <1>2, <1>3, <1>4 DEF Book, RowTypes, n
<1>10. Slips'
  BY <1>0, <1>1, <1>2, <1>3, <1>4 DEF Slips, Founded, Told, Heard, ByBridge, Message, RowTypes, n
<1> QED BY <1>0, <1>1, <1>6, <1>7, <1>8, <1>9, <1>10, PartsKept DEF Inv
LEMMA CoordinatorInv ==
  ASSUME Inv, NEW t \in Task, Assign(t) \/ Cancel(t)
  PROVE  Inv'
<1>1. \E s \in {"assigned", "cancelled"} :
        Say("coordinator", 0, t, s, TRUE) /\ \A i \in Accepted(t) : feed[i].status \notin Closing
  <2>1. CASE Assign(t)
    BY <2>1 DEF Assign
  <2>2. CASE Cancel(t)
    BY <2>2, StatusOpen DEF Cancel
  <2> QED BY <2>1, <2>2
<1>2. PICK s \in {"assigned", "cancelled"} :
        Say("coordinator", 0, t, s, TRUE) /\ \A i \in Accepted(t) : feed[i].status \notin Closing
  BY <1>1
<1> DEFINE e == [by |-> "coordinator", seq |-> 0, task |-> t, status |-> s, ok |-> TRUE]
<1>3. e \in Events
  BY StatusFacts DEF Events
<1>4. /\ Len(feed) < MaxEvents /\ feed' = Append(feed, e)
      /\ UNCHANGED <<sent, synced, teamsVars>> /\ Aside
  BY <1>2 DEF Say
<1>5. e.task = t /\ e.by # "bridge"
  OBVIOUS
<1> HIDE DEF e
<1> QED BY <1>2, <1>3, <1>4, <1>5, Spoken

LEMMA AdmittedNat ==
  ASSUME ChannelTypes
  PROVE  Admitted \in Nat
<1> DEFINE B == {i \in DOMAIN feed : feed[i].by = "bridge"}
<1>1. IsFiniteSet(1..Len(feed))
  BY FS_Interval DEF ChannelTypes
<1>2. IsFiniteSet(B)
  BY <1>1, FS_Subset DEF ChannelTypes
<1>3. Cardinality(B) \in Nat
  <2> HIDE DEF B
  <2> QED BY <1>2, FS_CardinalityType
<1> QED BY <1>3 DEF Admitted

\* A report is rejected only because it did not know of a later event.
LEMMA AdmitInv ==
  ASSUME Inv, Admit
  PROVE  Inv'
<1>0. ChannelTypes /\ Letters
  BY DEF Inv, TypeOK
<1>1. PICK k \in Nat : k = Admitted + 1 /\ k \in DOMAIN sent
  <2>1. Admitted \in Nat
    BY <1>0, AdmittedNat
  <2>2. Admitted < synced /\ synced <= Len(sent) /\ synced \in Nat /\ DOMAIN sent = 1..Len(sent)
        /\ Len(sent) \in Nat
    BY <1>0 DEF Admit, ChannelTypes
  <2> QED BY <2>1, <2>2
<1>2. PICK m \in Messages : m = sent[k]
  BY <1>0, <1>1 DEF ChannelTypes
<1>3. m.task \in Task /\ m.status \in Statuses
  BY DEF Messages
<1> DEFINE ok == m.rev = Latest(m.task) /\ m.status \in Transitions[Status(m.task)]
           e == [by |-> "bridge", seq |-> k, task |-> m.task, status |-> m.status, ok |-> ok]
<1>4. e \in Events
  BY <1>3 DEF Events
<1>5. /\ Len(feed) < MaxEvents /\ feed' = Append(feed, e)
      /\ UNCHANGED <<sent, synced, teamsVars>> /\ Aside
      /\ Admitted < synced
  BY <1>1, <1>2 DEF Admit, Say
<1>6. ok => \A i \in Accepted(m.task) : feed[i].status \notin Closing
  BY <1>3, StatusOpen
<1>7. ~ok => \E j \in Accepted(m.task) : m.rev < j
  <2>1. SUFFICES ASSUME ~ok, ~\E j \in Accepted(m.task) : m.rev < j PROVE FALSE
    OBVIOUS
  <2>2. m.rev \in Accepted(m.task) /\ m.status \in Transitions[feed[m.rev].status]
    BY <1>0, <1>1, <1>2 DEF Letters, Founded
  <2>3. \A j \in Accepted(m.task) : j <= m.rev
    BY <1>0, <2>1, <2>2 DEF Accepted, ChannelTypes
  <2>4. Latest(m.task) = m.rev /\ Status(m.task) = feed[m.rev].status
    BY <1>0, <1>3, <2>2, <2>3, LatestIs
  <2> QED BY <2>1, <2>2, <2>4
<1>8. e.task = m.task /\ e.seq = k /\ e.status = m.status /\ e.ok = ok
  OBVIOUS
<1> HIDE DEF e, ok
<1> QED BY <1>1, <1>2, <1>4, <1>5, <1>6, <1>7, <1>8, Spoken
-----------------------------------------------------------------------------
\* Teams.

LEMMA CountMore ==
  ASSUME NEW S, NEW s \in Seq(S), NEW e \in S, NEW x
  PROVE  /\ Count(s, x) \in Nat
         /\ Count(Append(s, e), x) = Count(s, x) + (IF e = x THEN 1 ELSE 0)
         /\ Count(s, x) = 0 <=> x \notin ToSet(s)
<1> DEFINE B == {i \in DOMAIN s : s[i] = x}
           C == {i \in DOMAIN Append(s, e) : Append(s, e)[i] = x}
           n == Len(s) + 1
<1>1. /\ DOMAIN s = 1..Len(s) /\ DOMAIN Append(s, e) = 1..n /\ Len(s) \in Nat
      /\ \A i \in 1..Len(s) : Append(s, e)[i] = s[i]
      /\ Append(s, e)[n] = e
  BY Grown
<1>2. IsFiniteSet(B) /\ n \notin B
  <2>1. IsFiniteSet(1..Len(s))
    BY <1>1, FS_Interval
  <2> QED BY <1>1, <2>1, FS_Subset
<1>3. C = IF e = x THEN B \cup {n} ELSE B
  BY <1>1
<1>4. B = {} <=> x \notin ToSet(s)
  BY DEF ToSet
<1>5. Count(s, x) = Cardinality(B) /\ Count(Append(s, e), x) = Cardinality(C)
  BY DEF Count
<1> HIDE DEF B, C, n
<1>6. Cardinality(B) \in Nat /\ (Cardinality(B) = 0 <=> B = {})
      /\ Cardinality(B \cup {n}) = Cardinality(B) + 1
  BY <1>2, FS_CardinalityType, FS_EmptySet, FS_AddElement
<1> QED BY <1>3, <1>4, <1>5, <1>6

LEMMA SendingsAre ==
  ASSUME NEW t
  PROVE  /\ Sendings(t) = Count(posts, t) + (IF t \in flight THEN 1 ELSE 0)
         /\ Sendings(t)' = Count(posts', t) + (IF t \in flight' THEN 1 ELSE 0)
<1>1. Cardinality({t}) = 1 /\ Cardinality({}) = 0
  BY FS_Singleton, FS_EmptySet
<1>2. ASSUME NEW F PROVE F \cap {t} = IF t \in F THEN {t} ELSE {}
  OBVIOUS
<1>3. Sendings(t)' = Count(posts', t) + Cardinality(flight' \cap {t})
  BY DEF Sendings, Count
<1> QED BY <1>1, <1>2, <1>3 DEF Sendings

LEMMA FewerSendings ==
  ASSUME posts \in Seq(Task), posts' = posts, flight' \subseteq flight, NEW t \in Task
  PROVE  Sendings(t) \in Nat /\ Sendings(t)' \in Nat /\ Sendings(t)' <= Sendings(t)
<1>1. Count(posts, t) \in Nat
  BY CountMore
<1>2. Sendings(t) = Count(posts, t) + (IF t \in flight THEN 1 ELSE 0)
  BY SendingsAre
<1>3. Sendings(t)' = Count(posts, t) + (IF t \in flight' THEN 1 ELSE 0)
  BY SendingsAre
<1> QED BY <1>1, <1>2, <1>3

LEMMA ArriveInv ==
  ASSUME Inv, NEW a \in Task, Arrive(a)
  PROVE  Inv'
<1>0. /\ TypeOK /\ Ledger /\ Letters /\ Book /\ Slips /\ Places /\ Budget /\ Threads
      /\ ChannelTypes /\ TeamsTypes /\ RowTypes /\ AnswerTypes /\ ProcessTypes /\ OperatorTypes
  BY DEF Inv, TypeOK
<1>1. /\ UNCHANGED <<feed, sent, synced, results, cursor, phase, fs, rev, mid, late,
                     result, sweep, cand, pending, reposts, abandoned>>
      /\ UNCHANGED procVars
      /\ a \in flight /\ posts' = Append(posts, a) /\ flight' = flight \ {a}
  BY DEF Arrive, Aside, channelVars, rowVars, fsVars, postVars, answerVars, operatorVars
<1>2. /\ posts' \in Seq(Task) /\ Len(posts') = Len(posts) + 1 /\ Len(posts) \in Nat
      /\ ToSet(posts') = ToSet(posts) \cup {a}
  <2>1. /\ posts' \in Seq(Task) /\ Len(posts') = Len(posts) + 1 /\ Len(posts) \in Nat
        /\ DOMAIN posts = 1..Len(posts) /\ DOMAIN posts' = 1..(Len(posts) + 1)
        /\ \A i \in 1..Len(posts) : posts'[i] = posts[i]
        /\ posts'[Len(posts) + 1] = a
    BY <1>0, <1>1, Grown DEF TeamsTypes
  <2> QED BY <2>1 DEF ToSet
<1>3. TypeOK'
  <2>1. TeamsTypes'
    BY <1>0, <1>1, <1>2 DEF TeamsTypes
  <2>2. AnswerTypes'
    BY <1>0, <1>1, <1>2 DEF AnswerTypes
  <2>3. ProcessTypes'
    <3>1. mark' \in 0..Len(posts')
      BY <1>0, <1>1, <1>2 DEF ProcessTypes, procVars
    <3> QED BY <1>0, <1>1, <3>1 DEF ProcessTypes, procVars
  <2> QED BY <1>0, <1>1, <2>1, <2>2, <2>3, TypesKept DEF TypeOK
<1>4. Book'
  BY <1>0, <1>1, <1>2 DEF Book, Accepted
<1>5. Budget'
  <2>1. ASSUME NEW t \in Task PROVE Sendings(t)' = Sendings(t)
    <3>1. Count(posts, t) \in Nat /\ Count(posts', t) = Count(posts, t) + (IF a = t THEN 1 ELSE 0)
      BY <1>0, <1>1, CountMore DEF TeamsTypes
    <3>2. /\ Sendings(t) = Count(posts, t) + (IF t \in flight THEN 1 ELSE 0)
          /\ Sendings(t)' = Count(posts', t) + (IF t \in flight' THEN 1 ELSE 0)
      BY SendingsAre
    <3> QED BY <1>1, <3>1, <3>2
  <2>2. ASSUME NEW t \in Task PROVE Unsent(t)' = Unsent(t)
    BY <1>1 DEF Unsent
  <2> QED BY <1>0, <1>1, <2>1, <2>2 DEF Budget
<1> QED BY <1>0, <1>1, <1>3, <1>4, <1>5, PartsKept DEF Inv

LEMMA LoseInv ==
  ASSUME Inv, NEW a \in Task, Lose(a)
  PROVE  Inv'
<1>0. /\ TypeOK /\ Ledger /\ Letters /\ Book /\ Slips /\ Places /\ Budget /\ Threads
      /\ ChannelTypes /\ TeamsTypes /\ RowTypes /\ AnswerTypes /\ ProcessTypes /\ OperatorTypes
  BY DEF Inv, TypeOK
<1>1. /\ UNCHANGED <<feed, sent, synced, posts, results, cursor, phase, fs, rev, mid, late,
                     result, sweep, cand, pending, reposts, abandoned>>
      /\ UNCHANGED procVars
      /\ flight' = flight \ {a}
  BY DEF Lose, Aside, channelVars, rowVars, fsVars, postVars, answerVars, operatorVars
<1>2. TeamsTypes'
  BY <1>0, <1>1 DEF TeamsTypes
<1>3. Book'
  BY <1>0, <1>1 DEF Book, Accepted
<1>4. Budget'
  <2>1. ASSUME NEW t \in Task
        PROVE  Sendings(t)' <= reposts'[t] + (IF Unsent(t)' THEN 0 ELSE 1)
    <3>1. Unsent(t)' = Unsent(t) /\ reposts'[t] = reposts[t] /\ reposts[t] \in Nat
      BY <1>0, <1>1, BridgeAssumption DEF Unsent, OperatorTypes
    <3>2. Sendings(t) \in Nat /\ Sendings(t)' \in Nat /\ Sendings(t)' <= Sendings(t)
      BY <1>0, <1>1, FewerSendings DEF TeamsTypes
    <3> QED BY <1>0, <3>1, <3>2 DEF Budget
  <2> QED BY <2>1 DEF Budget
<1> QED BY <1>0, <1>1, <1>2, <1>3, <1>4, TypesKept, PartsKept DEF Inv, TypeOK

LEMMA RespondInv ==
  ASSUME Inv, Respond
  PROVE  Inv'
<1>0. /\ TypeOK /\ Ledger /\ Letters /\ Book /\ Slips /\ Places /\ Budget /\ Threads
      /\ ChannelTypes /\ TeamsTypes /\ RowTypes /\ AnswerTypes /\ ProcessTypes /\ OperatorTypes
  BY DEF Inv, TypeOK
<1>1. /\ UNCHANGED <<feed, sent, synced, posts, flight, cursor, phase, fs, rev, mid, late,
                     result, sweep, cand, pending, reposts, abandoned>>
      /\ UNCHANGED procVars
  BY DEF Respond, Aside, channelVars, rowVars, fsVars, postVars, answerVars, operatorVars
<1>2. PICK e \in Results : results' = Append(results, e) /\ e.to \in 0..Len(posts)
  <2>1. PICK i \in DOMAIN posts, to \in {0} \cup DOMAIN posts, s \in Verdict :
          results' = Append(results, [task |-> posts[i], to |-> to, status |-> s])
    BY DEF Respond
  <2>2. posts[i] \in Task /\ to \in 0..Len(posts) /\ to \in Nat
    BY <1>0 DEF TeamsTypes
  <2> QED BY <2>1, <2>2 DEF Results
<1> DEFINE n == Len(results) + 1
<1>3. /\ results' \in Seq(Results) /\ Len(results') = n /\ Len(results) \in Nat /\ n \in Nat
      /\ DOMAIN results = 1..Len(results) /\ DOMAIN results' = 1..n
      /\ \A i \in DOMAIN results : results'[i] = results[i] /\ i \in DOMAIN results' /\ i # n
      /\ results'[n] = e
  BY <1>0, <1>2, Grown DEF TeamsTypes
<1>4. TypeOK'
  <2>1. TeamsTypes'
    BY <1>0, <1>1, <1>2, <1>3 DEF TeamsTypes
  <2>2. AnswerTypes'
    BY <1>0, <1>1, <1>3 DEF AnswerTypes
  <2>3. ProcessTypes'
    BY <1>0, <1>1, <1>3 DEF ProcessTypes, procVars
  <2> QED BY <1>0, <1>1, <2>1, <2>2, <2>3, TypesKept DEF TypeOK
<1>5. \A t, s : Told(t, s) => Told(t, s)'
  BY <1>3 DEF Told
<1>6. \A t, r : Answer(t, r) => Answer(t, r)'
  BY <1>3 DEF Answer
<1>7. Letters'
  BY <1>0, <1>1, <1>3 DEF Letters, Founded, Accepted, Told
<1>8. Slips'
  BY <1>0, <1>1, <1>3 DEF Slips, Founded, Told, Accepted, Heard, ByBridge, Message
<1>9. Threads'
  <2>1. \A t \in Task : \A r \in Thread(t)' : r \in Thread(t) \/ r = n
    BY <1>1, <1>3 DEF Thread
  <2>2. ASSUME NEW t \in Task, sweep[t] # Nothing
        PROVE  /\ sweep[t].from <= Len(results')
               /\ \A r \in Thread(t)' : r <= sweep[t].from =>
                    r \in sweep[t].unread \/ (cand[t] # 0 /\ cand[t] <= r)
    <3>1. sweep[t].from \in Nat
      BY <1>0, <2>2 DEF AnswerTypes, Sweeps
    <3>2. sweep[t].from <= Len(results) /\ sweep[t].from < n
      BY <1>0, <1>3, <2>2, <3>1 DEF Threads
    <3> QED BY <1>0, <1>3, <2>1, <2>2, <3>1, <3>2 DEF Threads
  <2> QED BY <1>0, <1>1, <1>6, <2>2 DEF Threads
<1> QED BY <1>0, <1>1, <1>4, <1>7, <1>8, <1>9, PartsKept DEF Inv

LEMMA ElapseInv ==
  ASSUME Inv, NEW a \in Task, Elapse(a)
  PROVE  Inv'
<1>0. /\ TypeOK /\ Ledger /\ Letters /\ Book /\ Slips /\ Places /\ Budget /\ Threads
      /\ ChannelTypes /\ TeamsTypes /\ RowTypes /\ AnswerTypes /\ ProcessTypes /\ OperatorTypes
  BY DEF Inv, TypeOK
<1>1. /\ UNCHANGED <<feed, sent, synced, posts, results, flight, cursor, phase, fs, rev, mid,
                     result, sweep, cand, pending, reposts, abandoned>>
      /\ UNCHANGED procVars
      /\ late' = [late EXCEPT ![a] = TRUE]
  BY DEF Elapse, channelVars, teamsVars, fsVars, answerVars, operatorVars
<1>2. AnswerTypes'
  BY <1>0, <1>1 DEF AnswerTypes
<1> QED BY <1>0, <1>1, <1>2, TypesKept, PartsKept DEF Inv, TypeOK
-----------------------------------------------------------------------------
\* The client of the channel.

LEMMA NumberIs ==
  ASSUME ChannelTypes, NEW m \in ToSet(sent)
  PROVE  /\ NumberOf(m) \in DOMAIN sent /\ sent[NumberOf(m)] = m
         /\ NumberOf(m) \in Nat /\ NumberOf(m) > 0
<1>1. \E i \in DOMAIN sent : sent[i] = m
  BY DEF ToSet
<1>2. NumberOf(m) \in DOMAIN sent /\ sent[NumberOf(m)] = m
  BY <1>1 DEF NumberOf
<1> QED BY <1>2 DEF ChannelTypes

LEMMA RecoverInv ==
  ASSUME Inv, Recover
  PROVE  Inv'
<1>0. /\ TypeOK /\ Ledger /\ Letters /\ Book /\ Slips /\ Places /\ Budget /\ Threads
      /\ ChannelTypes /\ TeamsTypes /\ RowTypes /\ AnswerTypes /\ ProcessTypes /\ OperatorTypes
  BY DEF Inv, TypeOK
<1>1. /\ UNCHANGED <<feed, sent, synced, posts, results, flight, cursor, phase, fs, rev, mid,
                     late, result, sweep, cand, reposts, abandoned, work, at, mark, scanned, roots>>
      /\ pc = "recover" /\ pc' = "sync"
      /\ pending' = [t \in Task |-> pending'[t]]
      /\ \A t \in Task : pending'[t] =
           IF pending[t] = Nothing \/ pending[t].seq > 0 THEN pending[t]
           ELSE IF Message(t) \notin ToSet(sent) THEN Nothing
           ELSE [pending[t] EXCEPT !.seq = NumberOf(Message(t))]
  BY DEF Recover, Goto, Outside, channelVars, teamsVars, fsVars, postVars, answerVars,
         operatorVars
<1>2. ASSUME NEW t \in Task, pending'[t] # Nothing
      PROVE  /\ pending[t] # Nothing /\ pending'[t] \in Reports
             /\ pending'[t].status = pending[t].status /\ pending'[t].rev = pending[t].rev
             /\ pending'[t].seq \in DOMAIN sent /\ sent[pending'[t].seq] = Message(t)
             /\ pending'[t].seq # 0
  <2>0. pending[t] # Nothing
    BY <1>1, <1>2
  <2>1. pending[t] \in Reports
    BY <1>0, <2>0 DEF RowTypes
  <2>2. CASE pending[t].seq > 0
    BY <1>0, <1>1, <2>0, <2>1, <2>2 DEF Slips, Reports
  <2>3. CASE ~(pending[t].seq > 0)
    <3>1. Message(t) \in ToSet(sent) /\ pending'[t] = [pending[t] EXCEPT !.seq = NumberOf(Message(t))]
      BY <1>1, <1>2, <2>0, <2>3
    <3>2. /\ NumberOf(Message(t)) \in DOMAIN sent /\ sent[NumberOf(Message(t))] = Message(t)
          /\ NumberOf(Message(t)) \in Nat /\ NumberOf(Message(t)) > 0
      BY <1>0, <3>1, NumberIs
    <3> QED BY <2>0, <2>1, <3>1, <3>2 DEF Reports
  <2> QED BY <2>2, <2>3
<1>3. \A t \in Task : pending'[t] # Nothing => Message(t)' = Message(t)
  BY <1>2 DEF Message
<1>4. RowTypes'
  BY <1>0, <1>1, <1>2 DEF RowTypes, InPhase
<1>5. ProcessTypes'
  BY <1>0, <1>1 DEF ProcessTypes
<1>6. Slips'
  <2>1. ASSUME NEW t \in Task, pending'[t] # Nothing
        PROVE  /\ Founded(t, pending[t].status, pending[t].rev)'
               /\ pending'[t].seq > 0 =>
                    pending'[t].seq \in DOMAIN sent' /\ sent'[pending'[t].seq] = Message(t)'
               /\ \A i \in Heard' : sent'[feed'[i].seq] # Message(t)'
    BY <1>0, <1>1, <1>2, <1>3, <2>1 DEF Slips, Founded, Told, Accepted, Heard, ByBridge
  <2>2. \A i \in Heard' : sent'[feed'[i].seq].rev < rev'[sent'[feed'[i].seq].task]
    BY <1>0, <1>1 DEF Slips, Heard, ByBridge
  <2> QED BY <2>1, <2>2 DEF Slips
<1>7. Places'
  BY <1>1, <1>2 DEF Places
<1> QED BY <1>0, <1>1, <1>4, <1>5, <1>6, <1>7, TypesKept, PartsKept DEF Inv, TypeOK

LEMMA SyncInv ==
  ASSUME Inv, Sync
  PROVE  Inv'
<1>0. /\ TypeOK /\ Ledger /\ Letters /\ Book /\ Slips /\ Places /\ Budget /\ Threads
      /\ ChannelTypes /\ TeamsTypes /\ RowTypes /\ AnswerTypes /\ ProcessTypes /\ OperatorTypes
  BY DEF Inv, TypeOK
<1>1. /\ UNCHANGED <<feed, sent, posts, results, flight, cursor, phase, fs, rev, mid, late,
                     result, sweep, cand, pending, reposts, abandoned, work, at, mark, scanned,
                     roots>>
      /\ synced' \in synced..Len(sent)
      /\ pc \in {"sync", "sync again"} /\ pc' \in {"intake", "intake again"}
  BY DEF Sync, Goto, teamsVars, rowVars, fsVars, postVars, answerVars, operatorVars
<1>2. ChannelTypes'
  <2>1. Admitted' = Admitted /\ Admitted \in Nat
    BY <1>0, <1>1, AdmittedNat DEF Admitted
  <2>2. /\ synced \in Nat /\ Len(sent) \in Nat /\ MaxPending \in Nat
        /\ Admitted <= synced /\ Len(sent) - synced <= MaxPending
    BY <1>0, BridgeAssumption DEF ChannelTypes
  <2>3. synced' \in Int /\ synced <= synced' /\ synced' <= Len(sent)
    <3>1. synced' \in synced..Len(sent)
      BY <1>1
    <3>2. synced \in Int /\ Len(sent) \in Int
      BY <2>2
    <3> QED BY <3>1, <3>2
  <2>4. PICK a \in Nat : a = Admitted
    BY <2>1
  <2>5. synced' \in Nat /\ Len(sent) - synced' <= MaxPending /\ a <= synced'
    BY <2>2, <2>3, <2>4
  <2> QED BY <1>0, <1>1, <2>1, <2>3, <2>4, <2>5 DEF ChannelTypes
<1>3. ProcessTypes'
  BY <1>0, <1>1 DEF ProcessTypes
<1>4. Places'
  BY <1>0, <1>1 DEF Places
<1> QED BY <1>0, <1>1, <1>2, <1>3, <1>4, TypesKept, PartsKept DEF Inv, TypeOK
-----------------------------------------------------------------------------
\* The events that are taken in.

\* As long as no row becomes active, there is room for those that are.
LEMMA ActiveShrinks ==
  ASSUME Inv, \A t \in Task : phase'[t] \in Active => phase[t] \in Active
  PROVE  Cardinality(InPhase(Active))' <= MaxOutstanding
<1> DEFINE A == InPhase(Active)
           B == {t \in Task : phase'[t] \in Active}
<1>1. B \subseteq A /\ Cardinality(A)' = Cardinality(B)
  BY DEF InPhase
<1>2. IsFiniteSet(A)
  <2>1. A \in SUBSET {t \in Task : phase[t] # "none"}
    BY DEF InPhase, Active
  <2>2. IsFiniteSet({t \in Task : phase[t] # "none"})
    BY DEF Inv, Book
  <2> QED BY <2>1, <2>2, FS_Subset
<1>3. Cardinality(A) <= MaxOutstanding
  BY DEF Inv, TypeOK, RowTypes
<1>4. Cardinality(B) <= Cardinality(A) /\ Cardinality(A) \in Nat /\ Cardinality(B) \in Nat
  <2> HIDE DEF A, B
  <2> QED BY <1>1, <1>2, FS_Subset, FS_CardinalityType
<1> HIDE DEF A, B
<1>5. Cardinality(A)' <= MaxOutstanding
  BY <1>1, <1>3, <1>4, BridgeAssumption
<1> QED BY <1>5 DEF A

LEMMA FinitelyMore ==
  ASSUME Inv, NEW a \in Task, \A t \in Task \ {a} : phase'[t] = phase[t]
  PROVE  IsFiniteSet({t \in Task : phase'[t] # "none"})
<1> DEFINE S == {t \in Task : phase[t] # "none"}
           T == {t \in Task : phase'[t] # "none"}
<1>1. IsFiniteSet(S) /\ T \subseteq S \cup {a}
  BY DEF Inv, Book
<1> HIDE DEF S, T
<1>2. IsFiniteSet(S \cup {a})
  BY <1>1, FS_AddElement
<1>3. IsFiniteSet(T)
  BY <1>1, <1>2, FS_Subset
<1> QED BY <1>3 DEF T

LEMMA Ingested ==
  ASSUME Inv, ApplyRejected \/ ApplyAssign \/ ApplyStatus
  PROVE  /\ UNCHANGED <<feed, sent, synced, posts, results, flight, mid, late, result, sweep,
                        cand, reposts, abandoned>>
         /\ UNCHANGED procVars
         /\ pc \in Intakes /\ cursor < Len(feed) /\ cursor' = cursor + 1
         /\ pending' = [t \in Task |-> IF Ours(t) THEN Nothing ELSE pending[t]]
BY DEF ApplyRejected, ApplyAssign, ApplyStatus, Ingest, Outside, channelVars, teamsVars,
       operatorVars, postVars, answerVars

\* What has become of a report is known once its event is taken in; a rejected one was
\* out of date, so that no task is stuck.
LEMMA IngestInv ==
  ASSUME Inv, ApplyRejected \/ ApplyAssign \/ ApplyStatus
  PROVE  Inv'
<1>0. /\ TypeOK /\ Ledger /\ Letters /\ Book /\ Slips /\ Places /\ Budget /\ Threads
      /\ ChannelTypes /\ TeamsTypes /\ RowTypes /\ AnswerTypes /\ ProcessTypes /\ OperatorTypes
  BY DEF Inv, TypeOK
<1>1. /\ UNCHANGED <<feed, sent, synced, posts, results, flight, mid, late, result, sweep,
                     cand, reposts, abandoned>>
      /\ UNCHANGED procVars
      /\ pc \in Intakes /\ cursor < Len(feed) /\ cursor' = cursor + 1
      /\ pending' = [t \in Task |-> IF Ours(t) THEN Nothing ELSE pending[t]]
  BY Ingested
<1>2. PICK c \in 1..Len(feed) : c = cursor + 1 /\ cursor \in Nat /\ c \in DOMAIN feed
  BY <1>0, <1>1 DEF ChannelTypes, RowTypes
<1>3. PICK e \in Events : e = feed[c] /\ e = Event
  BY <1>0, <1>2 DEF ChannelTypes, Event
<1>4. e.task \in Task /\ e.status \in Statuses /\ e.ok \in BOOLEAN
  BY DEF Events
<1>5. e.by = "bridge" =>
        /\ e.seq \in DOMAIN sent /\ sent[e.seq] \in Messages /\ e.seq \in Nat /\ e.seq > 0
        /\ e.task = sent[e.seq].task /\ e.status = sent[e.seq].status
        /\ ~e.ok => \E k \in Accepted(e.task) : k < c /\ sent[e.seq].rev < k
  <2>1. SUFFICES ASSUME e.by = "bridge" PROVE Explained(c) /\ sent[e.seq] \in Messages
                                              /\ e.seq \in Nat /\ e.seq > 0
    BY <1>3 DEF Explained
  <2>2. Explained(c)
    BY <1>0, <1>2, <1>3, <2>1 DEF Ledger, ByBridge
  <2>3. e.seq \in DOMAIN sent
    BY <1>3, <2>2 DEF Explained
  <2> QED BY <1>0, <2>2, <2>3 DEF ChannelTypes
<1>6. \A t \in Task : \A k \in Accepted(t) : k \in 1..Len(feed)
  BY <1>0 DEF Accepted, ChannelTypes
<1>7. e.ok => c \in Accepted(e.task)
  BY <1>2, <1>3 DEF Accepted
\* What is pending is not what has come.
<1>8. ASSUME NEW t \in Task, pending'[t] # Nothing
      PROVE  /\ pending'[t] = pending[t]
             /\ e.by = "bridge" => sent[e.seq] # Message(t)
  <2>1. ~Ours(t) /\ pending'[t] = pending[t]
    BY <1>1, <1>8
  <2>2. pending[t] \in Reports
    BY <1>0, <1>8, <2>1 DEF RowTypes
  <2>3. pending[t].seq > 0
    <3>1. pc \notin {"down", "recover", "queue", "number"}
      BY <1>1 DEF Intakes
    <3>2. pending[t].seq # 0
      BY <1>0, <1>8, <2>1, <3>1 DEF Places
    <3> QED BY <2>2, <3>2 DEF Reports
  <2>4. pending[t].seq \in DOMAIN sent /\ sent[pending[t].seq] = Message(t)
    BY <1>0, <1>8, <2>1, <2>3 DEF Slips
  <2>5. e.by = "bridge" => e.seq # pending[t].seq
    BY <1>3, <1>8, <2>1 DEF Ours
  <2> QED BY <1>0, <1>5, <2>1, <2>4, <2>5 DEF Letters
\* A report that comes back rejected was out of date.
<1>9. ASSUME NEW t \in Task, Ours(t), ~e.ok PROVE ~Hopeless(t)
  <2>1. pending[t] # Nothing /\ pending[t].seq = e.seq /\ e.by = "bridge"
    BY <1>3, <1>9 DEF Ours
  <2>2. sent[e.seq] = Message(t)
    BY <1>0, <1>5, <2>1 DEF Slips
  <2>3. e.task = t /\ sent[e.seq].rev = pending[t].rev
    BY <1>5, <2>1, <2>2 DEF Message
  <2>4. PICK k \in Accepted(t) : k < c /\ pending[t].rev < k
    BY <1>5, <1>9, <2>1, <2>3
  <2>5. k <= rev[t] /\ k \in Nat /\ rev[t] \in Nat
    BY <1>0, <1>2, <1>6, <2>4 DEF Book, RowTypes
  <2>6. pending[t].rev \in Nat
    BY <1>0, <2>1 DEF RowTypes, Reports
  <2> QED BY <2>4, <2>5, <2>6 DEF Hopeless
<1> DEFINE a == e.task
\* What the event does with its row.
<1>10. \E p : /\ phase' = [phase EXCEPT ![a] = p]
              /\ \/ e.ok /\ phase[a] = "none" /\ p \in {"queued", "rejected"}
                 \/ e.ok /\ e.status \in Verdict /\ p = "done"
                 \/ e.ok /\ e.status = "cancelled" /\ p = "cancelled"
                 \/ (e.ok => e.status \notin Closing) /\ p = phase[a]
  <2>1. CASE ~e.ok
    <3>1. ApplyRejected
      BY <1>3, <2>1 DEF ApplyAssign, ApplyStatus
    <3>2. \A t \in Task : phase'[t] = phase[t]
      BY <1>9, <2>1, <3>1 DEF ApplyRejected
    <3>3. phase' = phase
      BY <1>0, <3>1, <3>2 DEF ApplyRejected, RowTypes
    <3> QED BY <1>0, <1>4, <2>1, <3>3 DEF RowTypes
  <2>2. CASE e.ok /\ e.status = "assigned"
    BY <1>3, <2>2 DEF ApplyRejected, ApplyAssign, ApplyStatus
  <2>3. CASE e.ok /\ e.status # "assigned"
    <3>1. phase' = [phase EXCEPT ![a] =
            IF e.status \in Verdict THEN "done"
            ELSE IF e.status = "cancelled" THEN "cancelled" ELSE phase[a]]
      BY <1>3, <2>3 DEF ApplyRejected, ApplyAssign, ApplyStatus
    <3> QED BY <2>3, <3>1 DEF Closing
  <2> QED BY <2>1, <2>2, <2>3
<1>11. IF e.ok THEN fs' = [fs EXCEPT ![a] = e.status] /\ rev' = [rev EXCEPT ![a] = c]
       ELSE fs' = fs /\ rev' = rev
  BY <1>1, <1>2, <1>3 DEF ApplyRejected, ApplyAssign, ApplyStatus, fsVars
<1>12. PICK p : /\ phase' = [phase EXCEPT ![a] = p]
                /\ \/ e.ok /\ phase[a] = "none" /\ p \in {"queued", "rejected"}
                   \/ e.ok /\ e.status \in Verdict /\ p = "done"
                   \/ e.ok /\ e.status = "cancelled" /\ p = "cancelled"
                   \/ (e.ok => e.status \notin Closing) /\ p = phase[a]
  BY <1>10
<1> HIDE DEF a
<1>13. a = e.task /\ a \in Task
  BY <1>4 DEF a
<1>14. /\ \A t \in Task : rev[t] \in Nat /\ rev[t] <= cursor /\ fs[t] \in Statuses
                       /\ phase[t] \in Phases
       /\ \A t \in Task \ {a} : rev'[t] = rev[t] /\ fs'[t] = fs[t] /\ phase'[t] = phase[t]
       /\ phase'[a] = p /\ p \in Phases
       /\ e.ok => rev'[a] = c /\ fs'[a] = e.status
       /\ ~e.ok => rev'[a] = rev[a] /\ fs'[a] = fs[a]
  <2>1. p \in Phases
    BY <1>0, <1>12, <1>13 DEF RowTypes, Phases
  <2> QED BY <1>0, <1>2, <1>11, <1>12, <1>13, <2>1 DEF RowTypes
<1>15. \A t \in Task : rev[t] <= rev'[t] /\ rev'[t] \in 0..c
  BY <1>2, <1>13, <1>14
<1>16. RowTypes'
  <2>1. Cardinality(InPhase(Active))' <= MaxOutstanding
    <3>1. \A t \in Task : phase'[t] \in Active => phase[t] \in Active
      BY <1>12, <1>14 DEF Active
    <3> QED BY <3>1, ActiveShrinks
  <2>2. phase' \in [Task -> Phases]
    BY <1>0, <1>12, <1>14 DEF RowTypes
  <2>3. fs' \in [Task -> Statuses] /\ rev' \in [Task -> 0..cursor']
    BY <1>0, <1>1, <1>2, <1>4, <1>11, <1>13, <1>15 DEF RowTypes
  <2>4. pending' \in [Task -> Reports \cup {Nothing}]
    BY <1>0, <1>1 DEF RowTypes
  <2>5. cursor' \in 0..Len(feed')
    BY <1>1, <1>2
  <2> QED BY <2>1, <2>2, <2>3, <2>4, <2>5 DEF RowTypes
<1>17. Letters'
  BY <1>0, <1>1, <1>2, <1>6 DEF Letters, Founded, Told, Accepted
<1>18. Book'
  <2>1. IsFiniteSet({t \in Task : phase'[t] # "none"})
    BY <1>13, <1>14, FinitelyMore
  <2>2. ASSUME NEW t \in Task
        PROVE  /\ IF rev'[t] = 0 THEN fs'[t] = "none"
                  ELSE rev'[t] \in Accepted(t)' /\ fs'[t] = feed'[rev'[t]].status
               /\ \A k \in Accepted(t)' : k <= cursor' => k <= rev'[t]
               /\ phase'[t] # "none" => rev'[t] # 0
               /\ phase'[t] # "stuck"
               /\ phase'[t] = "done" => fs'[t] \in Verdict
               /\ phase'[t] = "cancelled" => fs'[t] = "cancelled"
               /\ t \in flight' \cup ToSet(posts') => rev'[t] # 0
    <3>1. Accepted(t)' = Accepted(t) /\ feed' = feed /\ flight' = flight /\ posts' = posts
      BY <1>1 DEF Accepted
    <3>2. CASE t = a /\ e.ok
      <4>1. rev'[t] = c /\ c # 0 /\ fs'[t] = e.status /\ e.status = feed[c].status
            /\ c \in Accepted(t)
        BY <1>2, <1>3, <1>7, <1>13, <1>14, <3>2
      <4>2. e.status \notin Closing => phase[t] \notin {"done", "cancelled"}
        <5>1. rev[t] \in Accepted(t) /\ rev[t] < c => fs[t] \notin Closing
          BY <1>0, <1>6, <4>1 DEF Book, Ledger
        <5> QED BY <1>0, <1>2, <1>14, <5>1, StatusFacts DEF Book
      <4>3. phase'[t] # "stuck" /\ (phase'[t] = "done" => e.status \in Verdict)
            /\ (phase'[t] = "cancelled" => e.status = "cancelled")
        BY <1>0, <1>12, <1>14, <3>2, <4>2 DEF Book
      <4>4. \A k \in Accepted(t) : k <= cursor' => k <= c
        BY <1>1, <1>2
      <4> QED BY <3>1, <4>1, <4>3, <4>4
    <3>3. CASE ~(t = a /\ e.ok)
      <4>1. rev'[t] = rev[t] /\ fs'[t] = fs[t] /\ phase'[t] = phase[t]
        BY <1>12, <1>14, <3>3
      <4>2. \A k \in Accepted(t) : k <= cursor' => k <= cursor
        <5>1. c \notin Accepted(t)
          BY <1>3, <1>13, <3>3 DEF Accepted
        <5> QED BY <1>1, <1>2, <1>6, <5>1
      <4> QED BY <1>0, <3>1, <4>1, <4>2 DEF Book
    <3> QED BY <3>2, <3>3
  <2> QED BY <2>1, <2>2 DEF Book
<1>19. Slips'
  <2>1. \A i : i \in Heard' <=> i \in Heard \/ (i = c /\ e.by = "bridge")
    <3>1. \A i : i \in 1..cursor' <=> i \in 1..cursor \/ i = c
      BY <1>1, <1>2
    <3>2. Heard' = {i \in 1..cursor' : feed[i].by = "bridge"}
      BY <1>1 DEF Heard, ByBridge
    <3> QED BY <1>3, <3>1, <3>2 DEF Heard, ByBridge
  <2>2. ASSUME NEW t \in Task, pending'[t] # Nothing
        PROVE  /\ Founded(t, pending[t].status, pending[t].rev)'
               /\ pending'[t].seq > 0 =>
                    pending'[t].seq \in DOMAIN sent' /\ sent'[pending'[t].seq] = Message(t)'
               /\ \A i \in Heard' : sent'[feed'[i].seq] # Message(t)'
    <3>1. pending'[t] = pending[t] /\ Message(t)' = Message(t)
      BY <1>8, <2>2 DEF Message
    <3>2. \A i \in Heard' : sent[feed[i].seq] # Message(t)
      <4>1. \A i \in Heard : sent[feed[i].seq] # Message(t)
        BY <1>0, <2>2, <3>1 DEF Slips
      <4>2. e.by = "bridge" => sent[feed[c].seq] # Message(t)
        BY <1>3, <1>8, <2>2
      <4> QED BY <2>1, <4>1, <4>2
    <3>3. Founded(t, pending[t].status, pending[t].rev)'
      BY <1>0, <1>1, <1>2, <1>6, <2>2, <3>1 DEF Slips, Founded, Told, Accepted
    <3> QED BY <1>0, <1>1, <2>2, <3>1, <3>2, <3>3 DEF Slips
  <2>3. ASSUME NEW i \in Heard'
        PROVE  sent[feed[i].seq].rev < rev'[sent[feed[i].seq].task]
    <3>1. i \in DOMAIN feed /\ ByBridge(i)
      BY <1>0, <1>1, <1>2, <2>3 DEF Heard, ByBridge, ChannelTypes
    <3>2. Explained(i)
      BY <1>0, <3>1 DEF Ledger
    <3>3. PICK m \in Messages : m = sent[feed[i].seq] /\ feed[i].seq \in DOMAIN sent
      BY <1>0, <3>2 DEF Explained, ChannelTypes
    <3>4. m.task \in Task /\ m.rev \in Nat
      BY DEF Messages
    <3>5. CASE i \in Heard
      <4>1. m.rev < rev[m.task]
        BY <1>0, <3>3, <3>5 DEF Slips
      <4> QED BY <1>14, <1>15, <3>3, <3>4, <4>1
    <3>6. CASE i \notin Heard
      <4>1. i = c /\ e.by = "bridge" /\ m = sent[e.seq] /\ m.task = a
        BY <1>3, <1>5, <1>13, <2>1, <2>3, <3>3, <3>6
      <4>2. CASE e.ok
        <5>1. m.rev <= cursor
          BY <1>0, <3>3 DEF Letters, Founded
        <5> QED BY <1>2, <1>14, <3>3, <3>4, <4>1, <4>2, <5>1
      <4>3. CASE ~e.ok
        <5>1. PICK k \in Accepted(a) : k < c /\ m.rev < k
          BY <1>5, <1>13, <4>1, <4>3
        <5>2. k <= rev[a] /\ k \in Nat
          BY <1>0, <1>2, <1>6, <1>13, <5>1 DEF Book
        <5> QED BY <1>13, <1>14, <3>3, <3>4, <4>1, <4>3, <5>1, <5>2
      <4> QED BY <1>4, <4>2, <4>3
    <3> QED BY <3>5, <3>6
  <2> QED BY <1>1, <2>2, <2>3 DEF Slips
<1>20. Places'
  <2>1. pc \notin {"sending", "collect", "report", "down", "recover", "queue", "number"}
        /\ pc' = pc
    BY <1>1 DEF Intakes, procVars
  <2>2. ASSUME NEW t \in Task, pending'[t] # Nothing PROVE pending'[t].seq # 0
    BY <1>0, <1>8, <2>1, <2>2 DEF Places
  <2> QED BY <2>1, <2>2 DEF Places
<1>21. Budget'
  <2>1. ASSUME NEW t \in Task PROVE Unsent(t)' => Unsent(t)
    BY <1>1, <1>12, <1>13, <1>14 DEF Unsent
  <2>2. ASSUME NEW t \in Task
        PROVE  Sendings(t)' = Sendings(t) /\ Sendings(t) \in Nat
    <3>1. Sendings(t)' = Sendings(t)
      BY <1>1 DEF Sendings, Count
    <3> QED BY <1>0, <1>1, <3>1, FewerSendings DEF TeamsTypes
  <2>3. ASSUME NEW t \in Task
        PROVE  Sendings(t)' <= reposts'[t] + (IF Unsent(t)' THEN 0 ELSE 1)
    <3>1. Sendings(t) <= reposts[t] + (IF Unsent(t) THEN 0 ELSE 1) /\ reposts[t] \in Nat
      BY <1>0, BridgeAssumption DEF Budget, OperatorTypes
    <3> QED BY <1>1, <2>1, <2>2, <3>1
  <2> QED BY <2>3 DEF Budget
<1>22. Threads'
  <2>1. ASSUME NEW t \in Task
        PROVE  /\ phase'[t] \in {"none", "queued", "posting", "ambiguous"} =>
                    phase[t] \in {"none", "queued", "posting", "ambiguous"}
               /\ phase'[t] = "resulted" => phase[t] = "resulted"
    BY <1>12, <1>13, <1>14
  <2> QED BY <1>0, <1>1, <2>1 DEF Threads, Answer, Thread
<1> QED BY <1>0, <1>1, <1>16, <1>17, <1>18, <1>19, <1>20, <1>21, <1>22, TypesKept, PartsKept
        DEF Inv, TypeOK
-----------------------------------------------------------------------------
\* One row is changed.

LEMMA RowMoved ==
  ASSUME Inv, NEW a \in Task, NEW p \in Active \cup {"queued", "rejected", "resulted"},
         phase[a] # "none", phase' = [phase EXCEPT ![a] = p],
         UNCHANGED <<feed, cursor, fs, rev, pending, posts>>, flight' \subseteq flight \cup {a}
  PROVE  /\ Book'
         /\ (p \in Active => phase[a] \in Active) => RowTypes'
         /\ Cardinality(InPhase(Active))' <= MaxOutstanding => RowTypes'
<1>0. Book /\ RowTypes
  BY DEF Inv, TypeOK
<1>1. p \in Phases /\ p \notin {"none", "stuck", "done", "cancelled"}
  BY DEF Active, Phases
<1>2. /\ phase' \in [Task -> Phases] /\ phase'[a] = p
      /\ \A t \in Task \ {a} : phase'[t] = phase[t]
  BY <1>0, <1>1 DEF RowTypes
<1>3. IsFiniteSet({t \in Task : phase'[t] # "none"})
  BY <1>2, FinitelyMore
<1>4. Book'
  BY <1>0, <1>1, <1>2, <1>3 DEF Book, Accepted
<1>5. Cardinality(InPhase(Active))' <= MaxOutstanding => RowTypes'
  BY <1>0, <1>2 DEF RowTypes
<1>6. (p \in Active => phase[a] \in Active) => Cardinality(InPhase(Active))' <= MaxOutstanding
  BY <1>2, ActiveShrinks
<1> QED BY <1>4, <1>5, <1>6

LEMMA ThreadsMoved ==
  ASSUME Inv, NEW a \in Task, NEW p \in Active \cup {"queued", "rejected"}, NEW m,
         phase' = [phase EXCEPT ![a] = p], mid' = [mid EXCEPT ![a] = m],
         UNCHANGED <<result, sweep, cand, results>>,
         p \in {"queued", "posting", "ambiguous"} => m = 0,
         m = mid[a] \/ mid[a] = 0
  PROVE  Threads'
<1>0. Threads /\ phase \in [Task -> Phases] /\ DOMAIN mid = Task
  BY DEF Inv, TypeOK, RowTypes, AnswerTypes
<1>1. \A t \in Task : sweep[t] # Nothing => Thread(t)' = Thread(t) /\ mid'[t] = mid[t]
  BY <1>0 DEF Threads, Thread
<1>2. \A t, r : Answer(t, r)' = Answer(t, r)
  BY DEF Answer
<1>3. p \notin {"resulted", "none"}
  BY DEF Active
<1>4. \A t \in Task :
        /\ phase'[t] \in {"none", "queued", "posting", "ambiguous"} => mid'[t] = 0
        /\ phase'[t] = "resulted" => phase[t] = "resulted"
  BY <1>0, <1>3 DEF Threads
<1> QED BY <1>0, <1>1, <1>2, <1>4 DEF Threads

\* A scan finds the message of a task, or leaves it in doubt.
LEMMA ScanInv ==
  ASSUME Inv, Scan
  PROVE  Inv'
<1>0. /\ TypeOK /\ Ledger /\ Letters /\ Book /\ Slips /\ Places /\ Budget /\ Threads
      /\ ChannelTypes /\ TeamsTypes /\ RowTypes /\ AnswerTypes /\ ProcessTypes /\ OperatorTypes
  BY DEF Inv, TypeOK
<1>1. /\ UNCHANGED <<feed, sent, synced, posts, results, flight, cursor, fs, rev, result, sweep,
                     cand, pending, reposts, abandoned, at, mark>>
      /\ pc = "scan" /\ pc' = "collect" /\ work' \in Rows(Active) /\ scanned' = TRUE
  BY DEF Scan, BeginCollect, Outside, channelVars, teamsVars, operatorVars, fsVars, answerVars
<1>2. /\ roots' \subseteq DOMAIN results
      /\ phase' = [t \in Task |-> phase'[t]] /\ mid' = [t \in Task |-> mid'[t]]
      /\ late' \in [Task -> BOOLEAN]
      /\ \A t \in Task :
           IF Unresolved(t)
           THEN \/ phase'[t] = "posted" /\ mid'[t] \in DOMAIN posts
                \/ phase'[t] = "ambiguous" /\ mid'[t] = 0
           ELSE phase'[t] = phase[t] /\ mid'[t] = mid[t]
  <2>1. PICK seen \in SUBSET DOMAIN posts, found \in SUBSET DOMAIN results :
          /\ roots' = {r \in found : results[r].to = 0}
          /\ LET of(t) == {i \in seen : posts[i] = t} IN
             /\ \E pick \in [Task -> {0} \cup DOMAIN posts] :
                  /\ \A t \in Task : pick[t] \in IF of(t) = {} THEN {0} ELSE of(t)
                  /\ mid' = [t \in Task |-> IF Unresolved(t) THEN pick[t] ELSE mid[t]]
             /\ phase' = [t \in Task |->
                  IF ~Unresolved(t) THEN phase[t]
                  ELSE IF of(t) # {} THEN "posted" ELSE NotFound]
             /\ late' = [t \in Task |-> late[t] /\ ~(Unresolved(t) /\ of(t) # {})]
    BY DEF Scan
  <2> DEFINE of(t) == {i \in seen : posts[i] = t}
  <2>2. PICK pick \in [Task -> {0} \cup DOMAIN posts] :
          /\ \A t \in Task : pick[t] \in IF of(t) = {} THEN {0} ELSE of(t)
          /\ mid' = [t \in Task |-> IF Unresolved(t) THEN pick[t] ELSE mid[t]]
    BY <2>1
  <2>3. phase' = [t \in Task |->
          IF ~Unresolved(t) THEN phase[t] ELSE IF of(t) # {} THEN "posted" ELSE NotFound]
    BY <2>1
  <2>4. \A t \in Task : of(t) \subseteq DOMAIN posts
    OBVIOUS
  <2>5. late' \in [Task -> BOOLEAN]
    BY <2>1
  <2> HIDE DEF of
  <2>6. ASSUME NEW t \in Task
        PROVE  IF Unresolved(t)
               THEN \/ phase'[t] = "posted" /\ mid'[t] \in DOMAIN posts
                    \/ phase'[t] = "ambiguous" /\ mid'[t] = 0
               ELSE phase'[t] = phase[t] /\ mid'[t] = mid[t]
    BY <2>2, <2>3, <2>4 DEF NotFound
  <2>7. roots' \subseteq DOMAIN results
    BY <2>1
  <2>8. phase' = [t \in Task |-> phase'[t]] /\ mid' = [t \in Task |-> mid'[t]]
    BY <2>2, <2>3
  <2> QED BY <2>5, <2>6, <2>7, <2>8
<1>3. \A t \in Task : Unresolved(t) => phase[t] \in {"posting", "ambiguous"} /\ mid[t] = 0
  BY DEF Unresolved
<1>4. /\ work' \in Seq(Task)
      /\ \A i \in DOMAIN work' : /\ phase[work'[i]] \in Active /\ work'[i] \in Task
                                 /\ \A j \in DOMAIN work' : i # j => work'[i] # work'[j]
  <2>1. "none" \notin Active
    BY DEF Active
  <2> QED BY <1>1, <2>1, RowsAre
<1>5. \A t \in Task :
        /\ phase'[t] \in Phases
        /\ phase'[t] \in Active <=> phase[t] \in Active
        /\ \A p \in {"none", "queued", "rejected", "resulted", "done", "cancelled", "stuck"} :
             phase'[t] = p <=> phase[t] = p
  BY <1>0, <1>2, <1>3 DEF RowTypes, Phases, Active
<1>6. RowTypes'
  <2>1. Cardinality(InPhase(Active))' <= MaxOutstanding
    BY <1>5, ActiveShrinks
  <2>2. phase' \in [Task -> Phases]
    BY <1>2, <1>5
  <2> QED BY <1>0, <1>1, <2>1, <2>2 DEF RowTypes
<1>7. AnswerTypes'
  <2>1. \A t \in Task : mid'[t] \in 0..Len(posts)
    <3>1. DOMAIN posts = 1..Len(posts) /\ Len(posts) \in Nat
      BY <1>0 DEF TeamsTypes
    <3>2. \A t \in Task : mid[t] \in 0..Len(posts)
      BY <1>0 DEF AnswerTypes
    <3>3. \A t \in Task : mid'[t] = mid[t] \/ mid'[t] = 0 \/ mid'[t] \in DOMAIN posts
      BY <1>2
    <3> QED BY <3>1, <3>2, <3>3
  <2>2. mid' \in [Task -> 0..Len(posts)]
    BY <1>2, <2>1
  <2> QED BY <1>0, <1>1, <1>2, <2>2 DEF AnswerTypes
<1>8. ProcessTypes'
  BY <1>0, <1>1, <1>2, <1>4 DEF ProcessTypes
<1>9. Book'
  <2>1. {t \in Task : phase'[t] # "none"} = {t \in Task : phase[t] # "none"}
    BY <1>5
  <2> QED BY <1>0, <1>1, <1>5, <2>1 DEF Book, Accepted
<1>10. Places'
  <2>1. \A t \in Task : pending[t] # Nothing => pending[t].seq # 0
    BY <1>0, <1>1 DEF Places
  <2> QED BY <1>1, <1>4, <1>5, <2>1 DEF Places
<1>11. Budget'
  <2>1. \A t \in Task : Unsent(t)' = Unsent(t) /\ Sendings(t)' = Sendings(t)
    BY <1>1, <1>5 DEF Unsent, Sendings, Count
  <2> QED BY <1>0, <1>1, <2>1 DEF Budget
<1>12. Threads'
  <2>1. \A t \in Task : sweep[t] # Nothing => Thread(t)' = Thread(t) /\ mid'[t] = mid[t]
    BY <1>0, <1>1, <1>2, <1>3 DEF Threads, Thread
  <2>2. \A t, r : Answer(t, r)' = Answer(t, r)
    BY <1>1 DEF Answer
  <2>3. ASSUME NEW t \in Task
        PROVE  /\ phase'[t] \in {"none", "queued", "posting", "ambiguous"} => mid'[t] = 0
               /\ mid'[t] = 0 => sweep[t] = Nothing
    BY <1>0, <1>2, <1>3 DEF Threads
  <2> QED BY <1>0, <1>1, <1>5, <2>1, <2>2, <2>3 DEF Threads
<1> QED BY <1>0, <1>1, <1>6, <1>7, <1>8, <1>9, <1>10, <1>11, <1>12, TypesKept, PartsKept
        DEF Inv, TypeOK
-----------------------------------------------------------------------------
\* The answers are read.

\* The best answer is one to this task, and no later than any that was read.
LEMMA BestIs ==
  ASSUME Inv, NEW t \in Task, NEW read \in SUBSET Thread(t)
  PROVE  /\ Best(t, read) \in 0..Len(results)
         /\ Best(t, read) # 0 => Answer(t, Best(t, read))
         /\ cand[t] # 0 => Best(t, read) # 0 /\ Best(t, read) <= cand[t]
         /\ \A r \in read : Best(t, read) # 0 /\ Best(t, read) <= r
<1>0. TeamsTypes /\ AnswerTypes /\ ProcessTypes /\ Threads
  BY DEF Inv, TypeOK
<1> DEFINE all == ({cand[t]} \ {0}) \cup read \cup {r \in roots : results[r].task = t}
           best == Best(t, read)
<1>1. DOMAIN results = 1..Len(results) /\ Len(results) \in Nat
  BY <1>0 DEF TeamsTypes
<1>2. \A r \in all : Answer(t, r)
  <2>1. \A r \in read : Answer(t, r)
    BY DEF Thread, Answer
  <2>2. \A r \in roots : results[r].task = t => Answer(t, r)
    BY <1>0 DEF ProcessTypes, Answer
  <2>3. cand[t] # 0 => Answer(t, cand[t])
    BY <1>0 DEF Threads
  <2> QED BY <2>1, <2>2, <2>3
<1>3. \A r \in all : r \in 1..Len(results) /\ r \in Nat /\ r # 0
  BY <1>1, <1>2 DEF Answer
<1>4. best = IF all = {} THEN 0 ELSE Min(all)
  BY DEF Best
<1>5. read \subseteq all /\ (cand[t] # 0 => cand[t] \in all)
  OBVIOUS
<1> HIDE DEF all, best
<1>6. all # {} => best \in all /\ \A o \in all : best <= o
  <2>1. all \in SUBSET Nat
    BY <1>3
  <2> QED BY <1>4, <2>1, MinIs
<1>7. CASE all = {}
  BY <1>1, <1>4, <1>5, <1>7 DEF best
<1>8. CASE all # {}
  <2>1. best \in all /\ best # 0 /\ best \in 0..Len(results) /\ Answer(t, best)
    BY <1>1, <1>2, <1>3, <1>6, <1>8
  <2>2. (cand[t] # 0 => best <= cand[t]) /\ \A r \in read : best <= r
    BY <1>5, <1>6, <1>8
  <2> QED BY <2>1, <2>2 DEF best
<1> QED BY <1>7, <1>8

\* Of what was in the thread when the sweep began, either it is still to be read or the
\* best answer so far is no later.
LEMMA BestCovers ==
  ASSUME Inv, NEW t \in Task, NEW read \in SUBSET Thread(t),
         NEW r \in Thread(t), r <= Sweep(t).from
  PROVE  r \in Sweep(t).unread \ read \/ (Best(t, read) # 0 /\ Best(t, read) <= r)
<1>0. TeamsTypes /\ AnswerTypes /\ Threads
  BY DEF Inv, TypeOK
<1>1. r \in Nat
  BY <1>0 DEF Thread, TeamsTypes
<1>2. r \in Sweep(t).unread \/ (cand[t] # 0 /\ cand[t] <= r)
  <2>1. CASE sweep[t] = Nothing
    BY <2>1 DEF Sweep
  <2>2. CASE sweep[t] # Nothing
    BY <1>0, <2>2 DEF Sweep, Threads
  <2> QED BY <2>1, <2>2
<1>3. /\ Best(t, read) \in Nat /\ cand[t] \in Nat
      /\ cand[t] # 0 => Best(t, read) # 0 /\ Best(t, read) <= cand[t]
      /\ \A k \in read : Best(t, read) # 0 /\ Best(t, read) <= k
  BY <1>0, BestIs DEF AnswerTypes, TeamsTypes
<1> QED BY <1>1, <1>2, <1>3

\* What a round keeps of a thread.
LEMMA KeepInv ==
  ASSUME Inv, Collecting, NEW h \in Task, h = Here, NEW s \in Sweeps \cup {Nothing},
         NEW c \in 0..Len(results), NEW p, NEW x,
         Keep(s, c), phase' = [phase EXCEPT ![h] = p], result' = [result EXCEPT ![h] = x],
         c # 0 => Answer(h, c),
         s # Nothing =>
           /\ mid[h] # 0 /\ s.from <= Len(results)
           /\ \A r \in Thread(h) : r <= s.from => r \in s.unread \/ (c # 0 /\ c <= r),
         \/ p = phase[h] /\ x = result[h]
         \/ p = "resulted" /\ Answer(h, x)
  PROVE  Inv'
<1>0. /\ TypeOK /\ Ledger /\ Letters /\ Book /\ Slips /\ Places /\ Budget /\ Threads
      /\ ChannelTypes /\ TeamsTypes /\ RowTypes /\ AnswerTypes /\ ProcessTypes /\ OperatorTypes
  BY DEF Inv, TypeOK
<1>1. /\ UNCHANGED <<feed, sent, synced, posts, results, flight, cursor, fs, rev, mid, late,
                     pending, reposts, abandoned, pc, at, mark, scanned, roots>>
      /\ sweep' = [sweep EXCEPT ![h] = s] /\ cand' = [cand EXCEPT ![h] = c]
      /\ pc = "collect" /\ work # <<>> /\ work' = Tail(work)
  BY DEF Keep, Collecting, NextRow, Outside, channelVars, teamsVars, operatorVars, fsVars,
         postVars
<1>2. /\ work' \in Seq(Task) /\ 1 \in DOMAIN work /\ h = work[1]
      /\ \A i \in DOMAIN work' : i + 1 \in DOMAIN work /\ i \in Nat
                                 /\ work'[i] = work[i + 1] /\ i + 1 # 1
  BY <1>0, <1>1, Rest DEF ProcessTypes
<1>3. phase[h] \in Active /\ phase \in [Task -> Phases]
  BY <1>0, <1>1, <1>2 DEF Places, RowTypes
<1>4. p \in Active \cup {"resulted"} /\ (p # "resulted" => p = phase[h])
  BY <1>3 DEF Active
<1>5. phase'[h] = p /\ \A t \in Task \ {h} : phase'[t] = phase[t]
  BY <1>3
<1>6. RowTypes' /\ Book'
  <2>1. phase[h] # "none"
    BY <1>3 DEF Active
  <2>2. UNCHANGED <<feed, cursor, fs, rev, pending, posts>> /\ flight' \subseteq flight \cup {h}
    BY <1>1
  <2>3. p \in Active \cup {"queued", "rejected", "resulted"}
    BY <1>4
  <2> QED BY <1>3, <2>1, <2>2, <2>3, RowMoved
<1>7. AnswerTypes'
  <2>1. x \in 0..Len(results)
    BY <1>0 DEF AnswerTypes, TeamsTypes, Answer
  <2> QED BY <1>0, <1>1, <2>1 DEF AnswerTypes
<1>8. ProcessTypes'
  BY <1>0, <1>1, <1>2 DEF ProcessTypes
<1>9. Places'
  <2>1. \A t \in Task : pending[t] # Nothing => pending[t].seq # 0
    BY <1>0, <1>1 DEF Places
  <2>2. \A i \in DOMAIN work : /\ phase[work[i]] \in Active /\ work[i] \in Task
                               /\ \A j \in DOMAIN work : i # j => work[i] # work[j]
    BY <1>0, <1>1 DEF Places, ProcessTypes
  <2>3. ASSUME NEW i \in DOMAIN work' PROVE phase'[work'[i]] \in Active
    <3>1. i + 1 \in DOMAIN work /\ work'[i] = work[i + 1] /\ work[i + 1] # h
      BY <1>2, <2>2
    <3> QED BY <1>5, <2>2, <3>1
  <2>4. ASSUME NEW i \in DOMAIN work', NEW j \in DOMAIN work', i # j PROVE work'[i] # work'[j]
    <3>1. i + 1 \in DOMAIN work /\ j + 1 \in DOMAIN work /\ i + 1 # j + 1
      BY <1>2, <2>4
    <3> QED BY <1>2, <2>2, <3>1
  <2> QED BY <1>1, <2>1, <2>3, <2>4 DEF Places
<1>10. Budget'
  <2>1. \A t \in Task : Unsent(t)' = Unsent(t) /\ Sendings(t)' = Sendings(t)
    BY <1>1, <1>3, <1>4, <1>5 DEF Unsent, Sendings, Count, Active
  <2> QED BY <1>0, <1>1, <2>1 DEF Budget
<1>11. Threads'
  <2>1. \A t \in Task : Thread(t)' = Thread(t)
    BY <1>1 DEF Thread
  <2>2. \A t, r : Answer(t, r)' = Answer(t, r)
    BY <1>1 DEF Answer
  <2>3. \A t \in Task : /\ sweep'[t] = (IF t = h THEN s ELSE sweep[t])
                        /\ cand'[t] = (IF t = h THEN c ELSE cand[t])
                        /\ result'[t] = (IF t = h THEN x ELSE result[t])
    BY <1>0, <1>1 DEF AnswerTypes
  <2>4. ASSUME NEW t \in Task, t # h
        PROVE  /\ phase'[t] \in {"none", "queued", "posting", "ambiguous"} => mid'[t] = 0
               /\ mid'[t] = 0 => sweep'[t] = Nothing
               /\ cand'[t] # 0 => Answer(t, cand'[t])
               /\ phase'[t] = "resulted" => Answer(t, result'[t])
               /\ sweep'[t] # Nothing =>
                    /\ sweep'[t].from <= Len(results)
                    /\ \A r \in Thread(t) : r <= sweep'[t].from =>
                         r \in sweep'[t].unread \/ (cand'[t] # 0 /\ cand'[t] <= r)
    BY <1>0, <1>1, <1>5, <2>3, <2>4 DEF Threads
  <2>5. /\ phase'[h] \in {"none", "queued", "posting", "ambiguous"} => mid'[h] = 0
        /\ mid'[h] = 0 => sweep'[h] = Nothing
        /\ cand'[h] # 0 => Answer(h, cand'[h])
        /\ phase'[h] = "resulted" => Answer(h, result'[h])
        /\ sweep'[h] # Nothing =>
             /\ sweep'[h].from <= Len(results)
             /\ \A r \in Thread(h) : r <= sweep'[h].from =>
                  r \in sweep'[h].unread \/ (cand'[h] # 0 /\ cand'[h] <= r)
    <3>1. phase'[h] \in {"none", "queued", "posting", "ambiguous"} => mid'[h] = 0
      BY <1>0, <1>1, <1>4, <1>5 DEF Threads
    <3>2. phase'[h] = "resulted" => Answer(h, result'[h])
      BY <1>0, <1>3, <1>5, <2>3 DEF Threads, Active
    <3> QED BY <1>1, <2>3, <3>1, <3>2
  <2> QED BY <1>1, <2>1, <2>2, <2>4, <2>5 DEF Threads, Answer
<1> QED BY <1>0, <1>1, <1>6, <1>7, <1>8, <1>9, <1>10, <1>11, TypesKept, PartsKept
        DEF Inv, TypeOK
LEMMA ReadInv ==
  ASSUME Inv, NEW read \in SUBSET DOMAIN results,
         ReadPart(read) \/ ReadAll(read) \/ TakeResult(read) \/ ReadFails
  PROVE  Inv'
<1>0. TeamsTypes /\ AnswerTypes /\ RowTypes /\ ProcessTypes /\ Threads
  BY DEF Inv, TypeOK
<1>1. Collecting
  BY DEF ReadPart, ReadAll, TakeResult, ReadFails, Reading
<1>2. PICK h \in Task : h = Here
  BY <1>0, <1>1, Rest DEF ProcessTypes, Collecting
<1>3. ASSUME NEW p PROVE [phase EXCEPT ![h] = phase[h]] = phase
                         /\ [result EXCEPT ![h] = result[h]] = result
  BY <1>0 DEF RowTypes, AnswerTypes
<1>4. CASE ReadFails
  <2>1. Keep(Nothing, 0) /\ UNCHANGED <<phase, result>> /\ 0 \in 0..Len(results)
    BY <1>0, <1>4 DEF ReadFails, TeamsTypes
  <2> QED BY <1>1, <1>2, <1>3, <2>1, KeepInv
<1>5. CASE ReadPart(read) \/ ReadAll(read) \/ TakeResult(read)
  <2>1. read \in SUBSET Thread(h)
    BY <1>2, <1>5 DEF ReadPart, ReadAll, TakeResult, Reading
  <2>2. PICK c \in 0..Len(results) : c = Best(h, read)
    BY <2>1, BestIs
  <2>3. c # 0 => Answer(h, c)
    BY <2>1, <2>2, BestIs
  <2>4. CASE ReadAll(read)
    <3>1. Keep(Nothing, c) /\ UNCHANGED <<phase, result>>
      BY <1>2, <2>2, <2>4 DEF ReadAll
    <3> QED BY <1>1, <1>2, <1>3, <2>3, <3>1, KeepInv
  <2>5. CASE TakeResult(read)
    <3>1. /\ Keep(Nothing, 0) /\ c # 0 /\ 0 \in 0..Len(results)
          /\ phase' = [phase EXCEPT ![h] = "resulted"] /\ result' = [result EXCEPT ![h] = c]
      BY <1>0, <1>2, <2>2, <2>5 DEF TakeResult, TeamsTypes
    <3> QED BY <1>1, <1>2, <2>3, <3>1, KeepInv
  <2>6. CASE ReadPart(read)
    <3>1. PICK s : s = [Sweep(h) EXCEPT !.unread = @ \ read]
      OBVIOUS
    <3>2. /\ Keep(s, c) /\ UNCHANGED <<phase, result>> /\ ~(Sweep(h).unread \subseteq read)
      BY <1>2, <2>2, <2>6, <3>1 DEF ReadPart, Finished
    <3>3. Thread(h) \subseteq Nat /\ Len(results) \in Nat
      BY <1>0 DEF Thread, TeamsTypes
    <3>4. Sweep(h) \in Sweeps /\ Sweep(h).from <= Len(results) /\ mid[h] # 0
      <4>1. CASE sweep[h] = Nothing
        <5>1. Sweep(h) = [from |-> Len(results), unread |-> Thread(h)]
          BY <4>1 DEF Sweep
        <5> QED BY <3>2, <3>3, <5>1 DEF Sweeps, Thread
      <4>2. CASE sweep[h] # Nothing
        BY <1>0, <4>2 DEF Sweep, Threads, AnswerTypes
      <4> QED BY <4>1, <4>2
    <3>5. s \in Sweeps /\ s.from = Sweep(h).from /\ s.unread = Sweep(h).unread \ read
      BY <3>1, <3>4 DEF Sweeps
    <3>6. \A r \in Thread(h) : r <= s.from => r \in s.unread \/ (c # 0 /\ c <= r)
      BY <2>1, <2>2, <3>5, BestCovers
    <3> QED BY <1>1, <1>2, <1>3, <2>3, <3>2, <3>4, <3>5, <3>6, KeepInv
  <2> QED BY <1>5, <2>4, <2>5, <2>6
<1> QED BY <1>4, <1>5

-----------------------------------------------------------------------------
\* A task is posted.

LEMMA PostInv ==
  ASSUME Inv, Post
  PROVE  Inv'
<1>0. /\ TypeOK /\ Ledger /\ Letters /\ Book /\ Slips /\ Places /\ Budget /\ Threads
      /\ ChannelTypes /\ TeamsTypes /\ RowTypes /\ AnswerTypes /\ ProcessTypes /\ OperatorTypes
  BY DEF Inv, TypeOK
<1>1. PICK a \in Task : /\ phase[a] = "queued" /\ at' = a /\ flight' = flight \cup {a}
                        /\ phase' = [phase EXCEPT ![a] = "posting"]
  BY DEF Post, InPhase
<1>2. /\ UNCHANGED <<feed, sent, synced, posts, results, cursor, fs, rev, mid, late, result,
                     sweep, cand, pending, reposts, abandoned, work, scanned, roots>>
      /\ pc = "post" /\ pc' = "sending" /\ mark' = Len(posts) /\ Room
  BY DEF Post, PostFrame, channelVars, operatorVars, fsVars, answerVars, postVars
<1>3. phase'[a] = "posting" /\ \A t \in Task \ {a} : phase'[t] = phase[t]
  BY <1>0, <1>1 DEF RowTypes
<1>4. Cardinality(InPhase(Active))' <= MaxOutstanding
  <2> DEFINE A == InPhase(Active)
             B == {t \in Task : phase'[t] \in Active}
  <2>1. B = A \cup {a} /\ a \notin A /\ Cardinality(A)' = Cardinality(B)
    BY <1>1, <1>3 DEF InPhase, Active
  <2>2. A \in SUBSET {t \in Task : phase[t] # "none"} /\ IsFiniteSet({t \in Task : phase[t] # "none"})
    BY <1>0 DEF InPhase, Active, Book
  <2>3. Cardinality(A) < MaxOutstanding
    BY <1>2 DEF Room, Occupied
  <2> HIDE DEF A, B
  <2>4. IsFiniteSet(A)
    BY <2>2, FS_Subset
  <2>5. Cardinality(B) = Cardinality(A) + 1 /\ Cardinality(A) \in Nat
    BY <2>1, <2>4, FS_AddElement, FS_CardinalityType
  <2>6. Cardinality(A)' <= MaxOutstanding
    BY <2>1, <2>3, <2>5, BridgeAssumption
  <2> QED BY <2>6 DEF A
<1>5. RowTypes' /\ Book'
  <2>1. "posting" \in Active \cup {"queued", "rejected", "resulted"} /\ phase[a] # "none"
    BY <1>1 DEF Active
  <2> QED BY <1>1, <1>2, <1>4, <2>1, RowMoved
<1>6. TeamsTypes'
  BY <1>0, <1>1, <1>2 DEF TeamsTypes
<1>7. ProcessTypes'
  <2>1. mark' \in 0..Len(posts')
    BY <1>0, <1>2 DEF TeamsTypes
  <2> QED BY <1>0, <1>1, <1>2, <2>1 DEF ProcessTypes
<1>8. Places'
  BY <1>0, <1>1, <1>2, <1>3 DEF Places
<1>9. Budget'
  <2>1. ASSUME NEW t \in Task
        PROVE  Sendings(t)' <= reposts'[t] + (IF Unsent(t)' THEN 0 ELSE 1)
    <3>1. /\ Count(posts, t) \in Nat /\ reposts[t] \in Nat /\ posts' = posts
          /\ reposts' = reposts /\ abandoned' = abandoned
      BY <1>0, <1>2, CountMore, BridgeAssumption DEF TeamsTypes, OperatorTypes
    <3>2. /\ Sendings(t) = Count(posts, t) + (IF t \in flight THEN 1 ELSE 0)
          /\ Sendings(t)' = Count(posts, t) + (IF t \in flight' THEN 1 ELSE 0)
      BY <1>2, SendingsAre
    <3>3. Sendings(t) <= reposts[t] + (IF Unsent(t) THEN 0 ELSE 1)
      BY <1>0 DEF Budget
    <3>4. CASE t = a
      <4>1. Unsent(t) /\ ~Unsent(t)'
        BY <1>1, <1>3, <3>4 DEF Unsent
      <4> QED BY <3>1, <3>2, <3>3, <4>1
    <3>5. CASE t # a
      <4>1. Unsent(t)' = Unsent(t) /\ (t \in flight' <=> t \in flight)
        BY <1>1, <1>3, <3>1, <3>5 DEF Unsent
      <4> QED BY <3>1, <3>2, <3>3, <4>1
    <3> QED BY <3>4, <3>5
  <2> QED BY <2>1 DEF Budget
<1>10. Threads'
  <2>1. mid' = [mid EXCEPT ![a] = mid[a]] /\ mid[a] = 0
    BY <1>0, <1>1, <1>2 DEF AnswerTypes, Threads
  <2>2. "posting" \in Active \cup {"queued", "rejected"}
    BY DEF Active
  <2> QED BY <1>1, <1>2, <2>1, <2>2, ThreadsMoved
<1> QED BY <1>0, <1>2, <1>5, <1>6, <1>7, <1>8, <1>9, <1>10, TypesKept, PartsKept DEF Inv, TypeOK

\* The row whose message may have been posted is settled, by the answer to the request or by
\* an operator; one that is refused, or was never dispatched, may be posted again.
LEMMA SettledInv ==
  ASSUME Inv, NEW a \in Task, NEW p \in Active \cup {"queued", "rejected"}, NEW m \in 0..Len(posts),
         UNCHANGED <<feed, sent, synced, posts, results, cursor, fs, rev, result, sweep, cand,
                     pending>>,
         phase' = [phase EXCEPT ![a] = p], mid' = [mid EXCEPT ![a] = m],
         late' \in [Task -> BOOLEAN], flight' \subseteq flight,
         ProcessTypes', Places', OperatorTypes',
         phase[a] # "none", p \in Active => phase[a] \in Active,
         p \in {"queued", "posting", "ambiguous"} => m = 0,
         m = mid[a] \/ mid[a] = 0,
         \A t \in Task \ {a} : reposts'[t] = reposts[t] /\ (t \in abandoned' <=> t \in abandoned),
         Sendings(a)' <= reposts'[a] + (IF Unsent(a)' THEN 0 ELSE 1)
  PROVE  Inv'
<1>0. /\ TypeOK /\ Ledger /\ Letters /\ Book /\ Slips /\ Places /\ Budget /\ Threads
      /\ ChannelTypes /\ TeamsTypes /\ RowTypes /\ AnswerTypes /\ ProcessTypes /\ OperatorTypes
  BY DEF Inv, TypeOK
<1>1. RowTypes' /\ Book'
  BY RowMoved
<1>2. Threads'
  BY ThreadsMoved
<1>3. AnswerTypes'
  BY <1>0 DEF AnswerTypes
<1>4. TeamsTypes'
  BY <1>0 DEF TeamsTypes
<1>5. Budget'
  <2>1. ASSUME NEW t \in Task, t # a
        PROVE  Sendings(t)' <= reposts'[t] + (IF Unsent(t)' THEN 0 ELSE 1)
    <3>1. Sendings(t) \in Nat /\ Sendings(t)' \in Nat /\ Sendings(t)' <= Sendings(t)
      BY <1>0, FewerSendings DEF TeamsTypes
    <3>2. phase'[t] = phase[t] /\ reposts'[t] = reposts[t] /\ reposts[t] \in Nat
      BY <1>0, <2>1, BridgeAssumption DEF RowTypes, OperatorTypes
    <3>3. Unsent(t)' = Unsent(t)
      BY <2>1, <3>2 DEF Unsent
    <3> QED BY <1>0, <3>1, <3>2, <3>3 DEF Budget
  <2> QED BY <2>1 DEF Budget
<1> QED BY <1>0, <1>1, <1>2, <1>3, <1>4, <1>5, TypesKept, PartsKept DEF Inv, TypeOK
LEMMA RequestInv ==
  ASSUME Inv, Answered \/ Refused \/ Unknown
  PROVE  Inv'
<1>0. /\ TypeOK /\ Places /\ Budget /\ Threads
      /\ TeamsTypes /\ RowTypes /\ AnswerTypes /\ ProcessTypes /\ OperatorTypes
  BY DEF Inv, TypeOK
<1>1. /\ PostFrame /\ pc = "sending" /\ pc' = "reports" /\ at' = Nothing /\ mark' = 0
      /\ UNCHANGED <<feed, sent, synced, posts, results, cursor, fs, rev, result, sweep, cand,
                     pending, reposts, abandoned, work, scanned, roots>>
  BY DEF Answered, Refused, Unknown, Sent, PostFrame, channelVars, operatorVars, fsVars,
         answerVars
<1>2. PICK a \in Task : a = at /\ phase[a] = "posting" /\ mid[a] = 0
  BY <1>0, <1>1 DEF Places, Threads
<1>3. Len(posts) \in Nat /\ DOMAIN posts = 1..Len(posts) /\ mark \in 0..Len(posts)
  BY <1>0 DEF TeamsTypes, ProcessTypes
<1>4. ProcessTypes'
  <2>1. mark' \in 0..Len(posts')
    BY <1>1, <1>3
  <2> QED BY <1>0, <1>1, <2>1 DEF ProcessTypes
<1>5. ASSUME NEW p \in {"posted", "queued", "rejected", "ambiguous"},
             phase' = [phase EXCEPT ![a] = p]
      PROVE  Places'
  <2>1. \A t \in Task : pending[t] # Nothing => pending[t].seq # 0
    BY <1>0, <1>1 DEF Places
  <2> QED BY <1>1, <2>1 DEF Places
<1>6. /\ Sendings(a) = Count(posts, a) + (IF a \in flight THEN 1 ELSE 0)
      /\ Sendings(a)' = Count(posts, a) + (IF a \in flight' THEN 1 ELSE 0)
      /\ Count(posts, a) \in Nat /\ reposts[a] \in Nat
      /\ Sendings(a) <= reposts[a] + 1
  <2>1. Sendings(a) <= reposts[a] + 1
    BY <1>0, <1>2 DEF Budget, Unsent
  <2>2. Count(posts, a) \in Nat /\ reposts[a] \in Nat
    BY <1>0, CountMore, BridgeAssumption DEF TeamsTypes, OperatorTypes
  <2> QED BY <1>1, <2>1, <2>2, SendingsAre
<1>7. OperatorTypes'
  BY <1>0, <1>1, TypesKept
<1>8. CASE Answered
  <2>1. PICK i \in (mark + 1)..Len(posts) : mid' = [mid EXCEPT ![a] = i]
    BY <1>2, <1>8 DEF Answered
  <2>2. /\ phase' = [phase EXCEPT ![a] = "posted"] /\ flight' = flight
        /\ late' \in [Task -> BOOLEAN] /\ i \in 0..Len(posts)
    BY <1>0, <1>2, <1>3, <1>8 DEF Answered, Sent, AnswerTypes
  <2>3. "posted" \in Active \cup {"queued", "rejected"} /\ phase[a] \in Active
    BY <1>2 DEF Active
  <2>4. Sendings(a)' <= reposts'[a] + (IF Unsent(a)' THEN 0 ELSE 1)
    <3>1. ~Unsent(a)'
      BY <1>0, <2>2 DEF Unsent, RowTypes
    <3> QED BY <1>1, <1>6, <2>2, <3>1
  <2>5. Places'
    BY <1>5, <2>2
  <2> QED BY <1>1, <1>2, <1>4, <1>7, <2>1, <2>2, <2>3, <2>4, <2>5, SettledInv
<1>9. CASE Refused \/ Unknown
  <2>1. PICK p \in {"queued", "rejected", "ambiguous"} :
          /\ phase' = [phase EXCEPT ![a] = p]
          /\ p # "ambiguous" => a \in flight /\ flight' = flight \ {a}
          /\ p = "ambiguous" => flight' = flight
          /\ UNCHANGED <<mid, late>>
    BY <1>2, <1>9 DEF Refused, Unknown, Sent, postVars
  <2>2. /\ mid' = [mid EXCEPT ![a] = 0] /\ 0 \in 0..Len(posts) /\ late' \in [Task -> BOOLEAN]
    BY <1>0, <1>2, <1>3, <2>1 DEF AnswerTypes
  <2>3. p \in Active \cup {"queued", "rejected"} /\ phase[a] \in Active
    BY <1>2, <2>1 DEF Active
  <2>4. Sendings(a)' <= reposts'[a] + (IF Unsent(a)' THEN 0 ELSE 1)
    <3>1. p = "ambiguous" => ~Unsent(a)'
      BY <1>0, <2>1 DEF Unsent, RowTypes
    <3>2. CASE p = "ambiguous"
      BY <1>1, <1>6, <2>1, <3>1, <3>2
    <3>3. CASE p # "ambiguous"
      BY <1>1, <1>6, <2>1, <3>3
    <3> QED BY <3>2, <3>3
  <2>5. Places'
    BY <1>5, <2>1
  <2>6. flight' \subseteq flight
    BY <2>1
  <2> QED BY <1>1, <1>2, <1>4, <1>7, <2>1, <2>2, <2>3, <2>4, <2>5, <2>6, SettledInv
<1> QED BY <1>8, <1>9

LEMMA OperatorInv ==
  ASSUME Inv, NEW a \in Task, Abandon(a) \/ Repost(a) \/ Adopt(a)
  PROVE  Inv'
<1>0. /\ TypeOK /\ Places /\ Budget /\ Threads
      /\ TeamsTypes /\ RowTypes /\ AnswerTypes /\ ProcessTypes /\ OperatorTypes
  BY DEF Inv, TypeOK
<1>1. /\ pc = "down"
      /\ UNCHANGED <<feed, sent, synced, posts, results, flight, cursor, fs, rev, result, sweep,
                     cand, pending, pc, work, at, mark, scanned, roots>>
      /\ UNCHANGED procVars
  BY DEF Abandon, Repost, Adopt, Resolving, channelVars, teamsVars, procVars, fsVars, answerVars
<1>2. Len(posts) \in Nat /\ DOMAIN posts = 1..Len(posts) /\ phase \in [Task -> Phases]
      /\ mid \in [Task -> 0..Len(posts)] /\ mid[a] \in 0..Len(posts)
  BY <1>0 DEF TeamsTypes, RowTypes, AnswerTypes
<1>3. ProcessTypes'
  BY <1>0, <1>1, TypesKept
<1>4. Places'
  BY <1>1 DEF Places
<1>5. /\ Sendings(a)' = Sendings(a) /\ Sendings(a) \in Nat /\ reposts[a] \in Nat
      /\ Sendings(a) <= reposts[a] + 1
  <2>1. Sendings(a)' = Sendings(a)
    BY <1>1 DEF Sendings, Count
  <2>2. Sendings(a) \in Nat
    BY <1>0, <1>1, FewerSendings DEF TeamsTypes
  <2>3. reposts[a] \in Nat
    BY <1>0, BridgeAssumption DEF OperatorTypes
  <2>4. Sendings(a) <= reposts[a] + (IF Unsent(a) THEN 0 ELSE 1)
    BY <1>0 DEF Budget
  <2> QED BY <2>1, <2>2, <2>3, <2>4
<1>6. CASE Abandon(a)
  <2>1. /\ phase[a] \in {"queued"} \cup Active /\ phase' = [phase EXCEPT ![a] = "rejected"]
        /\ UNCHANGED <<mid, late, reposts>> /\ abandoned' = abandoned \cup {a}
    BY <1>6 DEF Abandon, Abandonable, postVars
  <2>2. OperatorTypes' /\ late' \in [Task -> BOOLEAN]
    BY <1>0, <2>1 DEF OperatorTypes, AnswerTypes
  <2>3. mid' = [mid EXCEPT ![a] = mid[a]]
    BY <1>2, <2>1
  <2>4. /\ "rejected" \in Active \cup {"queued", "rejected"} /\ "rejected" \notin Active
        /\ phase[a] # "none"
    BY <2>1 DEF Active
  <2>5. Sendings(a)' <= reposts'[a] + (IF Unsent(a)' THEN 0 ELSE 1)
    <3>1. ~Unsent(a)'
      BY <1>2, <2>1 DEF Unsent
    <3> QED BY <1>5, <2>1, <3>1
  <2>6. \A t \in Task \ {a} : reposts'[t] = reposts[t] /\ (t \in abandoned' <=> t \in abandoned)
    BY <2>1
  <2> QED BY <1>1, <1>2, <1>3, <1>4, <2>1, <2>2, <2>3, <2>4, <2>5, <2>6, SettledInv
<1>7. CASE Repost(a)
  <2>1. /\ phase[a] \in {"posting", "ambiguous"} /\ mid[a] = 0 /\ reposts[a] < MaxReposts
        /\ phase' = [phase EXCEPT ![a] = "queued"]
        /\ UNCHANGED <<mid, late, abandoned>> /\ reposts' = [reposts EXCEPT ![a] = @ + 1]
    BY <1>7 DEF Repost, Unresolved, postVars
  <2>2. OperatorTypes' /\ late' \in [Task -> BOOLEAN]
    <3>1. reposts[a] + 1 \in 0..MaxReposts
      BY <1>5, <2>1, BridgeAssumption
    <3> QED BY <1>0, <2>1, <3>1 DEF OperatorTypes, AnswerTypes
  <2>3. mid' = [mid EXCEPT ![a] = 0] /\ 0 \in 0..Len(posts)
    BY <1>2, <2>1
  <2>4. "queued" \in Active \cup {"queued", "rejected"} /\ "queued" \notin Active
        /\ phase[a] # "none"
    BY <2>1 DEF Active
  <2>5. Sendings(a)' <= reposts'[a] + (IF Unsent(a)' THEN 0 ELSE 1)
    <3>1. reposts'[a] = reposts[a] + 1
      BY <1>0, <2>1 DEF OperatorTypes
    <3> QED BY <1>5, <3>1
  <2>6. \A t \in Task \ {a} : reposts'[t] = reposts[t] /\ (t \in abandoned' <=> t \in abandoned)
    BY <1>0, <2>1 DEF OperatorTypes
  <2> QED BY <1>1, <1>2, <1>3, <1>4, <2>1, <2>2, <2>3, <2>4, <2>5, <2>6, SettledInv
<1>8. CASE Adopt(a)
  <2>1. PICK i \in DOMAIN posts : mid' = [mid EXCEPT ![a] = i]
    BY <1>8 DEF Adopt
  <2>2. /\ phase[a] \in {"posting", "ambiguous"} /\ mid[a] = 0
        /\ phase' = [phase EXCEPT ![a] = "posted"]
        /\ late' = [late EXCEPT ![a] = FALSE] /\ UNCHANGED <<reposts, abandoned>>
    BY <1>8 DEF Adopt, Unresolved, operatorVars
  <2>3. OperatorTypes' /\ late' \in [Task -> BOOLEAN] /\ i \in 0..Len(posts)
    <3>1. i \in 0..Len(posts)
      BY <1>2
    <3>2. late' \in [Task -> BOOLEAN]
      BY <1>0, <2>2 DEF AnswerTypes
    <3> QED BY <1>0, <2>2, <3>1, <3>2, TypesKept
  <2>4. "posted" \in Active \cup {"queued", "rejected"} /\ phase[a] \in Active /\ phase[a] # "none"
    BY <2>2 DEF Active
  <2>5. Sendings(a)' <= reposts'[a] + (IF Unsent(a)' THEN 0 ELSE 1)
    <3>1. ~Unsent(a)'
      BY <1>2, <2>2 DEF Unsent
    <3> QED BY <1>5, <2>2, <3>1
  <2> QED BY <1>1, <1>2, <1>3, <1>4, <2>1, <2>2, <2>3, <2>4, <2>5, SettledInv
<1> QED BY <1>6, <1>7, <1>8
-----------------------------------------------------------------------------
\* A report is queued.

\* What is reported follows from what is known, and a completed one from an answer.
LEMMA StepIs ==
  ASSUME Inv, NEW h \in Task, phase[h] \in Reportable, ToReport(h)
  PROVE  Step(h) \in Statuses /\ rev[h] \in Nat /\ Founded(h, Step(h), rev[h])
<1>0. Book /\ Threads /\ RowTypes
  BY DEF Inv, TypeOK
<1> DEFINE s == Step(h)
<1>1. s \in Transitions[fs[h]] /\ s \in {Target(h), "running"}
  BY DEF ToReport, Step
<1>2. Target(h) = "completed" => Told(h, "completed")
  <2>1. CASE phase[h] = "rejected"
    BY <2>1 DEF Target
  <2>2. CASE phase[h] \in Active
    BY <2>2 DEF Target, Active
  <2>3. CASE phase[h] = "resulted"
    <3>1. Target(h) = results[result[h]].status
      BY <2>3 DEF Target, Active
    <3>2. Answer(h, result[h])
      BY <1>0, <2>3 DEF Threads
    <3> QED BY <3>1, <3>2 DEF Answer, Told
  <2> QED BY <2>1, <2>2, <2>3 DEF Reportable
<1>3. fs[h] \in Statuses /\ rev[h] \in 0..cursor /\ cursor \in Nat
  BY <1>0 DEF RowTypes
<1>4. s \in Statuses /\ fs[h] # "none"
  BY <1>1, <1>3, StatusFacts
<1>5. rev[h] \in Accepted(h) /\ fs[h] = feed[rev[h]].status
  BY <1>0, <1>4 DEF Book
<1> HIDE DEF s
<1>6. Founded(h, s, rev[h])
  BY <1>1, <1>2, <1>3, <1>5 DEF Founded
<1> QED BY <1>3, <1>4, <1>6 DEF s

LEMMA IntendInv ==
  ASSUME Inv, Intend
  PROVE  Inv'
<1>0. /\ TypeOK /\ Ledger /\ Letters /\ Book /\ Slips /\ Places /\ Budget /\ Threads
      /\ ChannelTypes /\ TeamsTypes /\ RowTypes /\ AnswerTypes /\ ProcessTypes /\ OperatorTypes
  BY DEF Inv, TypeOK
<1>1. /\ UNCHANGED <<feed, sent, synced, posts, results, flight, cursor, phase, fs, rev, mid,
                     late, result, sweep, cand, reposts, abandoned, work, at, mark, scanned, roots>>
      /\ pc = "report" /\ pc' = "queue" /\ work # <<>> /\ ~Backlogged
      /\ ~Waiting(Here) /\ (pending[Here] # Nothing \/ ToReport(Here))
  BY DEF Intend, Reporting, Goto, Outside, channelVars, teamsVars, operatorVars, fsVars,
         postVars, answerVars
<1>2. PICK h \in Task : h = Here /\ h = work[1] /\ 1 \in DOMAIN work
  BY <1>0, <1>1, Rest DEF ProcessTypes
<1>3. \A t \in Task : pending[t] # Nothing => pending[t] \in Reports /\ pending[t].seq # 0
  BY <1>0, <1>1 DEF Places, RowTypes
<1>4. pending[h] = Nothing /\ ToReport(h)
  BY <1>1, <1>2, <1>3 DEF Waiting, Reports
<1>5. phase[h] \in Reportable
  BY <1>0, <1>1, <1>2 DEF Places
<1>6. PICK s \in Statuses : s = Step(h) /\ rev[h] \in Nat /\ Founded(h, s, rev[h])
  BY <1>4, <1>5, StepIs
<1> DEFINE q == [status |-> s, rev |-> rev[h], seq |-> 0]
<1>7. q \in Reports /\ q # Nothing
  BY <1>6, NothingAssumption DEF Reports, Statuses
<1>8. pending' = [pending EXCEPT ![h] = q]
  BY <1>1, <1>2, <1>4, <1>6 DEF Intend
<1>9. /\ pending'[h] = q /\ q.status = s /\ q.rev = rev[h] /\ q.seq = 0
      /\ \A t \in Task \ {h} : pending'[t] = pending[t]
  BY <1>0, <1>8 DEF RowTypes
<1> HIDE DEF q
<1>10. RowTypes'
  BY <1>0, <1>1, <1>7, <1>8 DEF RowTypes, InPhase
<1>11. ProcessTypes'
  BY <1>0, <1>1 DEF ProcessTypes
<1>12. Here' = h /\ Backlogged' = Backlogged
  BY <1>1, <1>2 DEF Here, Backlogged
<1>13. Places'
  <2>1. \A t \in Task : pending'[t] # Nothing /\ pending'[t].seq = 0 => t = h
    BY <1>3, <1>9
  <2>2. \A i \in DOMAIN work' : phase'[work'[i]] \in Reportable
    BY <1>0, <1>1 DEF Places
  <2> QED BY <1>1, <1>7, <1>9, <1>12, <2>1, <2>2 DEF Places
<1>14. Slips'
  <2>1. \A t \in Task \ {h} : Message(t)' = Message(t)
    BY <1>9 DEF Message
  <2>2. Message(h)' = [task |-> h, status |-> s, rev |-> rev[h]]
    BY <1>9 DEF Message
  <2>3. Heard' = Heard
    BY <1>1 DEF Heard, ByBridge
  <2>4. \A t, k, n : Founded(t, k, n)' = Founded(t, k, n)
    BY <1>1 DEF Founded, Told, Accepted
  <2>5. ASSUME NEW t \in Task, t # h, pending'[t] # Nothing
        PROVE  /\ Founded(t, pending[t].status, pending[t].rev)
               /\ pending[t].seq > 0 =>
                    pending[t].seq \in DOMAIN sent /\ sent[pending[t].seq] = Message(t)
               /\ \A i \in Heard : sent[feed[i].seq] # Message(t)
    BY <1>0, <1>9, <2>5 DEF Slips
  <2>6. ASSUME NEW i \in Heard PROVE sent[feed[i].seq] # Message(h)'
    <3>1. SUFFICES ASSUME sent[feed[i].seq] = Message(h)' PROVE FALSE
      OBVIOUS
    <3>2. sent[feed[i].seq].rev < rev[sent[feed[i].seq].task]
      BY <1>0 DEF Slips
    <3> QED BY <1>6, <2>2, <3>1, <3>2
  <2>7. ASSUME NEW t \in Task, pending'[t] # Nothing
        PROVE  /\ Founded(t, pending'[t].status, pending'[t].rev)
               /\ pending'[t].seq > 0 =>
                    pending'[t].seq \in DOMAIN sent /\ sent[pending'[t].seq] = Message(t)'
               /\ \A i \in Heard : sent[feed[i].seq] # Message(t)'
    <3>1. CASE t = h
      BY <1>6, <1>9, <2>6, <3>1
    <3>2. CASE t # h
      BY <1>9, <2>1, <2>5, <2>7, <3>2
    <3> QED BY <3>1, <3>2
  <2>8. \A i \in Heard : sent[feed[i].seq].rev < rev[sent[feed[i].seq].task]
    BY <1>0 DEF Slips
  <2>9. ASSUME NEW t \in Task, pending'[t] # Nothing
        PROVE  /\ pending'[t].rev \in Accepted(t) /\ pending'[t].rev <= cursor
               /\ pending'[t].status \in Transitions[feed[pending'[t].rev].status]
               /\ pending'[t].status = "completed" => Told(t, pending'[t].status)
    BY <2>7, <2>9 DEF Founded
  <2> QED BY <1>1, <2>3, <2>7, <2>8, <2>9 DEF Slips, Founded, Told, Accepted
<1> QED BY <1>0, <1>1, <1>10, <1>11, <1>13, <1>14, TypesKept, PartsKept DEF Inv, TypeOK
LEMMA QueueInv ==
  ASSUME Inv, Queue
  PROVE  Inv'
<1>0. /\ TypeOK /\ Ledger /\ Letters /\ Book /\ Slips /\ Places /\ Budget /\ Threads
      /\ ChannelTypes /\ TeamsTypes /\ RowTypes /\ AnswerTypes /\ ProcessTypes /\ OperatorTypes
  BY DEF Inv, TypeOK
<1>1. /\ UNCHANGED <<feed, synced, posts, results, flight, cursor, phase, fs, rev, mid, late,
                     result, sweep, cand, pending, reposts, abandoned, work, at, mark, scanned,
                     roots>>
      /\ pc = "queue" /\ pc' = "number"
  BY DEF Queue, Goto, teamsVars, operatorVars, rowVars, fsVars, postVars, answerVars
<1>2. PICK h \in Task : h = Here /\ h = work[1] /\ 1 \in DOMAIN work
  <2>1. work # <<>>
    BY <1>0, <1>1 DEF Places
  <2> QED BY <1>0, <2>1, Rest DEF ProcessTypes
<1>3. /\ pending[h] # Nothing /\ pending[h] \in Reports /\ pending[h].seq = 0
      /\ Founded(h, pending[h].status, pending[h].rev) /\ ~Backlogged /\ work # <<>>
  BY <1>0, <1>1, <1>2 DEF Places, Slips, RowTypes
<1>4. PICK m \in Messages : /\ m = Message(h) /\ m.task = h /\ m.status = pending[h].status
                            /\ m.rev = pending[h].rev
  <2>1. Message(h) = [task |-> h, status |-> pending[h].status, rev |-> pending[h].rev]
    BY DEF Message
  <2>2. pending[h].status \in Statuses /\ pending[h].rev \in Nat
    BY <1>3 DEF Reports
  <2> QED BY <2>1, <2>2 DEF Messages
<1>5. sent' = IF m \in ToSet(sent) THEN sent ELSE Append(sent, m)
  BY <1>2, <1>4 DEF Queue
<1>6. /\ sent' \in Seq(Messages) /\ Len(sent') \in Nat /\ DOMAIN sent' = 1..Len(sent')
      /\ Len(sent) \in Nat /\ DOMAIN sent = 1..Len(sent)
      /\ \A n \in DOMAIN sent : n \in DOMAIN sent' /\ sent'[n] = sent[n]
      /\ \A n \in DOMAIN sent' \ DOMAIN sent : n = Len(sent) + 1 /\ sent'[n] = m
                                              /\ m \notin ToSet(sent)
      /\ Len(sent') = Len(sent) \/ Len(sent') = Len(sent) + 1
      /\ m \in ToSet(sent')
  <2>1. CASE m \in ToSet(sent)
    <3>1. sent' = sent
      BY <1>5, <2>1
    <3> QED BY <1>0, <2>1, <3>1 DEF ChannelTypes
  <2>2. CASE m \notin ToSet(sent)
    <3>1. sent' = Append(sent, m)
      BY <1>5, <2>2
    <3>2. /\ sent' \in Seq(Messages) /\ Len(sent') = Len(sent) + 1 /\ Len(sent) \in Nat
          /\ DOMAIN sent = 1..Len(sent) /\ DOMAIN sent' = 1..(Len(sent) + 1)
          /\ \A n \in 1..Len(sent) : sent'[n] = sent[n]
          /\ sent'[Len(sent) + 1] = m
      BY <1>0, <3>1, Grown DEF ChannelTypes
    <3>3. m \in ToSet(sent')
      BY <3>2 DEF ToSet
    <3> QED BY <2>2, <3>2, <3>3
  <2> QED BY <2>1, <2>2
<1>7. ChannelTypes'
  <2>1. Admitted' = Admitted
    BY <1>1 DEF Admitted
  <2>2. synced \in Nat /\ MaxPending \in Nat /\ synced <= Len(sent) /\ Len(sent) - synced < MaxPending
    <3>1. synced \in Nat /\ MaxPending \in Nat /\ synced <= Len(sent) /\ Len(sent) \in Nat
      BY <1>0, BridgeAssumption DEF ChannelTypes
    <3>2. ~(Len(sent) - synced >= MaxPending)
      BY <1>3 DEF Backlogged
    <3> QED BY <3>1, <3>2
  <2>3. synced <= Len(sent') /\ Len(sent') - synced <= MaxPending
    <3>1. /\ Len(sent') \in Nat /\ Len(sent) \in Nat
          /\ Len(sent') = Len(sent) \/ Len(sent') = Len(sent) + 1
      BY <1>6
    <3> QED BY <2>2, <3>1
  <2> QED BY <1>0, <1>1, <1>6, <2>1, <2>3 DEF ChannelTypes
<1>8. ProcessTypes'
  BY <1>0, <1>1 DEF ProcessTypes
<1>9. \A i \in DOMAIN feed : ByBridge(i) => Explained(i) /\ feed[i].seq \in DOMAIN sent
                                            /\ sent'[feed[i].seq] = sent[feed[i].seq]
  BY <1>0, <1>6 DEF Ledger, Explained
<1>10. Ledger'
  <2>1. ASSUME NEW i \in DOMAIN feed, ByBridge(i) PROVE Explained(i)'
    <3>1. Explained(i) /\ feed[i].seq \in DOMAIN sent /\ feed[i].seq \in DOMAIN sent'
          /\ sent'[feed[i].seq] = sent[feed[i].seq]
      BY <1>6, <1>9, <2>1
    <3> QED BY <1>1, <3>1 DEF Explained, Accepted
  <2>2. \A t \in Task : \A i, j \in Accepted(t) : i < j => feed[i].status \notin Closing
    BY <1>0 DEF Ledger
  <2> QED BY <1>1, <2>1, <2>2 DEF Ledger, Accepted, ByBridge
<1>11. Letters'
  <2>1. ASSUME NEW n \in DOMAIN sent'
        PROVE  Founded(sent'[n].task, sent'[n].status, sent'[n].rev)
    <3>1. CASE n \in DOMAIN sent
      BY <1>0, <1>6, <3>1 DEF Letters
    <3>2. CASE n \notin DOMAIN sent
      BY <1>3, <1>4, <1>6, <3>2
    <3> QED BY <3>1, <3>2
  <2>2. ASSUME NEW i \in DOMAIN sent', NEW j \in DOMAIN sent', sent'[i] = sent'[j] PROVE i = j
    <3>1. \A n \in DOMAIN sent : sent[n] \in ToSet(sent)
      BY DEF ToSet
    <3>2. CASE i \in DOMAIN sent /\ j \in DOMAIN sent
      <4>1. sent[i] = sent[j]
        BY <1>6, <2>2, <3>2
      <4> QED BY <1>0, <3>2, <4>1 DEF Letters
    <3>3. CASE i \in DOMAIN sent /\ j \notin DOMAIN sent
      BY <1>6, <2>2, <3>1, <3>3
    <3>4. CASE i \notin DOMAIN sent /\ j \in DOMAIN sent
      BY <1>6, <2>2, <3>1, <3>4
    <3>5. CASE i \notin DOMAIN sent /\ j \notin DOMAIN sent
      <4>1. \A n \in DOMAIN sent' : n \notin DOMAIN sent => n = Len(sent) + 1
        BY <1>6
      <4> QED BY <3>5, <4>1
    <3> QED BY <3>2, <3>3, <3>4, <3>5
  <2>3. \A n \in DOMAIN sent' : Founded(sent'[n].task, sent'[n].status, sent'[n].rev)
    BY <2>1
  <2> QED BY <1>1, <2>2, <2>3 DEF Letters, Founded, Told, Accepted
<1>12. Slips'
  <2>1. \A t \in Task : Message(t)' = Message(t)
    BY <1>1 DEF Message
  <2>2. Heard' = Heard /\ \A i \in Heard : sent'[feed[i].seq] = sent[feed[i].seq]
    BY <1>0, <1>1, <1>9 DEF Heard, ByBridge, RowTypes, ChannelTypes
  <2>3. ASSUME NEW t \in Task, pending[t] # Nothing
        PROVE  /\ Founded(t, pending[t].status, pending[t].rev)
               /\ pending[t].seq > 0 =>
                    pending[t].seq \in DOMAIN sent' /\ sent'[pending[t].seq] = Message(t)
               /\ \A i \in Heard : sent'[feed[i].seq] # Message(t)
    BY <1>0, <1>6, <2>2, <2>3 DEF Slips
  <2>4. \A i \in Heard : sent'[feed[i].seq].rev < rev[sent'[feed[i].seq].task]
    BY <1>0, <2>2 DEF Slips
  <2> QED BY <1>1, <2>1, <2>2, <2>3, <2>4 DEF Slips, Founded, Told, Accepted
<1>13. Places'
  <2>1. Here' = h
    BY <1>1, <1>2 DEF Here
  <2>2. Message(h)' = m
    BY <1>1, <1>4 DEF Message
  <2>3. m \in ToSet(sent')
    BY <1>6
  <2>4. Message(Here)' \in ToSet(sent')
    BY <2>1, <2>2, <2>3 DEF Message
  <2>5. \A t \in Task : pending[t] # Nothing /\ pending[t].seq = 0 => t = h
    BY <1>0, <1>1, <1>2 DEF Places
  <2>6. \A i \in DOMAIN work : phase[work[i]] \in Reportable
    BY <1>0, <1>1 DEF Places
  <2> QED BY <1>1, <1>3, <2>1, <2>4, <2>5, <2>6 DEF Places, ToSet
<1> QED BY <1>0, <1>1, <1>7, <1>8, <1>10, <1>11, <1>12, <1>13, TypesKept, PartsKept
        DEF Inv, TypeOK

LEMMA NumberInv ==
  ASSUME Inv, Number
  PROVE  Inv'
<1>0. /\ TypeOK /\ Ledger /\ Letters /\ Book /\ Slips /\ Places /\ Budget /\ Threads
      /\ ChannelTypes /\ TeamsTypes /\ RowTypes /\ AnswerTypes /\ ProcessTypes /\ OperatorTypes
  BY DEF Inv, TypeOK
<1>1. /\ UNCHANGED <<feed, sent, synced, posts, results, flight, cursor, phase, fs, rev, mid,
                     late, result, sweep, cand, reposts, abandoned, at, mark, scanned, roots>>
      /\ pc = "number" /\ pc' = "report" /\ work' = Tail(work)
  BY DEF Number, Outside, channelVars, teamsVars, operatorVars, fsVars, postVars, answerVars
<1>2. work # <<>>
  BY <1>0, <1>1 DEF Places
<1>3. PICK h \in Task : h = Here
  BY <1>0, <1>2, Rest DEF ProcessTypes
<1>4. /\ pending[h] # Nothing /\ pending[h] \in Reports /\ pending[h].seq = 0
      /\ Message(h) \in ToSet(sent)
  BY <1>0, <1>1, <1>3 DEF Places, RowTypes
<1>5. PICK k \in Nat : /\ k = NumberOf(Message(h)) /\ k > 0
                       /\ k \in DOMAIN sent /\ sent[k] = Message(h)
  BY <1>0, <1>4, NumberIs
<1>6. pending' = [pending EXCEPT ![h] = [pending[h] EXCEPT !.seq = k]]
  BY <1>0, <1>3, <1>5 DEF Number, RowTypes
<1>7. /\ pending'[h] \in Reports /\ pending'[h].status = pending[h].status
      /\ pending'[h].rev = pending[h].rev /\ pending'[h].seq = k
      /\ \A t \in Task \ {h} : pending'[t] = pending[t]
  BY <1>0, <1>4, <1>6 DEF RowTypes, Reports
<1>8. RowTypes'
  <2>1. pending' \in [Task -> Reports \cup {Nothing}]
    BY <1>0, <1>6, <1>7 DEF RowTypes
  <2> QED BY <1>0, <1>1, <2>1 DEF RowTypes, InPhase
<1>9. /\ work' \in Seq(Task)
      /\ \A i \in DOMAIN work' : i + 1 \in DOMAIN work /\ work'[i] = work[i + 1]
  BY <1>0, <1>1, <1>2, Rest DEF ProcessTypes
<1>10. ProcessTypes'
  BY <1>0, <1>1, <1>9 DEF ProcessTypes
<1>11. \A t \in Task : Message(t)' = Message(t)
  BY <1>7 DEF Message
<1>12. Slips'
  <2>1. ASSUME NEW t \in Task, pending'[t] # Nothing
        PROVE  /\ Founded(t, pending[t].status, pending[t].rev)
               /\ pending'[t].status = pending[t].status /\ pending'[t].rev = pending[t].rev
               /\ pending'[t].seq > 0 =>
                    pending'[t].seq \in DOMAIN sent /\ sent[pending'[t].seq] = Message(t)
               /\ \A i \in Heard : sent[feed[i].seq] # Message(t)
    <3>1. pending[t] # Nothing
      BY <1>4, <1>7, <2>1
    <3>2. CASE t = h
      BY <1>0, <1>5, <1>7, <3>1, <3>2 DEF Slips
    <3>3. CASE t # h
      BY <1>0, <1>7, <3>1, <3>3 DEF Slips
    <3> QED BY <3>2, <3>3
  <2>2. \A i \in Heard : sent[feed[i].seq].rev < rev[sent[feed[i].seq].task]
    BY <1>0 DEF Slips
  <2>3. Heard' = Heard
    BY <1>1 DEF Heard, ByBridge
  <2> QED BY <1>1, <1>11, <2>1, <2>2, <2>3 DEF Slips, Founded, Told, Accepted
<1>13. Places'
  <2>1. \A t \in Task : pending'[t] # Nothing => pending'[t].seq # 0
    BY <1>0, <1>1, <1>3, <1>5, <1>7 DEF Places
  <2>2. \A i \in DOMAIN work' : phase'[work'[i]] \in Reportable
    BY <1>0, <1>1, <1>9 DEF Places
  <2> QED BY <1>1, <2>1, <2>2 DEF Places
<1> QED BY <1>0, <1>1, <1>8, <1>10, <1>12, <1>13, TypesKept, PartsKept DEF Inv, TypeOK

-----------------------------------------------------------------------------
\* The invariant, and what follows from it.

LEMMA InitInv == Init => Inv
<1> SUFFICES ASSUME Init PROVE Inv
  OBVIOUS
<1> USE DEF All
<1>1. /\ feed = <<>> /\ sent = <<>> /\ synced = 0 /\ posts = <<>> /\ results = <<>>
      /\ flight = {} /\ cursor = 0 /\ pc = "down" /\ work = <<>>
      /\ {MaxOutstanding, MaxPending, MaxEvents, MaxReposts, MaxResults} \subseteq Nat
  BY BridgeAssumption DEF Init
<1>2. Cardinality({}) = 0 /\ IsFiniteSet({})
  BY FS_EmptySet
<1>3. ChannelTypes
  <2>1. Admitted = 0
    <3>1. {i \in DOMAIN feed : feed[i].by = "bridge"} = {}
      BY <1>1
    <3> QED BY <1>2, <3>1 DEF Admitted
  <2> QED BY <1>1, <2>1 DEF ChannelTypes
<1>4. TeamsTypes
  BY <1>1 DEF TeamsTypes
<1>5. RowTypes
  <2>1. InPhase(Active) = {}
    BY DEF Init, InPhase, Active
  <2>2. Cardinality(InPhase(Active)) <= MaxOutstanding
    BY <1>1, <1>2, <2>1
  <2>3. phase \in [Task -> Phases] /\ fs \in [Task -> Statuses]
    BY StatusFacts DEF Init, Phases
  <2>4. rev \in [Task -> 0..cursor] /\ pending \in [Task -> Reports \cup {Nothing}]
        /\ cursor \in 0..Len(feed)
    BY <1>1 DEF Init
  <2> QED BY <2>2, <2>3, <2>4 DEF RowTypes
<1>6. AnswerTypes
  <2>1. late \in [Task -> BOOLEAN]
    BY Zenon DEF Init
  <2>2. mid \in [Task -> 0..Len(posts)] /\ result \in [Task -> 0..Len(results)]
        /\ cand \in [Task -> 0..Len(results)] /\ sweep \in [Task -> Sweeps \cup {Nothing}]
    BY <1>1 DEF Init
  <2> QED BY <2>1, <2>2 DEF AnswerTypes
<1>7. ProcessTypes
  <2>1. scanned \in BOOLEAN
    BY Zenon DEF Init
  <2>2. work \in Seq(Task) /\ at \in Task \cup {Nothing} /\ mark \in 0..Len(posts)
        /\ roots \subseteq DOMAIN results
    BY <1>1 DEF Init
  <2> QED BY <2>1, <2>2 DEF ProcessTypes
<1>8. OperatorTypes
  BY <1>1 DEF Init, OperatorTypes
<1>9. Ledger /\ Letters
  BY <1>1 DEF Ledger, Letters, Accepted
<1>10. Book
  <2>1. {t \in Task : phase[t] # "none"} = {} /\ ToSet(posts) = {}
    BY <1>1 DEF Init, ToSet
  <2> QED BY <1>1, <1>2, <2>1 DEF Init, Book, Accepted
<1>11. Slips /\ Places
  BY <1>1 DEF Init, Slips, Places, Heard
<1>12. Budget
  <2>1. ASSUME NEW t \in Task PROVE Sendings(t) = 0 /\ reposts[t] = 0 /\ Unsent(t)
    <3>1. {i \in DOMAIN posts : posts[i] = t} = {}
      BY <1>1
    <3>2. Count(posts, t) = 0
      BY <1>2, <3>1 DEF Count
    <3>3. Sendings(t) = 0
      BY <1>1, <3>2, SendingsAre
    <3> QED BY <3>3 DEF Init, Unsent
  <2> QED BY <2>1 DEF Budget
<1>13. Threads
  BY DEF Init, Threads
<1> QED BY <1>3, <1>4, <1>5, <1>6, <1>7, <1>8, <1>9, <1>10, <1>11, <1>12, <1>13 DEF Inv, TypeOK

LEMMA NextInv == Inv /\ [Next]_vars => Inv'
<1> SUFFICES ASSUME Inv, [Next]_vars PROVE Inv'
  OBVIOUS
<1>1. CASE Round
  <2>1. CASE Moves
    BY <2>1, MovesInv
  <2>2. CASE Recover \/ Sync
    BY <2>2, RecoverInv, SyncInv
  <2>3. CASE ApplyRejected \/ ApplyAssign \/ ApplyStatus
    BY <2>3, IngestInv
  <2>4. CASE Scan
    BY <2>4, ScanInv
  <2>5. CASE Collect
    <3>1. ReadFails => Inv'
      <4>1. {} \in SUBSET DOMAIN results
        OBVIOUS
      <4> QED BY <4>1, ReadInv
    <3>2. ASSUME NEW read \in SUBSET DOMAIN results,
                 ReadPart(read) \/ ReadAll(read) \/ TakeResult(read)
          PROVE  Inv'
      BY <3>2, ReadInv
    <3>3. Collected => Inv'
      BY MovesInv DEF Moves
    <3> QED BY <2>5, <3>1, <3>2, <3>3 DEF Collect
  <2>6. CASE Post
    BY <2>6, PostInv
  <2>7. CASE Answered \/ Refused \/ Unknown
    BY <2>7, RequestInv
  <2>8. CASE Intend \/ Queue \/ Number
    BY <2>8, IntendInv, QueueInv, NumberInv
  <2> QED BY <1>1, <2>1, <2>2, <2>3, <2>4, <2>5, <2>6, <2>7, <2>8 DEF Round, Moves
<1>2. CASE Environment
  BY <1>2, CoordinatorInv, AdmitInv, ArriveInv, LoseInv, ElapseInv, RespondInv DEF Environment
<1>3. CASE Operator
  BY <1>3, OperatorInv DEF Operator
<1>4. CASE Crash
  BY <1>4, MovesInv DEF Moves
<1>5. CASE UNCHANGED vars
  <2>1. /\ UNCHANGED <<feed, sent, synced, posts, results, flight, cursor, phase, fs, rev, mid,
                       late, result, sweep, cand, pending, reposts, abandoned>>
        /\ UNCHANGED procVars
    BY <1>5 DEF vars, channelVars, teamsVars, operatorVars, rowVars, fsVars, postVars, answerVars
  <2> QED BY <2>1, TypesKept, PartsKept DEF Inv, TypeOK
<1> QED BY <1>1, <1>2, <1>3, <1>4, <1>5 DEF Next

THEOREM InvHolds == Spec => []Inv
BY InitInv, NextInv, PTL DEF Spec
\* Every value is of its type, whatever crashes, stale reads and late answers there are.
THEOREM TypeCorrect == Spec => []TypeOK
<1>1. Inv => TypeOK
  BY DEF Inv
<1> QED BY <1>1, InvHolds, PTL

\* A task is posted once, and once more for each repost that an operator asked for.
THEOREM DispatchedOnce == Spec => []OneDispatch
<1>1. Inv => OneDispatch
  <2> SUFFICES ASSUME Inv, NEW t \in Task PROVE Sendings(t) <= 1 + reposts[t]
    BY DEF OneDispatch, Sendings
  <2>1. Sendings(t) \in Nat /\ reposts[t] \in Nat
    <3>1. Count(posts, t) \in Nat /\ reposts[t] \in Nat
      BY CountMore, BridgeAssumption DEF Inv, TypeOK, TeamsTypes, OperatorTypes
    <3> QED BY <3>1, SendingsAre
  <2>2. Sendings(t) <= reposts[t] + (IF Unsent(t) THEN 0 ELSE 1)
    BY DEF Inv, Budget
  <2> QED BY <2>1, <2>2
<1> QED BY <1>1, InvHolds, PTL

\* What waits in the queue, and what the coordinator is told was refused, has not been posted.
THEOREM RefusalsAreTrue == Spec => []UndispatchedIsTrue
<1>1. Inv => UndispatchedIsTrue
  <2> SUFFICES ASSUME Inv, NEW t \in Task, phase[t] \in {"queued", "rejected"},
                      t \notin abandoned, reposts[t] = 0
               PROVE  t \notin ToSet(posts) \cup flight
    BY DEF UndispatchedIsTrue
  <2>1. Sendings(t) <= reposts[t] + (IF Unsent(t) THEN 0 ELSE 1) /\ Unsent(t)
    BY DEF Inv, Budget, Unsent
  <2>2. Sendings(t) <= 0
    BY <2>1
  <2>3. Count(posts, t) \in Nat /\ (Count(posts, t) = 0 <=> t \notin ToSet(posts))
    BY CountMore DEF Inv, TypeOK, TeamsTypes
  <2>4. Sendings(t) = Count(posts, t) + (IF t \in flight THEN 1 ELSE 0)
    BY SendingsAre
  <2> QED BY <2>2, <2>3, <2>4
<1> QED BY <1>1, InvHolds, PTL

\* No report is waited for in vain: its event is still to come.
THEOREM ReportsComeBack == Spec => []PendingIsAhead
<1>1. Inv => PendingIsAhead
  <2> SUFFICES ASSUME Inv, NEW t \in Task, Waiting(t), NEW i \in 1..cursor,
                      feed[i].by = "bridge"
               PROVE  feed[i].seq # pending[t].seq
    BY DEF PendingIsAhead
  <2>1. sent[pending[t].seq] = Message(t)
    BY DEF Inv, Slips, Waiting
  <2>2. sent[feed[i].seq] # Message(t)
    BY DEF Inv, Slips, Waiting, Heard, ByBridge
  <2> QED BY <2>1, <2>2
<1> QED BY <1>1, InvHolds, PTL

-----------------------------------------------------------------------------
\* What a step does to the rows.

\* A row that has ended is left alone, and no result is taken.
Calm(t) ==
  /\ phase[t] \in {"cancelled", "done"} =>
       phase'[t] = phase[t] /\ mid'[t] = mid[t] /\ result'[t] = result[t]
  /\ phase'[t] = "resulted" => phase[t] = "resulted"

LEMMA QuietIsCalm ==
  ASSUME UNCHANGED <<phase, mid, result>>, NEW t
  PROVE  Calm(t)
BY DEF Calm

\* Nothing is accepted about a task that has ended.
LEMMA IngestIsCalm ==
  ASSUME Inv, ApplyRejected \/ ApplyAssign \/ ApplyStatus, NEW t \in Task
  PROVE  Calm(t)
<1>0. RowTypes /\ Ledger /\ Book /\ ChannelTypes /\ phase \in [Task -> Phases]
  BY DEF Inv, TypeOK, RowTypes
<1>1. UNCHANGED <<mid, result>> /\ cursor < Len(feed)
  BY Ingested
<1>2. PICK c \in DOMAIN feed : c = cursor + 1 /\ cursor \in Nat /\ c \in Nat
  BY <1>0, <1>1 DEF ChannelTypes, RowTypes
<1>3. PICK e \in Events : e = feed[c] /\ e = Event
  BY <1>0, <1>2 DEF ChannelTypes, Event
<1>4. CASE ApplyRejected
  <2>1. phase'[t] # "stuck"
    BY IngestInv DEF Inv, Book
  <2>2. phase'[t] = phase[t]
    BY <1>4, <2>1 DEF ApplyRejected
  <2> QED BY <1>1, <2>2 DEF Calm
<1>5. CASE ApplyAssign \/ ApplyStatus
  <2>1. e.task \in Task /\ c \in Accepted(e.task)
    BY <1>2, <1>3, <1>5 DEF ApplyAssign, ApplyStatus, Accepted, Events
  <2>2. ASSUME NEW u \in Task, u = e.task PROVE phase[u] \notin {"cancelled", "done"}
    <3>1. SUFFICES ASSUME phase[u] \in {"cancelled", "done"} PROVE FALSE
      OBVIOUS
    <3>2. fs[u] \in Closing /\ rev[u] # 0
      BY <1>0, <3>1, StatusFacts DEF Book
    <3>3. rev[u] \in Accepted(u) /\ fs[u] = feed[rev[u]].status /\ rev[u] <= cursor /\ rev[u] \in Nat
      BY <1>0, <1>2, <3>2 DEF Book, RowTypes
    <3> QED BY <1>0, <1>2, <2>1, <2>2, <3>2, <3>3 DEF Ledger
  <2>3. \/ \E p : p # "resulted" /\ phase' = [phase EXCEPT ![e.task] = p]
        \/ phase' = phase
    <3>1. CASE ApplyAssign
      BY <1>3, <3>1 DEF ApplyAssign
    <3>2. CASE ApplyStatus
      <4>1. phase' = [phase EXCEPT ![e.task] =
              IF e.status \in Verdict THEN "done"
              ELSE IF e.status = "cancelled" THEN "cancelled" ELSE phase[e.task]]
        BY <1>3, <3>2 DEF ApplyStatus
      <4> QED BY <1>0, <4>1
    <3> QED BY <1>5, <3>1, <3>2
  <2> QED BY <1>0, <1>1, <2>1, <2>2, <2>3 DEF Calm
<1> QED BY <1>4, <1>5

LEMMA ScanIsCalm ==
  ASSUME Scan, NEW t \in Task
  PROVE  Calm(t)
<1>1. UNCHANGED result
  BY DEF Scan, answerVars
<1>2. CASE Unresolved(t)
  <2>1. phase'[t] \in {"posted", "ambiguous"} /\ phase[t] \notin {"cancelled", "done"}
    BY <1>2 DEF Scan, Unresolved, NotFound
  <2> QED BY <2>1 DEF Calm
<1>3. CASE ~Unresolved(t)
  <2>1. phase'[t] = phase[t] /\ mid'[t] = mid[t]
    BY <1>3 DEF Scan
  <2> QED BY <1>1, <2>1 DEF Calm
<1> QED BY <1>2, <1>3

\* The row that a step of the process is at.
LEMMA HereIsActive ==
  ASSUME Inv, Collecting
  PROVE  Here \in Task /\ phase[Here] \in Active
<1>1. work \in Seq(Task) /\ work # <<>> /\ pc = "collect"
  BY DEF Inv, TypeOK, ProcessTypes, Collecting
<1>2. Here \in Task /\ 1 \in DOMAIN work /\ Here = work[1]
  BY <1>1, Rest
<1> QED BY <1>1, <1>2 DEF Inv, Places

LEMMA OneRowIsCalm ==
  ASSUME Inv, NEW a \in Task, NEW p, phase' = [phase EXCEPT ![a] = p],
         phase[a] \notin {"cancelled", "done"}, p # "resulted", UNCHANGED result,
         mid' = mid \/ (\E m : mid' = [mid EXCEPT ![a] = m]),
         NEW t \in Task
  PROVE  Calm(t)
<1>1. phase \in [Task -> Phases] /\ mid \in [Task -> 0..Len(posts)]
  BY DEF Inv, TypeOK, RowTypes, AnswerTypes
<1>2. CASE t = a
  BY <1>1, <1>2 DEF Calm
<1>3. CASE t # a
  <2>1. phase'[t] = phase[t] /\ mid'[t] = mid[t]
    BY <1>1, <1>3
  <2> QED BY <2>1 DEF Calm
<1> QED BY <1>2, <1>3

LEMMA RowStep ==
  ASSUME Inv, Next, NEW t \in Task
  PROVE  \/ Calm(t)
         \/ t = Here /\ phase[t] \in Active
            /\ \E read \in SUBSET DOMAIN results : TakeResult(read)
<1>0. Places /\ phase \in [Task -> Phases]
  BY DEF Inv, TypeOK, RowTypes
<1>1. CASE Moves
  BY <1>1, MovesOnly, QuietIsCalm
<1>2. CASE Recover \/ Sync \/ Intend \/ Queue \/ Number
  <2>1. UNCHANGED <<phase, mid, result>>
    BY <1>2 DEF Recover, Sync, Intend, Queue, Number, rowVars, postVars, answerVars
  <2> QED BY <2>1, QuietIsCalm
<1>3. CASE ApplyRejected \/ ApplyAssign \/ ApplyStatus
  BY <1>3, IngestIsCalm
<1>4. CASE Scan
  BY <1>4, ScanIsCalm
<1>5. CASE ReadFails \/ \E read \in SUBSET DOMAIN results : ReadPart(read) \/ ReadAll(read)
  <2>1. UNCHANGED <<phase, mid, result>>
    BY <1>5 DEF ReadFails, ReadPart, ReadAll, Keep, postVars
  <2> QED BY <2>1, QuietIsCalm
<1>6. CASE \E read \in SUBSET DOMAIN results : TakeResult(read)
  <2>1. PICK read \in SUBSET DOMAIN results : TakeResult(read)
    BY <1>6
  <2>2. /\ Collecting /\ mid' = mid
        /\ phase' = [phase EXCEPT ![Here] = "resulted"]
        /\ result' = [result EXCEPT ![Here] = Best(Here, read)]
    BY <2>1 DEF TakeResult, Reading, Keep, postVars
  <2>3. Here \in Task /\ phase[Here] \in Active
    BY <2>2, HereIsActive
  <2>4. t # Here => phase'[t] = phase[t] /\ result'[t] = result[t]
    BY <1>0, <2>2, <2>3 DEF Inv, TypeOK, AnswerTypes
  <2> QED BY <1>6, <2>2, <2>3, <2>4 DEF Calm
<1>7. CASE Post
  <2>1. PICK a \in Task : phase[a] = "queued" /\ phase' = [phase EXCEPT ![a] = "posting"]
    BY <1>7 DEF Post, InPhase
  <2>2. UNCHANGED <<mid, result>>
    BY <1>7 DEF Post, PostFrame, postVars, answerVars
  <2> QED BY <2>1, <2>2, OneRowIsCalm
<1>8. CASE Answered \/ Refused \/ Unknown
  <2>1. pc = "sending"
    BY <1>8 DEF Answered, Refused, Unknown, Sent
  <2>2. PICK a \in Task : a = at /\ phase[a] = "posting"
    BY <1>0, <2>1 DEF Places
  <2>3. \E p \in {"posted", "queued", "rejected", "ambiguous"} : phase' = [phase EXCEPT ![a] = p]
    BY <1>8, <2>2 DEF Answered, Refused, Unknown, Sent
  <2>4. mid' = mid \/ (\E m : mid' = [mid EXCEPT ![a] = m])
    BY <1>8, <2>2 DEF Answered, Refused, Unknown, postVars
  <2>5. UNCHANGED result
    BY <1>8 DEF Answered, Refused, Unknown, Sent, PostFrame, answerVars
  <2> QED BY <2>2, <2>3, <2>4, <2>5, OneRowIsCalm
<1>9. CASE Operator
  <2>1. PICK a \in Task : Abandon(a) \/ Repost(a) \/ Adopt(a)
    BY <1>9 DEF Operator
  <2>2. phase[a] \notin {"cancelled", "done"}
    BY <2>1 DEF Abandon, Abandonable, Repost, Adopt, Unresolved, Active
  <2>3. \E p \in {"rejected", "queued", "posted"} : phase' = [phase EXCEPT ![a] = p]
    BY <2>1 DEF Abandon, Repost, Adopt
  <2>4. mid' = mid \/ (\E m : mid' = [mid EXCEPT ![a] = m])
    BY <2>1 DEF Abandon, Repost, Adopt, postVars
  <2>5. UNCHANGED result
    BY <2>1 DEF Abandon, Repost, Adopt, Resolving, answerVars
  <2> QED BY <2>2, <2>3, <2>4, <2>5, OneRowIsCalm
<1>10. CASE Environment
  <2>1. UNCHANGED <<phase, mid, result>>
    BY <1>10 DEF Environment, Assign, Cancel, Admit, Say, Arrive, Lose, Elapse, Respond, Aside,
       rowVars, postVars, answerVars
  <2> QED BY <2>1, QuietIsCalm
<1> QED BY <1>1, <1>2, <1>3, <1>4, <1>5, <1>6, <1>7, <1>8, <1>9, <1>10
        DEF Next, Round, Collect, Moves

\* What has ended stays as it is, and nothing gets stuck.
THEOREM EndsEndure == Spec => EndedStays
<1>1. ASSUME Inv, [Next]_vars
      PROVE  [\A t \in Task :
                /\ phase[t] \in {"cancelled", "done"} =>
                     <<phase[t], mid[t], result[t]>>' = <<phase[t], mid[t], result[t]>>
                /\ phase'[t] # "stuck"]_vars
  <2>1. SUFFICES ASSUME Next, NEW t \in Task
                 PROVE  /\ phase[t] \in {"cancelled", "done"} =>
                             <<phase[t], mid[t], result[t]>>' = <<phase[t], mid[t], result[t]>>
                        /\ phase'[t] # "stuck"
    BY <1>1
  <2>2. phase'[t] # "stuck"
    BY <1>1, NextInv DEF Inv, Book
  <2>3. CASE Calm(t)
    BY <2>2, <2>3 DEF Calm
  <2>4. CASE phase[t] \in Active
    BY <2>2, <2>4 DEF Active
  <2> QED BY <1>1, <2>1, <2>3, <2>4, RowStep
<1> QED BY <1>1, InvHolds, PTL DEF Spec, EndedStays

\* The result that is taken is the earliest: what was in the thread when the sweep began
\* has all been read, or was no earlier than the candidate kept from an earlier round.
THEOREM EarliestIsTaken == Spec => EarliestWins
<1>1. ASSUME Inv, [Next]_vars
      PROVE  [\A t \in Task : phase'[t] = "resulted" /\ phase[t] # "resulted" =>
                \A r \in Thread(t) : r <= Sweep(t).from => result'[t] <= r]_vars
  <2>1. SUFFICES ASSUME Next, NEW t \in Task, phase'[t] = "resulted", phase[t] # "resulted",
                        NEW r \in Thread(t), r <= Sweep(t).from
                 PROVE  result'[t] <= r
    BY <1>1
  <2>2. t = Here /\ \E read \in SUBSET DOMAIN results : TakeResult(read)
    BY <1>1, <2>1, RowStep DEF Calm
  <2>3. PICK read \in SUBSET DOMAIN results : TakeResult(read)
    BY <2>2
  <2>4. /\ read \in SUBSET Thread(t) /\ Sweep(t).unread \subseteq read
        /\ result' = [result EXCEPT ![t] = Best(t, read)]
    BY <2>2, <2>3 DEF TakeResult, Reading, Finished
  <2>5. result'[t] = Best(t, read)
    BY <1>1, <2>4 DEF Inv, TypeOK, AnswerTypes
  <2>6. r \in Sweep(t).unread \ read \/ (Best(t, read) # 0 /\ Best(t, read) <= r)
    BY <1>1, <2>1, <2>4, BestCovers
  <2> QED BY <2>4, <2>5, <2>6
<1> QED BY <1>1, InvHolds, PTL DEF Spec, EarliestWins
-----------------------------------------------------------------------------
\* The coordinator's errands.

\* The last of some numbers up to n.
LEMMA LastIs ==
  ASSUME NEW n \in Nat, NEW S \in SUBSET (1..n), S # {}
  PROVE  \E k \in S : Max({0} \cup S) = k /\ \A o \in S : o <= k
<1> DEFINE T == {n - k : k \in S}
<1>1. T \in SUBSET Nat /\ T # {}
  <2>1. \A k \in S : n - k \in Nat
    OBVIOUS
  <2>2. PICK k \in S : TRUE
    OBVIOUS
  <2>3. n - k \in T
    OBVIOUS
  <2> QED BY <2>1, <2>3
<1>2. \A o \in S : n - o \in T
  OBVIOUS
<1>3. \A m \in T : \E k \in S : m = n - k
  OBVIOUS
<1> HIDE DEF T
<1>4. PICK m \in T : \A o \in T : m <= o
  BY <1>1, MinIs
<1>5. PICK k \in S : m = n - k
  BY <1>3
<1>6. ASSUME NEW o \in S PROVE o <= k
  <2>1. m <= n - o /\ n - o \in Nat /\ o \in Nat /\ k \in Nat
    BY <1>2, <1>4
  <2> QED BY <1>5, <2>1
<1>7. Max({0} \cup S) = k
  <2>1. {0} \cup S \in SUBSET Nat /\ k \in {0} \cup S /\ \A o \in {0} \cup S : o <= k
    BY <1>6
  <2> QED BY <2>1, MaxIs
<1> QED BY <1>6, <1>7

\* Where nothing is accepted, the status stays as it was.
LEMMA StatusStays ==
  ASSUME ChannelTypes, NEW t \in Task, Accepted(t)' = Accepted(t),
         \A i \in DOMAIN feed : feed'[i] = feed[i]
  PROVE  Status(t)' = Status(t)
<1>1. Latest(t)' = Latest(t)
  BY DEF Latest
<1>2. CASE Accepted(t) = {}
  BY <1>2 DEF Status
<1>3. CASE Accepted(t) # {}
  <2>1. Accepted(t) \in SUBSET (1..Len(feed)) /\ Len(feed) \in Nat
    BY DEF Accepted, ChannelTypes
  <2>2. Latest(t) \in Accepted(t)
    BY <1>3, <2>1, LastIs DEF Latest
  <2>3. feed'[Latest(t)] = feed[Latest(t)]
    BY <2>2 DEF Accepted
  <2> QED BY <1>1, <1>3, <2>3 DEF Status
<1> QED BY <1>2, <1>3

\* An accepted event gives its task the status.
LEMMA SayStatus ==
  ASSUME ChannelTypes, NEW e \in Events, feed' = Append(feed, e)
  PROVE  /\ \A t \in Task : ~(e.ok /\ t = e.task) =>
              Status(t)' = Status(t) /\ Accepted(t)' = Accepted(t)
         /\ e.ok => Status(e.task)' = e.status /\ Accepted(e.task)' # {}
<1> DEFINE n == Len(feed) + 1
<1>1. /\ Len(feed) \in Nat /\ n \in Nat
      /\ DOMAIN feed = 1..Len(feed) /\ DOMAIN feed' = 1..n
      /\ \A i \in DOMAIN feed : feed'[i] = feed[i]
      /\ feed'[n] = e
  BY Grown DEF ChannelTypes
<1>2. ASSUME NEW t \in Task, ~(e.ok /\ t = e.task)
      PROVE  Status(t)' = Status(t) /\ Accepted(t)' = Accepted(t)
  <2>1. Accepted(t)' = Accepted(t)
    BY <1>1, <1>2 DEF Accepted
  <2> QED BY <1>1, <2>1, StatusStays
<1>3. ASSUME e.ok PROVE Status(e.task)' = e.status /\ Accepted(e.task)' # {}
  <2>1. PICK a : a = e.task
    OBVIOUS
  <2>2. Accepted(a)' = Accepted(a) \cup {n}
    BY <1>1, <1>3, <2>1 DEF Accepted
  <2>3. {0} \cup Accepted(a)' \in SUBSET Nat /\ \A o \in {0} \cup Accepted(a)' : o <= n
    BY <1>1, <2>2 DEF Accepted
  <2>4. n \in {0} \cup Accepted(a)' /\ Accepted(a)' # {}
    BY <2>2
  <2> HIDE DEF n
  <2>5. Latest(a)' = n
    <3>1. PICK S \in SUBSET Nat : S = {0} \cup Accepted(a)'
      BY <2>3
    <3>2. Max(S) = n
      BY <2>3, <2>4, <3>1, MaxIs
    <3> QED BY <3>1, <3>2 DEF Latest
  <2> QED BY <1>1, <2>1, <2>4, <2>5 DEF Status
<1> QED BY <1>2, <1>3
LEMMA NoErrand ==
  ASSUME UNCHANGED <<feed, posts, results, reposts>>
  PROVE  UNCHANGED TheErrand!errandVars
<1>1. Handed' = Handed /\ Dispatches' = Dispatches /\ Said' = Said
  BY DEF Handed, Dispatches, Said, Accepted, Count
<1>2. Outcome' = Outcome
  BY DEF Outcome, Status, Latest, Accepted
<1> QED BY <1>1, <1>2 DEF TheErrand!errandVars

\* An event of the coordinator, or of the bridge.
LEMMA SayErrand ==
  ASSUME Inv, NEW e \in Events, feed' = Append(feed, e), UNCHANGED <<posts, results, reposts>>,
         e.ok => \/ e.status \notin Closing /\ Accepted(e.task) = {}
                 \/ /\ e.status \in Transitions[Status(e.task)] /\ Accepted(e.task) # {}
                    /\ e.status = "completed" => Told(e.task, "completed")
  PROVE  [TheErrand!ErrandNext]_(TheErrand!errandVars)
<1>0. ChannelTypes
  BY DEF Inv, TypeOK
<1>1. Dispatches' = Dispatches /\ Said' = Said /\ e.task \in Task /\ e.status \in Statuses
  BY DEF Dispatches, Said, Count, Events
<1>2. /\ \A t \in Task : ~(e.ok /\ t = e.task) =>
           Status(t)' = Status(t) /\ Accepted(t)' = Accepted(t)
      /\ e.ok => Status(e.task)' = e.status /\ Accepted(e.task)' # {}
  BY <1>0, SayStatus
<1>3. \A t \in Task : /\ Outcome[t] = IF Status(t) \in Closing THEN Status(t) ELSE "open"
                      /\ Outcome'[t] = IF Status(t)' \in Closing THEN Status(t)' ELSE "open"
  BY DEF Outcome, Closing
<1>4. /\ Outcome = [t \in Task |-> Outcome[t]] /\ Outcome' = [t \in Task |-> Outcome'[t]]
      /\ \A t : t \in Handed <=> t \in Task /\ Accepted(t) # {}
      /\ \A t : t \in Handed' <=> t \in Task /\ Accepted(t)' # {}
  BY DEF Outcome, Handed
<1>5. CASE ~e.ok
  <2>1. Handed' = Handed
    BY <1>2, <1>4, <1>5
  <2>2. \A t \in Task : Outcome'[t] = Outcome[t]
    BY <1>2, <1>3, <1>5
  <2>3. Outcome' = Outcome
    BY <1>4, <2>2
  <2> QED BY <1>1, <2>1, <2>3 DEF TheErrand!errandVars
<1>6. CASE e.ok /\ e.status \notin Closing /\ Accepted(e.task) = {}
  <2>1. PICK a \in Task : a = e.task
    BY <1>1
  <2>2. Handed' = Handed \cup {a} /\ a \notin Handed
    BY <1>2, <1>4, <1>6, <2>1
  <2>3. Status(a) = "none"
    BY <1>6, <2>1 DEF Status
  <2>4. Status(a)' = e.status
    BY <1>2, <1>6, <2>1 DEF Status, Latest, Accepted
  <2>5. \A t \in Task : Outcome'[t] = Outcome[t]
    BY <1>2, <1>3, <1>6, <2>1, <2>3, <2>4, StatusFacts
  <2>6. Outcome' = Outcome
    BY <1>4, <2>5
  <2>7. TheErrand!Ask(a)
    BY <1>1, <2>2, <2>6 DEF TheErrand!Ask
  <2> QED BY <2>7 DEF TheErrand!ErrandNext
<1>7. CASE /\ e.ok /\ e.status \in Transitions[Status(e.task)] /\ Accepted(e.task) # {}
           /\ e.status = "completed" => Told(e.task, "completed")
  <2>1. PICK a \in Task : a = e.task
    BY <1>1
  <2>2. Status(a)' = e.status /\ Accepted(a)' # {}
    BY <1>2, <1>7, <2>1 DEF Status, Latest, Accepted
  <2>3. Handed' = Handed /\ a \in Handed
    BY <1>2, <1>4, <1>7, <2>1, <2>2
  <2>4. Outcome[a] = "open"
    BY <1>3, <1>7, <2>1, StatusFacts
  <2>5. \A t \in Task \ {a} : Outcome'[t] = Outcome[t]
    BY <1>2, <1>3, <2>1
  <2>6. CASE e.status \in Closing
    <3>1. Outcome'[a] = e.status
      BY <1>3, <2>2, <2>6
    <3>2. Outcome' = [Outcome EXCEPT ![a] = e.status]
      BY <1>4, <2>5, <3>1
    <3>3. e.status = "completed" => "completed" \in Said[a]
      BY <1>7, <2>1 DEF Told, Said
    <3>4. TheErrand!Close(a)
      BY <1>1, <2>3, <2>4, <2>6, <3>2, <3>3 DEF TheErrand!Close, Closing, Verdict
    <3> QED BY <3>4 DEF TheErrand!ErrandNext
  <2>7. CASE e.status \notin Closing
    <3>1. Outcome'[a] = Outcome[a]
      BY <1>3, <2>2, <2>4, <2>7
    <3>2. Outcome' = Outcome
      BY <1>4, <2>5, <3>1
    <3> QED BY <1>1, <2>3, <3>2 DEF TheErrand!errandVars
  <2> QED BY <2>6, <2>7
<1> QED BY <1>5, <1>6, <1>7

LEMMA ChannelErrand ==
  ASSUME Inv, (\E t \in Task : Assign(t) \/ Cancel(t)) \/ Admit
  PROVE  [TheErrand!ErrandNext]_(TheErrand!errandVars)
<1>0. ChannelTypes /\ Letters
  BY DEF Inv, TypeOK
<1>1. UNCHANGED <<posts, results, reposts>>
  BY DEF Assign, Cancel, Admit, Say, Aside, teamsVars, operatorVars
<1>2. ASSUME NEW t \in Task, Transitions[Status(t)] # {} PROVE Accepted(t) # {}
  BY <1>2, StatusFacts DEF Status
<1>3. ASSUME NEW t \in Task, Assign(t) PROVE [TheErrand!ErrandNext]_(TheErrand!errandVars)
  <2> DEFINE e == [by |-> "coordinator", seq |-> 0, task |-> t, status |-> "assigned", ok |-> TRUE]
  <2>1. e \in Events /\ feed' = Append(feed, e) /\ e.task = t /\ e.status = "assigned"
    BY <1>3, StatusFacts DEF Events, Assign, Say
  <2>2. Accepted(t) = {}
    BY <1>3 DEF Assign
  <2> HIDE DEF e
  <2> QED BY <1>1, <2>1, <2>2, StatusFacts, SayErrand
<1>4. ASSUME NEW t \in Task, Cancel(t) PROVE [TheErrand!ErrandNext]_(TheErrand!errandVars)
  <2> DEFINE e == [by |-> "coordinator", seq |-> 0, task |-> t, status |-> "cancelled", ok |-> TRUE]
  <2>1. e \in Events /\ feed' = Append(feed, e) /\ e.task = t /\ e.status = "cancelled"
    BY <1>4, StatusFacts DEF Events, Cancel, Say
  <2>2. "cancelled" \in Transitions[Status(t)] /\ Accepted(t) # {}
    BY <1>2, <1>4 DEF Cancel
  <2> HIDE DEF e
  <2> QED BY <1>1, <2>1, <2>2, SayErrand
<1>5. ASSUME Admit PROVE [TheErrand!ErrandNext]_(TheErrand!errandVars)
  <2>1. PICK k \in Nat : k = Admitted + 1 /\ k \in DOMAIN sent
    <3>1. Admitted \in Nat
      BY <1>0, AdmittedNat
    <3>2. Admitted < synced /\ synced <= Len(sent) /\ synced \in Nat /\ DOMAIN sent = 1..Len(sent)
          /\ Len(sent) \in Nat
      BY <1>0, <1>5 DEF Admit, ChannelTypes
    <3> QED BY <3>1, <3>2
  <2>2. PICK m \in Messages : m = sent[k]
    BY <1>0, <2>1 DEF ChannelTypes
  <2>3. m.task \in Task /\ m.status \in Statuses
    BY DEF Messages
  <2>4. Founded(m.task, m.status, m.rev)
    BY <1>0, <2>1, <2>2 DEF Letters
  <2> DEFINE ok == m.rev = Latest(m.task) /\ m.status \in Transitions[Status(m.task)]
             e == [by |-> "bridge", seq |-> k, task |-> m.task, status |-> m.status, ok |-> ok]
  <2>5. e \in Events /\ feed' = Append(feed, e) /\ e.task = m.task /\ e.status = m.status
        /\ e.ok = ok
    BY <1>5, <2>1, <2>2, <2>3 DEF Events, Admit, Say
  <2>6. ok => m.status \in Transitions[Status(m.task)] /\ Accepted(m.task) # {}
    BY <1>2, <2>3
  <2>7. m.status = "completed" => Told(m.task, "completed")
    BY <2>4 DEF Founded
  <2> HIDE DEF e, ok
  <2> QED BY <1>1, <2>5, <2>6, <2>7, SayErrand
<1> QED BY <1>3, <1>4, <1>5
\* A post that arrives is one that was asked for, and allowed.
LEMMA ArriveErrand ==
  ASSUME Inv, NEW a \in Task, Arrive(a)
  PROVE  [TheErrand!ErrandNext]_(TheErrand!errandVars)
<1>0. TeamsTypes /\ Book /\ Budget /\ OperatorTypes
  BY DEF Inv, TypeOK
<1>1. /\ UNCHANGED <<feed, results, reposts>>
      /\ a \in flight /\ posts' = Append(posts, a)
  BY DEF Arrive, Aside, channelVars, operatorVars
<1>2. Handed' = Handed /\ Said' = Said /\ Outcome' = Outcome
  <2>1. Handed' = Handed /\ Said' = Said
    BY <1>1 DEF Handed, Said, Accepted
  <2>2. Outcome' = Outcome
    BY <1>1 DEF Outcome, Status, Latest, Accepted
  <2> QED BY <2>1, <2>2
<1>3. a \in Handed
  <2>1. rev[a] \in Accepted(a)
    BY <1>0, <1>1 DEF Book
  <2> QED BY <2>1 DEF Handed
<1>4. ASSUME NEW t \in Task
      PROVE  Dispatches[t] \in Nat /\ Dispatches'[t] = Dispatches[t] + (IF t = a THEN 1 ELSE 0)
  <2>1. Count(posts, t) \in Nat /\ Count(posts', t) = Count(posts, t) + (IF a = t THEN 1 ELSE 0)
    BY <1>0, <1>1, CountMore DEF TeamsTypes
  <2>2. Dispatches[t] = Count(posts, t) /\ Dispatches'[t] = Count(posts', t)
    BY DEF Dispatches, Count
  <2> QED BY <2>1, <2>2
<1>5. Dispatches' = [Dispatches EXCEPT ![a] = @ + 1]
  <2>1. Dispatches = [t \in Task |-> Dispatches[t]] /\ Dispatches' = [t \in Task |-> Dispatches'[t]]
    BY DEF Dispatches
  <2> QED BY <1>4, <2>1
<1>6. Dispatches[a] <= reposts[a]
  <2>1. Sendings(a) = Dispatches[a] + 1
    BY <1>1, SendingsAre DEF Dispatches
  <2>2. Sendings(a) <= reposts[a] + (IF Unsent(a) THEN 0 ELSE 1) /\ reposts[a] \in Nat
    BY <1>0, BridgeAssumption DEF Budget, OperatorTypes
  <2> QED BY <1>4, <2>1, <2>2
<1>7. TheErrand!Send(a)
  BY <1>1, <1>2, <1>3, <1>5, <1>6 DEF TheErrand!Send
<1> QED BY <1>7 DEF TheErrand!ErrandNext

\* The responder speaks of what was posted.
LEMMA RespondErrand ==
  ASSUME Inv, Respond
  PROVE  [TheErrand!ErrandNext]_(TheErrand!errandVars)
<1>0. TeamsTypes
  BY DEF Inv, TypeOK
<1>1. UNCHANGED <<feed, posts, reposts>>
  BY DEF Respond, Aside, channelVars, operatorVars
<1>2. PICK i \in DOMAIN posts, to \in {0} \cup DOMAIN posts, s \in Verdict :
        results' = Append(results, [task |-> posts[i], to |-> to, status |-> s])
  BY DEF Respond
<1>3. PICK e \in Results : e = [task |-> posts[i], to |-> to, status |-> s]
  <2>1. posts[i] \in Task /\ to \in Nat
    BY <1>0 DEF TeamsTypes
  <2> QED BY <2>1 DEF Results
<1>4. PICK a \in Task : a = posts[i] /\ e.task = a /\ e.status = s
  BY <1>3 DEF Results
<1>5. Handed' = Handed /\ Dispatches' = Dispatches /\ Outcome' = Outcome
  <2>1. Handed' = Handed /\ Dispatches' = Dispatches
    BY <1>1 DEF Handed, Dispatches, Accepted, Count
  <2>2. Outcome' = Outcome
    BY <1>1 DEF Outcome, Status, Latest, Accepted
  <2> QED BY <2>1, <2>2
<1>6. Dispatches[a] > 0
  <2>1. a \in ToSet(posts)
    BY <1>4 DEF ToSet
  <2>2. Count(posts, a) \in Nat /\ Count(posts, a) # 0
    BY <1>0, <2>1, CountMore DEF TeamsTypes
  <2> QED BY <2>2 DEF Dispatches
<1>7. /\ Len(results) \in Nat
      /\ DOMAIN results = 1..Len(results) /\ DOMAIN results' = 1..(Len(results) + 1)
      /\ \A r \in 1..Len(results) : results'[r] = results[r]
      /\ results'[Len(results) + 1] = e
  BY <1>0, <1>2, <1>3, Grown DEF TeamsTypes
<1>8. ASSUME NEW t \in Task
      PROVE  Said'[t] = IF t = a THEN Said[t] \cup {s} ELSE Said[t]
  <2>1. /\ Said[t] = {results[r].status : r \in {k \in DOMAIN results : results[k].task = t}}
        /\ Said'[t] = {results'[r].status : r \in {k \in DOMAIN results' : results'[k].task = t}}
    BY DEF Said
  <2> QED BY <1>4, <1>7, <2>1
<1>9. Said' = [Said EXCEPT ![a] = @ \cup {s}]
  <2>1. Said = [t \in Task |-> Said[t]] /\ Said' = [t \in Task |-> Said'[t]]
    BY DEF Said
  <2> QED BY <1>8, <2>1
<1>10. TheErrand!Hear(a)
  BY <1>1, <1>5, <1>6, <1>9 DEF TheErrand!Hear, Verdict
<1> QED BY <1>10 DEF TheErrand!ErrandNext

LEMMA StepErrand ==
  ASSUME Inv, [Next]_vars
  PROVE  [TheErrand!ErrandNext]_(TheErrand!errandVars)
<1>1. CASE Round \/ Crash
  <2>1. UNCHANGED <<feed, posts, results, reposts>>
    <3>1. CASE Moves
      BY <3>1, MovesOnly
    <3>2. CASE Recover \/ Sync \/ Intend \/ Queue \/ Number
      BY <3>2 DEF Recover, Sync, Intend, Queue, Number, Outside, channelVars, teamsVars, operatorVars
    <3>3. CASE ApplyRejected \/ ApplyAssign \/ ApplyStatus
      BY <3>3, Ingested
    <3>4. CASE Scan
      BY <3>4 DEF Scan, Outside, channelVars, teamsVars, operatorVars
    <3>5. CASE ReadFails \/ \E read \in SUBSET DOMAIN results :
                 ReadPart(read) \/ ReadAll(read) \/ TakeResult(read)
      BY <3>5 DEF ReadFails, ReadPart, ReadAll, TakeResult, Keep, Outside, channelVars,
         teamsVars, operatorVars
    <3>6. CASE Post \/ Answered \/ Refused \/ Unknown
      BY <3>6 DEF Post, Answered, Refused, Unknown, Sent, PostFrame, channelVars, operatorVars
    <3> QED BY <1>1, <3>1, <3>2, <3>3, <3>4, <3>5, <3>6 DEF Round, Collect, Moves
  <2> QED BY <2>1, NoErrand
<1>2. CASE Environment
  <2>1. CASE (\E t \in Task : Assign(t) \/ Cancel(t)) \/ Admit
    BY <2>1, ChannelErrand
  <2>2. CASE Respond
    BY <2>2, RespondErrand
  <2>3. ASSUME NEW t \in Task, Arrive(t) PROVE [TheErrand!ErrandNext]_(TheErrand!errandVars)
    BY <2>3, ArriveErrand
  <2>4. ASSUME NEW t \in Task, Lose(t) \/ Elapse(t)
        PROVE  [TheErrand!ErrandNext]_(TheErrand!errandVars)
    <3>1. UNCHANGED <<feed, posts, results, reposts>>
      BY <2>4 DEF Lose, Elapse, Aside, channelVars, teamsVars, operatorVars
    <3> QED BY <3>1, NoErrand
  <2> QED BY <1>2, <2>1, <2>2, <2>3, <2>4 DEF Environment
<1>3. CASE Operator
  <2>1. PICK a \in Task : Abandon(a) \/ Repost(a) \/ Adopt(a)
    BY <1>3 DEF Operator
  <2>2. UNCHANGED <<feed, posts, results>>
    BY <2>1 DEF Abandon, Repost, Adopt, Resolving, channelVars, teamsVars
  <2>3. CASE Repost(a)
    <3>1. Handed' = Handed /\ Dispatches' = Dispatches /\ Said' = Said
      BY <2>2 DEF Handed, Dispatches, Said, Accepted, Count
    <3>2. Outcome' = Outcome
      BY <2>2 DEF Outcome, Status, Latest, Accepted
    <3>3. TheErrand!Allow(a)
      BY <2>3, <3>1, <3>2 DEF Repost, TheErrand!Allow
    <3> QED BY <3>3 DEF TheErrand!ErrandNext
  <2>4. CASE Abandon(a) \/ Adopt(a)
    BY <2>2, <2>4, NoErrand DEF Abandon, Adopt, operatorVars
  <2> QED BY <2>1, <2>3, <2>4
<1>4. CASE UNCHANGED vars
  BY <1>4, NoErrand DEF vars, channelVars, teamsVars, operatorVars
<1> QED BY <1>1, <1>2, <1>3, <1>4 DEF Next

\* The bridge does what a coordinator and a responder may rely on: a task is sent as often as
\* it was allowed to be, closed once, and called completed only if the responder said so.
THEOREM BridgeRunsErrands == Spec => ImplementsErrand
<1>1. Init => TheErrand!ErrandInit
  <2> SUFFICES ASSUME Init PROVE TheErrand!ErrandInit
    OBVIOUS
  <2>1. /\ feed = <<>> /\ posts = <<>> /\ results = <<>> /\ reposts = [t \in Task |-> 0]
    BY DEF Init, All
  <2>2. \A t \in Task : Accepted(t) = {} /\ Status(t) = "none"
    BY <2>1 DEF Accepted, Status
  <2>3. Handed = {}
    BY <2>2 DEF Handed
  <2>4. Dispatches = [t \in Task |-> 0]
    <3>1. ASSUME NEW t \in Task PROVE Count(posts, t) = 0
      <4>1. {i \in DOMAIN posts : posts[i] = t} = {}
        BY <2>1
      <4> QED BY <4>1, FS_EmptySet DEF Count
    <3> QED BY <3>1 DEF Dispatches
  <2>5. Said = [t \in Task |-> {}]
    BY <2>1 DEF Said
  <2>6. Outcome = [t \in Task |-> "open"]
    BY <2>2 DEF Outcome, Verdict
  <2> QED BY <2>1, <2>3, <2>4, <2>5, <2>6 DEF TheErrand!ErrandInit
<1>2. Inv /\ [Next]_vars => [TheErrand!ErrandNext]_(TheErrand!errandVars)
  BY StepErrand
<1> QED BY <1>1, <1>2, InvHolds, PTL DEF Spec, ImplementsErrand, TheErrand!ErrandSpec
=============================================================================
