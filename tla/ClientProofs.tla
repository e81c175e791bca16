----------------------------- MODULE ClientProofs -----------------------------
(***************************************************************************)
(* Proof that what status() finds never goes back, nor hides a result that *)
(* it has found (FoundAdvances), for any streams, limits and calls.        *)
(*                                                                         *)
(* What was found rests on files the client has seen (FoundRests), and what*)
(* it has seen it finds again; so a pass that came by the probes of all    *)
(* higher phases without finding them (PassedUnseen) has not found one     *)
(* before.  What is answered follows from what was found (Told), but for a *)
(* late heartbeat and a read that raised.                                  *)
(***************************************************************************)
EXTENDS ClientProps, TLAPS

Statuses == {"none", "REJECTED", "FAILED", "COMPLETED", "AVAILABILITY_UNKNOWN"}
Results == [status : Statuses, chunks : [Streams -> Nat], artifacts : Nat]
TypeOK ==
  /\ markers \subseteq {Marker(k) : k \in {"COMMIT", "CLAIMED", "RUNNING", "FINAL"}}
  /\ written \in [Streams -> Nat] /\ result \in Results /\ gens \in Seq(Results)
  /\ final \in 0..Len(gens)
  /\ found \in DOMAIN Rank
  /\ pc \in {"idle", "pause"} => at = 1
  /\ pc = "status" => at \in DOMAIN Probes

\* FINAL is linked once.
FinalOnce == final > 0 => stage = "closed" /\ Marker("FINAL") \in markers

\* Whatever was seen is there.
SeenIsThere == seen \subseteq markers \cup {Generation(n) : n \in DOMAIN gens}

Seen(kind) ==
  IF kind = "generation" THEN \E n \in Nat \ {0} : Generation(n) \in seen
  ELSE Marker(kind) \in seen

\* The files a phase that was found rests on.
FoundRests ==
  /\ found = "FINAL" => final > 0 /\ Seen("FINAL") /\ Generation(final) \in seen
  /\ found = "RESULT_PROPAGATING" => Seen("FINAL") \/ Seen("generation")
  /\ found = "RUNNING" => Seen("RUNNING")
  /\ found = "CLAIMED" => Seen("CLAIMED")
  /\ found = "VISIBLE_UNCLAIMED" => Seen("COMMIT")

\* The caller is told what was found, that the heartbeat of an open job is late, or
\* that a result is on its way.
Told ==
  \/ answer \in {found, "RESULT_PROPAGATING"}
  \/ /\ answer = "AVAILABILITY_UNKNOWN"
     /\ found \in {"VISIBLE_UNCLAIMED", "CLAIMED", "RUNNING"}

\* A pass that goes on has seen nothing of what it looked for.
PassedUnseen == pc = "status" => \A j \in 1..(at - 1) : ~Seen(Probes[j])

Inv == TypeOK /\ FinalOnce /\ SeenIsThere /\ FoundRests /\ Told /\ PassedUnseen

-----------------------------------------------------------------------------
\* The ranks are numbers, and the probes come in this order.
LEMMA Ranks ==
  /\ DOMAIN Rank = {"AWAITING_VISIBILITY", "VISIBLE_UNCLAIMED", "CLAIMED", "RUNNING",
                    "RESULT_PROPAGATING", "FINAL"}
  /\ Rank["AWAITING_VISIBILITY"] = 0 /\ Rank["VISIBLE_UNCLAIMED"] = 1
  /\ Rank["CLAIMED"] = 2 /\ Rank["RUNNING"] = 3
  /\ Rank["RESULT_PROPAGATING"] = 4 /\ Rank["FINAL"] = 5
BY DEF Rank

\* The probes, highest phase first.
LEMMA Order ==
  /\ DOMAIN Probes = 1..5 /\ Len(Probes) = 5
  /\ Probes[1] = "FINAL" /\ Probes[2] = "generation" /\ Probes[3] = "RUNNING"
  /\ Probes[4] = "CLAIMED" /\ Probes[5] = "COMMIT"
BY DEF Probes

\* What a watcher may be about to publish is a result.
LEMMA ResultTypes ==
  /\ Artifacts \in Nat
  /\ None \in [Streams -> Nat]
  /\ Blank \in Results
  /\ \A status \in Statuses : [Blank EXCEPT !.status = status] \in Results
<1>1. Artifacts \in Nat
  BY ClientAssumption
<1>2. None \in [Streams -> Nat]
  BY DEF None
<1>3. Blank \in Results
  BY <1>2 DEF Blank, Results, Statuses
<1>4. ASSUME NEW status \in Statuses
      PROVE  [Blank EXCEPT !.status = status] \in Results
  BY <1>3 DEF Results
<1> QED BY <1>1, <1>2, <1>3, <1>4

\* Markers and generations are different files.
LEMMA Different ==
  ASSUME NEW k, NEW n \in Nat \ {0}
  PROVE  Marker(k) # Generation(n)
BY DEF Marker, Generation

\* What was found rests on what the client has seen, be it more now, as long as
\* FINAL stays.
LEMMA MoreSeen ==
  ASSUME FoundRests, found' = found, seen \subseteq seen', final' = final
  PROVE  FoundRests'
BY DEF FoundRests, Seen

\* A watcher's step leaves the client where it is.
LEMMA Undisturbed ==
  ASSUME SeenIsThere, FoundRests, Told, PassedUnseen,
         UNCHANGED <<seen, found, answer, pc, at>>, final > 0 => final' = final,
         markers \subseteq markers', DOMAIN gens \subseteq DOMAIN gens'
  PROVE  SeenIsThere' /\ FoundRests' /\ Told' /\ PassedUnseen'
<1>1. SeenIsThere' BY DEF SeenIsThere
<1>2. FoundRests' BY DEF FoundRests, Seen
<1>3. PassedUnseen' BY DEF PassedUnseen, Seen
<1>4. Told' BY DEF Told
<1> QED BY <1>1, <1>2, <1>3, <1>4

\* A probe that finds nothing it could have seen has not seen anything.
LEMMA Missed ==
  ASSUME TypeOK, SeenIsThere, NEW kind, Files(kind) \cap seen = {}
  PROVE  ~Seen(kind)
<1>0. DOMAIN gens \subseteq Nat \ {0}
  BY DEF TypeOK
<1>1. CASE kind = "generation"
  <2>1. SUFFICES ASSUME NEW n \in Nat \ {0}, Generation(n) \in seen
                 PROVE  FALSE
    BY <1>1 DEF Seen
  <2>2. Generation(n) \notin markers
    BY <1>0, Different DEF TypeOK
  <2> QED BY <1>1, <2>1, <2>2 DEF Files, SeenIsThere
<1>2. CASE kind # "generation"
  <2>1. SUFFICES ASSUME Marker(kind) \in seen
                 PROVE  FALSE
    BY <1>2 DEF Seen
  <2>2. Marker(kind) \in markers
    BY <1>0, <2>1, Different DEF SeenIsThere
  <2> QED BY <1>2, <2>1, <2>2 DEF Files
<1> QED BY <1>1, <1>2

-----------------------------------------------------------------------------
\* The invariant and the order of phases, for each kind of step.

Advances ==
  /\ Rank[found] <= Rank[found']
  /\ Rank[found] >= Rank["RESULT_PROPAGATING"]
       => answer' \in {"RESULT_PROPAGATING", "FINAL"}

\* If what is found does not go back, a result that was found is not hidden.
LEMMA Onward ==
  ASSUME found \in DOMAIN Rank, found' \in DOMAIN Rank, Told',
         Rank[found] <= Rank[found']
  PROVE  Advances
<1>1. CASE Rank[found] < 4
  BY <1>1, Ranks DEF Advances
<1>2. CASE Rank[found] >= 4
  <2>1. found' \in {"RESULT_PROPAGATING", "FINAL"}
    BY <1>2, Ranks
  <2> QED BY <2>1, Ranks DEF Told, Advances
<1> QED BY <1>1, <1>2, Ranks

\* What was found is not lost by a step that looks for nothing.
LEMMA FoundStays ==
  ASSUME TypeOK, Told', found' = found
  PROVE  Advances
BY Onward, Ranks DEF TypeOK

\* At the start nothing was seen or written.
LEMMA InitInv == Init => Inv
<1> SUFFICES ASSUME Init PROVE Inv
  OBVIOUS
<1>1. TypeOK
  <2>1. gens \in Seq(Results) /\ Len(gens) = 0
    BY DEF Init
  <2> QED BY <2>1, Ranks, ResultTypes DEF Init, TypeOK
<1> QED BY <1>1 DEF Init, Inv, FinalOnce, SeenIsThere, FoundRests, Told, PassedUnseen

\* What the watchers do.
WatcherAction ==
  \/ WatcherStep \/ Pong \/ Fail \/ Crash \/ \E s \in Streams : WriteChunk(s)

\* Watchers add what the client may see later.
LEMMA ByWatchers ==
  ASSUME Inv, WatcherAction
  PROVE  Inv' /\ Advances
<1> USE DEF Inv
<1>1. UNCHANGED <<seen, found, answer, pc, at>>
  BY DEF WatcherAction, WatcherStep, Claim, Launch, Complete, PublishGeneration,
         PublishFinal, Recover, Pong, Fail, Crash, WriteChunk, ByWatcher, clientVars
<1>2. TypeOK' /\ FinalOnce' /\ (final > 0 => final' = final)
      /\ markers \subseteq markers' /\ DOMAIN gens \subseteq DOMAIN gens'
  <2> USE <1>1 DEF TypeOK, FinalOnce, jobVars, watcherVars
  <2>1. CASE Claim BY <2>1 DEF Claim, Mark
  <2>2. CASE Launch BY <2>2 DEF Launch, Mark
  <2>3. CASE Complete
    <3>1. result' \in Results
      BY <2>3, ResultTypes DEF Complete, Results, Statuses
    <3> QED BY <2>3, <3>1 DEF Complete
  <2>4. CASE PublishGeneration
    <3>1. Append(gens, result) \in Seq(Results)
          /\ Len(Append(gens, result)) = Len(gens) + 1
      OBVIOUS
    <3> QED BY <2>4, <3>1, ResultTypes DEF PublishGeneration
  <2>5. CASE PublishFinal BY <2>5 DEF PublishFinal, Mark
  <2>6. CASE Recover
    <3>1. result' \in Results
      BY <2>6, ResultTypes DEF Recover, Statuses
    <3> QED BY <2>6, <3>1 DEF Recover
  <2>7. CASE Pong BY <2>7 DEF Pong
  <2>8. CASE Fail
    <3>1. result' \in Results
      BY <2>8, ResultTypes DEF Fail, Taken, Statuses
    <3> QED BY <2>8, <3>1 DEF Fail, Taken
  <2>9. CASE Crash BY <2>9, ResultTypes DEF Crash, Taken
  <2>10. CASE \E s \in Streams : WriteChunk(s) BY <2>10 DEF WriteChunk
  <2> QED BY <2>1, <2>2, <2>3, <2>4, <2>5, <2>6, <2>7, <2>8, <2>9, <2>10
          DEF WatcherAction, WatcherStep
<1>3. SeenIsThere' /\ FoundRests' /\ Told' /\ PassedUnseen'
  BY <1>1, <1>2, Undisturbed
<1>4. Advances
  BY <1>1, <1>3, FoundStays
<1> QED BY <1>2, <1>3, <1>4

\* What the client does between two passes of status().
Quiet ==
  \/ Submit \/ Probe \/ \E c \in {"status", "wait", "download"} : Ask(c)
  \/ PhaseReached \/ PhaseTimeout \/ ReturnStatus
  \/ Emit \/ BeginCheck \/ Compare \/ VerifyChunk \/ VerifyFails \/ StreamDone
  \/ Fetch \/ FetchFails \/ Fetched \/ ReadPong \/ MissPong
  \/ Resume \/ GiveUp

\* Such a step begins a pass at the first probe, if it begins one.
LEMMA Between ==
  ASSUME Inv, Quiet
  PROVE  /\ UNCHANGED <<written, gens, final, stage, result, found, answer>>
         /\ seen' \in {seen} \cup {seen \cup {m} : m \in markers}
         /\ markers' \in {markers, markers \cup {Marker("COMMIT")}}
         /\ pc' \in {"idle", "pause", "status"} => at' = 1
<1> USE DEF Inv, TypeOK, Goto, Return, Look, jobVars, watcherVars, shareVars
<1>1. CASE Submit \/ Probe \/ \E c \in {"status", "wait", "download"} : Ask(c)
  BY <1>1 DEF Submit, Probe, Ask, Begin, Mark
<1>2. CASE PhaseReached \/ PhaseTimeout
  BY <1>2 DEF PhaseReached, PhaseTimeout, Phases
<1>3. CASE ReturnStatus
  BY <1>3 DEF ReturnStatus
<1>4. CASE Emit \/ BeginCheck \/ Compare
  BY <1>4 DEF Emit, BeginCheck, Compare
<1>5. CASE VerifyChunk \/ VerifyFails \/ StreamDone
  BY <1>5 DEF VerifyChunk, VerifyFails, StreamDone
<1>6. CASE Fetch \/ FetchFails \/ Fetched
  BY <1>6 DEF Fetch, FetchFails, Fetched
<1>7. CASE ReadPong \/ MissPong
  BY <1>7 DEF ReadPong, MissPong
<1>8. CASE Resume
  BY <1>8 DEF Resume, Loops
<1>9. CASE GiveUp
  BY <1>9 DEF GiveUp
<1> QED BY <1>1, <1>2, <1>3, <1>4, <1>5, <1>6, <1>7, <1>8, <1>9 DEF Quiet

\* Between passes, what was found and answered is kept.
LEMMA ByCalls ==
  ASSUME Inv, Quiet
  PROVE  Inv' /\ Advances
<1> USE DEF Inv
<1>1. TypeOK' /\ FinalOnce'
  BY Between, Order DEF TypeOK, FinalOnce
<1>2. SeenIsThere'
  BY Between DEF SeenIsThere
<1>3. FoundRests'
  BY Between, MoreSeen
<1>4. PassedUnseen'
  BY Between DEF PassedUnseen
<1>5. Told'
  BY Between DEF Told
<1>6. Advances
  BY <1>5, Between, FoundStays
<1> QED BY <1>1, <1>2, <1>3, <1>4, <1>5, <1>6

\* The clock.
LEMMA ByTime ==
  ASSUME Inv, Elapse \/ UNCHANGED vars
  PROVE  Inv' /\ Advances
<1> USE DEF Inv
<1>1. UNCHANGED <<shareVars, watcherVars, seen, found, answer, pc, at>>
  BY DEF Elapse, Look, vars, clientVars
<1>2. TypeOK' /\ FinalOnce'
  BY <1>1 DEF TypeOK, FinalOnce, shareVars, jobVars, watcherVars
<1>3. SeenIsThere' /\ FoundRests' /\ Told' /\ PassedUnseen'
  BY <1>1, Undisturbed DEF shareVars, jobVars
<1>4. Advances
  BY <1>1, <1>3, FoundStays
<1> QED BY <1>2, <1>3, <1>4

\* Finding a phase that rests on what was seen keeps the invariant.
LEMMA Answered ==
  ASSUME Inv, NEW phase \in DOMAIN Rank, Found(phase),
         SeenIsThere', FoundRests'
  PROVE  Inv' /\ found' = phase
<1>1. UNCHANGED <<shareVars, watcherVars>> /\ found' = phase /\ pc' = "answer"
  BY DEF Found, Answer, Look
<1>2. TypeOK' /\ FinalOnce'
  BY <1>1 DEF Inv, TypeOK, FinalOnce, shareVars, jobVars, watcherVars
<1>3. PassedUnseen'
  BY <1>1 DEF PassedUnseen
<1>4. Told'
  BY <1>1 DEF Found, Answer, Told
<1> QED BY <1>1, <1>2, <1>3, <1>4 DEF Inv

\* Having come by the probes of higher phases, status() has not found one before.
LEMMA NotHigher ==
  ASSUME Inv, pc = "status"
  PROVE  /\ at \in 1..5
         /\ at > 1 => found # "FINAL"
         /\ at > 2 => found # "RESULT_PROPAGATING"
         /\ at > 3 => found # "RUNNING"
         /\ at > 4 => found # "CLAIMED"
BY Order DEF Inv, TypeOK, PassedUnseen, FoundRests

\* A file that was found was seen.
LEMMA Noticed ==
  ASSUME TypeOK, NEW kind, NEW f \in Files(kind), seen' = seen \cup {f}
  PROVE  Seen(kind)'
<1>1. DOMAIN gens \subseteq Nat \ {0}
  BY DEF TypeOK
<1> QED BY <1>1 DEF Files, Seen

\* A probe that finds its file finds a phase no lower than the last.
LEMMA ByReading ==
  ASSUME Inv, ReadMarker
  PROVE  Inv' /\ Advances
<1> USE DEF Inv
<1>1. PICK f \in Files(Probes[at]) : seen' = seen \cup {f}
  BY DEF ReadMarker
<1>2. UNCHANGED <<shareVars, watcherVars>> /\ pc = "status" /\ Probes[at] # "FINAL"
  BY DEF ReadMarker, Found, Answer, Look
<1>3. SeenIsThere'
  BY <1>1, <1>2 DEF SeenIsThere, Files, shareVars, jobVars
<1>4. at \in 2..5
  BY <1>2, NotHigher, Order
<1>5. CASE at = 2
  <2>1. Found("RESULT_PROPAGATING")
    BY <1>5, Order DEF ReadMarker
  <2>2. Seen("generation")'
    BY <1>1, <1>5, Order, Noticed
  <2>3. FoundRests'
    BY <2>1, <2>2 DEF FoundRests, Found, Answer
  <2> QED BY <1>2, <1>3, <1>5, <2>1, <2>3, Answered, NotHigher, Onward, Ranks DEF TypeOK
<1>6. CASE at = 3
  <2>1. Found("RUNNING")
    BY <1>6, Order DEF ReadMarker
  <2>2. Seen("RUNNING")'
    BY <1>1, <1>6, Order, Noticed
  <2>3. FoundRests'
    BY <2>1, <2>2 DEF FoundRests, Found, Answer
  <2> QED BY <1>2, <1>3, <1>6, <2>1, <2>3, Answered, NotHigher, Onward, Ranks DEF TypeOK
<1>7. CASE at = 4
  <2>1. Found("CLAIMED")
    BY <1>7, Order DEF ReadMarker
  <2>2. Seen("CLAIMED")'
    BY <1>1, <1>7, Order, Noticed
  <2>3. FoundRests'
    BY <2>1, <2>2 DEF FoundRests, Found, Answer
  <2> QED BY <1>2, <1>3, <1>7, <2>1, <2>3, Answered, NotHigher, Onward, Ranks DEF TypeOK
<1>8. CASE at = 5
  <2>1. Found("VISIBLE_UNCLAIMED")
    BY <1>8, Order DEF ReadMarker
  <2>2. Seen("COMMIT")'
    BY <1>1, <1>8, Order, Noticed
  <2>3. FoundRests'
    BY <2>1, <2>2 DEF FoundRests, Found, Answer
  <2> QED BY <1>2, <1>3, <1>8, <2>1, <2>3, Answered, NotHigher, Onward, Ranks DEF TypeOK
<1> QED BY <1>4, <1>5, <1>6, <1>7, <1>8

\* FINAL and the generation it points to, or FINAL alone.
LEMMA ByFinal ==
  ASSUME Inv, ReadFinal \/ ReadPointer
  PROVE  Inv' /\ Advances
<1> USE DEF Inv
<1>1. UNCHANGED <<shareVars, watcherVars>> /\ final > 0
  BY DEF ReadFinal, ReadPointer, Found, Answer, Look
<1>2. Marker("FINAL") \in markers
  BY <1>1 DEF FinalOnce
<1>3. CASE ReadFinal
  <2>1. SeenIsThere'
    BY <1>1, <1>2, <1>3 DEF ReadFinal, SeenIsThere, TypeOK, shareVars, jobVars
  <2>2. FoundRests'
    BY <1>1, <1>3 DEF ReadFinal, FoundRests, Seen, Found, Answer, shareVars, jobVars
  <2> QED BY <1>3, <2>1, <2>2, Answered, Onward, Ranks DEF ReadFinal, TypeOK
<1>4. CASE ReadPointer
  <2>1. SeenIsThere'
    BY <1>1, <1>2, <1>4 DEF ReadPointer, SeenIsThere, shareVars, jobVars
  <2>2. FoundRests'
    BY <1>4 DEF ReadPointer, FoundRests, Seen, Found, Answer
  <2>3. found # "FINAL"
    BY <1>4 DEF ReadPointer, FoundRests
  <2> QED BY <1>4, <2>1, <2>2, <2>3, Answered, Onward, Ranks DEF ReadPointer, TypeOK
<1> QED BY <1>3, <1>4

\* Nothing to be seen: the next probe, or the lowest phase.
LEMMA ByMissing ==
  ASSUME Inv, MissMarker
  PROVE  Inv' /\ Advances
<1> USE DEF Inv
<1>1. seen' = seen /\ UNCHANGED <<shareVars, watcherVars>> /\ pc = "status"
  BY DEF MissMarker, Goto, Found, Answer, Look
<1>2. SeenIsThere'
  BY <1>1 DEF SeenIsThere, shareVars, jobVars
<1>3. at \in 1..5 /\ \A j \in 1..at : ~Seen(Probes[j])
  <2>1. ~Seen(Probes[at])
    BY Missed DEF MissMarker
  <2> QED BY <1>1, <2>1, NotHigher DEF PassedUnseen
<1>4. CASE at < 5
  <2>1. UNCHANGED <<found, answer>> /\ pc' = "status" /\ at' = at + 1
    BY <1>4, Order DEF MissMarker, Goto
  <2>2. TypeOK' /\ FinalOnce'
    BY <1>1, <1>3, <1>4, <2>1, Order DEF TypeOK, FinalOnce, shareVars, jobVars, watcherVars
  <2>3. FoundRests'
    BY <1>1, <2>1, MoreSeen DEF shareVars, jobVars
  <2>4. PassedUnseen'
    BY <1>1, <1>3, <2>1 DEF PassedUnseen, Seen
  <2>5. Told'
    BY <2>1 DEF Told
  <2>6. Advances
    BY <2>1, <2>5, FoundStays
  <2> QED BY <1>2, <2>2, <2>3, <2>4, <2>5, <2>6
<1>5. CASE at = 5
  <2>1. Found("AWAITING_VISIBILITY")
    BY <1>5, Order DEF MissMarker
  <2>2. FoundRests'
    BY <2>1 DEF FoundRests, Found, Answer
  <2>3. found = "AWAITING_VISIBILITY"
    BY <1>3, <1>5, Order, Ranks DEF TypeOK, FoundRests
  <2> QED BY <1>2, <2>1, <2>2, <2>3, Answered, Onward, Ranks
<1> QED BY <1>3, <1>4, <1>5

\* A read that raises.
LEMMA ByError ==
  ASSUME Inv, ReadRaises
  PROVE  Inv' /\ Advances
<1> USE DEF Inv
<1>1. /\ UNCHANGED <<shareVars, watcherVars, seen, found>>
      /\ answer' = "RESULT_PROPAGATING" /\ pc' = "answer"
  BY DEF ReadRaises, Answer, Look
<1>2. TypeOK' /\ FinalOnce' /\ SeenIsThere' /\ PassedUnseen'
  BY <1>1 DEF TypeOK, FinalOnce, SeenIsThere, PassedUnseen, shareVars, jobVars, watcherVars
<1>3. FoundRests'
  BY <1>1, MoreSeen DEF shareVars, jobVars
<1>4. Told'
  BY <1>1 DEF Told
<1>5. Advances
  BY <1>1, <1>4, FoundStays
<1> QED BY <1>2, <1>3, <1>4, <1>5

-----------------------------------------------------------------------------
\* Every step.
LEMMA StepInv ==
  ASSUME Inv, [Next]_vars
  PROVE  Inv' /\ Advances
<1>1. WatcherAction \/ Quiet \/ Elapse \/ UNCHANGED vars
      \/ ReadMarker \/ ReadFinal \/ ReadPointer \/ MissMarker \/ ReadRaises
  BY DEF Next, ClientStep, WatcherAction, Quiet
<1> QED BY <1>1, ByWatchers, ByCalls, ByTime, ByReading, ByFinal, ByMissing, ByError

\* What was found rests on files that were seen, and a pass has not seen what it
\* came by.
THEOREM SeenFirst == Spec => []Inv
<1>1. Inv /\ [Next]_vars => Inv'
  BY StepInv
<1> QED BY <1>1, InitInv, PTL DEF Spec

\* What status() finds on the share never goes back, and a result it has found is
\* not hidden by a late heartbeat (client.py:92-112), for any streams and limits and
\* in spite of crashes, late files and errors of reads.  The answers themselves may
\* go back, after a read that raised.
THEOREM FoundNeverGoesBack == Spec => FoundAdvances
<1>1. Inv /\ [Next]_vars => [Advances]_vars
  BY StepInv
<1> QED BY <1>1, SeenFirst, PTL DEF Spec, FoundAdvances, Advances
=============================================================================
