-------------------------- MODULE ClientOutcomeProofs --------------------------
(***************************************************************************)
(* Proof that what a call comes to is true (OutcomeIsTrue), for any        *)
(* streams, limits and number of calls.                                    *)
(*                                                                         *)
(* A result lists what was written, or nothing (ResultsList); the client   *)
(* has no more than was written (EmittedExists); and once it checks a      *)
(* result, the streams before the one it is at are as the result lists     *)
(* them (CheckedSoFar).                                                    *)
(***************************************************************************)
EXTENDS ClientProofs

CountType ==
  /\ count \in [Streams -> Nat] /\ spoilt \subseteq Streams
  /\ at \in Nat
  /\ pc \in {"compare", "verify", "retry"} => at \in DOMAIN Stream

\* What a result says of the output.
Truthful(r) ==
  /\ r.status # "none"
  /\ r.chunks = IF r.status = "COMPLETED" THEN written ELSE None
  /\ r.status = "REJECTED" => written = None

\* Output is written before any result, and by a job that was launched.
ResultsList ==
  /\ stage \in {"waiting", "claimed"} => written = None
  /\ stage \in {"waiting", "claimed", "running"} => gens = <<>>
  /\ stage = "publishing" => Truthful(result)
  /\ \A n \in DOMAIN gens : Truthful(gens[n])

EmittedExists == \A s \in Streams : count[s] <= written[s]

\* A stream is as FINAL lists it.
Agrees(s) == count[s] = Due(s) /\ s \notin spoilt

CheckedSoFar ==
  /\ pc \in {"compare", "verify", "retry", "fetch", "refetch"} => HasResult
  /\ pc \in {"compare", "verify", "retry"} => \A j \in 1..(at - 1) : Agrees(Stream[j])
  /\ pc \in {"verify", "retry"} => Here \notin spoilt /\ count[Here] <= Due(Here)
  /\ pc \in {"fetch", "refetch"} => \A s \in Streams : Agrees(s)

OutInv == Inv /\ CountType /\ ResultsList /\ EmittedExists /\ CheckedSoFar

-----------------------------------------------------------------------------
\* Streams are numbered once each.
LEMMA StreamNumbers ==
  /\ Streams = {Stream[i] : i \in DOMAIN Stream}
  /\ \A i, j \in DOMAIN Stream : Stream[i] = Stream[j] => i = j
  /\ DOMAIN Stream = 1..Len(Stream) /\ Len(Stream) \in Nat \ {0}
<1>1. Stream \in Seq(STRING) /\ Stream # <<>>
  BY ClientAssumption
<1>2. DOMAIN Stream = 1..Len(Stream) /\ Len(Stream) \in Nat \ {0}
  BY <1>1
<1> QED BY <1>2, ClientAssumption DEF Streams, ToSet, IsInjective

\* FINAL points to a result.
LEMMA ResultAt ==
  ASSUME OutInv, final > 0
  PROVE  /\ final \in DOMAIN gens /\ gens[final] \in Results
         /\ gens[final].chunks \in [Streams -> Nat] /\ gens[final].artifacts \in Nat
<1>1. final \in DOMAIN gens /\ gens[final] \in Results
  BY DEF OutInv, Inv, TypeOK
<1> QED BY <1>1 DEF Results

\* What FINAL lists of a stream was written, all of it if nothing went wrong.
LEMMA Listed ==
  ASSUME OutInv, final > 0, NEW s \in Streams
  PROVE  /\ Due(s) \in Nat /\ count[s] \in Nat /\ count[s] <= written[s]
         /\ gens[final].chunks \in [Streams -> Nat]
         /\ Due(s) <= written[s]
         /\ gens[final].status \in {"COMPLETED", "REJECTED", "FAILED", "AVAILABILITY_UNKNOWN"}
         /\ gens[final].status \in {"COMPLETED", "REJECTED"} => Due(s) = written[s]
<1>1. final \in DOMAIN gens /\ gens[final] \in Results
  BY ResultAt
<1>2. Truthful(gens[final])
  BY <1>1 DEF OutInv, ResultsList
<1>3. written[s] \in Nat /\ None[s] = 0 /\ count[s] \in Nat
  BY DEF OutInv, Inv, TypeOK, CountType, None
<1> QED BY <1>1, <1>2, <1>3 DEF Due, Truthful, Results, Statuses, OutInv, EmittedExists

\* An answer FINAL has a result to it.
LEMMA ResultThere ==
  ASSUME OutInv, HasResult
  PROVE  final > 0
BY DEF OutInv, Inv, FoundRests, Told, HasResult

\* At the start nothing was written or emitted.
LEMMA InitOut == Init => OutInv
<1> SUFFICES ASSUME Init PROVE OutInv
  OBVIOUS
<1>1. Inv
  BY InitInv
<1>2. CountType /\ EmittedExists
  BY ResultTypes DEF Init, CountType, EmittedExists, None
<1>3. ResultsList
  BY DEF Init, ResultsList
<1>4. CheckedSoFar
  BY DEF Init, CheckedSoFar
<1> QED BY <1>1, <1>2, <1>3, <1>4 DEF OutInv

-----------------------------------------------------------------------------
\* The watchers' steps.

\* What is appended comes last, and the rest is as before.
LEMMA Appended ==
  ASSUME NEW S, NEW q \in Seq(S), NEW r \in S, NEW n \in DOMAIN Append(q, r)
  PROVE  Append(q, r)[n] = r \/ (n \in DOMAIN q /\ Append(q, r)[n] = q[n])
<1>1. Len(q) \in Nat /\ DOMAIN q = 1..Len(q)
  OBVIOUS
<1>2. n \in 1..(Len(q) + 1)
  BY <1>1
<1> QED BY <1>1, <1>2

\* A watcher publishes what it has written, or nothing.
LEMMA WatchersList ==
  ASSUME OutInv, WatcherAction
  PROVE  ResultsList'
<1> USE DEF OutInv, ResultsList, Inv, jobVars, watcherVars
<1>1. CASE Claim BY <1>1 DEF Claim, Truthful
<1>2. CASE Launch BY <1>2 DEF Launch, Truthful
<1>3. CASE Complete BY <1>3 DEF Complete, Truthful
<1>4. CASE PublishGeneration
  <2>1. gens \in Seq(Results) /\ result \in Results /\ Truthful(result)
    BY <1>4 DEF TypeOK, PublishGeneration
  <2>2. \A n \in DOMAIN Append(gens, result) :
          \/ Append(gens, result)[n] = result
          \/ n \in DOMAIN gens /\ Append(gens, result)[n] = gens[n]
    BY <2>1, Appended
  <2> QED BY <1>4, <2>1, <2>2 DEF PublishGeneration, Truthful
<1>5. CASE PublishFinal BY <1>5 DEF PublishFinal, Truthful
<1>6. CASE Recover BY <1>6 DEF Recover, Truthful, Blank
<1>7. CASE Pong BY <1>7 DEF Pong, Truthful
<1>8. CASE Fail BY <1>8 DEF Fail, Taken, Truthful, Blank
<1>9. CASE Crash BY <1>9 DEF Crash, Taken, Truthful
<1>10. CASE \E s \in Streams : WriteChunk(s) BY <1>10 DEF WriteChunk, Truthful
<1> QED BY <1>1, <1>2, <1>3, <1>4, <1>5, <1>6, <1>7, <1>8, <1>9, <1>10
        DEF WatcherAction, WatcherStep

\* Output is only added, and a job that has its FINAL is left alone.
LEMMA WatchersWrite ==
  ASSUME OutInv, WatcherAction
  PROVE  /\ UNCHANGED clientVars
         /\ \A s \in Streams : written[s] <= written'[s]
         /\ final > 0 => UNCHANGED <<gens, final>>
<1> USE DEF OutInv, Inv, TypeOK, FinalOnce, jobVars, watcherVars, ByWatcher
<1>1. CASE Claim \/ Launch \/ Recover
  BY <1>1 DEF Claim, Launch, Recover
<1>2. CASE Complete \/ Fail \/ Crash \/ Pong
  BY <1>2 DEF Complete, Fail, Taken, Crash, Pong
<1>3. CASE PublishGeneration \/ PublishFinal
  BY <1>3 DEF PublishGeneration, PublishFinal
<1>4. CASE \E s \in Streams : WriteChunk(s)
  BY <1>4 DEF WriteChunk
<1> QED BY <1>1, <1>2, <1>3, <1>4 DEF WatcherAction, WatcherStep

\* So a check that is under way is not disturbed.
LEMMA OutByWatchers ==
  ASSUME OutInv, WatcherAction
  PROVE  OutInv'
<1>1. Inv' /\ ResultsList'
  BY ByWatchers, WatchersList DEF OutInv
<1>2. CountType'
  BY WatchersWrite DEF OutInv, CountType, clientVars, waitVars
<1>3. EmittedExists'
  BY WatchersWrite, <1>1 DEF OutInv, Inv, TypeOK, CountType, EmittedExists, clientVars, waitVars
<1>4. CheckedSoFar'
  <2>1. CASE HasResult
    BY <2>1, WatchersWrite, ResultThere
       DEF OutInv, CheckedSoFar, HasResult, Agrees, Due, Here, clientVars, waitVars
  <2>2. CASE ~HasResult
    BY <2>2, WatchersWrite DEF OutInv, CheckedSoFar, HasResult, clientVars, waitVars
  <2> QED BY <2>1, <2>2
<1> QED BY <1>1, <1>2, <1>3, <1>4 DEF OutInv

-----------------------------------------------------------------------------
\* The client's steps.

Checking == {"compare", "verify", "retry", "fetch", "refetch"}
Alone == UNCHANGED <<written, gens, final, stage, result>>

\* Nothing is added to the share by a client that matters for its results.
LEMMA ListedStill ==
  ASSUME OutInv, Alone
  PROVE  ResultsList'
BY DEF OutInv, ResultsList, Truthful, Alone

\* A call that returns leaves nothing behind.
LEMMA AfterReturn ==
  ASSUME OutInv, Inv', NEW o, Return(o)
  PROVE  OutInv' /\ outcome' = o /\ pc' = "idle" /\ UNCHANGED <<gens, final>>
<1>1. Alone /\ count' = None /\ spoilt' = {} /\ pc' = "idle" /\ at' = 1 /\ outcome' = o
  BY DEF Return, Alone, jobVars, watcherVars
<1>2. CountType'
  BY <1>1, ResultTypes DEF CountType
<1>3. EmittedExists'
  BY <1>1 DEF OutInv, Inv, TypeOK, Alone, EmittedExists, None
<1>4. CheckedSoFar'
  BY <1>1 DEF CheckedSoFar
<1> QED BY <1>1, <1>2, <1>3, <1>4, ListedStill DEF OutInv, Alone

\* A step that emits nothing and checks nothing.
LEMMA AfterMove ==
  ASSUME OutInv, Inv', Alone, UNCHANGED waitVars, at' \in Nat, pc' \notin Checking
  PROVE  OutInv'
<1>1. CountType' /\ EmittedExists' /\ CheckedSoFar'
  BY DEF OutInv, CountType, EmittedExists, CheckedSoFar, Alone, waitVars, Checking
<1> QED BY <1>1, ListedStill DEF OutInv

\* A step of the check that leaves the answer: what is checked stays checked.
LEMMA AfterCheck ==
  ASSUME OutInv, Inv', Alone, UNCHANGED answer, pc' \in Checking, HasResult,
         CountType', EmittedExists',
         pc' \in {"compare", "verify", "retry"} =>
           (\A j \in 1..(at - 1) : Agrees(Stream[j]))',
         pc' \in {"verify", "retry"} => (Here \notin spoilt /\ count[Here] <= Due(Here))',
         pc' \in {"fetch", "refetch"} => (\A s \in Streams : Agrees(s))'
  PROVE  OutInv'
<1>1. CheckedSoFar'
  BY DEF CheckedSoFar, HasResult
<1> QED BY <1>1, ListedStill DEF OutInv

\* What OutcomeIsTrue says of one step.
TrueOutcome ==
  pc # "idle" /\ pc' = "idle" =>
    /\ outcome'[1] = "result" =>
         /\ final > 0 /\ outcome'[2] = gens[final].status
         /\ call # "status" => count = gens[final].chunks /\ spoilt = {}
         /\ call = "download" => at > gens[final].artifacts
    /\ outcome' = <<"raised", "disagreement">> =>
         \/ spoilt # {}
         \/ gens[final].status \in {"FAILED", "AVAILABILITY_UNKNOWN"}

\* Calls, phases, the reads of status(), the probe and the clock.
LEMMA OutByAsking ==
  ASSUME OutInv, Inv',
         \/ Submit \/ Probe \/ \E c \in {"status", "wait", "download"} : Ask(c)
         \/ PhaseReached \/ ReadMarker \/ ReadFinal \/ ReadPointer \/ MissMarker
         \/ ReadRaises \/ MissPong
  PROVE  OutInv' /\ TrueOutcome
<1> USE DEF OutInv, CountType, Checking, Goto, Look, Alone, shareVars, jobVars, watcherVars
<1>1. Alone /\ UNCHANGED waitVars /\ at' \in Nat /\ pc' \notin Checking \cup {"idle"}
  <2>1. CASE Submit \/ Probe \/ \E c \in {"status", "wait", "download"} : Ask(c)
    BY <2>1 DEF Submit, Probe, Ask, Begin
  <2>2. CASE PhaseReached \/ MissPong
    BY <2>2 DEF PhaseReached, MissPong
  <2>3. CASE ReadMarker \/ ReadFinal \/ ReadPointer \/ ReadRaises
    BY <2>3 DEF ReadMarker, ReadFinal, ReadPointer, ReadRaises, Found, Answer
  <2>4. CASE MissMarker
    BY <2>4 DEF MissMarker, Found, Answer
  <2> QED BY <2>1, <2>2, <2>3, <2>4
<1> QED BY <1>1, AfterMove DEF TrueOutcome

\* The clock changes no more than the time.
LEMMA OutByTime ==
  ASSUME OutInv, Inv', Elapse \/ UNCHANGED vars
  PROVE  OutInv' /\ TrueOutcome
<1>1. Alone /\ UNCHANGED <<waitVars, at, pc, answer>>
  BY DEF Elapse, Look, vars, clientVars, shareVars, jobVars, watcherVars, Alone
<1>2. CountType' /\ EmittedExists' /\ CheckedSoFar'
  BY <1>1 DEF OutInv, CountType, EmittedExists, CheckedSoFar, HasResult, Agrees, Due, Here,
              Alone, waitVars
<1> QED BY <1>1, <1>2, ListedStill DEF OutInv, TrueOutcome

\* Returns that report no result.
LEMMA OutByReturning ==
  ASSUME OutInv, Inv', PhaseTimeout \/ ReturnStatus \/ ReadPong \/ GiveUp
  PROVE  OutInv' /\ TrueOutcome
<1>1. CASE PhaseTimeout \/ ReadPong
  BY <1>1, AfterReturn DEF PhaseTimeout, ReadPong, TrueOutcome
<1>2. CASE ReturnStatus
  BY <1>2, AfterReturn, ResultThere DEF ReturnStatus, Reply, TrueOutcome
<1>3. CASE GiveUp
  BY <1>3, AfterReturn DEF GiveUp, TrueOutcome
<1> QED BY <1>1, <1>2, <1>3

\* Live output is there when it is emitted.
LEMMA OutByEmitting ==
  ASSUME OutInv, Inv', Emit
  PROVE  OutInv' /\ TrueOutcome
<1>1. Alone /\ pc' = "pause" /\ at' = 1
  BY DEF Emit, Goto, Look, Alone, shareVars, jobVars, watcherVars
<1>2. PICK n \in [Streams -> 0..Burst] :
        /\ \A s \in Streams :
             n[s] <= IF live /\ answer # "RESULT_PROPAGATING" THEN written[s] - count[s] ELSE 0
        /\ count' = [s \in Streams |-> count[s] + n[s]]
        /\ \E T \in SUBSET {s \in Streams : n[s] > 0} : spoilt' = spoilt \cup T
  BY DEF Emit
<1>3. Burst \in Nat
  BY ClientAssumption
<1>4. \A s \in Streams : n[s] \in Nat /\ count[s] \in Nat /\ written[s] \in Nat
                         /\ count[s] <= written[s]
  BY <1>2, <1>3 DEF OutInv, Inv, TypeOK, CountType, EmittedExists
<1>5. CountType'
  BY <1>1, <1>2, <1>4 DEF OutInv, CountType
<1>6. EmittedExists'
  BY <1>1, <1>2, <1>4 DEF EmittedExists, Alone
<1>7. CheckedSoFar'
  BY <1>1 DEF CheckedSoFar
<1> QED BY <1>1, <1>5, <1>6, <1>7, ListedStill DEF OutInv, TrueOutcome

\* The check begins with the first stream.
LEMMA OutByBeginning ==
  ASSUME OutInv, Inv', BeginCheck
  PROVE  OutInv' /\ TrueOutcome
<1>1. Alone /\ UNCHANGED <<waitVars, answer>> /\ HasResult /\ pc' = "compare" /\ at' = 1
  BY DEF BeginCheck, Goto, Look, Alone, shareVars, jobVars, watcherVars
<1>2. CountType' /\ EmittedExists'
  BY <1>1, StreamNumbers DEF OutInv, CountType, EmittedExists, Alone, waitVars
<1> QED BY <1>1, <1>2, AfterCheck DEF Checking, TrueOutcome

\* At a stream that is compared or verified.
LEMMA AtStream ==
  ASSUME OutInv, pc \in {"compare", "verify", "retry"}
  PROVE  /\ HasResult /\ final > 0 /\ at \in DOMAIN Stream /\ at \in 1..Len(Stream)
         /\ Here \in Streams
BY ResultThere, StreamNumbers DEF OutInv, CountType, CheckedSoFar, Here

\* Only output that FINAL does not list, or a torn chunk, disagrees.
LEMMA OutByComparing ==
  ASSUME OutInv, Inv', Compare
  PROVE  OutInv' /\ TrueOutcome
<1>1. pc = "compare"
  BY DEF Compare
<1>2. CASE count[Here] > Due(Here) \/ Here \in spoilt
  <2>1. Return(<<"raised", "disagreement">>)
    BY <1>2 DEF Compare
  <2>2. CASE Here \in spoilt
    BY <2>1, <2>2, AfterReturn DEF TrueOutcome
  <2>3. CASE count[Here] > Due(Here)
    <3>1. Here \in Streams /\ final > 0
      BY <1>1, AtStream
    <3>2. written[Here] \in Nat
      BY <3>1 DEF OutInv, Inv, TypeOK
    <3>3. gens[final].status \in {"FAILED", "AVAILABILITY_UNKNOWN"}
      BY <2>3, <3>1, <3>2, Listed
    <3> QED BY <2>1, <3>3, AfterReturn DEF TrueOutcome
  <2> QED BY <1>2, <2>2, <2>3
<1>3. CASE ~(count[Here] > Due(Here) \/ Here \in spoilt)
  <2>1. /\ Alone /\ UNCHANGED <<waitVars, answer, at>> /\ pc' = "verify"
        /\ HasResult /\ Here \notin spoilt /\ count[Here] <= Due(Here)
    BY <1>1, <1>3, AtStream, Listed
       DEF Compare, Goto, Look, Alone, shareVars, jobVars, watcherVars
  <2>2. CountType' /\ EmittedExists'
    BY <1>1, <2>1 DEF OutInv, CountType, EmittedExists, Alone, waitVars
  <2>3. (\A j \in 1..(at - 1) : Agrees(Stream[j]))'
    BY <1>1, <2>1 DEF OutInv, CheckedSoFar, Agrees, Due, Alone, waitVars
  <2>4. (Here \notin spoilt /\ count[Here] <= Due(Here))'
    BY <2>1 DEF Here, Due, Alone, waitVars
  <2> QED BY <2>1, <2>2, <2>3, <2>4, AfterCheck DEF Checking, TrueOutcome
<1> QED BY <1>2, <1>3

\* A chunk is verified where one is due.
LEMMA OutByVerifying ==
  ASSUME OutInv, Inv', VerifyChunk
  PROVE  OutInv' /\ TrueOutcome
<1>1. /\ pc = "verify" /\ count[Here] < Due(Here)
      /\ Alone /\ UNCHANGED <<answer, at, spoilt>> /\ pc' = "verify"
      /\ count' = [count EXCEPT ![Here] = @ + 1]
  BY DEF VerifyChunk, ChunkDue, Goto, Look, Alone, shareVars, jobVars, watcherVars
<1>2. HasResult /\ at \in 1..Len(Stream) /\ Here \in Streams /\ final > 0
  BY <1>1, AtStream
<1>3. /\ Due(Here) \in Nat /\ count[Here] \in Nat
      /\ Due(Here) <= written[Here] /\ written[Here] \in Nat
  BY <1>2, Listed DEF OutInv, Inv, TypeOK
<1>4. CountType'
  BY <1>1, <1>2, <1>3 DEF OutInv, CountType
<1>5. EmittedExists'
  BY <1>1, <1>2, <1>3 DEF OutInv, CountType, EmittedExists, Alone
<1>6. (\A j \in 1..(at - 1) : Agrees(Stream[j]))'
  <2>1. SUFFICES ASSUME NEW j \in 1..(at - 1)
                 PROVE  count'[Stream[j]] = count[Stream[j]] /\ Agrees(Stream[j])
    BY <1>1 DEF Agrees, Due, Alone
  <2>2. j \in DOMAIN Stream /\ at \in DOMAIN Stream /\ j # at
    BY <1>2, StreamNumbers
  <2>3. Stream[j] \in Streams /\ Stream[j] # Here
    BY <2>2, StreamNumbers DEF Here
  <2> QED BY <1>1, <2>3 DEF OutInv, CountType, CheckedSoFar
<1>7. (Here \notin spoilt /\ count[Here] <= Due(Here))'
  BY <1>1, <1>2, <1>3 DEF OutInv, CheckedSoFar, CountType, Here, Due, Alone
<1> QED BY <1>1, <1>2, <1>4, <1>5, <1>6, <1>7, AfterCheck DEF Checking, TrueOutcome

\* A failed read, and another attempt, change nothing.
LEMMA OutByRetrying ==
  ASSUME OutInv, Inv', VerifyFails \/ FetchFails \/ Resume
  PROVE  OutInv' /\ TrueOutcome
<1>1. /\ Alone /\ UNCHANGED <<waitVars, answer, at>>
      /\ \/ pc \in {"verify", "retry"} /\ pc' \in {"verify", "retry"}
         \/ pc \in {"fetch", "refetch"} /\ pc' \in {"fetch", "refetch"}
         \/ pc' \in {"status", "probe"}
  BY DEF VerifyFails, ChunkDue, FetchFails, Fetching, Resume, Loops, Goto, Look, Alone,
         shareVars, jobVars, watcherVars
<1>2. CountType' /\ EmittedExists' /\ CheckedSoFar'
  BY <1>1 DEF OutInv, CountType, EmittedExists, CheckedSoFar, HasResult, Agrees, Due, Here,
              Alone, waitVars
<1> QED BY <1>1, <1>2, ListedStill DEF OutInv, TrueOutcome

\* Streams that all agree make the counts those of FINAL.
LEMMA AllAgree ==
  ASSUME OutInv, final > 0, \A s \in Streams : Agrees(s)
  PROVE  count = gens[final].chunks /\ spoilt = {}
<1>1. gens[final].chunks \in [Streams -> Nat]
  BY ResultAt
<1> QED BY <1>1 DEF OutInv, CountType, Agrees, Due

\* A stream is done when all that FINAL lists was verified.
LEMMA OutByStream ==
  ASSUME OutInv, Inv', StreamDone
  PROVE  OutInv' /\ TrueOutcome
<1>1. pc = "verify" /\ ~(count[Here] < Due(Here))
  BY DEF StreamDone, ChunkDue
<1>2. HasResult /\ final > 0 /\ at \in 1..Len(Stream) /\ Here \in Streams
  BY <1>1, AtStream
<1>3. Agrees(Here)
  BY <1>1, <1>2, Listed DEF OutInv, CheckedSoFar, Agrees
<1>4. \A j \in 1..at : Agrees(Stream[j])
  BY <1>1, <1>2, <1>3 DEF OutInv, CheckedSoFar, Here
<1>5. CASE at < Len(Stream)
  <2>1. Alone /\ UNCHANGED <<waitVars, answer>> /\ pc' = "compare" /\ at' = at + 1
    BY <1>5 DEF StreamDone, Goto, Look, Alone, shareVars, jobVars, watcherVars
  <2>2. CountType' /\ EmittedExists'
    BY <1>2, <1>5, <2>1, StreamNumbers DEF OutInv, CountType, EmittedExists, Alone, waitVars
  <2>3. (\A j \in 1..(at - 1) : Agrees(Stream[j]))'
    BY <1>2, <1>4, <2>1 DEF Agrees, Due, Alone, waitVars
  <2> QED BY <1>2, <2>1, <2>2, <2>3, AfterCheck DEF Checking, TrueOutcome
<1>6. CASE ~(at < Len(Stream))
  <2>1. \A s \in Streams : Agrees(s)
    BY <1>2, <1>4, <1>6, StreamNumbers
  <2>2. CASE call = "download"
    <3>1. Alone /\ UNCHANGED <<waitVars, answer>> /\ pc' = "fetch" /\ at' = 1
      BY <1>6, <2>2 DEF StreamDone, Goto, Look, Alone, shareVars, jobVars, watcherVars
    <3>2. CountType' /\ EmittedExists'
      BY <3>1 DEF OutInv, CountType, EmittedExists, Alone, waitVars
    <3>3. (\A s \in Streams : Agrees(s))'
      BY <2>1, <3>1 DEF Agrees, Due, Alone, waitVars
    <3> QED BY <1>2, <3>1, <3>2, <3>3, AfterCheck DEF Checking, TrueOutcome
  <2>3. CASE call # "download"
    <3>1. Return(<<"result", gens[final].status>>)
      BY <1>2, <1>6, <2>3 DEF StreamDone, Reply
    <3>2. count = gens[final].chunks /\ spoilt = {}
      BY <1>2, <2>1, AllAgree
    <3> QED BY <1>2, <2>3, <3>1, <3>2, AfterReturn DEF TrueOutcome
  <2> QED BY <2>2, <2>3
<1> QED BY <1>5, <1>6

\* Artifacts follow when the output was checked.
LEMMA OutByFetching ==
  ASSUME OutInv, Inv', Fetch \/ Fetched
  PROVE  OutInv' /\ TrueOutcome
<1>1. pc = "fetch" /\ HasResult /\ final > 0 /\ \A s \in Streams : Agrees(s)
  BY ResultThere DEF Fetch, Fetched, Fetching, OutInv, CheckedSoFar
<1>2. CASE Goto("fetch", at + 1) /\ UNCHANGED <<seen, waitVars>>
  <2>1. Alone /\ UNCHANGED <<waitVars, answer>> /\ pc' = "fetch" /\ at' = at + 1
    BY <1>2 DEF Goto, Look, Alone, shareVars, jobVars, watcherVars
  <2>2. CountType' /\ EmittedExists'
    BY <2>1 DEF OutInv, CountType, EmittedExists, Alone, waitVars
  <2>3. (\A s \in Streams : Agrees(s))'
    BY <1>1, <2>1 DEF Agrees, Due, Alone, waitVars
  <2> QED BY <1>1, <2>1, <2>2, <2>3, AfterCheck DEF Checking, TrueOutcome
<1>3. CASE Return(<<"raised", "exists">>)
  BY <1>3, AfterReturn DEF TrueOutcome
<1>4. CASE Fetched
  <2>1. Return(<<"result", gens[final].status>>) /\ ~(at <= gens[final].artifacts)
    BY <1>1, <1>4 DEF Fetched, Fetching, Reply
  <2>2. at > gens[final].artifacts
    BY <1>1, <2>1, ResultAt DEF OutInv, CountType
  <2>3. count = gens[final].chunks /\ spoilt = {}
    BY <1>1, AllAgree
  <2> QED BY <1>1, <2>1, <2>2, <2>3, AfterReturn DEF TrueOutcome
<1> QED BY <1>2, <1>3, <1>4 DEF Fetch

-----------------------------------------------------------------------------
\* Every step.
LEMMA StepOut ==
  ASSUME OutInv, [Next]_vars
  PROVE  OutInv' /\ TrueOutcome
<1>1. Inv'
  BY StepInv DEF OutInv
<1>2. CASE WatcherAction
  BY <1>2, OutByWatchers, WatchersWrite DEF TrueOutcome, clientVars
<1>3. CASE ~WatcherAction
  <2>1. \/ Submit \/ Probe \/ \E c \in {"status", "wait", "download"} : Ask(c)
        \/ PhaseReached \/ PhaseTimeout \/ ReadMarker \/ ReadFinal \/ ReadPointer
        \/ MissMarker \/ ReadRaises \/ ReturnStatus \/ Emit \/ BeginCheck \/ Compare
        \/ VerifyChunk \/ VerifyFails \/ StreamDone \/ Fetch \/ FetchFails \/ Fetched
        \/ ReadPong \/ MissPong \/ Resume \/ GiveUp \/ Elapse \/ UNCHANGED vars
    BY <1>3 DEF Next, ClientStep, WatcherAction
  <2> QED BY <1>1, <2>1, OutByAsking, OutByTime, OutByReturning, OutByEmitting,
             OutByBeginning, OutByComparing, OutByVerifying, OutByRetrying, OutByStream,
             OutByFetching
<1> QED BY <1>2, <1>3

\* A checked stream is as FINAL lists it, and FINAL lists what was written.
THEOREM ChecksHold == Spec => []OutInv
<1>1. OutInv /\ [Next]_vars => OutInv'
  BY StepOut
<1> QED BY <1>1, InitOut, PTL DEF Spec

\* What exec, status, wait and download_artifacts come to is true (client.py:92-224):
\* a status is that of FINAL, wait() has had all its output and nothing else, a
\* download all artifacts; and output of a job that completed is never said to
\* disagree unless a torn chunk was emitted.
THEOREM OutcomesAreTrue == Spec => OutcomeIsTrue
<1>1. OutInv /\ [Next]_vars => [TrueOutcome]_vars
  BY StepOut
<1> QED BY <1>1, ChecksHold, PTL DEF Spec, OutcomeIsTrue, TrueOutcome
=============================================================================
