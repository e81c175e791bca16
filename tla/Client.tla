-------------------------------- MODULE Client --------------------------------
(***************************************************************************)
(* fs_exec/client.py and the exec command of fs_exec/cli.py: one client    *)
(* follows one job over a share on which every file may be seen late, in   *)
(* any order, and a chunk of output torn at first; it also probes the      *)
(* watcher.                                                                *)
(*                                                                         *)
(* When a file becomes visible is decided when the client looks for it;    *)
(* once seen, it stays.  Of the deadlines of a call, that of the whole and *)
(* that of its result, the one that passes first is the one that counts.   *)
(* Contents are abstracted to what a comparison of sizes and hashes tells: *)
(* a chunk is whole or it is not.                                          *)
(*                                                                         *)
(* The watchers are those of Watcher, cut down to what they write for the  *)
(* client and when; a successor of a crashed one closes the job.  Names,   *)
(* payloads and exit codes are left out.                                   *)
(*                                                                         *)
(* An operator commented "Variant" is no part of the model: it is a version*)
(* of the definition after it with a likely mistake in it.                 *)
(***************************************************************************)
EXTENDS Naturals, Sequences, SequencesExt

CONSTANTS
  Stream,      \* the streams in the order wait() treats them
  MaxChunks,   \* the limit of chunks per stream
  Burst,       \* chunks shown per stream and pass
  Artifacts,   \* how many artifacts a completed job leaves
  MaxGens      \* bound on result generations

ASSUME ClientAssumption ==
  /\ Stream \in Seq(STRING) /\ IsInjective(Stream) /\ Stream # <<>>
  /\ {MaxChunks, Burst, Artifacts, MaxGens} \subseteq Nat

Streams == ToSet(Stream)
None == [s \in Streams |-> 0]
Blank == [status |-> "none", chunks |-> None, artifacts |-> 0]
Marker(kind) == <<kind, 0>>
Generation(n) == <<"generation", n>>

VARIABLES
  \* the share
  markers,    \* COMMIT, CLAIMED, RUNNING, FINAL, as written
  written,    \* chunks of each stream
  gens,       \* results, by generation
  final,      \* the generation FINAL points to, or 0
  probe,      \* the probe of the current call: none, PING, PONG
  \* the watchers
  stage,      \* waiting, claimed, running, publishing, linking, closed, dead
  result,     \* what is to be published
  \* the client
  seen,       \* the markers and generations it has seen
  pc, call,
  over,       \* a deadline of the call has passed
  live,       \* wait(stream=True)
  at,         \* the probe, the stream or the artifact it is at
  found,      \* the phase the files showed when they last gave the answer
  answer,     \* what status() answered last: that phase, or something else
  count,      \* counts: chunks emitted or verified
  spoilt,     \* streams of which a torn chunk was emitted
  outcome     \* what the last call came to

jobVars == <<markers, written, gens, final>>
shareVars == <<jobVars, probe>>
watcherVars == <<stage, result>>
waitVars == <<count, spoilt>>
clientVars == <<seen, pc, call, over, live, at, found, answer, waitVars, outcome>>
vars == <<shareVars, watcherVars, clientVars>>

Init ==
  /\ markers = {} /\ written = None /\ gens = <<>> /\ final = 0 /\ probe = "none"
  /\ stage = "waiting" /\ result = Blank
  /\ seen = {} /\ pc = "idle" /\ call = "none" /\ over = FALSE
  /\ live = FALSE /\ at = 1
  /\ found = "AWAITING_VISIBILITY" /\ answer = "AWAITING_VISIBILITY"
  /\ count = None /\ spoilt = {} /\ outcome = <<"none">>

-----------------------------------------------------------------------------
\* The watchers.

Mark(kind) == markers' = markers \cup {Marker(kind)}
ByWatcher == UNCHANGED <<probe, clientVars>>

Claim ==
  /\ stage = "waiting" /\ Marker("COMMIT") \in markers
  /\ Mark("CLAIMED") /\ stage' = "claimed"
  /\ UNCHANGED <<written, gens, final, result>> /\ ByWatcher

Launch ==
  /\ stage = "claimed"
  /\ Mark("RUNNING") /\ stage' = "running"
  /\ UNCHANGED <<written, gens, final, result>> /\ ByWatcher

\* Only the holder of the claim writes chunks, each once.
WriteChunk(s) ==
  /\ stage = "running" /\ written[s] < MaxChunks
  /\ written' = [written EXCEPT ![s] = @ + 1]
  /\ UNCHANGED <<markers, gens, final, watcherVars>> /\ ByWatcher

Complete ==
  /\ stage = "running"
  /\ result' = [status |-> "COMPLETED", chunks |-> written, artifacts |-> Artifacts]
  /\ stage' = "publishing"
  /\ UNCHANGED jobVars /\ ByWatcher

\* Having taken the job, with or without CLAIMED to show for it.
Taken == stage = "claimed" \/ (stage = "waiting" /\ Marker("COMMIT") \in markers)

\* An exception: the result lists no output, be there chunks in the share.
Fail ==
  /\ Taken \/ stage = "running"
  /\ result' = [Blank EXCEPT !.status = IF Taken THEN "REJECTED" ELSE "FAILED"]
  /\ stage' = "publishing"
  /\ UNCHANGED jobVars /\ ByWatcher

PublishGeneration ==
  /\ stage = "publishing"
  /\ gens' = Append(gens, result)
  /\ stage' = "linking" /\ result' = Blank
  /\ UNCHANGED <<markers, written, final>> /\ ByWatcher

PublishFinal ==
  /\ stage = "linking"
  /\ final' = Len(gens) /\ Mark("FINAL")
  /\ stage' = "closed"
  /\ UNCHANGED <<written, gens, result>> /\ ByWatcher

Crash ==
  /\ Taken \/ stage \in {"running", "publishing", "linking"}
  /\ Len(gens) < MaxGens
  /\ stage' = "dead" /\ result' = Blank
  /\ UNCHANGED jobVars /\ ByWatcher

\* Variant: a claim that was not started is left alone.
RecoverStarted ==
  /\ stage = "dead" /\ Marker("RUNNING") \in markers
  /\ result' = [Blank EXCEPT !.status = "AVAILABILITY_UNKNOWN"]
  /\ stage' = "publishing"
  /\ UNCHANGED jobVars /\ ByWatcher

\* The next watcher closes what it finds claimed.
Recover ==
  /\ stage = "dead"
  /\ result' = [Blank EXCEPT !.status = "AVAILABILITY_UNKNOWN"]
  /\ stage' = "publishing"
  /\ UNCHANGED jobVars /\ ByWatcher

\* Every probe that was not answered, between jobs and beside one.
Pong ==
  /\ stage # "dead" /\ probe = "PING" /\ probe' = "PONG"
  /\ UNCHANGED <<jobVars, watcherVars, clientVars>>

-----------------------------------------------------------------------------
\* Calls.

Look == UNCHANGED <<shareVars, watcherVars>>

Begin(c, p) ==
  /\ pc = "idle" /\ pc' = p /\ call' = c /\ outcome' = <<"none">>
  /\ UNCHANGED <<written, gens, final, watcherVars, seen, over, at, found, answer, waitVars>>

\* exec submits the job.
Submit ==
  /\ Begin("exec", "visibility") /\ live' = TRUE
  /\ Marker("COMMIT") \notin markers /\ Mark("COMMIT") /\ UNCHANGED probe

\* Other calls are about a job that may not even be there.
Ask(c) ==
  /\ Begin(c, "status") /\ live' \in IF c = "wait" THEN BOOLEAN ELSE {FALSE}
  /\ UNCHANGED <<markers, probe>>

Probe ==
  /\ Begin("health", "probe") /\ live' = FALSE
  /\ probe' = "PING" /\ UNCHANGED markers

Return(o) ==
  /\ pc' = "idle" /\ outcome' = o
  /\ call' = "none" /\ over' = FALSE /\ live' = FALSE /\ at' = 1
  /\ count' = None /\ spoilt' = {}
  /\ probe' = "none" /\ UNCHANGED <<seen, found, answer, jobVars, watcherVars>>

Goto(p, n) ==
  /\ pc' = p /\ at' = n
  /\ UNCHANGED <<call, over, live, found, answer, outcome>> /\ Look

\* wait_for_phase: first the request, then the claim.
Phases == [visibility |-> "COMMIT", claim |-> "CLAIMED"]

PhaseReached ==
  /\ pc \in DOMAIN Phases /\ Marker(Phases[pc]) \in markers
  /\ seen' = seen \cup {Marker(Phases[pc])}
  /\ Goto(IF pc = "visibility" THEN "claim" ELSE "status", 1) /\ UNCHANGED waitVars

PhaseTimeout == pc \in DOMAIN Phases /\ Return(<<"state", "UNKNOWN">>)

-----------------------------------------------------------------------------
\* status(): one file after the other.

\* Variant: what a watcher has done is looked for before what it has found out.
ProbesMisplaced == <<"FINAL", "RUNNING", "generation", "CLAIMED", "COMMIT">>

Probes == <<"FINAL", "generation", "RUNNING", "CLAIMED", "COMMIT">>

\* The files an answer of this kind may be due to.
Files(kind) ==
  IF kind = "generation" THEN {Generation(n) : n \in DOMAIN gens}
  ELSE markers \cap {Marker(kind)}

Answer(told) ==
  /\ pc' = "answer" /\ at' = 1 /\ answer' = told
  /\ UNCHANGED <<call, over, live, waitVars, outcome>> /\ Look

\* A heartbeat that is late, or not there, hides an answer that expects one.
Found(phase) ==
  /\ found' = phase
  /\ \E told \in {phase} \cup
         IF phase \in {"VISIBLE_UNCLAIMED", "CLAIMED", "RUNNING"}
           THEN {"AVAILABILITY_UNKNOWN"} ELSE {} : Answer(told)

ReadMarker ==
  /\ pc = "status" /\ Probes[at] # "FINAL"
  /\ \E f \in Files(Probes[at]) : seen' = seen \cup {f}
  /\ Found(CASE Probes[at] = "generation" -> "RESULT_PROPAGATING"
             [] Probes[at] = "COMMIT" -> "VISIBLE_UNCLAIMED"
             [] OTHER -> Probes[at])

\* FINAL counts with the generation it points to.
ReadFinal ==
  /\ pc = "status" /\ Probes[at] = "FINAL" /\ final > 0
  /\ seen' = seen \cup {Marker("FINAL"), Generation(final)}
  /\ Found("FINAL")

ReadPointer ==
  /\ pc = "status" /\ Probes[at] = "FINAL" /\ final > 0
  /\ Generation(final) \notin seen
  /\ seen' = seen \cup {Marker("FINAL")}
  /\ Found("RESULT_PROPAGATING")

MissMarker ==
  /\ pc = "status" /\ Files(Probes[at]) \cap seen = {}
  /\ UNCHANGED seen
  /\ IF at < Len(Probes) THEN Goto("status", at + 1) /\ UNCHANGED waitVars
     ELSE Found("AWAITING_VISIBILITY")

\* Any read that raises is answered as if a result was on its way, whatever the
\* files had shown before.
ReadRaises ==
  /\ pc = "status"
  /\ UNCHANGED <<seen, found>> /\ Answer("RESULT_PROPAGATING")

HasResult == answer = "FINAL"
Reply == IF HasResult THEN <<"result", gens[final].status>> ELSE <<"state", answer>>

ReturnStatus == pc = "answer" /\ call = "status" /\ Return(Reply)

-----------------------------------------------------------------------------
\* wait().

Waiting == pc = "answer" /\ call # "status"

\* Live output is emitted while there is no result in sight: chunk by chunk up to
\* one that is missing, whole or not.
Emit ==
  /\ Waiting /\ ~HasResult
  /\ \E n \in [Streams -> 0..Burst] :
       /\ \A s \in Streams :
            n[s] <= IF live /\ answer # "RESULT_PROPAGATING" THEN written[s] - count[s] ELSE 0
       /\ count' = [s \in Streams |-> count[s] + n[s]]
       /\ \E T \in SUBSET {s \in Streams : n[s] > 0} : spoilt' = spoilt \cup T
  /\ Goto("pause", 1) /\ UNCHANGED seen

BeginCheck ==
  /\ Waiting /\ HasResult
  /\ Goto("compare", 1) /\ UNCHANGED <<seen, waitVars>>

Here == Stream[at]
Due(s) == gens[final].chunks[s]

\* Emitted chunks are compared with what FINAL lists.
Compare ==
  /\ pc = "compare"
  /\ IF count[Here] > Due(Here) \/ Here \in spoilt THEN Return(<<"raised", "disagreement">>)
     ELSE Goto("verify", at) /\ UNCHANGED <<seen, waitVars>>

\* The other chunks are read, verified and, if live, emitted.
ChunkDue == pc = "verify" /\ count[Here] < Due(Here)

VerifyChunk ==
  /\ ChunkDue /\ ~over
  /\ count' = [count EXCEPT ![Here] = @ + 1]
  /\ Goto("verify", at) /\ UNCHANGED <<seen, spoilt>>

\* A chunk that is missing or torn is read again.
VerifyFails == ChunkDue /\ Goto("retry", at) /\ UNCHANGED <<seen, waitVars>>

\* Variant: a stream is done when time is.
StreamSkipped ==
  /\ pc = "verify"
  /\ IF at < Len(Stream) THEN Goto("compare", at + 1) /\ UNCHANGED <<seen, waitVars>>
     ELSE IF call = "download" THEN Goto("fetch", 1) /\ UNCHANGED <<seen, waitVars>>
     ELSE Return(Reply)

StreamDone ==
  /\ pc = "verify" /\ ~ChunkDue
  /\ IF at < Len(Stream) THEN Goto("compare", at + 1) /\ UNCHANGED <<seen, waitVars>>
     ELSE IF call = "download" THEN Goto("fetch", 1) /\ UNCHANGED <<seen, waitVars>>
     ELSE Return(Reply)

-----------------------------------------------------------------------------
\* download_artifacts(): one by one, verified in a private copy and linked to a
\* free name; a failure leaves those before it in place.

Fetching == pc = "fetch" /\ at <= gens[final].artifacts

Fetch ==
  /\ Fetching /\ ~over
  /\ \/ Goto("fetch", at + 1) /\ UNCHANGED <<seen, waitVars>>
     \/ Return(<<"raised", "exists">>)

FetchFails == Fetching /\ Goto("refetch", at) /\ UNCHANGED <<seen, waitVars>>

Fetched == pc = "fetch" /\ ~Fetching /\ Return(Reply)

-----------------------------------------------------------------------------
\* health(): the PONG of this very probe is looked for until the time is over.

ReadPong == pc = "probe" /\ probe = "PONG" /\ Return(<<"probed">>)

MissPong == pc = "probe" /\ Goto("reprobe", at) /\ UNCHANGED <<seen, waitVars>>

-----------------------------------------------------------------------------
\* The clock is read after a pass and after every failure.

Elapse ==
  /\ pc # "idle" /\ over' = TRUE
  /\ UNCHANGED <<seen, pc, call, live, at, found, answer, waitVars, outcome>> /\ Look

Loops == [pause |-> "status", retry |-> "verify", refetch |-> "fetch", reprobe |-> "probe"]

\* Variant: chunks are waited for as long as it takes.
ResumeRetry ==
  /\ pc \in DOMAIN Loops /\ (over => pc = "retry")
  /\ Goto(Loops[pc], at) /\ UNCHANGED <<seen, waitVars>>

Resume ==
  /\ pc \in DOMAIN Loops /\ ~over
  /\ Goto(Loops[pc], at) /\ UNCHANGED <<seen, waitVars>>

GiveUp ==
  /\ over
  /\ \/ pc = "pause"
        /\ Return(IF call = "download" THEN <<"raised", "propagating">>
                  ELSE <<"state", answer>>)
     \/ (ChunkDue \/ pc = "retry")
        /\ Return(IF call = "download" THEN <<"raised", "propagating">>
                  ELSE <<"state", "RESULT_PROPAGATING">>)
     \/ (Fetching \/ pc = "refetch") /\ Return(<<"raised", "timeout">>)
     \/ pc = "reprobe" /\ Return(<<"state", "UNKNOWN">>)

-----------------------------------------------------------------------------
ClientStep ==
  \/ PhaseReached \/ PhaseTimeout
  \/ ReadMarker \/ ReadFinal \/ ReadPointer \/ MissMarker \/ ReadRaises \/ ReturnStatus
  \/ Emit \/ BeginCheck \/ Compare \/ VerifyChunk \/ VerifyFails \/ StreamDone
  \/ Fetch \/ FetchFails \/ Fetched \/ ReadPong \/ MissPong
  \/ Resume \/ GiveUp

WatcherStep ==
  \/ Claim \/ Launch \/ Complete \/ PublishGeneration \/ PublishFinal \/ Recover

Next ==
  \/ Submit \/ Probe \/ \E c \in {"status", "wait", "download"} : Ask(c)
  \/ ClientStep \/ Elapse
  \/ WatcherStep \/ Pong \/ Fail \/ Crash
  \/ \E s \in Streams : WriteChunk(s)

Spec == Init /\ [][Next]_vars
=============================================================================
