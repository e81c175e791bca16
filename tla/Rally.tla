------------------------------- MODULE Rally --------------------------------
(***************************************************************************)
(* fs_exec/rally.py: one process carries requests, cancellations and pings *)
(* from the clients' drop to the watchers' share and results, markers and  *)
(* pongs back, through a local journal and crash-proof installation.       *)
(*                                                                         *)
(* A publication is a sequence of files that ends with its marker; its     *)
(* content is one Version for all files.  A file that is torn, malformed   *)
(* or not visible yet is no content: a snapshot of it is refused.          *)
(* Statistics, dry runs and the rally's own health file are left out.      *)
(*                                                                         *)
(* An operator commented "Variant" is no part of the model: it is a version*)
(* of the definition after it with a likely mistake in it.                 *)
(***************************************************************************)
EXTENDS Naturals, Sequences, FiniteSets, SequencesExt

CONSTANTS
  Pub,              \* the publications that occur: [kind, name]
  Version,          \* contents
  Foreign,          \* publications whose destination others may write to
  MaxEntries,       \* config.max_entries, for known names
  MaxPublications,  \* config.max_publications
  MaxPending,       \* config.max_pending_bytes, in files
  MaxBeat,          \* bound on the watcher's heartbeats
  Flaky,            \* I/O errors, crashes and power losses happen
  Nothing,          \* no such file or record
  Alien             \* what others write

Outbound == {"request", "cancel", "ping"}
Inbound == {"CLAIMED", "RUNNING", "result", "pong"}

ASSUME RallyAssumption ==
  /\ \A p \in Pub : p.kind \in Outbound \cup Inbound
  /\ \A p, q \in Pub : p.kind = q.kind /\ p.name = q.name => p = q
  /\ Foreign \subseteq Pub /\ Flaky \in BOOLEAN
  /\ {MaxEntries, MaxPublications, MaxPending, MaxBeat} \subseteq Nat
  /\ Nothing \notin Version /\ Alien \notin Version /\ Alien # Nothing

\* How the rally knows a publication: by a job, cancellation or probe.
NameOf(p) ==
  [name |-> p.name,
   kind |-> CASE p.kind = "cancel" -> "cancel"
              [] p.kind \in {"ping", "pong"} -> "probe"
              [] OTHER -> "job"]
Known == {NameOf(p) : p \in Pub}

\* What one sweep looks at for a known name, in order.
Turn == [request |-> 1, CLAIMED |-> 2, RUNNING |-> 3, result |-> 4, cancel |-> 1,
         ping |-> 1, pong |-> 2]

Size(p) == IF p.kind \in {"request", "result"} THEN 2 ELSE 1
File(p) == 1..Size(p)

VARIABLES
  source,    \* what a snapshot of the publication yields now
  beat,      \* the watcher's heartbeat at the source
  \* the destination of each publication, file by file
  staged,    \* .rally-*.tmp: none, staged, or linked to the file
  body,      \* the file
  durable,   \* its directories were flushed since it was linked
  shownBeat, \* the heartbeat in the drop
  \* the journal
  known,     \* names in the order of discovery
  digest,    \* the content of a recorded publication
  done,
  markBeat,  \* meta: the last heartbeat copied
  \* the process
  pc,        \* down, idle, replaying, discovering, polling, beating, marking
  work,      \* publications left in this phase
  step,      \* none, or where replay() is with the first of them
  at         \* the file replay() works on

sourceVars == <<source, beat>>
destVars == <<staged, body, durable>>
journalVars == <<known, digest, done>>
beatVars == <<shownBeat, markBeat>>
procVars == <<pc, work, step, at>>
vars == <<sourceVars, destVars, journalVars, beatVars, procVars>>

Init ==
  /\ source = [p \in Pub |-> Nothing] /\ beat = 0
  /\ staged = [p \in Pub |-> [i \in File(p) |-> "none"]]
  /\ body = [p \in Pub |-> [i \in File(p) |-> Nothing]]
  /\ durable = [p \in Pub |-> [i \in File(p) |-> FALSE]]
  /\ known = <<>>
  /\ digest = [p \in Pub |-> Nothing]
  /\ done = {}
  /\ shownBeat = 0 /\ markBeat = 0
  /\ pc = "down" /\ work = <<>> /\ step = "none" /\ at = 1

\* What a reader of the marker finds: a content, or files that do not agree.
Found(p) ==
  LET marker == body[p][Size(p)] IN
  IF marker \notin Version THEN Nothing
  ELSE IF \A i \in File(p) : body[p][i] = marker THEN marker
  ELSE Alien

Carrier == INSTANCE Courier WITH
  offered <- source, taken <- digest, settled <- done,
  delivered <- [p \in Pub |-> Found(p)]

-----------------------------------------------------------------------------
\* Clients, watchers and others.

\* A watcher answers what has reached it.
Reaches(q, p) ==
  /\ q.name = p.name
  /\ IF p.kind = "pong" THEN q.kind = "ping" /\ body[q][1] # Nothing
                        ELSE q.kind = "request" /\ Found(q) \in Version

\* A client writes, changes, or takes away what it publishes; a watcher
\* publishes answers.  Caches make files appear and disappear.
Offer(p) ==
  /\ \E v \in (Version \cup {Nothing}) \ {source[p]} :
       /\ v # Nothing /\ p.kind \in Inbound => \E q \in Pub : Reaches(q, p)
       /\ source' = [source EXCEPT ![p] = v]
  /\ UNCHANGED <<beat, destVars, journalVars, beatVars, procVars>>

Beat ==
  /\ beat < MaxBeat
  /\ beat' = beat + 1
  /\ UNCHANGED <<source, destVars, journalVars, beatVars, procVars>>

\* Another writer, which docs/rally.md forbids.
Intrude(p, i) ==
  /\ p \in Foreign /\ body[p][i] = Nothing
  /\ body' = [body EXCEPT ![p][i] = Alien]
  /\ UNCHANGED <<sourceVars, staged, durable, journalVars, beatVars, procVars>>

\* A drained namespace is cleaned.
Clean(p) ==
  /\ p \in done
  /\ body' = [body EXCEPT ![p] = [i \in File(p) |-> Nothing]]
  /\ durable' = [durable EXCEPT ![p] = [i \in File(p) |-> FALSE]]
  /\ UNCHANGED <<sourceVars, staged, journalVars, beatVars, procVars>>

-----------------------------------------------------------------------------
\* One sweep: once().

Elsewhere == UNCHANGED <<sourceVars, beatVars>>

Start ==
  /\ pc = "down"
  /\ pc' = "idle"
  /\ UNCHANGED <<destVars, journalVars, work, step, at>> /\ Elsewhere

Recorded == {p \in Pub : digest[p] # Nothing}
Pending == Recorded \ done

\* Variant: one pending publication is replayed, and discovery goes on.
ReplayOne ==
  /\ pc = "idle"
  /\ pc' = "replaying"
  /\ work' \in IF Pending = {} THEN {<<>>} ELSE {<<p>> : p \in Pending}
  /\ UNCHANGED <<destVars, journalVars, step, at>> /\ Elsewhere

BeginSweep ==
  /\ pc = "idle"
  /\ pc' = "replaying"
  /\ work' \in SetToSeqs(Pending)
  /\ UNCHANGED <<destVars, journalVars, step, at>> /\ Elsewhere

Replay ==
  /\ pc = "replaying" /\ step = "none" /\ work # <<>>
  /\ step' = "recover" /\ at' = 1
  /\ UNCHANGED <<pc, work, destVars, journalVars>> /\ Elsewhere

Replayed ==
  /\ pc = "replaying" /\ step = "none" /\ work = <<>>
  /\ pc' = "discovering"
  /\ UNCHANGED <<work, step, at, destVars, journalVars>> /\ Elsewhere

\* discover() and remember(): one entry of a listing, which may omit others.
Remember(x) ==
  /\ pc = "discovering" /\ Len(known) < MaxEntries
  /\ x \notin ToSet(known)
  /\ \E p \in Pub : p.kind \in Outbound /\ NameOf(p) = x /\ source[p] # Nothing
  /\ known' = Append(known, x)
  /\ UNCHANGED <<digest, done, procVars, destVars>> /\ Elsewhere

\* Names are polled in the order in which they were discovered.
ToPoll == {p \in Pub : NameOf(p) \in ToSet(known)}
Before(p, q) ==
  \/ NameOf(p) = NameOf(q) /\ Turn[p.kind] < Turn[q.kind]
  \/ \E i, j \in DOMAIN known :
       i < j /\ known[i] = NameOf(p) /\ known[j] = NameOf(q)

Discovered ==
  /\ pc = "discovering"
  /\ pc' = "polling"
  /\ work' \in {w \in SetToSeqs(ToPoll) :
                 \A i, j \in DOMAIN w : i < j => Before(w[i], w[j])}
  /\ UNCHANGED <<step, at, destVars, journalVars>> /\ Elsewhere

Current == Head(work)
Files(S) == Cardinality({f \in S \X (1..2) : f[2] \in File(f[1])})

NextItem ==
  /\ work' = Tail(work) /\ step' = "none" /\ at' = 1
  /\ UNCHANGED pc

Polling == pc = "polling" /\ step = "none" /\ work # <<>>

\* A pong is read together with its ping.
Readable(p) ==
  /\ source[p] # Nothing
  /\ p.kind = "pong" =>
       \E q \in Pub : q.kind = "ping" /\ q.name = p.name /\ source[q] # Nothing

Full(p) ==
  \/ Cardinality(Recorded) >= MaxPublications
  \/ Files(Pending \cup {p}) > MaxPending

\* Variant: what has been cleaned at its destination is carried again.
RecordCleaned ==
  /\ Polling /\ Readable(Current)
  /\ digest[Current] \in {Nothing, source[Current]}
  /\ Found(Current) = Nothing
  /\ digest' = [digest EXCEPT ![Current] = source[Current]]
  /\ done' = done \ {Current}
  /\ step' = "recover" /\ at' = 1
  /\ UNCHANGED <<pc, work, known, destVars>> /\ Elsewhere

\* Variant: the limits are not looked at.
RecordOverLimit ==
  /\ Polling /\ Readable(Current)
  /\ digest[Current] = Nothing
  /\ digest' = [digest EXCEPT ![Current] = source[Current]]
  /\ step' = "recover" /\ at' = 1
  /\ UNCHANGED <<pc, work, known, done, destVars>> /\ Elsewhere

\* publish(): a new publication is recorded with all its bytes.
Record ==
  /\ Polling /\ Readable(Current)
  /\ digest[Current] = Nothing /\ ~Full(Current)
  /\ digest' = [digest EXCEPT ![Current] = source[Current]]
  /\ step' = "recover" /\ at' = 1
  /\ UNCHANGED <<pc, work, known, done, destVars>> /\ Elsewhere

\* publish(): it is recorded with this content, but not done.
Resume ==
  /\ Polling /\ Readable(Current)
  /\ digest[Current] = source[Current] /\ Current \notin done
  /\ step' = "recover" /\ at' = 1
  /\ UNCHANGED <<pc, work, destVars, journalVars>> /\ Elsewhere


\* Nothing to read, a conflict with the recorded content, finished already, a
\* limit, or an I/O error.
Skip ==
  /\ Polling
  /\ \/ ~Readable(Current)
     \/ digest[Current] \notin {Nothing, source[Current]}
     \/ Current \in done
     \/ digest[Current] = Nothing /\ Full(Current)
     \/ Flaky
  /\ NextItem
  /\ UNCHANGED <<destVars, journalVars>> /\ Elsewhere

AllPolled ==
  /\ pc = "polling" /\ step = "none" /\ work = <<>>
  /\ pc' = "beating"
  /\ UNCHANGED <<work, step, at, destVars, journalVars>> /\ Elsewhere

-----------------------------------------------------------------------------
\* replay(): install, read back, flush, file by file.

InStep(s) == step = s
Payload == digest[Current]
Here == body[Current][at]

Goto(s) == step' = s /\ UNCHANGED <<pc, work, at>>
Mark(s) == staged' = [staged EXCEPT ![Current][at] = s]

\* install_file finds its staging name linked to the destination.
FinishLeftover ==
  /\ InStep("recover") /\ staged[Current][at] = "linked" /\ Here = Payload
  /\ Mark("none") /\ Goto("verify")
  /\ UNCHANGED <<body, durable, journalVars>> /\ Elsewhere

\* It writes and flushes a staging file, in place of an unlinked leftover.
Stage ==
  /\ InStep("recover") /\ staged[Current][at] # "linked"
  /\ Mark("staged") /\ Goto("link")
  /\ UNCHANGED <<body, durable, journalVars>> /\ Elsewhere

Link ==
  /\ InStep("link") /\ Here = Nothing
  /\ body' = [body EXCEPT ![Current][at] = Payload]
  /\ Mark("linked") /\ Goto("unlink")
  /\ UNCHANGED <<durable, journalVars>> /\ Elsewhere

Unlink ==
  /\ InStep("unlink")
  /\ Mark("none") /\ Goto("verify")
  /\ UNCHANGED <<body, durable, journalVars>> /\ Elsewhere

\* FileExistsError with equal bytes: written before.
Exists ==
  /\ InStep("link") /\ Here = Payload
  /\ Mark("none") /\ Goto("verify")
  /\ UNCHANGED <<body, durable, journalVars>> /\ Elsewhere

Verify ==
  /\ InStep("verify") /\ Here = Payload
  /\ Goto("barrier")
  /\ UNCHANGED <<destVars, journalVars>> /\ Elsewhere

NextFile ==
  IF at < Size(Current) THEN step' = "recover" /\ at' = at + 1 /\ UNCHANGED <<pc, work>>
                        ELSE Goto("commit")

\* Variant: an error of the barrier is ignored.
BarrierIgnored ==
  /\ InStep("barrier")
  /\ durable' \in {durable, [durable EXCEPT ![Current][at] = TRUE]}
  /\ NextFile
  /\ UNCHANGED <<staged, body, journalVars>> /\ Elsewhere

\* Directories are flushed up to the root, also for a file that was there.
Barrier ==
  /\ InStep("barrier")
  /\ durable' = [durable EXCEPT ![Current][at] = TRUE]
  /\ NextFile
  /\ UNCHANGED <<staged, body, journalVars>> /\ Elsewhere

\* Variant: the publication is called done while its last barrier is pending.
CommitEarly ==
  /\ step \in {"barrier", "commit"} /\ at = Size(Current)
  /\ done' = done \cup {Current}
  /\ NextItem
  /\ UNCHANGED <<known, digest, destVars>> /\ Elsewhere

Commit ==
  /\ InStep("commit")
  /\ done' = done \cup {Current}
  /\ NextItem
  /\ UNCHANGED <<known, digest, destVars>> /\ Elsewhere

\* Somebody else's file, or an I/O error: the publication stays pending.  The
\* finally clause of install_file removes the staging name if it can.
Conflict == step \in {"link", "verify"} /\ Here \notin {Nothing, Payload}

GiveUp ==
  /\ step # "none"
  /\ Conflict \/ Flaky
  /\ staged' \in {staged, [staged EXCEPT ![Current][at] = "none"]}
  /\ NextItem
  /\ UNCHANGED <<body, durable, journalVars>> /\ Elsewhere

-----------------------------------------------------------------------------
\* heartbeat(): the file is replaced, then its time is recorded.

NoBeat ==
  /\ pc = "beating"
  /\ beat <= markBeat \/ Flaky
  /\ pc' = "idle"
  /\ UNCHANGED <<work, step, at, destVars, journalVars>> /\ Elsewhere

WriteBeat ==
  /\ pc = "beating"
  /\ \E b \in 1..beat : /\ b = beat \/ Flaky
                        /\ b > markBeat
                        /\ shownBeat' = b
  /\ pc' = "marking"
  /\ UNCHANGED <<work, step, at, sourceVars, destVars, journalVars, markBeat>>

MarkBeat ==
  /\ pc = "marking"
  /\ markBeat' = shownBeat
  /\ pc' = "idle"
  /\ UNCHANGED <<work, step, at, sourceVars, destVars, journalVars, shownBeat>>

\* atomic_write replaces the file and then raises.
BeatFails ==
  /\ Flaky /\ pc = "marking"
  /\ pc' = "idle"
  /\ UNCHANGED <<work, step, at, destVars, journalVars>> /\ Elsewhere

-----------------------------------------------------------------------------
Stopped == pc' = "down" /\ work' = <<>> /\ step' = "none" /\ at' = 1

Crash ==
  /\ Flaky /\ pc # "down"
  /\ Stopped
  /\ UNCHANGED <<destVars, journalVars>> /\ Elsewhere

\* The machine with the destination goes down, and the rally with it: names
\* that no barrier has flushed may be gone, the journal is not.
PowerLoss ==
  /\ Flaky /\ pc # "down"
  /\ \E gone \in SUBSET {f \in UNION {{p} \X File(p) : p \in Pub} :
                           body[f[1]][f[2]] \in Version /\ ~durable[f[1]][f[2]]},
        left \in SUBSET {f \in UNION {{p} \X File(p) : p \in Pub} :
                           staged[f[1]][f[2]] # "none"} :
       /\ body' = [p \in Pub |-> [i \in File(p) |->
            IF <<p, i>> \in gone THEN Nothing ELSE body[p][i]]]
       /\ staged' = [p \in Pub |-> [i \in File(p) |->
            IF <<p, i>> \notin left THEN "none"
            ELSE IF <<p, i>> \in gone THEN "staged" ELSE staged[p][i]]]
  /\ Stopped
  /\ UNCHANGED <<durable, journalVars>> /\ Elsewhere

ReplayStep ==
  \/ FinishLeftover \/ Stage \/ Link \/ Unlink \/ Exists \/ Verify
  \/ Barrier \/ Commit \/ GiveUp

SweepStep ==
  \/ Start \/ BeginSweep \/ Replay \/ Replayed \/ Discovered
  \/ \E x \in Known : Remember(x)
  \/ Record \/ Resume \/ Skip \/ AllPolled
  \/ NoBeat \/ WriteBeat \/ MarkBeat \/ BeatFails

Environment ==
  \/ \E p \in Pub : Offer(p) \/ Clean(p) \/ \E i \in File(p) : Intrude(p, i)
  \/ Beat

Next == SweepStep \/ ReplayStep \/ Crash \/ PowerLoss \/ Environment

Spec == Init /\ [][Next]_vars
=============================================================================
