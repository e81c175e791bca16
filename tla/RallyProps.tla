---------------------------- MODULE RallyProps -----------------------------
(***************************************************************************)
(* What must hold of Rally under crashes, power losses, I/O errors, caches *)
(* and sources that change.                                                *)
(***************************************************************************)
EXTENDS Rally

SourceTypes ==
  /\ source \in [Pub -> Version \cup {Nothing}]
  /\ {beat, shownBeat, markBeat} \subseteq 0..MaxBeat

DestinationTypes ==
  \A p \in Pub :
    /\ staged[p] \in [File(p) -> {"none", "staged", "linked"}]
    /\ body[p] \in [File(p) -> Version \cup {Nothing, Alien}]
    /\ durable[p] \in [File(p) -> BOOLEAN]

JournalTypes ==
  /\ known \in Seq(Known) /\ Len(known) <= MaxEntries
  /\ digest \in [Pub -> Version \cup {Nothing}]
  /\ Cardinality(Recorded) <= MaxPublications
  /\ Files(Pending) <= MaxPending
  /\ done \subseteq Pub

ProcessTypes ==
  /\ pc \in {"down", "idle", "replaying", "discovering", "polling", "beating",
             "marking"}
  /\ work \in Seq(Pub)
  /\ step \in {"none", "recover", "link", "unlink", "verify", "barrier", "commit"}
  /\ at \in 1..2

TypeOK == SourceTypes /\ DestinationTypes /\ JournalTypes /\ ProcessTypes

\* A marker vouches for its files: while the rally's COMMIT or FINAL is there,
\* the payload before it is whole, of the same snapshot, and flushed, so that no
\* power loss can leave the marker without it.
MarkerVouches ==
  \A p \in Pub : body[p][Size(p)] \in Version =>
    \A i \in 1..(Size(p) - 1) :
      body[p][i] = body[p][Size(p)] /\ durable[p][i]

\* What is called done has survived every power loss to come and has left no
\* staging name, which would make readers refuse the file (stable_read).
DoneIsDurable ==
  [][\A p \in done' \ done : \A i \in File(p) :
       body[p][i] = digest[p] /\ durable[p][i] /\ staged[p][i] = "none"]_vars

\* The rally is a courier: one content per publication, whole when the marker
\* is seen, never delivered again once settled (Courier).
ImplementsCourier == Carrier!CourierSpec

\* docs/rally.md: the heartbeat in the drop is non-regressing.
HeartbeatNeverRegresses == [][shownBeat' >= shownBeat]_vars

-----------------------------------------------------------------------------
\* A step that the storage or the machine decides.
Fault ==
  \/ Crash \/ PowerLoss \/ BeatFails
  \/ GiveUp /\ ~Conflict
  \/ /\ Skip /\ Readable(Current) /\ Current \notin done
     /\ digest[Current] \in {Nothing, source[Current]}
     /\ digest[Current] # Nothing \/ ~Full(Current)

\* The rally is restarted and sweeps for ever; faults cease.
FairSpec ==
  /\ Spec
  /\ <>[][~Fault]_vars
  /\ WF_vars((SweepStep \/ ReplayStep) /\ ~Fault)

\* What is recorded arrives although its source changes or vanishes, and although
\* another publication is in conflict for ever.
RecordedArrives ==
  \A p \in Pub \ Foreign : digest[p] # Nothing ~> p \in done

=============================================================================
