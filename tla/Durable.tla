-------------------------------- MODULE Durable -------------------------------
(***************************************************************************)
(* The file operations of fs_exec/util.py at the level of directory        *)
(* entries, and what submitting, claiming, starting and closing one job    *)
(* makes of them when a barrier fails, a process dies or the share loses   *)
(* power.  An entry that was made or linked is there for every process; it *)
(* survives a loss of power for sure only once its directory was flushed.  *)
(*                                                                         *)
(* The client and the watcher each carry out a fixed plan of operations.   *)
(* One watcher runs at a time (see Watcher for the lock), and directory    *)
(* flushes are supported.                                                  *)
(*                                                                         *)
(* An operator commented "Variant" is no part of the model: it is a version*)
(* of the definition after it with a likely mistake in it.                 *)
(***************************************************************************)
EXTENDS Naturals, Sequences, SequencesExt

CONSTANTS
  MaxFaults,   \* bound on crashes and losses of power
  MaxGens      \* bound on result generations

ASSUME BoundsAssumption == {MaxFaults, MaxGens} \subseteq Nat

Gen(n) == <<"generation", n>>
Entry(name) == <<name, 0>>
Gens == {Gen(n) : n \in 1..MaxGens}

\* Directories and what they hold.  The first three are there from the start.
Holds ==
  [inbox  |-> {Entry("ready")}, claims |-> {Entry("claim")}, results |-> {Entry("result")},
   ready  |-> {Entry("request"), Entry("COMMIT")},
   claim  |-> {Entry("CLAIM"), Entry("STARTED")},
   result |-> {Entry("CLAIMED"), Entry("RUNNING"), Entry("FINAL")} \cup Gens]
Roots == {"inbox", "claims", "results"}

VARIABLES
  there,     \* entries every process finds
  stable,    \* entries no loss of power undoes while their directory stays
  solid,     \* files whose contents were flushed
  at,        \* where the client and the watcher are in their plans; 0: not running
  closing,   \* the watcher closes the job for the last time
  gens,      \* result generations so far
  pointer,   \* the generation FINAL points to
  promised,  \* entries reported as published
  broken,    \* the watcher's barrier on results/ failed
  launches,
  faults

shareVars == <<there, stable, solid>>
jobVars == <<closing, gens, pointer, broken, launches>>
vars == <<shareVars, at, jobVars, promised, faults>>

Proc == {"client", "watcher"}

Init ==
  /\ there = {} /\ stable = {} /\ solid = {}
  /\ at = [p \in Proc |-> IF p = "client" THEN 1 ELSE 0]
  /\ closing = FALSE /\ gens = 0 /\ pointer = 0 /\ broken = FALSE /\ launches = 0
  /\ promised = {} /\ faults = 0

-----------------------------------------------------------------------------
\* Plans.

WriteExclusive(dir, name) == << <<"put", name>>, <<"flush", dir>> >>

\* Variant: what was made is not flushed.
MakeOnly == << <<"make", "claim">> >>

MakeClaim == << <<"make", "claim">>, <<"flush", "claims">> >>

MkdirDurable == << <<"ensure", "result">>, <<"flush", "results">> >>

PublishFinal ==
  MkdirDurable \o << <<"open", "FINAL">> >>
  \o WriteExclusive("result", "generation") \o WriteExclusive("result", "FINAL")

Execution ==
  MkdirDurable \o WriteExclusive("result", "CLAIMED")
  \o WriteExclusive("claim", "STARTED") \o WriteExclusive("result", "RUNNING")
  \o << <<"launch", "command">> >>

Claim == MakeClaim \o WriteExclusive("claim", "CLAIM")

PublishRequest ==
  WriteExclusive("ready", "request") \o WriteExclusive("ready", "COMMIT")
  \o << <<"rename", "ready">>, <<"flush", "inbox">> >>

Plan == [client |-> PublishRequest, watcher |-> Claim \o Execution \o PublishFinal]
Claimed == Len(Claim)
Closing == Len(Claim \o Execution) + 1

-----------------------------------------------------------------------------
\* Operations of a process on its plan.

Op(p, kind) == at[p] > 0 /\ Plan[p][at[p]][1] = kind
Object(p) == Plan[p][at[p]][2]
File(p) == IF Object(p) = "generation" THEN Gen(gens + 1) ELSE Entry(Object(p))

\* What a plan that ends reports as published.
Outcome(p) == IF p = "client" THEN {Entry("ready")} ELSE {Entry("FINAL")}

Goto(p, n) ==
  IF n > Len(Plan[p])
    THEN at' = [at EXCEPT ![p] = 0] /\ promised' = promised \cup Outcome(p)
    ELSE at' = [at EXCEPT ![p] = n] /\ UNCHANGED promised

Advance(p) == Goto(p, at[p] + 1) /\ UNCHANGED <<closing, faults>>

\* The client gives up.  A watcher that holds a claim closes the job, once more
\* if that was what failed, but not a third time.
Raise(p) ==
  /\ UNCHANGED <<promised, gens, pointer, launches, faults>>
  /\ IF p = "watcher" /\ at[p] > Claimed /\ ~closing
       THEN at' = [at EXCEPT ![p] = Closing] /\ closing' = TRUE
       ELSE at' = [at EXCEPT ![p] = 0] /\ UNCHANGED closing

\* mkdir of a claim; one that is there is somebody else's, and an end.
Make(p) ==
  /\ Op(p, "make")
  /\ IF Entry(Object(p)) \in there
       THEN Raise(p) /\ UNCHANGED <<shareVars, broken>>
       ELSE /\ there' = there \cup {Entry(Object(p))} /\ Advance(p)
            /\ UNCHANGED <<stable, solid, gens, pointer, broken, launches>>

\* mkdir_durable: a directory that is there is not flushed again.
Ensure(p) ==
  /\ Op(p, "ensure") /\ UNCHANGED <<closing, faults>>
  /\ IF Entry(Object(p)) \in there THEN Goto(p, at[p] + 2) /\ UNCHANGED there
     ELSE there' = there \cup {Entry(Object(p))} /\ Goto(p, at[p] + 1)
  /\ UNCHANGED <<stable, solid, gens, pointer, broken, launches>>

\* A private file is written and flushed, then linked to a name that must be free.
Put(p) ==
  /\ Op(p, "put") /\ (Object(p) = "generation" => gens < MaxGens)
  /\ IF File(p) \in there THEN Raise(p) /\ UNCHANGED <<shareVars, broken>>
     ELSE /\ there' = there \cup {File(p)} /\ solid' = solid \cup {File(p)}
          /\ gens' = gens + (IF Object(p) = "generation" THEN 1 ELSE 0)
          /\ pointer' = IF Object(p) = "FINAL" THEN gens ELSE pointer
          /\ Advance(p) /\ UNCHANGED <<stable, broken, launches>>

PutFails(p) == Op(p, "put") /\ Raise(p) /\ UNCHANGED <<shareVars, broken>>

Flush(p) ==
  /\ Op(p, "flush")
  /\ stable' = stable \cup (there \cap Holds[Object(p)])
  /\ Advance(p) /\ UNCHANGED <<there, solid, gens, pointer, broken, launches>>

\* Variant: an error of a barrier is ignored.
FlushIgnored(p) ==
  /\ Op(p, "flush")
  /\ Advance(p) /\ UNCHANGED <<shareVars, gens, pointer, broken, launches>>

\* A real error propagates, and what was linked stays.
FlushFails(p) ==
  /\ Op(p, "flush")
  /\ broken' = (broken \/ Object(p) = "results")
  /\ Raise(p) /\ UNCHANGED shareVars

Rename(p) ==
  /\ Op(p, "rename")
  /\ there' = there \cup {Entry(Object(p))}
  /\ Advance(p) /\ UNCHANGED <<stable, solid, gens, pointer, broken, launches>>

Launch(p) ==
  /\ Op(p, "launch") /\ launches' = launches + 1
  /\ Advance(p) /\ UNCHANGED <<shareVars, gens, pointer, broken>>

LaunchFails(p) == Op(p, "launch") /\ Raise(p) /\ UNCHANGED <<shareVars, broken>>

\* publish_final looks for FINAL.
Open(p) ==
  /\ Op(p, "open")
  /\ IF Entry("FINAL") \in there THEN Raise(p) /\ UNCHANGED <<shareVars, broken>>
     ELSE Advance(p) /\ UNCHANGED <<shareVars, gens, pointer, broken, launches>>

-----------------------------------------------------------------------------
\* A watcher starts: it flushes the namespaces, then closes what it finds claimed
\* or takes up what it finds committed.
Start ==
  /\ at["watcher"] = 0
  /\ stable' = stable \cup (there \cap UNION {Holds[d] : d \in Roots})
  /\ broken' = (broken /\ Entry("FINAL") \in promised)
  /\ \/ /\ Entry("claim") \in there /\ Entry("FINAL") \notin there
        /\ at' = [at EXCEPT !["watcher"] = Closing] /\ closing' = TRUE
     \/ /\ {Entry("claim"), Entry("FINAL")} \cap there = {}
        /\ {Entry("ready"), Entry("COMMIT")} \subseteq there
        /\ at' = [at EXCEPT !["watcher"] = 1] /\ closing' = FALSE
  /\ UNCHANGED <<there, solid, gens, pointer, promised, launches, faults>>

Crash(p) ==
  /\ at[p] > 0 /\ faults < MaxFaults /\ faults' = faults + 1
  /\ at' = [at EXCEPT ![p] = 0]
  /\ UNCHANGED <<shareVars, jobVars, promised>>

\* Any of the entries not flushed are gone, and with a directory all it holds.
PowerLoss ==
  /\ faults < MaxFaults /\ faults' = faults + 1
  /\ \E Lost \in SUBSET (there \ stable) :
       LET gone == Lost \cup UNION {Holds[e[1]] : e \in {x \in Lost : x[1] \in DOMAIN Holds}}
       IN  there' = there \ gone
  /\ stable' = there' /\ solid' = solid \cap there'
  /\ at' = [p \in Proc |-> 0]
  /\ UNCHANGED <<jobVars, promised>>

Step(p) ==
  \/ Make(p) \/ Ensure(p) \/ Put(p) \/ PutFails(p) \/ Flush(p) \/ FlushFails(p)
  \/ Rename(p) \/ Launch(p) \/ LaunchFails(p) \/ Open(p) \/ Crash(p)

Next == (\E p \in Proc : Step(p)) \/ Start \/ PowerLoss

Spec == Init /\ [][Next]_vars
=============================================================================
