----------------------------- MODULE DurableProofs ----------------------------
(***************************************************************************)
(* Proofs of AtMostOnce and PublishedStays, for any number of crashes,     *)
(* losses of power and result generations.                                 *)
(*                                                                         *)
(* What a plan has come by is there, and behind a barrier it is stable     *)
(* (WatcherCame, ClientCame).  What a promise rests on is stable with the  *)
(* directories it is in (Kept).                                            *)
(***************************************************************************)
EXTENDS DurableProps, TLAPS

Place == at["watcher"]
Directories == {Entry("ready"), Entry("claim"), Entry("result")}
Names ==
  Directories \cup {Entry("request"), Entry("COMMIT"), Entry("CLAIM"), Entry("STARTED"),
                    Entry("CLAIMED"), Entry("RUNNING"), Entry("FINAL")}
  \cup {Gen(n) : n \in Nat}

TypeOK ==
  /\ at \in [Proc -> 0..20] /\ at["client"] <= 6
  /\ gens \in 0..MaxGens /\ pointer \in 0..gens
  /\ closing \in BOOLEAN /\ broken \in BOOLEAN
  /\ there \subseteq Names /\ stable \subseteq there
  /\ there \ Directories \subseteq solid
  /\ promised \subseteq {Entry("ready"), Entry("FINAL")}

\* What the watcher has come by in its plan.
WatcherCame ==
  /\ Place \in 1..5 => Entry("result") \notin there
  /\ Place \in 1..13 => launches = 0
  /\ Place >= 2 => Entry("claim") \in there
  /\ Place >= 3 => Entry("claim") \in stable
  /\ Place \in 4..13 => Entry("CLAIM") \in there
  /\ Place \in 5..13 => Entry("CLAIM") \in stable
  /\ Place \in 6..13 \cup 15..20 => Entry("result") \in there
  /\ Place \in 7..13 => Entry("result") \in stable
  /\ Place \in 10..13 => Entry("STARTED") \in there
  /\ Place \in 11..13 => Entry("STARTED") \in stable
  /\ Place = 18 => Gen(gens) \in there
  /\ Place \in 18..20 => gens > 0
  /\ Place \in 19..20 => Gen(gens) \in stable
  /\ Place = 20 => Entry("FINAL") \in there

\* And the client.
ClientCame ==
  /\ at["client"] >= 2 => Entry("request") \in there
  /\ at["client"] >= 3 => Entry("request") \in stable
  /\ at["client"] >= 4 => Entry("COMMIT") \in there
  /\ at["client"] >= 5 => Entry("COMMIT") \in stable
  /\ at["client"] >= 6 => Entry("ready") \in there

Launched == {Entry(n) : n \in {"claim", "CLAIM", "STARTED", "result"}}

\* What something rests on does not go with the power.
Kept ==
  /\ launches = 0 \/ (launches = 1 /\ Launched \subseteq stable)
  /\ Entry("result") \in there => Entry("claim") \in stable
  /\ Entry("FINAL") \in there => Gen(pointer) \in stable
  /\ Entry("ready") \in there => {Entry("request"), Entry("COMMIT")} \subseteq stable
  /\ Entry("ready") \in promised => Entry("ready") \in stable
  /\ Entry("FINAL") \in promised /\ ~broken => {Entry("FINAL"), Entry("result")} \subseteq stable
  /\ Entry("result") \in there /\ ~broken /\ Place \notin {0, 6, 15} => Entry("result") \in stable

Inv == TypeOK /\ WatcherCame /\ ClientCame /\ Kept

-----------------------------------------------------------------------------
\* The plans, operation by operation.

\* Submission.
LEMMA ClientPlan ==
  /\ Len(Plan.client) = 6
  /\ Plan.client[1] = <<"put", "request">> /\ Plan.client[2] = <<"flush", "ready">>
  /\ Plan.client[3] = <<"put", "COMMIT">> /\ Plan.client[4] = <<"flush", "ready">>
  /\ Plan.client[5] = <<"rename", "ready">> /\ Plan.client[6] = <<"flush", "inbox">>
BY DEF Plan, PublishRequest, WriteExclusive

\* Claiming.
LEMMA ClaimPlan ==
  /\ Len(Claim) = 4
  /\ Claim[1] = <<"make", "claim">> /\ Claim[2] = <<"flush", "claims">>
  /\ Claim[3] = <<"put", "CLAIM">> /\ Claim[4] = <<"flush", "claim">>
BY DEF Claim, MakeClaim, WriteExclusive

\* Starting.
LEMMA ExecutionPlan ==
  /\ Len(Execution) = 9
  /\ Execution[1] = <<"ensure", "result">> /\ Execution[2] = <<"flush", "results">>
  /\ Execution[3] = <<"put", "CLAIMED">> /\ Execution[4] = <<"flush", "result">>
  /\ Execution[5] = <<"put", "STARTED">> /\ Execution[6] = <<"flush", "claim">>
  /\ Execution[7] = <<"put", "RUNNING">> /\ Execution[8] = <<"flush", "result">>
  /\ Execution[9] = <<"launch", "command">>
BY DEF Execution, MkdirDurable, WriteExclusive

\* Closing.
LEMMA ClosingPlan ==
  /\ Len(PublishFinal) = 7
  /\ PublishFinal[1] = <<"ensure", "result">> /\ PublishFinal[2] = <<"flush", "results">>
  /\ PublishFinal[3] = <<"open", "FINAL">> /\ PublishFinal[4] = <<"put", "generation">>
  /\ PublishFinal[5] = <<"flush", "result">> /\ PublishFinal[6] = <<"put", "FINAL">>
  /\ PublishFinal[7] = <<"flush", "result">>
BY DEF PublishFinal, MkdirDurable, WriteExclusive

\* All that a watcher does, from the claim to FINAL.
LEMMA WatcherPlan ==
  /\ Claimed = 4 /\ Closing = 14
  /\ Len(Plan.watcher) = 20
  /\ Plan.watcher[1] = <<"make", "claim">> /\ Plan.watcher[2] = <<"flush", "claims">>
  /\ Plan.watcher[3] = <<"put", "CLAIM">> /\ Plan.watcher[4] = <<"flush", "claim">>
  /\ Plan.watcher[5] = <<"ensure", "result">> /\ Plan.watcher[6] = <<"flush", "results">>
  /\ Plan.watcher[7] = <<"put", "CLAIMED">> /\ Plan.watcher[8] = <<"flush", "result">>
  /\ Plan.watcher[9] = <<"put", "STARTED">> /\ Plan.watcher[10] = <<"flush", "claim">>
  /\ Plan.watcher[11] = <<"put", "RUNNING">> /\ Plan.watcher[12] = <<"flush", "result">>
  /\ Plan.watcher[13] = <<"launch", "command">> /\ Plan.watcher[14] = <<"ensure", "result">>
  /\ Plan.watcher[15] = <<"flush", "results">> /\ Plan.watcher[16] = <<"open", "FINAL">>
  /\ Plan.watcher[17] = <<"put", "generation">> /\ Plan.watcher[18] = <<"flush", "result">>
  /\ Plan.watcher[19] = <<"put", "FINAL">> /\ Plan.watcher[20] = <<"flush", "result">>
BY DEF Claimed, Closing, Plan, Claim, MakeClaim, Execution, PublishFinal, MkdirDurable,
       WriteExclusive

\* Where the watcher is tells what it does next.
LEMMA WatcherOps ==
  ASSUME TypeOK
  PROVE  /\ Op("watcher", "make") => Place = 1 /\ Object("watcher") = "claim"
         /\ Op("watcher", "ensure") => Place \in {5, 14} /\ Object("watcher") = "result"
         /\ Op("watcher", "put") =>
              \/ Place = 3 /\ Object("watcher") = "CLAIM"
              \/ Place = 7 /\ Object("watcher") = "CLAIMED"
              \/ Place = 9 /\ Object("watcher") = "STARTED"
              \/ Place = 11 /\ Object("watcher") = "RUNNING"
              \/ Place = 17 /\ Object("watcher") = "generation"
              \/ Place = 19 /\ Object("watcher") = "FINAL"
         /\ Op("watcher", "flush") =>
              \/ Place = 2 /\ Object("watcher") = "claims"
              \/ Place \in {4, 10} /\ Object("watcher") = "claim"
              \/ Place \in {6, 15} /\ Object("watcher") = "results"
              \/ Place \in {8, 12, 18, 20} /\ Object("watcher") = "result"
         /\ Op("watcher", "launch") => Place = 13
         /\ Op("watcher", "open") => Place = 16
         /\ ~Op("watcher", "rename")
<1>1. Place \in 0..20
  BY DEF TypeOK, Proc, Place
<1> QED BY <1>1, WatcherPlan DEF Op, Object, Place

\* And where the client is.
LEMMA ClientOps ==
  ASSUME TypeOK
  PROVE  /\ Op("client", "put") =>
              \/ at["client"] = 1 /\ Object("client") = "request"
              \/ at["client"] = 3 /\ Object("client") = "COMMIT"
         /\ Op("client", "flush") =>
              \/ at["client"] \in {2, 4} /\ Object("client") = "ready"
              \/ at["client"] = 6 /\ Object("client") = "inbox"
         /\ Op("client", "rename") => at["client"] = 5 /\ Object("client") = "ready"
         /\ ~Op("client", "make") /\ ~Op("client", "ensure")
         /\ ~Op("client", "launch") /\ ~Op("client", "open")
<1>1. at["client"] \in 0..6
  BY DEF TypeOK, Proc
<1> QED BY <1>1, ClientPlan DEF Op, Object

-----------------------------------------------------------------------------
\* How a process moves on in its plan, or stops.

\* The watcher goes on, or ends with its FINAL published.
LEMMA WatcherGoes ==
  ASSUME TypeOK, NEW n \in 1..21, Goto("watcher", n)
  PROVE  /\ at' \in [Proc -> 0..20] /\ at'["client"] = at["client"]
         /\ Place' = IF n = 21 THEN 0 ELSE n
         /\ promised' = IF n = 21 THEN promised \cup {Entry("FINAL")} ELSE promised
<1>1. at \in [{"client", "watcher"} -> 0..20]
  BY DEF TypeOK, Proc
<1>2. Len(Plan["watcher"]) = 20
  BY WatcherPlan
<1>3. CASE n = 21
  <2>1. /\ at' = [at EXCEPT !["watcher"] = 0]
        /\ promised' = promised \cup {Entry("FINAL")}
    BY <1>2, <1>3 DEF Goto, Outcome
  <2> QED BY <1>1, <1>3, <2>1 DEF Place, Proc
<1>4. CASE n \in 1..20
  <2>1. at' = [at EXCEPT !["watcher"] = n] /\ promised' = promised
    BY <1>2, <1>4 DEF Goto
  <2> QED BY <1>1, <1>4, <2>1 DEF Place, Proc
<1> QED BY <1>3, <1>4

\* The client goes on, or ends with its request published.
LEMMA ClientGoes ==
  ASSUME TypeOK, at["client"] > 0, Goto("client", at["client"] + 1)
  PROVE  /\ at' \in [Proc -> 0..20] /\ Place' = Place
         /\ at'["client"] = IF at["client"] = 6 THEN 0 ELSE at["client"] + 1
         /\ promised' = IF at["client"] = 6 THEN promised \cup {Entry("ready")} ELSE promised
<1>1. at \in [{"client", "watcher"} -> 0..20] /\ at["client"] \in 1..6
  BY DEF TypeOK, Proc
<1>2. Len(Plan["client"]) = 6
  BY ClientPlan
<1>3. CASE at["client"] = 6
  <2>1. /\ at' = [at EXCEPT !["client"] = 0]
        /\ promised' = promised \cup {Entry("ready")}
    BY <1>2, <1>3 DEF Goto, Outcome
  <2> QED BY <1>1, <1>3, <2>1 DEF Place, Proc
<1>4. CASE at["client"] \in 1..5
  <2>1. at' = [at EXCEPT !["client"] = at["client"] + 1] /\ promised' = promised
    BY <1>2, <1>4 DEF Goto
  <2> QED BY <1>1, <1>4, <2>1 DEF Place, Proc
<1> QED BY <1>1, <1>3, <1>4

\* A failure of the watcher loses nothing; of a barrier on results/ it leaves a trace.
LEMMA WatcherFails ==
  ASSUME Inv, Raise("watcher"), UNCHANGED shareVars, broken' \in BOOLEAN,
         broken => broken', Place \in {6, 15} => broken', Place > 0
  PROVE  Inv'
<1>0. at \in [{"client", "watcher"} -> 0..20] /\ closing \in BOOLEAN
  BY DEF Inv, TypeOK, Proc
<1>1. /\ at' \in [Proc -> 0..20] /\ at'["client"] = at["client"] /\ closing' \in BOOLEAN
      /\ Place' \in {0, 14} /\ (Place' = 14 => Place > 4)
  <2>1. CASE at["watcher"] > 4 /\ ~closing
    <3>1. at' = [at EXCEPT !["watcher"] = 14] /\ closing' = TRUE
      BY <2>1, WatcherPlan DEF Raise
    <3> QED BY <1>0, <2>1, <3>1 DEF Place, Proc
  <2>2. CASE ~(at["watcher"] > 4 /\ ~closing)
    <3>1. at' = [at EXCEPT !["watcher"] = 0] /\ closing' = closing
      BY <2>2, WatcherPlan DEF Raise
    <3> QED BY <1>0, <3>1 DEF Place, Proc
  <2> QED BY <2>1, <2>2
<1>2. UNCHANGED <<there, stable, solid, promised, gens, pointer, launches>>
  BY DEF Raise, shareVars
<1>3. TypeOK'
  BY <1>1, <1>2 DEF Inv, TypeOK
<1>4. Place \in 0..20
  BY DEF Inv, TypeOK, Place, Proc
<1>5. WatcherCame' /\ ClientCame'
  BY <1>1, <1>2, <1>4 DEF Inv, WatcherCame, ClientCame
<1>6. Kept'
  BY <1>1, <1>2, <1>4 DEF Inv, Kept
<1> QED BY <1>3, <1>5, <1>6 DEF Inv

\* A client that fails just stops.
LEMMA ClientFails ==
  ASSUME Inv, Raise("client"), UNCHANGED <<shareVars, broken>>
  PROVE  Inv'
<1>1. /\ at' \in [Proc -> 0..20] /\ at'["client"] = 0 /\ UNCHANGED <<closing, Place>>
      /\ UNCHANGED <<there, stable, solid, promised, gens, pointer, launches>>
  BY DEF Raise, Inv, TypeOK, Place, Proc, shareVars
<1> QED BY <1>1 DEF Inv, TypeOK, WatcherCame, ClientCame, Kept

-----------------------------------------------------------------------------
\* The steps of the watcher.

\* An entry the watcher makes, and where it is then.
LEMMA WatcherMakes ==
  ASSUME Inv, Make("watcher") \/ Ensure("watcher")
  PROVE  Inv'
<1> USE DEF Inv
<1>1. CASE Make("watcher") /\ Entry(Object("watcher")) \in there
  <2>1. Place = 1 /\ Raise("watcher") /\ UNCHANGED <<shareVars, broken>>
    BY <1>1, WatcherOps DEF Make
  <2>2. broken \in BOOLEAN
    BY DEF TypeOK
  <2> QED BY <2>1, <2>2, WatcherFails
<1>2. CASE Make("watcher") /\ Entry(Object("watcher")) \notin there
  <2>1. /\ Place = 1 /\ there' = there \cup {Entry("claim")} /\ Goto("watcher", 2)
        /\ UNCHANGED <<stable, solid, gens, pointer, broken, launches, closing>>
    BY <1>2, WatcherOps DEF Make, Advance, Place
  <2>2. /\ at' \in [Proc -> 0..20] /\ at'["client"] = at["client"] /\ Place' = 2
        /\ promised' = promised
    BY <2>1, WatcherGoes
  <2>3. TypeOK'
    BY <2>1, <2>2 DEF TypeOK, Names, Directories
  <2>4. WatcherCame' /\ ClientCame'
    BY <2>1, <2>2 DEF WatcherCame, ClientCame, Entry
  <2>5. Kept'
    BY <2>1, <2>2 DEF WatcherCame, Kept, Entry
  <2> QED BY <2>3, <2>4, <2>5
<1>3. CASE Ensure("watcher")
  <2>1. /\ Place \in {5, 14} /\ there' = there \cup {Entry("result")}
        /\ UNCHANGED <<stable, solid, gens, pointer, broken, launches, closing>>
        /\ \/ Goto("watcher", Place + 1) /\ Entry("result") \notin there
           \/ Goto("watcher", Place + 2) /\ Entry("result") \in there /\ Place = 14
    BY <1>3, WatcherOps DEF Ensure, Place, WatcherCame
  <2>2. /\ at' \in [Proc -> 0..20] /\ at'["client"] = at["client"]
        /\ promised' = promised
        /\ \/ Place' = Place + 1 /\ Entry("result") \notin there
           \/ Place' = 16 /\ Entry("result") \in there
    BY <2>1, WatcherGoes
  <2>3. TypeOK'
    BY <2>1, <2>2 DEF TypeOK, Names, Directories
  <2>4. WatcherCame' /\ ClientCame'
    BY <2>1, <2>2 DEF WatcherCame, ClientCame, Entry
  <2>5. Kept'
    BY <2>1, <2>2 DEF WatcherCame, Kept, Entry, Launched, TypeOK
  <2> QED BY <2>3, <2>4, <2>5
<1> QED BY <1>1, <1>2, <1>3

\* A file the watcher links.
LEMMA WatcherPuts ==
  ASSUME Inv, Put("watcher")
  PROVE  Inv'
<1> USE DEF Inv
<1>1. CASE File("watcher") \in there
  BY <1>1, WatcherFails, WatcherOps DEF Put, TypeOK
<1>2. CASE File("watcher") \notin there
  <2>1. /\ there' = there \cup {File("watcher")} /\ solid' = solid \cup {File("watcher")}
        /\ gens' = gens + (IF Object("watcher") = "generation" THEN 1 ELSE 0)
        /\ pointer' = (IF Object("watcher") = "FINAL" THEN gens ELSE pointer)
        /\ Goto("watcher", Place + 1)
        /\ UNCHANGED <<stable, broken, launches, closing>>
        /\ Object("watcher") = "generation" => gens < MaxGens
        /\ Place \in {3, 7, 9, 11, 17, 19}
    BY <1>2, WatcherOps DEF Put, Advance, Place
  <2>2. /\ at' \in [Proc -> 0..20] /\ at'["client"] = at["client"]
        /\ promised' = promised /\ Place' = Place + 1
    BY <2>1, WatcherGoes
  <2>3. /\ gens \in Nat /\ MaxGens \in Nat /\ gens <= MaxGens
    BY BoundsAssumption DEF TypeOK
  <2>4. CASE Place \in {3, 7, 9, 11}
    <3>1. /\ UNCHANGED <<gens, pointer>>
          /\ \/ Place = 3 /\ File("watcher") = Entry("CLAIM")
             \/ Place = 7 /\ File("watcher") = Entry("CLAIMED")
             \/ Place = 9 /\ File("watcher") = Entry("STARTED")
             \/ Place = 11 /\ File("watcher") = Entry("RUNNING")
      BY <2>1, <2>3, <2>4, WatcherOps DEF Put, File
    <3>2. TypeOK'
      BY <2>1, <2>2, <3>1 DEF TypeOK, Names, Directories
    <3>3. WatcherCame' /\ ClientCame'
      BY <2>1, <2>2, <3>1 DEF WatcherCame, ClientCame, Entry
    <3>4. Kept'
      BY <2>1, <2>2, <3>1 DEF WatcherCame, Kept, Entry, Launched, TypeOK
    <3> QED BY <3>2, <3>3, <3>4
  <2>5. CASE Place = 17
    <3>1. pointer' = pointer /\ gens' = gens + 1 /\ gens < MaxGens
          /\ File("watcher") = Gen(gens + 1)
      BY <2>1, <2>5, WatcherOps DEF Put, File
    <3>2. TypeOK'
      BY <2>1, <2>2, <2>3, <3>1 DEF TypeOK, Names
    <3>3. WatcherCame' /\ ClientCame'
      BY <2>1, <2>2, <2>3, <2>5, <3>1 DEF WatcherCame, ClientCame
    <3>4. Kept'
      BY <2>1, <2>2, <2>5, <3>1 DEF WatcherCame, Kept, Entry, Gen, Launched
    <3> QED BY <3>2, <3>3, <3>4
  <2>6. CASE Place = 19
    <3>1. pointer' = gens /\ gens' = gens /\ File("watcher") = Entry("FINAL")
      BY <2>1, <2>3, <2>6, WatcherOps DEF Put, File
    <3>2. TypeOK'
      BY <2>1, <2>2, <2>3, <3>1 DEF TypeOK, Names
    <3>3. WatcherCame' /\ ClientCame'
      BY <2>1, <2>2, <2>6, <3>1 DEF WatcherCame, ClientCame
    <3>4. Kept'
      BY <2>1, <2>2, <2>6, <3>1 DEF WatcherCame, Kept, Entry, Gen, Launched
    <3> QED BY <3>2, <3>3, <3>4
  <2> QED BY <2>1, <2>4, <2>5, <2>6
<1> QED BY <1>1, <1>2

\* What is in which directory.
LEMMA Contents ==
  /\ Entry("ready") \in Holds["inbox"] /\ Entry("claim") \in Holds["claims"]
  /\ Entry("result") \in Holds["results"]
  /\ Entry("request") \in Holds["ready"] /\ Entry("COMMIT") \in Holds["ready"]
  /\ Entry("CLAIM") \in Holds["claim"] /\ Entry("STARTED") \in Holds["claim"]
  /\ Entry("FINAL") \in Holds["result"]
  /\ \A n \in 1..MaxGens : Gen(n) \in Holds["result"]
BY DEF Holds, Gens

\* A barrier makes stable what its directory holds.
LEMMA WatcherFlushes ==
  ASSUME Inv, Flush("watcher")
  PROVE  Inv'
<1> USE DEF Inv
<1>1. /\ stable' = stable \cup (there \cap Holds[Object("watcher")])
      /\ Goto("watcher", Place + 1)
      /\ UNCHANGED <<there, solid, gens, pointer, broken, launches, closing>>
      /\ Place \in {2, 4, 6, 8, 10, 12, 15, 18, 20}
  BY WatcherOps DEF Flush, Advance, Place
<1>2. /\ at' \in [Proc -> 0..20] /\ at'["client"] = at["client"]
      /\ Place' = IF Place = 20 THEN 0 ELSE Place + 1
      /\ promised' = IF Place = 20 THEN promised \cup {Entry("FINAL")} ELSE promised
  BY <1>1, WatcherGoes
<1>3. TypeOK'
  BY <1>1, <1>2 DEF TypeOK
<1>4. ClientCame'
  BY <1>1, <1>2 DEF ClientCame
<1>5. Entry("FINAL") \in promised' => Entry("FINAL") \in promised \/ Place = 20
  BY <1>2
<1>6. CASE Place \in {2, 4, 6, 8, 10, 12, 15}
  <2>1. /\ stable \subseteq stable'
        /\ Place = 2 => Entry("claim") \in stable'
        /\ Place = 4 => Entry("CLAIM") \in stable'
        /\ Place \in {6, 15} => Entry("result") \in stable'
        /\ Place = 10 => Entry("STARTED") \in stable'
    BY <1>1, <1>6, WatcherOps, Contents DEF Flush, WatcherCame
  <2>2. WatcherCame'
    BY <1>1, <1>2, <1>6, <2>1 DEF WatcherCame
  <2>3. Kept'
    BY <1>1, <1>2, <1>6, <2>1 DEF WatcherCame, Kept, Launched
  <2> QED BY <1>3, <1>4, <2>2, <2>3
<1>7. CASE Place = 18
  <2>1. Gen(gens) \in stable'
    <3>1. gens \in 1..MaxGens /\ Gen(gens) \in there /\ Object("watcher") = "result"
      BY <1>7, WatcherOps, BoundsAssumption DEF Flush, TypeOK, WatcherCame
    <3> QED BY <1>1, <3>1, Contents
  <2>2. WatcherCame'
    BY <1>1, <1>2, <1>7, <2>1 DEF WatcherCame
  <2>3. Kept'
    BY <1>1, <1>2, <1>7 DEF WatcherCame, Kept, Launched
  <2> QED BY <1>3, <1>4, <2>2, <2>3
<1>8. CASE Place = 20
  <2>1. Entry("FINAL") \in Holds["result"] /\ Object("watcher") = "result"
    BY <1>8, WatcherOps, Contents DEF Flush
  <2>2. WatcherCame'
    BY <1>1, <1>2, <1>8 DEF WatcherCame
  <2>3. Entry("ready") \in promised' => Entry("ready") \in promised
    BY <1>2, <1>8 DEF Entry
  <2>4. Kept'
    BY <1>1, <1>2, <1>8, <2>1, <2>3 DEF WatcherCame, Kept, Launched
  <2> QED BY <1>3, <1>4, <2>2, <2>4
<1> QED BY <1>1, <1>6, <1>7, <1>8

\* The launch, and the look for FINAL.
LEMMA WatcherLaunches ==
  ASSUME Inv, Launch("watcher") \/ Open("watcher")
  PROVE  Inv'
<1> USE DEF Inv
<1>1. CASE Open("watcher") /\ Entry("FINAL") \in there
  <2>1. Place = 16 /\ Raise("watcher") /\ UNCHANGED <<shareVars, broken>>
    BY <1>1, WatcherOps DEF Open
  <2>2. broken \in BOOLEAN
    BY DEF TypeOK
  <2> QED BY <2>1, <2>2, WatcherFails
<1>2. CASE Open("watcher") /\ Entry("FINAL") \notin there
  <2>1. /\ Place = 16 /\ Goto("watcher", 17)
        /\ UNCHANGED <<there, stable, solid, gens, pointer, broken, launches, closing>>
    BY <1>2, WatcherOps DEF Open, Advance, Place, shareVars
  <2>2. /\ at' \in [Proc -> 0..20] /\ at'["client"] = at["client"] /\ Place' = 17
        /\ promised' = promised
    BY <2>1, WatcherGoes
  <2> QED BY <2>1, <2>2 DEF TypeOK, WatcherCame, ClientCame, Kept, Launched
<1>3. CASE Launch("watcher")
  <2>1. /\ Place = 13 /\ Goto("watcher", 14) /\ launches' = launches + 1
        /\ UNCHANGED <<there, stable, solid, gens, pointer, broken, closing>>
    BY <1>3, WatcherOps DEF Launch, Advance, Place, shareVars
  <2>2. /\ at' \in [Proc -> 0..20] /\ at'["client"] = at["client"] /\ Place' = 14
        /\ promised' = promised
    BY <2>1, WatcherGoes
  <2>3. launches' = 1 /\ Launched \subseteq stable
    BY <2>1 DEF WatcherCame, Launched
  <2>4. TypeOK' /\ WatcherCame' /\ ClientCame'
    BY <2>1, <2>2 DEF TypeOK, WatcherCame, ClientCame
  <2>5. Kept'
    BY <2>1, <2>2, <2>3 DEF Kept, Launched
  <2> QED BY <2>4, <2>5
<1> QED BY <1>1, <1>2, <1>3

\* Whatever fails leaves the share as it is.
LEMMA WatcherStumbles ==
  ASSUME Inv, PutFails("watcher") \/ FlushFails("watcher") \/ LaunchFails("watcher")
  PROVE  Inv'
<1>1. broken \in BOOLEAN
  BY DEF Inv, TypeOK
<1>2. CASE PutFails("watcher") \/ LaunchFails("watcher")
  <2>1. /\ Raise("watcher") /\ UNCHANGED <<shareVars, broken>>
        /\ Place \in {3, 7, 9, 11, 13, 17, 19}
    BY <1>2, WatcherOps DEF PutFails, LaunchFails, Inv
  <2> QED BY <1>1, <2>1, WatcherFails
<1>3. CASE FlushFails("watcher")
  <2>1. /\ Raise("watcher") /\ UNCHANGED shareVars /\ broken' \in BOOLEAN
        /\ broken => broken'
        /\ Place \in {6, 15} => broken'
        /\ Place \in {2, 4, 6, 8, 10, 12, 15, 18, 20}
    <3>1. /\ Raise("watcher") /\ UNCHANGED shareVars
          /\ broken' = (broken \/ Object("watcher") = "results")
      BY <1>3 DEF FlushFails
    <3>2. /\ Place \in {2, 4, 6, 8, 10, 12, 15, 18, 20}
          /\ Place \in {6, 15} => Object("watcher") = "results"
      BY <1>3, WatcherOps DEF FlushFails, Inv
    <3>3. broken' \in BOOLEAN /\ (broken => broken')
          /\ (Object("watcher") = "results" => broken')
      BY <1>1, <3>1, Zenon
    <3> QED BY <3>1, <3>2, <3>3
  <2> QED BY <2>1, WatcherFails
<1> QED BY <1>2, <1>3

-----------------------------------------------------------------------------
\* The steps of the client.

\* What the client links, flushes and renames.
LEMMA ClientMoves ==
  ASSUME Inv, Put("client") \/ Flush("client") \/ Rename("client")
  PROVE  Inv'
<1> USE DEF Inv
<1>0. at["client"] \in 0..6
  BY DEF TypeOK, Proc
<1>1. CASE Put("client") /\ File("client") \in there
  BY <1>1, ClientFails, ClientOps DEF Put
<1>2. CASE Put("client") /\ File("client") \notin there
  <2>1. /\ there' = there \cup {File("client")} /\ solid' = solid \cup {File("client")}
        /\ Goto("client", at["client"] + 1)
        /\ UNCHANGED <<stable, broken, launches, closing>>
        /\ \/ at["client"] = 1 /\ Object("client") = "request"
           \/ at["client"] = 3 /\ Object("client") = "COMMIT"
    BY <1>2, ClientOps DEF Put, Advance
  <2>2. /\ UNCHANGED <<gens, pointer>>
        /\ \/ at["client"] = 1 /\ File("client") = Entry("request")
           \/ at["client"] = 3 /\ File("client") = Entry("COMMIT")
    BY <1>2, <2>1 DEF Put, File, TypeOK
  <2>3. /\ at' \in [Proc -> 0..20] /\ Place' = Place
        /\ at'["client"] = at["client"] + 1 /\ promised' = promised
    BY <2>1, ClientGoes
  <2>4. TypeOK'
    BY <2>1, <2>2, <2>3 DEF TypeOK, Names
  <2>5. WatcherCame' /\ ClientCame'
    BY <2>1, <2>2, <2>3 DEF WatcherCame, ClientCame, Entry
  <2>6. Kept'
    BY <2>1, <2>2, <2>3 DEF Kept, Entry, Launched
  <2> QED BY <2>4, <2>5, <2>6
<1>3. CASE Flush("client")
  <2>1. /\ stable' = stable \cup (there \cap Holds[Object("client")])
        /\ Goto("client", at["client"] + 1)
        /\ UNCHANGED <<there, solid, gens, pointer, broken, launches, closing>>
        /\ \/ at["client"] \in {2, 4} /\ Object("client") = "ready"
           \/ at["client"] = 6 /\ Object("client") = "inbox"
    BY <1>3, ClientOps DEF Flush, Advance
  <2>2. /\ at' \in [Proc -> 0..20] /\ Place' = Place
        /\ at'["client"] = IF at["client"] = 6 THEN 0 ELSE at["client"] + 1
        /\ promised' = IF at["client"] = 6 THEN promised \cup {Entry("ready")} ELSE promised
    BY <2>1, ClientGoes
  <2>3. Entry("FINAL") \in promised' => Entry("FINAL") \in promised
    BY <2>2 DEF Entry
  <2>4. TypeOK'
    BY <2>1, <2>2 DEF TypeOK
  <2>5. WatcherCame' /\ ClientCame'
    BY <2>1, <2>2 DEF WatcherCame, ClientCame, Holds
  <2>6. Kept'
    BY <2>1, <2>2, <2>3 DEF Kept, ClientCame, Launched, Holds
  <2> QED BY <2>4, <2>5, <2>6
<1>4. CASE Rename("client")
  <2>1. /\ at["client"] = 5 /\ there' = there \cup {Entry("ready")}
        /\ Goto("client", at["client"] + 1)
        /\ UNCHANGED <<stable, solid, gens, pointer, broken, launches, closing>>
    BY <1>4, ClientOps DEF Rename, Advance
  <2>2. /\ at' \in [Proc -> 0..20] /\ Place' = Place
        /\ at'["client"] = 6 /\ promised' = promised
    BY <2>1, ClientGoes
  <2>3. TypeOK'
    BY <2>1, <2>2 DEF TypeOK, Names, Directories
  <2>4. WatcherCame' /\ ClientCame'
    BY <2>1, <2>2 DEF WatcherCame, ClientCame, Entry
  <2>5. Kept'
    BY <2>1, <2>2 DEF Kept, ClientCame, Entry, Launched
  <2> QED BY <2>3, <2>4, <2>5
<1> QED BY <1>1, <1>2, <1>3, <1>4

-----------------------------------------------------------------------------
\* Crashes, losses of power, and the start of a watcher.

\* A process that dies leaves the share as it is.
LEMMA ProcessDies ==
  ASSUME Inv, NEW p \in Proc, Crash(p)
  PROVE  Inv'
<1>1. at \in [{"client", "watcher"} -> 0..20]
  BY DEF Inv, TypeOK, Proc
<1>2. UNCHANGED <<there, stable, solid, promised, closing, gens, pointer, broken, launches>>
  BY DEF Crash, shareVars, jobVars
<1>3. CASE p = "client"
  <2>1. /\ at' \in [Proc -> 0..20] /\ at'["client"] = 0 /\ Place' = Place
    BY <1>1, <1>3 DEF Crash, Place, Proc
  <2> QED BY <1>2, <2>1 DEF Inv, TypeOK, WatcherCame, ClientCame, Kept
<1>4. CASE p = "watcher"
  <2>1. /\ at' \in [Proc -> 0..20] /\ at'["client"] = at["client"] /\ Place' = 0
    BY <1>1, <1>4 DEF Crash, Place, Proc
  <2> QED BY <1>2, <2>1 DEF Inv, TypeOK, WatcherCame, ClientCame, Kept
<1> QED BY <1>3, <1>4 DEF Proc

\* The entries that go with those that are lost.
Gone(Lost) == Lost \cup UNION {Holds[e[1]] : e \in {x \in Lost : x[1] \in DOMAIN Holds}}

\* A stable entry remains if the directory it is in does.
LEMMA Remains ==
  ASSUME TypeOK, NEW Lost \in SUBSET (there \ stable), NEW e \in stable,
         e \in Holds["ready"] => Entry("ready") \notin Lost,
         e \in Holds["claim"] => Entry("claim") \notin Lost,
         e \in Holds["result"] => Entry("result") \notin Lost
  PROVE  e \notin Gone(Lost)
<1>1. SUFFICES ASSUME NEW d \in Lost, d[1] \in DOMAIN Holds, e \in Holds[d[1]]
               PROVE  FALSE
  BY DEF Gone
<1>2. DOMAIN Holds = {"inbox", "claims", "results", "ready", "claim", "result"}
  BY DEF Holds
<1>3. d \in Names
  BY DEF TypeOK
<1>4. d \in Directories
  BY <1>1, <1>2, <1>3 DEF Names, Directories, Entry, Gen
<1> QED BY <1>1, <1>4 DEF Directories, Entry

\* Directories are not in directories that may go, files in one each.
LEMMA Places ==
  /\ \A d \in {"ready", "claim", "result"} : Entry("claim") \notin Holds[d]
       /\ Entry("result") \notin Holds[d] /\ Entry("ready") \notin Holds[d]
  /\ \A d \in {"claim", "result"} :
       Entry("request") \notin Holds[d] /\ Entry("COMMIT") \notin Holds[d]
  /\ \A d \in {"ready", "result"} :
       Entry("CLAIM") \notin Holds[d] /\ Entry("STARTED") \notin Holds[d]
  /\ \A d \in {"ready", "claim"} :
       Entry("FINAL") \notin Holds[d] /\ \A n : Gen(n) \notin Holds[d]
BY DEF Holds, Entry, Gen, Gens

\* What the power takes was not relied upon.
LEMMA PowerGoes ==
  ASSUME Inv, PowerLoss
  PROVE  Inv'
<1> USE DEF Inv
<1>1. PICK Lost \in SUBSET (there \ stable) : there' = there \ Gone(Lost)
  BY DEF PowerLoss, Gone
<1>2. /\ stable' = there' /\ solid' = solid \cap there'
      /\ at' \in [Proc -> 0..20] /\ at'["client"] = 0 /\ Place' = 0
      /\ UNCHANGED <<promised, closing, gens, pointer, broken, launches>>
  BY DEF PowerLoss, jobVars, Proc, Place
<1>3. TypeOK'
  BY <1>1, <1>2 DEF TypeOK
<1>4. WatcherCame' /\ ClientCame'
  BY <1>2 DEF WatcherCame, ClientCame
<1>5. Entry("claim") \in stable => Entry("claim") \in there'
  BY <1>1, Remains, Places DEF TypeOK
<1>6. Entry("result") \in stable => Entry("result") \in there'
  BY <1>1, Remains, Places DEF TypeOK
<1>7. Entry("ready") \in stable => Entry("ready") \in there'
  BY <1>1, Remains, Places DEF TypeOK
<1>8. launches = 1 => Launched \subseteq there'
  <2>1. SUFFICES ASSUME Launched \subseteq stable
                 PROVE  Launched \subseteq there'
    BY DEF Kept
  <2>2. Entry("claim") \notin Lost /\ Entry("result") \notin Lost
    BY <2>1 DEF Launched
  <2>3. \A e \in {Entry("CLAIM"), Entry("STARTED")} : e \in stable /\ e \notin Gone(Lost)
    BY <2>1, <2>2, Remains, Places DEF Launched
  <2>4. Entry("CLAIM") \in there' /\ Entry("STARTED") \in there'
    BY <1>1, <2>3 DEF TypeOK
  <2> QED BY <1>5, <1>6, <2>1, <2>4 DEF Launched
<1>9. Entry("FINAL") \in there' => Gen(pointer) \in there'
  <2>1. SUFFICES ASSUME Entry("FINAL") \in there'
                 PROVE  Gen(pointer) \in there'
    OBVIOUS
  <2>2. Entry("result") \notin Lost
    <3>1. SUFFICES ASSUME Entry("result") \in Lost
                   PROVE  Holds["result"] \subseteq Gone(Lost)
      BY <1>1, <2>1, Contents
    <3>2. Entry("result")[1] = "result" /\ "result" \in DOMAIN Holds
      BY DEF Entry, Holds
    <3> QED BY <3>1, <3>2 DEF Gone
  <2>3. Gen(pointer) \in stable
    BY <1>1, <2>1 DEF Kept
  <2> QED BY <1>1, <2>2, <2>3, Remains, Places DEF TypeOK
<1>10. Entry("ready") \in there' => {Entry("request"), Entry("COMMIT")} \subseteq there'
  <2>1. SUFFICES ASSUME Entry("ready") \in there'
                 PROVE  {Entry("request"), Entry("COMMIT")} \subseteq there'
    OBVIOUS
  <2>2. Entry("ready") \notin Lost
    BY <1>1, <2>1 DEF Gone
  <2>3. {Entry("request"), Entry("COMMIT")} \subseteq stable
    BY <1>1, <2>1 DEF Kept
  <2> QED BY <1>1, <2>2, <2>3, Remains, Places DEF TypeOK
<1>11. Entry("FINAL") \in stable /\ Entry("result") \in stable => Entry("FINAL") \in there'
  BY <1>1, Remains, Places DEF TypeOK
<1>12. Kept'
  BY <1>1, <1>2, <1>5, <1>6, <1>7, <1>8, <1>9, <1>10, <1>11 DEF Kept
<1> QED BY <1>3, <1>4, <1>12

\* A watcher starts with namespaces that are stable.
LEMMA WatcherStarts ==
  ASSUME Inv, Start
  PROVE  Inv'
<1> USE DEF Inv
<1>1. at \in [{"client", "watcher"} -> 0..20]
  BY DEF TypeOK, Proc
<1>2. /\ Place = 0 /\ stable \subseteq stable' /\ stable' \subseteq there
      /\ Entry("claim") \in there => Entry("claim") \in stable'
      /\ Entry("result") \in there => Entry("result") \in stable'
  BY Contents DEF Start, Place, Roots, TypeOK
<1>3. UNCHANGED <<there, solid, gens, pointer, promised, launches>>
  BY DEF Start
<1>4. /\ at' \in [Proc -> 0..20] /\ at'["client"] = at["client"] /\ closing' \in BOOLEAN
      /\ \/ Place' = 14 /\ Entry("claim") \in there
         \/ Place' = 1 /\ Entry("claim") \notin there
  <2>1. CASE at' = [at EXCEPT !["watcher"] = 14] /\ closing' = TRUE /\ Entry("claim") \in there
    BY <1>1, <2>1 DEF Place, Proc
  <2>2. CASE at' = [at EXCEPT !["watcher"] = 1] /\ closing' = FALSE /\ Entry("claim") \notin there
    <3>1. closing' \in BOOLEAN
      BY <2>2, Zenon
    <3>2. at' \in [Proc -> 0..20] /\ at'["client"] = at["client"] /\ Place' = 1
      BY <1>1, <2>2 DEF Place, Proc
    <3> QED BY <2>2, <3>1, <3>2
  <2> QED BY <2>1, <2>2, WatcherPlan DEF Start
<1>5. broken' \in BOOLEAN /\ (Entry("FINAL") \in promised /\ ~broken' => ~broken)
  BY Zenon DEF Start
<1>6. TypeOK'
  BY <1>2, <1>3, <1>4, <1>5 DEF TypeOK
<1>7. WatcherCame' /\ ClientCame'
  BY <1>2, <1>3, <1>4 DEF WatcherCame, ClientCame, Kept, Launched, TypeOK
<1>8. Kept'
  BY <1>2, <1>3, <1>4, <1>5 DEF Kept, Launched
<1> QED BY <1>6, <1>7, <1>8

-----------------------------------------------------------------------------
\* At the start nothing is there.
LEMMA InitInv == Init => Inv
<1> SUFFICES ASSUME Init PROVE Inv
  OBVIOUS
<1>1. /\ at \in [Proc -> 0..20] /\ at["client"] = 1 /\ Place = 0
  BY DEF Init, Proc, Place
<1>2. 0 \in 0..MaxGens
  BY BoundsAssumption
<1>3. TypeOK
  <2>1. closing \in BOOLEAN /\ broken \in BOOLEAN
    BY Zenon DEF Init
  <2> QED BY <1>1, <1>2, <2>1 DEF Init, TypeOK
<1>4. WatcherCame /\ ClientCame
  BY <1>1 DEF Init, WatcherCame, ClientCame
<1>5. Kept
  BY <1>1 DEF Init, Kept
<1> QED BY <1>3, <1>4, <1>5 DEF Inv

\* Every step.
LEMMA StepInv ==
  ASSUME Inv, [Next]_vars
  PROVE  Inv'
<1>1. CASE UNCHANGED vars
  BY <1>1 DEF vars, shareVars, jobVars, Inv, TypeOK, WatcherCame, ClientCame, Kept, Place
<1>2. CASE Start
  BY <1>2, WatcherStarts
<1>3. CASE PowerLoss
  BY <1>3, PowerGoes
<1>4. ASSUME NEW p \in Proc, Step(p)
      PROVE  Inv'
  <2>1. CASE Crash(p)
    BY <2>1, ProcessDies
  <2>2. CASE p = "watcher" /\ ~Crash(p)
    <3>1. ~Rename("watcher")
      BY WatcherOps DEF Rename, Inv
    <3> QED BY <1>4, <2>2, <3>1, WatcherMakes, WatcherPuts, WatcherFlushes, WatcherLaunches,
               WatcherStumbles DEF Step
  <2>3. CASE p = "client" /\ ~Crash(p)
    <3>1. ~(Make("client") \/ Ensure("client") \/ Launch("client") \/ LaunchFails("client")
            \/ Open("client"))
      BY ClientOps DEF Make, Ensure, Launch, LaunchFails, Open, Inv
    <3>2. CASE PutFails("client")
      BY <3>2, ClientFails DEF PutFails
    <3>3. CASE FlushFails("client")
      <4>1. Object("client") # "results" /\ broken \in BOOLEAN
        BY <3>3, ClientOps DEF FlushFails, Inv, TypeOK
      <4>2. broken' = broken
        BY <3>3, <4>1, Zenon DEF FlushFails
      <4> QED BY <3>3, <4>2, ClientFails DEF FlushFails
    <3> QED BY <1>4, <2>3, <3>1, <3>2, <3>3, ClientMoves DEF Step
  <2> QED BY <2>1, <2>2, <2>3 DEF Proc
<1> QED BY <1>1, <1>2, <1>3, <1>4 DEF Next

\* Behind the barriers, all that counts is stable.
THEOREM BarriersHold == Spec => []Inv
<1>1. Inv /\ [Next]_vars => Inv'
  BY StepInv
<1> QED BY <1>1, InitInv, PTL DEF Spec

\* Through any number of crashes, failing barriers and losses of power the command is
\* launched at most once, and what forbids another launch stays (watcher.py:149,
\* 373-379, util.py:52-64, 119-130).
THEOREM LaunchedOnce == Spec => []AtMostOnce
<1>1. Inv => AtMostOnce
  BY DEF Inv, TypeOK, Kept, AtMostOnce, Launched
<1> QED BY <1>1, BarriersHold, PTL

\* What was reported as published is there, with what it points to, for ever, but for a
\* FINAL after a failed barrier on results/ (protocol.py:181-198, util.py:164-198).
THEOREM PublishedForGood == Spec => []PublishedStays
<1>1. Inv => PublishedStays
  <2>1. SUFFICES ASSUME Inv PROVE PublishedStays
    OBVIOUS
  <2>2. there \ Directories \subseteq solid /\ stable \subseteq there
    BY <2>1 DEF Inv, TypeOK
  <2>3. Gen(pointer) \notin Directories
    BY DEF Directories, Entry, Gen
  <2>4. /\ Entry("FINAL") \notin Directories /\ Entry("request") \notin Directories
        /\ Entry("COMMIT") \notin Directories
    BY DEF Directories, Entry
  <2>5. promised \subseteq there \cup (IF broken THEN {Entry("FINAL")} ELSE {})
    BY <2>1 DEF Inv, TypeOK, Kept
  <2> QED BY <2>1, <2>2, <2>3, <2>4, <2>5 DEF Inv, Kept, PublishedStays, Whole
<1> QED BY <1>1, BarriersHold, PTL
=============================================================================
