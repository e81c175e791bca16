---------------------------- MODULE RallyProofs -----------------------------
(***************************************************************************)
(* Proofs of the safety properties of Rally, for any publications,         *)
(* contents, limits and faults.                                            *)
(*                                                                         *)
(* They hold because a publication has one content (OneContent), because   *)
(* what replay() has behind it stays as it left it (InHand), and because   *)
(* it works on nothing that is done (Batch).                               *)
(***************************************************************************)
EXTENDS RallyProps, FiniteSetTheorems, SequenceTheorems, TLAPS

\* The destination is a table of files; the journal is finite.
Whole ==
  /\ staged = [p \in Pub |-> staged[p]]
  /\ body = [p \in Pub |-> body[p]]
  /\ durable = [p \in Pub |-> durable[p]]
  /\ IsFiniteSet(Recorded)

\* A file holds what was recorded of its publication, or is another's.
OneContent ==
  \A p \in Pub : \A i \in File(p) : body[p][i] \in Version => body[p][i] = digest[p]

\* What is done was recorded.
Finished == done \subseteq Recorded

\* The publications that are still to be replayed are pending and distinct.
Batch ==
  pc = "replaying" =>
    \A i \in DOMAIN work :
      /\ work[i] \in Pending
      /\ \A j \in DOMAIN work : i # j => work[i] # work[j]

\* A file that replay() has left.
Settled(p, i) == body[p][i] = digest[p] /\ durable[p][i] /\ staged[p][i] = "none"

\* The publication that replay() works on.
InHand ==
  step # "none" =>
    /\ pc \in {"replaying", "polling"}
    /\ work # <<>> /\ Current \in Pending /\ at \in File(Current)
    /\ \A i \in File(Current) : i < at => Settled(Current, i)
    /\ step \in {"unlink", "verify", "barrier"} => Here = Payload
    /\ step \in {"verify", "barrier"} => staged[Current][at] = "none"
    /\ step = "commit" => at = Size(Current) /\ Settled(Current, at)

\* The destination and the journal; the process.
Stock ==
  DestinationTypes /\ Whole /\ JournalTypes /\ OneContent /\ MarkerVouches /\ Finished
Round == ProcessTypes /\ Batch /\ InHand
Inv == SourceTypes /\ Stock /\ Round

-----------------------------------------------------------------------------
\* Files, tables of files, and sequences.

LEMMA Sizes ==
  ASSUME NEW p \in Pub
  PROVE  /\ Size(p) \in 1..2 /\ File(p) \subseteq 1..2 /\ Size(p) \in File(p)
         /\ \A i \in File(p) : i \in Nat /\ 1 <= i /\ i <= Size(p)
BY DEF Size, File

\* An entry for each file of each publication.
Table(f, S) == f = [p \in Pub |-> f[p]] /\ \A p \in Pub : f[p] \in [File(p) -> S]
Marks == {"none", "staged", "linked"}
Contents == Version \cup {Nothing, Alien}

LEMMA Tables ==
  (/\ staged = [p \in Pub |-> staged[p]]
   /\ body = [p \in Pub |-> body[p]]
   /\ durable = [p \in Pub |-> durable[p]]
   /\ DestinationTypes)
  <=> Table(staged, Marks) /\ Table(body, Contents) /\ Table(durable, BOOLEAN)
BY DEF Table, Marks, Contents, DestinationTypes

LEMMA TablesThen ==
  ASSUME Table(staged', Marks), Table(body', Contents), Table(durable', BOOLEAN)
  PROVE  /\ staged' = [p \in Pub |-> staged'[p]] /\ body' = [p \in Pub |-> body'[p]]
         /\ durable' = [p \in Pub |-> durable'[p]] /\ DestinationTypes'
BY DEF Table, Marks, Contents, DestinationTypes

\* One file of a table is given another entry.
LEMMA Put ==
  ASSUME NEW S, NEW f, Table(f, S), NEW c \in Pub, NEW n \in File(c), NEW v \in S,
         NEW g, g = [f EXCEPT ![c][n] = v]
  PROVE  Table(g, S)
<1>1. g = [f EXCEPT ![c] = [f[c] EXCEPT ![n] = v]]
  OBVIOUS
<1>2. DOMAIN f = Pub /\ \A p \in Pub : f[p] \in [File(p) -> S]
  BY DEF Table
<1>3. g[c] = [f[c] EXCEPT ![n] = v] /\ \A p \in Pub : p # c => g[p] = f[p]
  BY <1>1, <1>2
<1>4. g[c] \in [File(c) -> S] /\ g[c][n] = v
      /\ \A i \in File(c) : i # n => g[c][i] = f[c][i]
  BY <1>2, <1>3
<1>5. g = [p \in Pub |-> g[p]] /\ \A p \in Pub : g[p] \in [File(p) -> S]
  BY <1>1, <1>2, <1>3, <1>4
<1> QED BY <1>3, <1>4, <1>5 DEF Table

\* The rest of the work.
LEMMA Rest ==
  ASSUME work \in Seq(Pub), work # <<>>
  PROVE  /\ Current \in Pub /\ Tail(work) \in Seq(Pub)
         /\ 1 \in DOMAIN work /\ Current = work[1]
         /\ \A i \in DOMAIN Tail(work) : i + 1 \in DOMAIN work /\ i \in Nat
                                        /\ Tail(work)[i] = work[i + 1] /\ i + 1 # 1
<1>1. Len(work) \in Nat /\ Len(work) # 0 /\ DOMAIN work = 1..Len(work)
  BY EmptySeq
<1>2. Head(work) = work[1] /\ Tail(work) \in Seq(Pub) /\ Len(Tail(work)) = Len(work) - 1
  BY <1>1, HeadTailProperties
<1>3. \A i \in 1..Len(Tail(work)) : Tail(work)[i] = work[i + 1]
  BY <1>1, <1>2
<1>4. DOMAIN Tail(work) = 1..Len(Tail(work))
  BY <1>2
<1> QED BY <1>1, <1>2, <1>3, <1>4 DEF Current

\* A finite set can be put in order.
LEMMA Ordered ==
  ASSUME NEW S \in SUBSET Pub, IsFiniteSet(S), NEW w \in SetToSeqs(S)
  PROVE  /\ w \in Seq(Pub)
         /\ \A i \in DOMAIN w : w[i] \in S /\ \A j \in DOMAIN w : i # j => w[i] # w[j]
<1>1. Cardinality(S) \in Nat
  BY FS_CardinalityType
<1>2. w \in [1..Cardinality(S) -> S]
      /\ \A i, j \in 1..Cardinality(S) : i # j => w[i] # w[j]
  BY DEF SetToSeqs
<1> QED BY <1>1, <1>2

\* A part of what is recorded is finite, and so are its files.
LEMMA FilesOf ==
  ASSUME NEW S, IsFiniteSet(S), NEW T \in SUBSET S
  PROVE  Files(S) \in Nat /\ Files(T) \in Nat /\ Files(T) <= Files(S)
<1> DEFINE all(X) == {f \in X \X (1..2) : f[2] \in File(f[1])}
<1>1. IsFiniteSet(1..2)
  <2>1. 1 \in Int /\ 2 \in Int
    OBVIOUS
  <2> QED BY <2>1, FS_Interval, Zenon
<1>2. IsFiniteSet(S \X (1..2))
  BY <1>1, FS_Product
<1>3. all(S) \in SUBSET (S \X (1..2)) /\ all(T) \in SUBSET all(S)
  OBVIOUS
<1> HIDE DEF all
<1>4. IsFiniteSet(all(S)) /\ IsFiniteSet(all(T)) /\ Cardinality(all(T)) <= Cardinality(all(S))
  BY <1>2, <1>3, FS_Subset
<1>5. Cardinality(all(S)) \in Nat /\ Cardinality(all(T)) \in Nat
  BY <1>4, FS_CardinalityType
<1> QED BY <1>4, <1>5 DEF Files, all

\* What is to be polled is finite: a name stands for one publication of each kind.
LEMMA ToPollFinite ==
  ASSUME known \in Seq(Known)
  PROVE  IsFiniteSet(ToPoll)
<1> DEFINE kinds == Outbound \cup Inbound
           Place(p) == CHOOSE i \in DOMAIN known : known[i] = NameOf(p)
           places == DOMAIN known
           both == places \X kinds
           f == [p \in ToPoll |-> <<Place(p), p.kind>>]
<1>1. IsFiniteSet(places)
  BY FS_Interval
<1>2. IsFiniteSet(kinds)
  <2>1. kinds = ({"request"} \cup {"cancel"} \cup {"ping"} \cup {"CLAIMED"}
                 \cup {"RUNNING"} \cup {"result"} \cup {"pong"})
    BY DEF Outbound, Inbound
  <2> QED BY <2>1, FS_Singleton, FS_Union
<1>3. \A p \in ToPoll : Place(p) \in places /\ known[Place(p)] = NameOf(p)
  BY DEF ToPoll, ToSet
<1>4. \A p \in ToPoll : p \in Pub /\ p.kind \in kinds
  BY RallyAssumption DEF ToPoll
<1> HIDE DEF kinds, Place, places
<1>5. IsFiniteSet(both)
  BY <1>1, <1>2, FS_Product
<1> HIDE DEF both
<1>6. f \in [ToPoll -> both]
  <2>1. \A p \in ToPoll : <<Place(p), p.kind>> \in both
    BY <1>3, <1>4 DEF both
  <2> QED BY <2>1
<1>7. ASSUME NEW p \in ToPoll, NEW q \in ToPoll, f[p] = f[q] PROVE p = q
  <2>1. Place(p) = Place(q) /\ p.kind = q.kind
    BY <1>7
  <2>2. NameOf(p) = NameOf(q)
    BY <1>3, <2>1
  <2>3. p.name = q.name
    BY <2>2 DEF NameOf
  <2> QED BY <1>4, <2>1, <2>3, RallyAssumption
<1>8. f \in Injection(ToPoll, both)
  BY <1>6, <1>7 DEF Injection, IsInjective
<1> HIDE DEF f
<1> QED BY <1>5, <1>8, FS_Injection

\* What replay() works on.
LEMMA Held ==
  ASSUME Inv, step # "none"
  PROVE  /\ Current \in Pub /\ Current \notin done /\ Payload \in Version
         /\ at \in File(Current) /\ work \in Seq(Pub) /\ work # <<>>
         /\ \A i \in File(Current) : i < at => Settled(Current, i)
BY DEF Inv, Round, Stock, ProcessTypes, InHand, Pending, Recorded, JournalTypes, Payload

-----------------------------------------------------------------------------
\* What the process does next.

\* Without a publication in hand, all but a replayed batch is plain.
LEMMA Empty ==
  ASSUME step' = "none", pc' # "replaying", work' \in Seq(Pub), at' \in 1..2,
         pc' \in {"down", "idle", "discovering", "polling", "beating", "marking"}
  PROVE  Round'
BY DEF Round, ProcessTypes, Batch, InHand

\* The next publication, whether the first was done or not.
LEMMA NextRound ==
  ASSUME Inv, NextItem, work # <<>>, digest' = digest,
         done' \subseteq done \cup {Current}, pc \in {"replaying", "polling"}
  PROVE  Round'
<1>1. work \in Seq(Pub) /\ pc' = pc /\ work' = Tail(work) /\ step' = "none" /\ at' = 1
  BY DEF Inv, Round, ProcessTypes, NextItem
<1>2. ProcessTypes'
  BY <1>1, Rest DEF Inv, Round, ProcessTypes
<1>3. InHand'
  BY <1>1 DEF InHand
<1>4. ASSUME pc = "replaying" PROVE Batch'
  <2>1. \A i \in DOMAIN work :
          /\ work[i] \in Pending
          /\ \A k \in DOMAIN work : i # k => work[i] # work[k]
    BY <1>4 DEF Inv, Round, Batch
  <2>2. ASSUME NEW i \in DOMAIN work'
        PROVE  /\ work'[i] \in Pending'
               /\ \A k \in DOMAIN work' : i # k => work'[i] # work'[k]
    <3>1. /\ i \in Nat /\ i + 1 \in DOMAIN work /\ work'[i] = work[i + 1]
          /\ 1 \in DOMAIN work /\ Current = work[1] /\ i + 1 # 1
      BY <1>1, <2>2, Rest
    <3>2. work[i + 1] \in Pending /\ work[i + 1] # Current
      BY <2>1, <3>1
    <3>3. work'[i] \in Pending'
      BY <3>1, <3>2 DEF Pending, Recorded
    <3>4. ASSUME NEW k \in DOMAIN work', i # k PROVE work'[i] # work'[k]
      <4>1. k \in Nat /\ k + 1 \in DOMAIN work /\ work'[k] = work[k + 1]
        BY <1>1, Rest
      <4>2. i + 1 # k + 1
        BY <3>1, <3>4, <4>1
      <4> QED BY <2>1, <3>1, <4>1, <4>2
    <3> QED BY <3>3, <3>4
  <2> QED BY <2>2 DEF Batch
<1>5. ASSUME pc # "replaying" PROVE Batch'
  BY <1>1, <1>5 DEF Batch
<1> QED BY <1>2, <1>3, <1>4, <1>5 DEF Round

\* Work on the next publication begins with its first file.
LEMMA FirstFile ==
  ASSUME Inv, step' = "recover", at' = 1, pc \in {"replaying", "polling"},
         UNCHANGED <<pc, work>>, work # <<>>, Current \in Pending', Batch'
  PROVE  Round'
<1>1. work \in Seq(Pub) /\ Current \in Pub
  BY Rest DEF Inv, Round, ProcessTypes
<1>2. 1 \in File(Current) /\ \A i \in File(Current) : ~(i < 1)
  BY <1>1, Sizes DEF File
<1>3. ProcessTypes'
  BY DEF Inv, Round, ProcessTypes
<1>4. Current' = Current
  BY DEF Current
<1>5. InHand'
  BY <1>2, <1>4 DEF InHand
<1> QED BY <1>3, <1>5 DEF Round

\* What the others do to files leaves those that replay() has settled.
LEMMA Undisturbed ==
  ASSUME Inv, UNCHANGED <<procVars, journalVars, staged>>,
         \A i \in File(Current) : step # "none" /\ body[Current][i] = Payload =>
           body'[Current][i] = body[Current][i] /\ durable'[Current][i] = durable[Current][i]
  PROVE  Round'
<1>1. ProcessTypes' /\ Batch'
  BY DEF Inv, Round, ProcessTypes, Batch, procVars, journalVars, Pending, Recorded
<1>2. CASE step = "none"
  BY <1>1, <1>2 DEF Round, InHand, procVars
<1>3. CASE step # "none"
  <2>1. Current' = Current /\ Payload' = Payload /\ Pending' = Pending
    BY DEF Current, Payload, Pending, Recorded, procVars, journalVars
  <2>2. \A i \in File(Current) : Settled(Current, i) => Settled(Current, i)'
    BY <1>3 DEF Settled, Payload, procVars, journalVars, Current
  <2>3. at \in File(Current) /\ (Here = Payload => Here' = Payload)
    BY <1>3, <2>1, Held DEF Here, Current, procVars
  <2> QED BY <1>1, <1>3, <2>1, <2>2, <2>3
          DEF Inv, Round, InHand, procVars, Here, Current
<1> QED BY <1>2, <1>3

\* What replay() does to the file in hand leaves the files before it.
LEMMA Behind ==
  ASSUME Inv, step # "none", NEW n \in File(Current), n <= at,
         \A i \in File(Current) : i # at => /\ body'[Current][i] = body[Current][i]
                                            /\ durable'[Current][i] = durable[Current][i]
                                            /\ staged'[Current][i] = staged[Current][i],
         UNCHANGED <<work, digest>>
  PROVE  \A i \in File(Current) : i < n => Settled(Current, i)'
<1>1. at \in Nat /\ n \in Nat /\ \A i \in File(Current) : i \in Nat
  BY Held, Sizes
<1>2. ASSUME NEW i \in File(Current), i < n PROVE Settled(Current, i)'
  <2>1. i < at /\ i # at
    BY <1>1, <1>2
  <2>2. Settled(Current, i)
    BY <2>1, Held
  <2> QED BY <2>1, <2>2 DEF Settled, Current
<1> QED BY <1>2

\* A step of replay() on the file in hand.
LEMMA Proceed ==
  ASSUME Inv, step # "none", UNCHANGED <<pc, work, at, digest, done>>,
         step' \in {"link", "unlink", "verify", "barrier", "commit"},
         \A i \in File(Current) : i # at => /\ body'[Current][i] = body[Current][i]
                                            /\ durable'[Current][i] = durable[Current][i]
                                            /\ staged'[Current][i] = staged[Current][i],
         step' \in {"unlink", "verify", "barrier"} => body'[Current][at] = Payload,
         step' \in {"verify", "barrier"} => staged'[Current][at] = "none",
         step' = "commit" => at = Size(Current) /\ Settled(Current, at)'
  PROVE  Round'
<1>1. ProcessTypes' /\ Batch'
  BY DEF Inv, Round, ProcessTypes, Batch, Pending, Recorded
<1>2. \A i \in File(Current) : i < at => Settled(Current, i)'
  <2>1. at \in File(Current) /\ at <= at
    BY Held, Sizes
  <2> QED BY <2>1, Behind
<1>3. Current' = Current /\ Payload' = Payload /\ Pending' = Pending /\ at' = at
      /\ pc' = pc /\ work' = work /\ Here' = body'[Current][at]
  BY DEF Current, Payload, Pending, Recorded, Here
<1>4. /\ pc \in {"replaying", "polling"} /\ work # <<>>
      /\ Current \in Pending /\ at \in File(Current)
  BY DEF Inv, Round, InHand
<1>5. step' = "commit" => at = Size(Current)' /\ Settled(Current, at)'
  BY <1>3
<1>6. InHand'
  BY <1>2, <1>3, <1>4, <1>5 DEF InHand
<1> QED BY <1>1, <1>6 DEF Round

-----------------------------------------------------------------------------
\* What becomes of the files.

LEMMA StockKept ==
  ASSUME Stock, UNCHANGED <<destVars, journalVars>>
  PROVE  Stock'
BY DEF Stock, DestinationTypes, Whole, JournalTypes, OneContent, MarkerVouches, Finished,
       destVars, journalVars, Pending, Recorded

\* A staging name is made, linked or removed.
LEMMA StockMarked ==
  ASSUME Inv, step # "none", NEW s \in {"none", "staged", "linked"}, Mark(s),
         UNCHANGED <<body, durable, journalVars>>
  PROVE  /\ Stock' /\ staged'[Current][at] = s
         /\ \A i \in File(Current) : i # at => staged'[Current][i] = staged[Current][i]
<1>1. /\ Current \in Pub /\ at \in File(Current) /\ Stock /\ IsFiniteSet(Recorded)
      /\ Table(staged, Marks) /\ Table(body, Contents) /\ Table(durable, BOOLEAN)
  BY Held, Tables DEF Inv, Stock, Whole
<1>2. s \in Marks /\ staged' = [staged EXCEPT ![Current][at] = s]
  BY DEF Mark, Marks
<1>3. /\ Table(staged', Marks) /\ staged'[Current][at] = s
      /\ \A i \in File(Current) : i # at => staged'[Current][i] = staged[Current][i]
  <2>1. Table(staged', Marks)
    BY <1>1, <1>2, Put
  <2>2. /\ staged'[Current][at] = s
        /\ \A i \in File(Current) : i # at => staged'[Current][i] = staged[Current][i]
    BY <1>1, <1>2 DEF Table
  <2> QED BY <2>1, <2>2
<1>4. DestinationTypes' /\ Whole'
  <2>1. Table(body', Contents) /\ Table(durable', BOOLEAN)
    BY <1>1
  <2> QED BY <1>1, <1>3, <2>1, TablesThen DEF Whole, journalVars, Recorded
<1>5. JournalTypes' /\ OneContent' /\ MarkerVouches' /\ Finished'
  BY <1>1 DEF Stock, JournalTypes, OneContent, MarkerVouches, Finished, journalVars,
              Pending, Recorded
<1> QED BY <1>3, <1>4, <1>5 DEF Stock

LEMMA StageSteps ==
  ASSUME Inv, FinishLeftover \/ Stage \/ Unlink \/ Exists
  PROVE  Stock' /\ Round'
<1>1. /\ step # "none" /\ UNCHANGED <<body, durable, journalVars>>
      /\ UNCHANGED <<pc, work, at, digest, done>>
      /\ \E s \in {"none", "staged", "linked"} :
           Mark(s) /\ step' = IF s = "staged" THEN "link" ELSE "verify"
      /\ step' = "verify" => Mark("none")
  BY DEF FinishLeftover, Stage, Unlink, Exists, InStep, Goto, journalVars
<1>2. PICK s \in {"none", "staged", "linked"} :
        Mark(s) /\ step' = IF s = "staged" THEN "link" ELSE "verify"
  BY <1>1
<1>3. /\ Stock' /\ staged'[Current][at] = s
      /\ \A i \in File(Current) : i # at => staged'[Current][i] = staged[Current][i]
  BY <1>1, <1>2, StockMarked
<1>4. step' = "verify" => staged'[Current][at] = "none"
  BY <1>1, StockMarked
<1>5. step' = "verify" => body'[Current][at] = Payload
  BY <1>1 DEF FinishLeftover, Stage, Unlink, Exists, InStep, Goto, Here, Inv, Round, InHand
<1>6. step' \in {"link", "verify"}
  BY <1>2
<1> QED BY <1>1, <1>3, <1>4, <1>5, <1>6, Proceed

LEMMA VerifyStep ==
  ASSUME Inv, Verify
  PROVE  Stock' /\ Round'
<1>1. /\ step = "verify" /\ step' = "barrier" /\ Here = Payload
      /\ UNCHANGED <<pc, work, at, digest, done, body, durable, staged>>
      /\ UNCHANGED <<destVars, journalVars>>
  BY DEF Verify, InStep, Goto, destVars, journalVars
<1>2. staged[Current][at] = "none"
  BY <1>1 DEF Inv, Round, InHand
<1>3. Stock'
  BY <1>1, StockKept DEF Inv
<1> QED BY <1>1, <1>2, <1>3, Proceed DEF Here

\* A file that was not there.
LEMMA StockFilled ==
  ASSUME Stock, NEW c \in Pub, NEW n \in File(c), NEW v \in Version \cup {Alien},
         body[c][n] = Nothing, body' = [body EXCEPT ![c][n] = v],
         UNCHANGED <<durable, journalVars>>, Table(staged', Marks),
         v \in Version => v = digest[c],
         v \in Version /\ n = Size(c) =>
           \A i \in 1..(Size(c) - 1) : body[c][i] = v /\ durable[c][i]
  PROVE  /\ Stock' /\ body'[c][n] = v
         /\ \A p \in Pub : \A i \in File(p) : p # c \/ i # n => body'[p][i] = body[p][i]
<1>1. /\ Table(body, Contents) /\ Table(durable, BOOLEAN) /\ v \in Contents
      /\ IsFiniteSet(Recorded)
  BY Tables DEF Stock, Whole, Contents
<1>2. /\ Table(body', Contents) /\ body'[c][n] = v
      /\ \A p \in Pub : \A i \in File(p) : p # c \/ i # n => body'[p][i] = body[p][i]
  <2>1. Table(body', Contents)
    BY <1>1, Put
  <2>2. body'[c][n] = v
    BY <1>1 DEF Table
  <2>3. \A p \in Pub : \A i \in File(p) : p # c \/ i # n => body'[p][i] = body[p][i]
    BY <1>1 DEF Table
  <2> QED BY <2>1, <2>2, <2>3
<1>3. DestinationTypes' /\ Whole'
  <2>1. Table(durable', BOOLEAN)
    BY <1>1
  <2> QED BY <1>1, <1>2, <2>1, TablesThen DEF Whole, journalVars, Recorded
<1>4. JournalTypes' /\ Finished'
  BY DEF Stock, JournalTypes, Finished, journalVars, Pending, Recorded
<1>5. OneContent'
  BY <1>2 DEF Stock, OneContent, journalVars
<1>6. ASSUME NEW p \in Pub, body'[p][Size(p)] \in Version, NEW i \in 1..(Size(p) - 1)
      PROVE  body'[p][i] = body'[p][Size(p)] /\ durable'[p][i]
  <2>1. /\ i \in File(p) /\ Size(p) \in File(p) /\ i # Size(p) /\ durable' = durable
    BY Sizes DEF File
  <2>2. CASE p = c /\ n = Size(p)
    BY <1>2, <1>6, <2>1, <2>2
  <2>3. CASE ~(p = c /\ n = Size(p))
    <3>1. body'[p][Size(p)] = body[p][Size(p)]
      BY <1>2, <2>1, <2>3
    <3>2. body[p][i] = body[p][Size(p)] /\ durable[p][i]
      BY <1>6, <3>1 DEF Stock, MarkerVouches
    <3>3. body[p][i] # Nothing
      BY <1>6, <3>1, <3>2, RallyAssumption
    <3> QED BY <1>2, <2>1, <3>1, <3>2, <3>3
  <2> QED BY <2>2, <2>3
<1> QED BY <1>2, <1>3, <1>4, <1>5, <1>6 DEF Stock, MarkerVouches

LEMMA LinkStep ==
  ASSUME Inv, Link
  PROVE  /\ Stock' /\ Round' /\ body'[Current][at] = Payload
         /\ \A p \in Pub : \A i \in File(p) :
              p # Current \/ i # at => body'[p][i] = body[p][i]
<1>1. /\ step = "link" /\ step' = "unlink" /\ Here = Nothing
      /\ UNCHANGED <<pc, work, at, digest, done, durable>> /\ UNCHANGED journalVars
      /\ body' = [body EXCEPT ![Current][at] = Payload]
      /\ staged' = [staged EXCEPT ![Current][at] = "linked"]
  BY DEF Link, InStep, Goto, Mark, journalVars
<1>2. /\ Current \in Pub /\ at \in File(Current) /\ Stock /\ Payload \in Version
      /\ \A i \in File(Current) : i < at => Settled(Current, i)
  BY <1>1, Held DEF Inv
<1>3. Table(staged, Marks) /\ "linked" \in Marks
  BY <1>2, Tables DEF Stock, Whole, Marks
<1>4. /\ Table(staged', Marks)
      /\ \A i \in File(Current) : i # at => staged'[Current][i] = staged[Current][i]
  <2>1. Table(staged', Marks)
    BY <1>1, <1>2, <1>3, Put
  <2>2. \A i \in File(Current) : i # at => staged'[Current][i] = staged[Current][i]
    BY <1>1, <1>2, <1>3 DEF Table
  <2> QED BY <2>1, <2>2
<1>5. at = Size(Current) => \A i \in 1..(Size(Current) - 1) :
                              body[Current][i] = Payload /\ durable[Current][i]
  BY <1>2, Sizes DEF Settled, Payload, File
<1>6. /\ Stock' /\ body'[Current][at] = Payload
      /\ \A p \in Pub : \A i \in File(p) :
           p # Current \/ i # at => body'[p][i] = body[p][i]
  <2>1. body[Current][at] = Nothing /\ Payload \in Version \cup {Alien}
        /\ Payload = digest[Current] /\ UNCHANGED <<durable, journalVars>>
    BY <1>1, <1>2 DEF Here, Payload
  <2>2. Stock'
    BY <1>1, <1>2, <1>4, <1>5, <2>1, StockFilled
  <2>3. Table(body, Contents)
    BY <1>2, Tables DEF Stock, Whole
  <2>4. body'[Current][at] = Payload
    BY <1>1, <1>2, <2>3 DEF Table
  <2>5. \A p \in Pub : \A i \in File(p) :
           p # Current \/ i # at => body'[p][i] = body[p][i]
    BY <1>1, <1>2, <2>3 DEF Table
  <2> QED BY <2>2, <2>4, <2>5
<1>7. Round'
  BY <1>1, <1>2, <1>4, <1>6, Proceed
<1> QED BY <1>6, <1>7

LEMMA IntrudeStep ==
  ASSUME Inv, NEW p \in Pub, NEW n \in File(p), Intrude(p, n)
  PROVE  /\ Stock' /\ Round' /\ body[p][n] = Nothing /\ body'[p][n] = Alien
         /\ \A q \in Pub : \A i \in File(q) :
              q # p \/ i # n => body'[q][i] = body[q][i]
<1>1. /\ body[p][n] = Nothing /\ body' = [body EXCEPT ![p][n] = Alien]
      /\ UNCHANGED <<procVars, journalVars, staged>> /\ UNCHANGED <<durable, journalVars>>
  BY DEF Intrude
<1>2. Table(staged', Marks)
  BY <1>1, Tables DEF Inv, Stock, Whole
<1>3. /\ Stock' /\ body'[p][n] = Alien
      /\ \A q \in Pub : \A i \in File(q) : q # p \/ i # n => body'[q][i] = body[q][i]
  BY <1>1, <1>2, StockFilled, RallyAssumption DEF Inv
<1>4. ASSUME NEW i \in File(Current), step # "none", body[Current][i] = Payload
      PROVE  body'[Current][i] = body[Current][i]
  <2>1. Current \in Pub /\ Payload # Nothing
    BY <1>4, Held, RallyAssumption
  <2> QED BY <1>1, <1>3, <1>4, <2>1
<1>5. Round'
  BY <1>1, <1>4, Undisturbed
<1> QED BY <1>1, <1>3, <1>5

LEMMA CleanStep ==
  ASSUME Inv, NEW p \in Pub, Clean(p)
  PROVE  /\ Stock' /\ Round' /\ \A i \in File(p) : body'[p][i] = Nothing
         /\ \A q \in Pub : q # p => body'[q] = body[q]
<1>1. /\ p \in done
      /\ body' = [body EXCEPT ![p] = [i \in File(p) |-> Nothing]]
      /\ durable' = [durable EXCEPT ![p] = [i \in File(p) |-> FALSE]]
      /\ UNCHANGED <<procVars, journalVars, staged>>
  BY DEF Clean
<1>2. DOMAIN body = Pub /\ DOMAIN durable = Pub /\ Stock
  BY DEF Inv, Stock, Whole
<1>3. /\ \A i \in File(p) : body'[p][i] = Nothing
      /\ body'[p] \in [File(p) -> {Nothing}] /\ durable'[p] \in [File(p) -> {FALSE}]
      /\ \A q \in Pub : q # p => body'[q] = body[q] /\ durable'[q] = durable[q]
  BY <1>1, <1>2
<1>4. Whole' /\ JournalTypes' /\ Finished'
  BY <1>1, <1>2 DEF Stock, Whole, JournalTypes, Finished, journalVars, Pending, Recorded
<1>5. DestinationTypes'
  BY <1>1, <1>2, <1>3 DEF Stock, DestinationTypes
<1>6. OneContent'
  BY <1>1, <1>2, <1>3, RallyAssumption DEF Stock, OneContent, journalVars
<1>7. MarkerVouches'
  BY <1>2, <1>3, Sizes, RallyAssumption DEF Stock, MarkerVouches
<1>8. step # "none" => Current # p /\ Current \in Pub
  BY <1>1, Held
<1>9. Round'
  BY <1>1, <1>3, <1>8, Undisturbed
<1> QED BY <1>3, <1>4, <1>5, <1>6, <1>7, <1>9 DEF Stock

\* Names that were not flushed are gone.
LEMMA PowerLossStep ==
  ASSUME Inv, PowerLoss
  PROVE  /\ Stock' /\ Round'
         /\ \A p \in Pub : \A i \in File(p) :
              /\ body'[p][i] \in {Nothing, body[p][i]}
              /\ durable[p][i] => body'[p][i] = body[p][i]
<1> DEFINE every == UNION {{p} \X File(p) : p \in Pub}
<1>1. PICK gone \in SUBSET {f \in every : body[f[1]][f[2]] \in Version
                                         /\ ~durable[f[1]][f[2]]},
           left \in SUBSET {f \in every : staged[f[1]][f[2]] # "none"} :
        /\ body' = [p \in Pub |-> [i \in File(p) |->
             IF <<p, i>> \in gone THEN Nothing ELSE body[p][i]]]
        /\ staged' = [p \in Pub |-> [i \in File(p) |->
             IF <<p, i>> \notin left THEN "none"
             ELSE IF <<p, i>> \in gone THEN "staged" ELSE staged[p][i]]]
  BY DEF PowerLoss
<1>2. /\ Table(staged, Marks) /\ Table(body, Contents) /\ Table(durable, BOOLEAN)
      /\ Stock /\ UNCHANGED <<durable, journalVars>>
  BY Tables DEF Inv, Stock, Whole, PowerLoss
<1>3. \A p \in Pub : \A i \in File(p) :
        /\ body'[p][i] \in {Nothing, body[p][i]}
        /\ durable[p][i] => body'[p][i] = body[p][i]
  BY <1>1
<1>4. Table(body', Contents)
  BY <1>1, <1>2 DEF Table, Contents
<1>5. Table(staged', Marks)
  BY <1>1, <1>2 DEF Table, Marks
<1>6. Table(durable', BOOLEAN)
  BY <1>2
<1>7. DestinationTypes' /\ Whole' /\ JournalTypes' /\ Finished'
  BY <1>2, <1>4, <1>5, <1>6, TablesThen
  DEF Whole, Stock, JournalTypes, Finished, journalVars, Pending, Recorded
<1>8. OneContent'
  BY <1>2, <1>3, RallyAssumption DEF Stock, OneContent, journalVars
<1>9. ASSUME NEW p \in Pub, body'[p][Size(p)] \in Version, NEW i \in 1..(Size(p) - 1)
      PROVE  body'[p][i] = body'[p][Size(p)] /\ durable'[p][i]
  <2>1. Size(p) \in File(p) /\ i \in File(p)
    BY Sizes DEF File
  <2>2. body'[p][Size(p)] = body[p][Size(p)]
    BY <1>3, <1>9, <2>1, RallyAssumption
  <2>3. body[p][i] = body[p][Size(p)] /\ durable[p][i]
    BY <1>2, <1>9, <2>2 DEF Stock, MarkerVouches
  <2> QED BY <1>2, <1>3, <2>1, <2>2, <2>3
<1>10. Round'
  BY Empty DEF PowerLoss, Stopped
<1> QED BY <1>3, <1>7, <1>8, <1>9, <1>10 DEF Stock, MarkerVouches

LEMMA BarrierStep ==
  ASSUME Inv, Barrier
  PROVE  Stock' /\ Round'
<1>1. /\ step = "barrier" /\ UNCHANGED <<staged, body, journalVars>>
      /\ UNCHANGED <<pc, work, digest, done>> /\ NextFile
      /\ durable' = [durable EXCEPT ![Current][at] = TRUE]
  BY DEF Barrier, InStep, NextFile, Goto, journalVars
<1>2. /\ Current \in Pub /\ at \in File(Current) /\ Stock /\ step # "none"
      /\ Current \in Pending /\ pc \in {"replaying", "polling"} /\ work # <<>>
      /\ body[Current][at] = Payload /\ staged[Current][at] = "none"
      /\ \A i \in File(Current) : i < at => Settled(Current, i)
  BY <1>1, Held DEF Inv, Round, InHand, Here
<1>3. Table(staged, Marks) /\ Table(body, Contents) /\ Table(durable, BOOLEAN)
  BY <1>2, Tables DEF Stock, Whole
<1>4. Table(durable', BOOLEAN)
  <2>1. TRUE \in BOOLEAN
    OBVIOUS
  <2> QED BY <1>1, <1>2, <1>3, <2>1, Put
<1>5. durable'[Current][at]
  BY <1>1, <1>2, <1>3 DEF Table
<1>6. \A p \in Pub : \A i \in File(p) : p # Current \/ i # at => durable'[p][i] = durable[p][i]
  BY <1>1, <1>2, <1>3 DEF Table
<1>7. \A p \in Pub : \A i \in File(p) : durable[p][i] => durable'[p][i]
  BY <1>5, <1>6
<1>8. DestinationTypes' /\ Whole'
  <2>1. Table(staged', Marks) /\ Table(body', Contents)
    BY <1>1, <1>3
  <2> QED BY <1>1, <1>2, <1>4, <2>1, TablesThen DEF Stock, Whole, journalVars, Recorded
<1>9. JournalTypes' /\ OneContent' /\ Finished'
  BY <1>1, <1>2 DEF Stock, JournalTypes, OneContent, Finished, journalVars, Pending, Recorded
<1>10. MarkerVouches'
  <2>1. \A p \in Pub : \A i \in 1..(Size(p) - 1) : i \in File(p)
    BY Sizes DEF File
  <2> QED BY <1>1, <1>2, <1>7, <2>1 DEF Stock, MarkerVouches
<1>11. \A i \in File(Current) : i <= at => Settled(Current, i)'
  <2>1. \A i \in File(Current) : i <= at => i = at \/ i < at
    BY <1>2, Sizes
  <2> QED BY <1>1, <1>2, <1>5, <1>7, <2>1 DEF Settled, Payload, Current
<1>12. Round'
  <2>1. CASE at < Size(Current)
    <3>1. step' = "recover" /\ at' = at + 1
      BY <1>1, <2>1 DEF NextFile
    <3>2. at' \in File(Current)' /\ at' \in 1..2
      BY <1>1, <1>2, <2>1, <3>1, Sizes DEF File, Current
    <3>3. \A i \in File(Current) : i < at' => Settled(Current, i)'
      <4>1. \A i \in File(Current) : i < at + 1 => i <= at
        BY <1>2, Sizes
      <4> QED BY <1>11, <3>1, <4>1
    <3>4. Current' = Current /\ Pending' = Pending
      BY <1>1 DEF Current, Pending, Recorded
    <3>5. ProcessTypes' /\ Batch'
      BY <1>1, <3>1, <3>2 DEF Inv, Round, ProcessTypes, Batch, Pending, Recorded
    <3>6. InHand'
      BY <1>1, <1>2, <3>1, <3>2, <3>3, <3>4 DEF InHand
    <3> QED BY <3>5, <3>6 DEF Round
  <2>2. CASE ~(at < Size(Current))
    <3>1. step' = "commit" /\ at' = at
      BY <1>1, <2>2 DEF NextFile, Goto
    <3>2. at = Size(Current)
      BY <1>2, <2>2, Sizes
    <3>3. Current' = Current
      BY <1>1 DEF Current
    <3>4. Settled(Current, at)'
      BY <1>2, <1>11, <3>1, Sizes
    <3> QED BY <1>1, <1>2, <1>6, <3>1, <3>2, <3>4, Proceed
  <2> QED BY <2>1, <2>2
<1> QED BY <1>8, <1>9, <1>10, <1>12 DEF Stock

LEMMA GiveUpStep ==
  ASSUME Inv, GiveUp
  PROVE  Stock' /\ Round'
<1>1. /\ step # "none" /\ NextItem /\ UNCHANGED <<body, durable, journalVars>>
      /\ Mark("none") \/ UNCHANGED staged
  BY DEF GiveUp, Mark
<1>2. work # <<>> /\ pc \in {"replaying", "polling"}
  BY <1>1 DEF Inv, Round, InHand
<1>3. Round'
  BY <1>1, <1>2, NextRound DEF journalVars
<1>4. CASE Mark("none")
  BY <1>1, <1>3, <1>4, StockMarked
<1>5. CASE UNCHANGED staged
  BY <1>1, <1>3, <1>5, StockKept DEF Inv, destVars
<1> QED BY <1>1, <1>4, <1>5

LEMMA CommitStep ==
  ASSUME Inv, Commit
  PROVE  /\ Stock' /\ Round'
         /\ Current \in Pub /\ done' = done \cup {Current}
         /\ \A i \in File(Current) : Settled(Current, i)
         /\ UNCHANGED <<staged, body, durable, digest>>
<1>1. /\ step = "commit" /\ NextItem /\ done' = done \cup {Current}
      /\ UNCHANGED <<known, digest>> /\ UNCHANGED <<staged, body, durable>>
  BY DEF Commit, InStep, destVars
<1>2. /\ Current \in Pub /\ Current \in Recorded /\ at = Size(Current)
      /\ Settled(Current, at) /\ Stock
      /\ \A i \in File(Current) : i < at => Settled(Current, i)
      /\ work # <<>> /\ pc \in {"replaying", "polling"}
  BY <1>1, Held DEF Inv, Round, InHand, Pending
<1>3. \A i \in File(Current) : Settled(Current, i)
  BY <1>2, Sizes
<1>4. Round'
  BY <1>1, <1>2, NextRound
<1>5. Recorded' = Recorded /\ Pending' \in SUBSET Pending
  BY <1>1 DEF Recorded, Pending
<1>6. JournalTypes'
  <2>1. IsFiniteSet(Recorded) /\ Pending \in SUBSET Recorded
    BY <1>2 DEF Stock, Whole, Pending
  <2>2. IsFiniteSet(Pending)
    BY <2>1, FS_Subset
  <2>3. Files(Pending) \in Nat /\ Files(Pending') \in Nat
        /\ Files(Pending') <= Files(Pending)
    BY <1>5, <2>2, FilesOf
  <2>4. Files(Pending)' = Files(Pending')
    BY DEF Files
  <2>5. MaxPending \in Nat
    BY RallyAssumption
  <2> QED BY <1>1, <1>2, <1>5, <2>3, <2>4, <2>5 DEF Stock, JournalTypes
<1>7. DestinationTypes' /\ Whole' /\ OneContent' /\ MarkerVouches'
  BY <1>1, <1>2, <1>5 DEF Stock, DestinationTypes, Whole, OneContent, MarkerVouches
<1>8. Finished'
  BY <1>1, <1>2, <1>5 DEF Stock, Finished
<1> QED BY <1>1, <1>2, <1>3, <1>4, <1>6, <1>7, <1>8 DEF Stock

-----------------------------------------------------------------------------
\* The sweep.

\* Between two phases nothing is in hand.
LEMMA Phases ==
  ASSUME Inv, \/ Start \/ Replayed \/ AllPolled \/ NoBeat \/ WriteBeat \/ MarkBeat
              \/ BeatFails \/ Crash
  PROVE  Stock' /\ Round'
<1>1. UNCHANGED <<destVars, journalVars>>
  BY DEF Start, Replayed, AllPolled, NoBeat, WriteBeat, MarkBeat, BeatFails, Crash
<1>2. pc' \in {"down", "idle", "discovering", "polling", "beating", "marking"}
  BY DEF Start, Replayed, AllPolled, NoBeat, WriteBeat, MarkBeat, BeatFails, Crash, Stopped
<1>3. step' = "none" /\ work' \in Seq(Pub) /\ at' \in 1..2
  <2>1. work \in Seq(Pub) /\ at \in 1..2 /\ (pc \notin {"replaying", "polling"} => step = "none")
    BY DEF Inv, Round, ProcessTypes, InHand
  <2>2. CASE Crash
    BY <2>2 DEF Crash, Stopped
  <2>3. CASE ~Crash
    <3>1. UNCHANGED <<work, step, at>> /\ step = "none"
      BY <2>1, <2>3 DEF Start, Replayed, AllPolled, NoBeat, WriteBeat, MarkBeat, BeatFails
    <3> QED BY <2>1, <3>1
  <2> QED BY <2>2, <2>3
<1>4. Round'
  BY <1>2, <1>3, Empty
<1> QED BY <1>1, <1>4, StockKept DEF Inv

LEMMA BeginSweepStep ==
  ASSUME Inv, BeginSweep
  PROVE  Stock' /\ Round'
<1>1. /\ pc = "idle" /\ pc' = "replaying" /\ work' \in SetToSeqs(Pending)
      /\ UNCHANGED <<destVars, journalVars>> /\ step' = step /\ at' = at
  BY DEF BeginSweep
<1>2. Pending \in SUBSET Pub /\ IsFiniteSet(Pending)
  <2>1. Pending \in SUBSET Recorded /\ Recorded \subseteq Pub
    BY DEF Pending, Recorded
  <2> QED BY <2>1, FS_Subset DEF Inv, Stock, Whole
<1>3. /\ work' \in Seq(Pub)
      /\ \A i \in DOMAIN work' : /\ work'[i] \in Pending
                                 /\ \A k \in DOMAIN work' : i # k => work'[i] # work'[k]
  BY <1>1, <1>2, Ordered
<1>4. Pending' = Pending
  BY <1>1 DEF journalVars, Pending, Recorded
<1>5. ProcessTypes' /\ Batch'
  BY <1>1, <1>3, <1>4 DEF Inv, Round, ProcessTypes, Batch
<1>6. InHand'
  BY <1>1 DEF Inv, Round, InHand
<1> QED BY <1>1, <1>5, <1>6, StockKept DEF Inv, Round

LEMMA DiscoveredStep ==
  ASSUME Inv, Discovered
  PROVE  Stock' /\ Round'
<1>1. /\ pc = "discovering" /\ pc' = "polling" /\ work' \in SetToSeqs(ToPoll)
      /\ UNCHANGED <<destVars, journalVars>> /\ step' = step /\ at' = at
  BY DEF Discovered
<1>2. ToPoll \in SUBSET Pub /\ IsFiniteSet(ToPoll)
  BY ToPollFinite DEF ToPoll, Inv, Stock, JournalTypes
<1>3. work' \in Seq(Pub)
  BY <1>1, <1>2, Ordered
<1>4. step' = "none" /\ at' \in 1..2
  BY <1>1 DEF Inv, Round, InHand, ProcessTypes
<1>5. Round'
  BY <1>1, <1>3, <1>4, Empty
<1> QED BY <1>1, <1>5, StockKept DEF Inv

LEMMA TakeUp ==
  ASSUME Inv, Replay \/ Resume \/ Skip
  PROVE  Stock' /\ Round'
<1>1. UNCHANGED <<destVars, journalVars>> /\ work # <<>> /\ step = "none"
  BY DEF Replay, Resume, Skip, Polling
<1>2. CASE Replay
  <2>1. step' = "recover" /\ at' = 1 /\ pc = "replaying" /\ UNCHANGED <<pc, work>>
    BY <1>2 DEF Replay
  <2>2. Current \in Pending
    BY <1>1, <2>1, Rest DEF Inv, Round, ProcessTypes, Batch
  <2>3. Pending' = Pending
    BY <1>1 DEF journalVars, Pending, Recorded
  <2>4. Batch'
    BY <2>1, <2>3 DEF Inv, Round, Batch
  <2>5. Round'
    BY <1>1, <2>1, <2>2, <2>3, <2>4, FirstFile
  <2> QED BY <1>1, <2>5, StockKept DEF Inv
<1>3. CASE Resume
  <2>1. /\ step' = "recover" /\ at' = 1 /\ pc = "polling" /\ UNCHANGED <<pc, work>>
        /\ digest[Current] = source[Current] /\ source[Current] # Nothing
        /\ Current \notin done
    BY <1>3 DEF Resume, Polling, Readable
  <2>2. Current \in Pending'
    BY <1>1, <2>1, Rest DEF Inv, Round, ProcessTypes, Pending, Recorded, journalVars
  <2>3. Batch'
    BY <2>1 DEF Batch
  <2>4. Round'
    BY <1>1, <2>1, <2>2, <2>3, FirstFile
  <2> QED BY <1>1, <2>4, StockKept DEF Inv
<1>4. CASE Skip
  <2>1. NextItem /\ pc = "polling" /\ digest' = digest /\ done' = done
    BY <1>1, <1>4 DEF Skip, Polling, journalVars
  <2>2. Round'
    BY <1>1, <2>1, NextRound
  <2> QED BY <1>1, <2>2, StockKept DEF Inv
<1> QED BY <1>2, <1>3, <1>4

LEMMA RememberStep ==
  ASSUME Inv, NEW x \in Known, Remember(x)
  PROVE  Stock' /\ Round'
<1>1. /\ pc = "discovering" /\ Len(known) < MaxEntries /\ known' = Append(known, x)
      /\ UNCHANGED <<digest, done>> /\ UNCHANGED destVars /\ UNCHANGED procVars
  BY DEF Remember
<1>2. Stock /\ Round /\ MaxEntries \in Nat
  BY RallyAssumption DEF Inv
<1>3. known' \in Seq(Known) /\ Len(known') <= MaxEntries
  BY <1>1, <1>2 DEF Stock, JournalTypes
<1>4. Stock'
  BY <1>1, <1>2, <1>3 DEF Stock, DestinationTypes, Whole, JournalTypes, OneContent,
                          MarkerVouches, Finished, destVars, Pending, Recorded
<1>5. step' = "none" /\ pc' = "discovering" /\ work' \in Seq(Pub) /\ at' \in 1..2
  BY <1>1, <1>2 DEF Round, ProcessTypes, InHand, procVars
<1> QED BY <1>4, <1>5, Empty

\* What is recorded is within the limits, and none of it was at its destination.
LEMMA RecordStep ==
  ASSUME Inv, Record
  PROVE  Stock' /\ Round'
<1> DEFINE c == Current
<1>1. /\ step = "none" /\ pc = "polling" /\ work # <<>> /\ digest[c] = Nothing /\ ~Full(c)
      /\ source[c] # Nothing
      /\ digest' = [digest EXCEPT ![c] = source[c]]
      /\ step' = "recover" /\ at' = 1 /\ UNCHANGED <<pc, work, known, done>>
      /\ UNCHANGED destVars
  BY DEF Record, Polling, Readable
<1>2. /\ c \in Pub /\ Stock /\ digest \in [Pub -> Version \cup {Nothing}]
      /\ source[c] \in Version /\ c \notin Recorded /\ c \notin done
  BY <1>1, Rest DEF Inv, SourceTypes, Stock, JournalTypes, Round, ProcessTypes, Recorded,
                    Finished
<1> HIDE DEF c
<1>3. /\ digest' \in [Pub -> Version \cup {Nothing}] /\ digest'[c] # Nothing
      /\ \A p \in Pub : p # c => digest'[p] = digest[p]
  BY <1>1, <1>2
<1>4. Recorded' = Recorded \cup {c} /\ Pending' = Pending \cup {c}
  BY <1>1, <1>2, <1>3 DEF Recorded, Pending
<1>5. /\ IsFiniteSet(Recorded') /\ IsFiniteSet(Pending')
      /\ Cardinality(Recorded') = Cardinality(Recorded) + 1 /\ Cardinality(Recorded) \in Nat
  <2>1. IsFiniteSet(Recorded) /\ Pending \in SUBSET Recorded
    BY <1>2 DEF Stock, Whole, Pending
  <2>2. IsFiniteSet(Pending)
    BY <2>1, FS_Subset
  <2> QED BY <1>2, <1>4, <2>1, <2>2, FS_AddElement, FS_CardinalityType
<1>6. Files(Pending') \in Nat
  BY <1>5, FilesOf
<1>7. Cardinality(Recorded') <= MaxPublications /\ Files(Pending') <= MaxPending
  BY <1>1, <1>4, <1>5, <1>6, RallyAssumption DEF Full
<1>8. JournalTypes'
  <2>1. Files(Pending)' = Files(Pending')
    BY DEF Files
  <2> QED BY <1>1, <1>2, <1>3, <1>7, <2>1 DEF Stock, JournalTypes
<1>9. OneContent'
  <2>1. ASSUME NEW p \in Pub, NEW i \in File(p), body'[p][i] \in Version
        PROVE  body'[p][i] = digest'[p]
    <3>1. body[p][i] = digest[p]
      BY <1>1, <1>2, <2>1 DEF destVars, Stock, OneContent
    <3>2. p # c
      BY <1>1, <2>1, <3>1, RallyAssumption DEF destVars
    <3> QED BY <1>1, <1>3, <3>1, <3>2 DEF destVars
  <2> QED BY <2>1 DEF OneContent
<1>10. DestinationTypes' /\ Whole' /\ MarkerVouches' /\ Finished'
  BY <1>1, <1>2, <1>4, <1>5
  DEF Stock, DestinationTypes, Whole, MarkerVouches, Finished, destVars
<1>11. Batch' /\ c \in Pending'
  BY <1>1, <1>4 DEF Batch
<1>12. Round'
  BY <1>1, <1>11, FirstFile DEF c
<1> QED BY <1>8, <1>9, <1>10, <1>12 DEF Stock

-----------------------------------------------------------------------------
LEMMA InitInv == Init => Inv
<1> SUFFICES ASSUME Init PROVE Inv
  OBVIOUS
<1>1. Recorded = {} /\ Pending = {} /\ IsFiniteSet({}) /\ Cardinality({}) = 0
  BY FS_EmptySet DEF Init, Recorded, Pending
<1>2. Files({}) = 0
  <2>1. {f \in {} \X (1..2) : f[2] \in File(f[1])} = {}
    OBVIOUS
  <2> QED BY <1>1, <2>1 DEF Files
<1>3. /\ Table(staged, Marks) /\ Table(body, Contents)
  BY DEF Init, Table, Marks, Contents
<1>4. Table(durable, BOOLEAN)
  BY DEF Init, Table
<1>5. DestinationTypes /\ Whole
  BY <1>1, <1>3, <1>4, Tables DEF Whole
<1>6. JournalTypes /\ Finished /\ SourceTypes
  BY <1>1, <1>2, RallyAssumption DEF Init, JournalTypes, Finished, SourceTypes
<1>7. OneContent /\ MarkerVouches
  BY Sizes, RallyAssumption DEF Init, OneContent, MarkerVouches
<1>8. Round
  BY DEF Init, Round, ProcessTypes, Batch, InHand
<1> QED BY <1>5, <1>6, <1>7, <1>8 DEF Inv, Stock

\* Contents and heartbeats come from their writers.
LEMMA SourceStep ==
  ASSUME Inv, [Next]_vars
  PROVE  SourceTypes'
<1>0. /\ source \in [Pub -> Version \cup {Nothing}] /\ MaxBeat \in Nat
      /\ beat \in 0..MaxBeat /\ shownBeat \in 0..MaxBeat /\ markBeat \in 0..MaxBeat
  BY RallyAssumption DEF Inv, SourceTypes
<1>1. CASE UNCHANGED <<sourceVars, beatVars>>
  BY <1>0, <1>1 DEF SourceTypes, sourceVars, beatVars
<1>2. ASSUME NEW p \in Pub, Offer(p) PROVE SourceTypes'
  BY <1>0, <1>2 DEF Offer, SourceTypes, beatVars
<1>3. CASE Beat
  BY <1>0, <1>3 DEF Beat, SourceTypes, beatVars
<1>4. CASE WriteBeat
  BY <1>0, <1>4 DEF WriteBeat, SourceTypes, sourceVars
<1>5. CASE MarkBeat
  BY <1>0, <1>5 DEF MarkBeat, SourceTypes, sourceVars
<1>6. CASE SweepStep /\ ~WriteBeat /\ ~MarkBeat
  BY <1>1, <1>6 DEF SweepStep, Start, BeginSweep, Replay, Replayed, Discovered, Remember,
                    Record, Resume, Skip, AllPolled, NoBeat, BeatFails, Elsewhere
<1>7. CASE ReplayStep \/ Crash \/ PowerLoss
  BY <1>1, <1>7 DEF ReplayStep, FinishLeftover, Stage, Link, Unlink, Exists, Verify,
                    Barrier, Commit, GiveUp, Crash, PowerLoss, Elsewhere
<1>8. ASSUME NEW p \in Pub, Clean(p) \/ \E i \in File(p) : Intrude(p, i)
      PROVE  SourceTypes'
  BY <1>1, <1>8 DEF Clean, Intrude
<1>9. CASE UNCHANGED vars
  BY <1>1, <1>9 DEF vars
<1> QED BY <1>2, <1>3, <1>4, <1>5, <1>6, <1>7, <1>8, <1>9 DEF Next, Environment

LEMMA StepInv == Inv /\ [Next]_vars => Inv'
<1> SUFFICES ASSUME Inv, [Next]_vars PROVE Inv'
  OBVIOUS
<1>1. CASE SweepStep
  BY <1>1, Phases, BeginSweepStep, DiscoveredStep, TakeUp, RememberStep, RecordStep,
     SourceStep DEF SweepStep, Inv
<1>2. CASE ReplayStep \/ Crash \/ PowerLoss
  BY <1>2, StageSteps, LinkStep, VerifyStep, BarrierStep, CommitStep, GiveUpStep, Phases,
     PowerLossStep, SourceStep DEF ReplayStep, Inv
<1>3. ASSUME NEW p \in Pub, Offer(p) PROVE Inv'
  BY <1>3, StockKept, Undisturbed, SourceStep
  DEF Inv, Offer, destVars, journalVars, procVars
<1>4. CASE Beat \/ UNCHANGED vars
  <2>1. UNCHANGED <<destVars, journalVars, procVars>>
    BY <1>4 DEF Beat, vars
  <2> QED BY <2>1, StockKept, Undisturbed, SourceStep
          DEF Inv, destVars, journalVars, procVars
<1>5. ASSUME NEW p \in Pub, Clean(p) \/ \E i \in File(p) : Intrude(p, i) PROVE Inv'
  BY <1>5, CleanStep, IntrudeStep, SourceStep DEF Inv
<1> QED BY <1>1, <1>2, <1>3, <1>4, <1>5 DEF Next, Environment

\* The rally's state has its shape, and what replay() relies on holds.
THEOREM InvHolds == Spec => []Inv
BY InitInv, StepInv, PTL DEF Spec

\* The journal stays within its limits of entries, publications and files (rally.py,
\* remember and publish), and the rest has its types.
THEOREM TypeCorrect == Spec => []TypeOK
<1>1. Inv => TypeOK
  BY DEF Inv, Stock, Round, TypeOK
<1> QED BY <1>1, InvHolds, PTL

\* A marker vouches for its files, whatever crashes, loses power or fails (rally.py,
\* replay and install_file: payload before marker, each flushed before the next).
THEOREM MarkersAreTrue == Spec => []MarkerVouches
<1>1. Inv => MarkerVouches
  BY DEF Inv, Stock
<1> QED BY <1>1, InvHolds, PTL

\* What is called done is whole and flushed, and its staging names are gone (rally.py,
\* replay: every barrier comes before the commit).
THEOREM DoneEndures == Spec => DoneIsDurable
<1> DEFINE Sound == \A p \in done' \ done : \A i \in File(p) :
                      body[p][i] = digest[p] /\ durable[p][i] /\ staged[p][i] = "none"
<1>1. Inv /\ [Next]_vars => [Sound]_vars
  <2> SUFFICES ASSUME Inv, Next PROVE Sound
    OBVIOUS
  <2>1. CASE Commit
    <3>1. /\ done' = done \cup {Current}
          /\ \A i \in File(Current) : Settled(Current, i)
      BY <2>1, CommitStep
    <3> QED BY <3>1 DEF Settled
  <2>2. CASE SweepStep
    BY <2>2 DEF SweepStep, Start, BeginSweep, Replay, Replayed, Discovered, Remember, Record,
                Resume, Skip, AllPolled, NoBeat, WriteBeat, MarkBeat, BeatFails, journalVars
  <2>3. CASE ReplayStep /\ ~Commit
    BY <2>3 DEF ReplayStep, FinishLeftover, Stage, Link, Unlink, Exists, Verify, Barrier,
                GiveUp, journalVars
  <2>4. CASE Crash \/ PowerLoss \/ Environment
    BY <2>4 DEF Crash, PowerLoss, Environment, Offer, Clean, Intrude, Beat, journalVars
  <2> QED BY <2>1, <2>2, <2>3, <2>4 DEF Next
<1> QED BY <1>1, InvHolds, PTL DEF Spec, DoneIsDurable

-----------------------------------------------------------------------------
\* The rally is a courier.

\* What a reader of the marker finds depends on the files alone.
LEMMA SameFiles ==
  ASSUME NEW p \in Pub, \A i \in File(p) : body'[p][i] = body[p][i]
  PROVE  Found(p)' = Found(p)
BY Sizes DEF Found

LEMMA NothingMoved ==
  ASSUME UNCHANGED body
  PROVE  [p \in Pub |-> Found(p)]' = [p \in Pub |-> Found(p)]
BY DEF Found

\* The marker is the last file that is linked.
LEMMA LinkDelivers ==
  ASSUME Inv, Link
  PROVE  [Carrier!CourierNext]_(Carrier!courierVars)
<1>0. PICK c : c = Current
  OBVIOUS
<1>1. /\ UNCHANGED <<source, digest, done>> /\ step = "link" /\ body[c][at] = Nothing
  BY <1>0 DEF Link, InStep, Here, Elsewhere, sourceVars, journalVars
<1>2. /\ c \in Pub /\ c \notin done /\ digest[c] \in Version /\ at \in File(c)
      /\ \A i \in File(c) : i < at => body[c][i] = digest[c]
  BY <1>0, <1>1, Held DEF Settled, Payload
<1>3. /\ body'[c][at] = digest[c]
      /\ \A p \in Pub : \A i \in File(p) : p # c \/ i # at => body'[p][i] = body[p][i]
  BY <1>0, LinkStep DEF Payload
<1>4. \A p \in Pub : p # c => Found(p)' = Found(p)
  BY <1>3, SameFiles
<1>5. CASE at = Size(c)
  <2>1. \A i \in File(c) : body'[c][i] = digest[c]
    BY <1>2, <1>3, <1>5, Sizes
  <2>2. Found(c)' = digest[c]
    BY <1>2, <2>1, Sizes DEF Found
  <2>3. [p \in Pub |-> Found(p)]' = [[p \in Pub |-> Found(p)] EXCEPT ![c] = digest[c]]
    BY <1>4, <2>2
  <2>4. Carrier!Deliver(c)
    BY <1>1, <1>2, <2>3, RallyAssumption DEF Carrier!Deliver
  <2> QED BY <1>2, <2>4 DEF Carrier!CourierNext
<1>6. CASE at # Size(c)
  <2>1. at \in 1..(Size(c) - 1) /\ Size(c) \in File(c)
    BY <1>2, <1>6, Sizes
  <2>2. body[c][Size(c)] \notin Version
    BY <1>1, <1>2, <2>1, RallyAssumption DEF Inv, Stock, MarkerVouches
  <2>3. body'[c][Size(c)] \notin Version
    BY <1>2, <1>3, <1>6, <2>1, <2>2
  <2>4. Found(c)' = Found(c)
    BY <2>2, <2>3 DEF Found
  <2>5. [p \in Pub |-> Found(p)]' = [p \in Pub |-> Found(p)]
    BY <1>4, <2>4
  <2> QED BY <1>1, <2>5 DEF Carrier!courierVars
<1> QED BY <1>5, <1>6

LEMMA IntrudeMoves ==
  ASSUME Inv, NEW c \in Pub, NEW n \in File(c), Intrude(c, n)
  PROVE  [Carrier!CourierNext]_(Carrier!courierVars)
<1>1. UNCHANGED <<source, digest, done>>
  BY DEF Intrude, sourceVars, journalVars
<1>2. /\ body[c][n] = Nothing /\ body'[c][n] = Alien
      /\ \A p \in Pub : \A i \in File(p) : p # c \/ i # n => body'[p][i] = body[p][i]
  BY IntrudeStep
<1>3. body[c][Size(c)] \notin Version
  <2>1. CASE n = Size(c)
    BY <1>2, <2>1, RallyAssumption
  <2>2. CASE n # Size(c)
    <3>1. n \in 1..(Size(c) - 1)
      BY <2>2, Sizes
    <3> QED BY <1>2, <3>1, RallyAssumption DEF Inv, Stock, MarkerVouches
  <2> QED BY <2>1, <2>2
<1>4. body'[c][Size(c)] \notin Version
  BY <1>2, <1>3, Sizes, RallyAssumption
<1>5. \A p \in Pub : Found(p)' = Found(p)
  <2>1. Found(c)' = Found(c)
    BY <1>3, <1>4 DEF Found
  <2>2. \A p \in Pub : p # c => Found(p)' = Found(p)
    BY <1>2, SameFiles
  <2> QED BY <2>1, <2>2
<1>6. [p \in Pub |-> Found(p)]' = [p \in Pub |-> Found(p)]
  BY <1>5
<1> QED BY <1>1, <1>6 DEF Carrier!courierVars

\* Files that go leave no marker without its payload.
LEMMA LossIsWhole ==
  ASSUME UNCHANGED <<source, digest, done>>,
         \A p \in Pub : Found(p)' \in {Nothing, Found(p)}
  PROVE  [Carrier!CourierNext]_(Carrier!courierVars)
<1> DEFINE S == {p \in Pub : Found(p)' = Nothing}
<1>1. [p \in Pub |-> Found(p)]' =
        [p \in Pub |-> IF p \in S THEN Nothing ELSE [q \in Pub |-> Found(q)][p]]
  OBVIOUS
<1>2. Carrier!Lose
  BY <1>1 DEF Carrier!Lose
<1> QED BY <1>2 DEF Carrier!CourierNext

LEMMA CleanLoses ==
  ASSUME Inv, NEW c \in Pub, Clean(c)
  PROVE  [Carrier!CourierNext]_(Carrier!courierVars)
<1>1. UNCHANGED <<source, digest, done>>
  BY DEF Clean, sourceVars, journalVars
<1>2. Found(c)' = Nothing
  BY CleanStep, Sizes, RallyAssumption DEF Found
<1>3. \A p \in Pub : p # c => Found(p)' = Found(p)
  BY CleanStep, SameFiles
<1> QED BY <1>1, <1>2, <1>3, LossIsWhole

LEMMA PowerLossLoses ==
  ASSUME Inv, PowerLoss
  PROVE  [Carrier!CourierNext]_(Carrier!courierVars)
<1>1. UNCHANGED <<source, digest, done>>
  BY DEF PowerLoss, Elsewhere, sourceVars, journalVars
<1>2. \A p \in Pub : \A i \in File(p) :
        /\ body'[p][i] \in {Nothing, body[p][i]}
        /\ durable[p][i] => body'[p][i] = body[p][i]
  BY PowerLossStep
<1>3. ASSUME NEW p \in Pub PROVE Found(p)' \in {Nothing, Found(p)}
  <2>1. CASE body'[p][Size(p)] \notin Version
    BY <2>1 DEF Found
  <2>2. CASE body'[p][Size(p)] \in Version
    <3>1. body'[p][Size(p)] = body[p][Size(p)]
      BY <1>2, <2>2, Sizes, RallyAssumption
    <3>2. \A i \in 1..(Size(p) - 1) : durable[p][i]
      BY <2>2, <3>1 DEF Inv, Stock, MarkerVouches
    <3>3. \A i \in File(p) : i = Size(p) \/ i \in 1..(Size(p) - 1)
      BY Sizes
    <3>4. \A i \in File(p) : body'[p][i] = body[p][i]
      BY <1>2, <3>1, <3>2, <3>3
    <3> QED BY <3>4, SameFiles
  <2> QED BY <2>1, <2>2
<1> QED BY <1>1, <1>3, LossIsWhole

LEMMA OfferShows ==
  ASSUME Inv, NEW p \in Pub, Offer(p)
  PROVE  [Carrier!CourierNext]_(Carrier!courierVars)
<1>1. PICK v \in (Version \cup {Nothing}) \ {source[p]} : source' = [source EXCEPT ![p] = v]
  BY DEF Offer
<1>2. UNCHANGED <<digest, done, body>>
  BY DEF Offer, journalVars, destVars
<1>3. [q \in Pub |-> Found(q)]' = [q \in Pub |-> Found(q)]
  BY <1>2, NothingMoved
<1>4. Carrier!Show(p)
  BY <1>1, <1>2, <1>3 DEF Carrier!Show
<1> QED BY <1>4 DEF Carrier!CourierNext

LEMMA RecordTakes ==
  ASSUME Inv, Record
  PROVE  [Carrier!CourierNext]_(Carrier!courierVars)
<1>1. /\ digest[Current] = Nothing /\ source[Current] # Nothing /\ work # <<>>
      /\ digest' = [digest EXCEPT ![Current] = source[Current]]
      /\ UNCHANGED <<source, done, body>>
  BY DEF Record, Polling, Readable, Elsewhere, sourceVars, destVars
<1>2. [p \in Pub |-> Found(p)]' = [p \in Pub |-> Found(p)]
  BY <1>1, NothingMoved
<1>3. Current \in Pub
  BY <1>1, Rest DEF Inv, Round, ProcessTypes
<1>4. Carrier!Take(Current)
  BY <1>1, <1>2 DEF Carrier!Take
<1> QED BY <1>3, <1>4 DEF Carrier!CourierNext

LEMMA CommitSettles ==
  ASSUME Inv, Commit
  PROVE  [Carrier!CourierNext]_(Carrier!courierVars)
<1>1. /\ Current \in Pub /\ done' = done \cup {Current}
      /\ \A i \in File(Current) : Settled(Current, i)
      /\ UNCHANGED <<body, digest>> /\ digest[Current] \in Version
  BY CommitStep, Held DEF Commit, InStep, Payload
<1>2. UNCHANGED source
  BY DEF Commit, Elsewhere, sourceVars
<1>3. Found(Current) = digest[Current]
  BY <1>1, Sizes DEF Found, Settled
<1>4. [p \in Pub |-> Found(p)]' = [p \in Pub |-> Found(p)]
  BY <1>1, NothingMoved
<1>5. Carrier!Settle(Current)
  BY <1>1, <1>2, <1>3, <1>4, RallyAssumption DEF Carrier!Settle
<1> QED BY <1>1, <1>5 DEF Carrier!CourierNext

LEMMA StepCarries ==
  ASSUME Inv, [Next]_vars
  PROVE  [Carrier!CourierNext]_(Carrier!courierVars)
<1>1. ASSUME UNCHANGED <<source, digest, done, body>>
      PROVE  UNCHANGED Carrier!courierVars
  BY <1>1, NothingMoved DEF Carrier!courierVars
<1>2. CASE SweepStep /\ ~Record
  BY <1>1, <1>2
  DEF SweepStep, Start, BeginSweep, Replay, Replayed, Discovered, Remember, Resume, Skip,
      AllPolled, NoBeat, WriteBeat, MarkBeat, BeatFails, Elsewhere, sourceVars, journalVars,
      destVars
<1>3. CASE ReplayStep /\ ~Link /\ ~Commit
  BY <1>1, <1>3
  DEF ReplayStep, FinishLeftover, Stage, Unlink, Exists, Verify, Barrier, GiveUp, Elsewhere,
      sourceVars, journalVars, destVars
<1>4. CASE Crash \/ Beat \/ UNCHANGED vars
  BY <1>1, <1>4 DEF Crash, Beat, vars, Elsewhere, sourceVars, journalVars, destVars
<1> QED BY <1>2, <1>3, <1>4, RecordTakes, LinkDelivers, CommitSettles, PowerLossLoses,
           OfferShows, CleanLoses, IntrudeMoves DEF Next, Environment

\* One content per publication, whole when its marker is seen, and never delivered
\* again once settled (rally.py, publish and replay).
THEOREM RallyIsCourier == Spec => ImplementsCourier
<1>1. Init => Carrier!CourierInit
  <2> SUFFICES ASSUME Init PROVE Carrier!CourierInit
    OBVIOUS
  <2>1. \A p \in Pub : Found(p) = Nothing
    BY Sizes, RallyAssumption DEF Init, Found
  <2> QED BY <2>1 DEF Init, Carrier!CourierInit
<1>2. Inv /\ [Next]_vars => [Carrier!CourierNext]_(Carrier!courierVars)
  BY StepCarries
<1> QED BY <1>1, <1>2, InvHolds, PTL DEF Spec, ImplementsCourier, Carrier!CourierSpec
=============================================================================
