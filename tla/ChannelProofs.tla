---------------------------- MODULE ChannelProofs ----------------------------
(***************************************************************************)
(* Proofs of the safety properties of Channel, for any participants,       *)
(* messages, limits and faults.                                            *)
(*                                                                         *)
(* Nothing wanted is inductive by itself: it holds because the broker takes*)
(* in nothing while an event is not in every feed (Control, FanOut), and   *)
(* because slots hold what was queued (Mail) and streams count what was    *)
(* admitted (Streams).                                                     *)
(***************************************************************************)
EXTENDS ChannelProps, FiniteSetTheorems, SequenceTheorems, TLAPS

\* Where the broker is in its round.
Control ==
  /\ Len(events) <= published + 1
  /\ bpc \in {"event", "head", "mark"} => published < Len(events)
  /\ bpc = "accept" => published = Len(events) /\ turn # 0
  /\ bpc \in {"event", "head"} => copy # 0

\* How far the fan-out of the pending event has come.
FanOut ==
  /\ bpc = "event" =>
       \A i \in 1..Len(Order) : i < copy => feed[Order[i]][Pending] # NoEvent
  /\ bpc \in {"head", "mark"} => \A a \in Author : feed[a][Pending] # NoEvent

\* What can be found in a participant's slots, and what is still to be put there.
Mail ==
  \A a \in Author :
    /\ outbox[a] \subseteq 1..Len(queued[a])
    /\ syncing[a] \in {0} \cup outbox[a]
    /\ \A n \in Slot : inbox[a][n] \notin {NoFrame, Garbage} =>
         n <= Len(queued[a]) /\ inbox[a][n] = queued[a][n]

\* The streams say which messages of an author are in the journal.
Streams == \A a \in Author : Group!Placed(a) = 1..streams[a]

\* Readers have handled prefixes of the journal.
Heard ==
  \A a \in Author :
    /\ Len(seen[a]) <= Len(events)
    /\ \A n \in 1..Len(seen[a]) : seen[a][n] = events[n]

\* The tables and the events about a task or of acknowledgement.
Acked(a) == {n \in 1..Len(events) : events[n].ok /\ events[n].author = a
                                    /\ events[n].msg.kind = "ack"}
Follows(t) ==
  \/ About(t) = {} /\ tasks[t] = NoTask
  \/ \E first \in About(t), last \in About(t) :
       /\ \A n \in About(t) : first <= n /\ n <= last
       /\ tasks[t].revision = last
       /\ tasks[t].assignee = events[first].msg.assignee
       /\ tasks[t].status = IF events[last].msg.kind = "assign" THEN "assigned"
                            ELSE events[last].msg.status
Acknowledged(a) ==
  \/ Acked(a) = {} /\ acks[a] = 0
  \/ \E last \in Acked(a) :
       /\ \A n \in Acked(a) : n <= last
       /\ acks[a] = events[last].msg.upto
Tables == (\A t \in Task : Follows(t)) /\ (\A a \in Author : Acknowledged(a))


-----------------------------------------------------------------------------
\* The participants are the members of Order.
LEMMA OrderFacts ==
  /\ Len(Order) \in Nat \ {0}
  /\ \A i \in 1..Len(Order) : Order[i] \in Author
  /\ \A a \in Author : \E i \in 1..Len(Order) : Order[i] = a
<1>1. Len(Order) \in Nat /\ DOMAIN Order = 1..Len(Order)
  BY ChannelAssumption
<1>2. \A a \in Author : \E i \in 1..Len(Order) : Order[i] = a
  BY <1>1 DEF Author, ToSet
<1>3. \A i \in 1..Len(Order) : Order[i] \in Author
  BY <1>1 DEF Author, ToSet
<1>4. Len(Order) # 0
  BY <1>1, <1>2, ChannelAssumption
<1> QED BY <1>1, <1>2, <1>3, <1>4

\* Limits are positive.
LEMMA Limits == MaxEvents \in Nat \ {0} /\ MaxPending \in Nat \ {0} /\ PageSize \in Nat \ {0}
BY ChannelAssumption

\* An event is an event, and no message is a hole in a mailbox.
LEMMA Distinct ==
  /\ NoEvent \notin Event
  /\ NoFrame # Garbage /\ NoFrame \notin Msg /\ Garbage \notin Msg
BY ChannelAssumption, MessageAssumption DEF NoEvent, Event, NoFrame, Garbage

\* The statuses of a task, and where they lead.
LEMMA Statuses ==
  /\ DOMAIN Transitions = {"none", "completed", "failed", "cancelled", "assigned",
                           "running", "blocked"}
  /\ \A s \in DOMAIN Transitions :
       /\ Transitions[s] \subseteq DOMAIN Transitions
       /\ "none" \notin Transitions[s] /\ "assigned" \notin Transitions[s]
  /\ Transitions["none"] = {}
BY DEF Transitions

\* A set of numbers has a least one.
LEMMA OldestIsLeast ==
  ASSUME NEW S \in SUBSET Nat, S # {}
  PROVE  Oldest(S) \in S /\ \A o \in S : Oldest(S) <= o
<1> DEFINE Below(n) == 0..(n - 1)
           All == {Below(n) : n \in S}
<1>1. All \subseteq FiniteSubsetsOf(Nat) /\ All # {}
  <2>1. ASSUME NEW n \in S PROVE Below(n) \in FiniteSubsetsOf(Nat)
    BY FS_Interval DEF FiniteSubsetsOf
  <2> QED BY <2>1
<1>2. PICK low \in All : \A x \in All : <<x, low>> \notin StrictSubsetOrdering(Nat)
  <2> HIDE DEF All
  <2> QED BY <1>1, FS_StrictSubsetOrderingWellFounded, WFMin
<1>3. PICK n \in S : low = Below(n)
  BY <1>2
<1>4. ASSUME NEW o \in S PROVE n <= o
  <2>1. SUFFICES ASSUME o < n PROVE FALSE
    OBVIOUS
  <2>2. Below(o) \subseteq Below(n) /\ o \in Below(n) /\ o \notin Below(o)
    BY <2>1
  <2>3. <<Below(o), low>> \in StrictSubsetOrdering(Nat)
    BY <2>2, <1>3 DEF StrictSubsetOrdering
  <2> QED BY <2>3, <1>2
<1> QED BY <1>4 DEF Oldest

-----------------------------------------------------------------------------
\* Types, the place in the round and the mailboxes.

Shape == TypeOK /\ Control /\ Mail

LEMMA InitShape == Init => Shape
<1> SUFFICES ASSUME Init PROVE Shape
  OBVIOUS
<1>1. TypeOK
  BY OrderFacts, Limits, Statuses
  DEF Init, TypeOK, NoTask, ClientTypes, MailboxTypes, JournalTypes, BrokerTypes
<1> QED BY <1>1 DEF Init, Shape, Control, Mail

\* What leaves a part of the state alone keeps what is said of it.
LEMMA PartsKept ==
  /\ UNCHANGED clientVars /\ ClientTypes => ClientTypes'
  /\ UNCHANGED <<inbox, feed, head>> /\ MailboxTypes => MailboxTypes'
  /\ UNCHANGED journalVars /\ JournalTypes => JournalTypes'
  /\ UNCHANGED brokerVars /\ BrokerTypes => BrokerTypes'
  /\ UNCHANGED <<journalVars, brokerVars>> /\ Control => Control'
  /\ UNCHANGED <<clientVars, inbox>> /\ Mail => Mail'
BY DEF clientVars, journalVars, brokerVars, ClientTypes, MailboxTypes, JournalTypes,
       BrokerTypes, Control, Mail

\* A participant queues a message.
LEMMA QueueShape ==
  ASSUME Shape, NEW a \in Author, NEW k \in Key, NEW m \in Msg, Queue(a, k, m)
  PROVE  Shape'
<1> DEFINE n == Len(queued[a]) + 1
<1>1. /\ queued \in [Author -> Seq(Msg)] /\ outbox \in [Author -> SUBSET Slot]
      /\ sent \in [Author -> [Key -> 0..MaxEvents]] /\ syncing \in [Author -> 0..MaxEvents]
  BY DEF Shape, TypeOK, ClientTypes
<1>2. /\ queued' = [queued EXCEPT ![a] = Append(@, m)]
      /\ sent' = [sent EXCEPT ![a][k] = n]
      /\ outbox' = [outbox EXCEPT ![a] = @ \cup {n}]
      /\ Len(queued[a]) < MaxEvents
      /\ UNCHANGED <<syncing, inbox, feed, head, journalVars, brokerVars, seen>>
  BY DEF Queue
<1>3. n \in Slot /\ n \in 0..MaxEvents
  BY <1>1, <1>2, Limits DEF Slot
<1>4. queued'[a] \in Seq(Msg) /\ Len(queued'[a]) = n
      /\ \A i \in 1..Len(queued[a]) : queued'[a][i] = queued[a][i]
  BY <1>1, <1>2
<1>5. ClientTypes'
  BY <1>1, <1>2, <1>3, <1>4 DEF ClientTypes
<1>6. Mail'
  <2> SUFFICES ASSUME NEW b \in Author
               PROVE  /\ outbox'[b] \subseteq 1..Len(queued'[b])
                      /\ syncing'[b] \in {0} \cup outbox'[b]
                      /\ \A i \in Slot : inbox'[b][i] \notin {NoFrame, Garbage} =>
                           i <= Len(queued'[b]) /\ inbox'[b][i] = queued'[b][i]
    BY DEF Mail
  <2>1. Mail
    BY DEF Shape
  <2>2. CASE b # a
    BY <2>1, <2>2, <1>1, <1>2 DEF Mail
  <2>3. CASE b = a
    BY <2>1, <2>3, <1>1, <1>2, <1>4 DEF Mail, Slot
  <2> QED BY <2>2, <2>3
<1> QED BY <1>2, <1>5, <1>6, PartsKept DEF Shape, TypeOK

\* It publishes what it queued.
LEMMA PublishShape ==
  ASSUME Shape, NEW a \in Author, Publish(a)
  PROVE  Shape'
<1> DEFINE n == Oldest(outbox[a])
<1>1. ClientTypes /\ MailboxTypes /\ Mail
  BY DEF Shape, TypeOK
<1>2. n \in outbox[a] /\ n \in Slot /\ n <= Len(queued[a])
  <2>1. outbox[a] \in SUBSET Nat /\ outbox[a] # {}
    BY <1>1 DEF Publish, ClientTypes, Slot
  <2>2. n \in outbox[a]
    BY <2>1, OldestIsLeast
  <2> QED BY <2>2, <1>1 DEF Mail, ClientTypes, Slot
<1>3. /\ inbox' = [inbox EXCEPT ![a][n] = queued[a][n]]
      /\ syncing' = [syncing EXCEPT ![a] = n]
      /\ UNCHANGED <<queued, sent, outbox, feed, head, journalVars, brokerVars, seen>>
  BY DEF Publish
<1>4. queued[a][n] \in Msg
  BY <1>1, <1>2 DEF ClientTypes, Slot
<1>5. ClientTypes' /\ MailboxTypes'
  BY <1>1, <1>2, <1>3, <1>4 DEF ClientTypes, MailboxTypes, Slot
<1>6. Mail'
  BY <1>1, <1>2, <1>3 DEF Mail, ClientTypes, MailboxTypes
<1> QED BY <1>3, <1>5, <1>6, PartsKept DEF Shape, TypeOK

\* A publication ends, well or not.
LEMMA DequeueShape ==
  ASSUME Shape, NEW a \in Author, Dequeue(a) \/ ClientStops(a)
  PROVE  Shape'
<1>1. ClientTypes /\ Mail
  BY DEF Shape, TypeOK
<1>2. /\ outbox' \in {outbox, [outbox EXCEPT ![a] = @ \ {syncing[a]}]}
      /\ syncing' = [syncing EXCEPT ![a] = 0]
      /\ UNCHANGED <<queued, sent, inbox, feed, head, journalVars, brokerVars, seen>>
  BY DEF Dequeue, ClientStops
<1>3. ClientTypes'
  <2>1. outbox' \in [Author -> SUBSET Slot]
    BY <1>1, <1>2 DEF ClientTypes
  <2>2. syncing' \in [Author -> 0..MaxEvents]
    BY <1>1, <1>2, Limits DEF ClientTypes
  <2> QED BY <1>1, <1>2, <2>1, <2>2 DEF ClientTypes
<1>4. Mail'
  BY <1>1, <1>2 DEF Mail, ClientTypes
<1> QED BY <1>2, <1>3, <1>4, PartsKept DEF Shape, TypeOK

\* A slot is damaged or repaired.
LEMMA SlotShape ==
  ASSUME Shape, NEW a \in Author, NEW n \in Slot, PutGarbage(a, n) \/ RepairSlot(a, n)
  PROVE  Shape'
<1>1. MailboxTypes /\ Mail
  BY DEF Shape, TypeOK
<1>2. /\ \E f \in {NoFrame, Garbage} : inbox' = [inbox EXCEPT ![a][n] = f]
      /\ UNCHANGED <<clientVars, feed, head, journalVars, brokerVars, seen>>
  BY DEF PutGarbage, RepairSlot
<1>3. MailboxTypes'
  BY <1>1, <1>2 DEF MailboxTypes
<1>4. Mail'
  BY <1>1, <1>2 DEF Mail, MailboxTypes, clientVars
<1> QED BY <1>2, <1>3, <1>4, PartsKept DEF Shape, TypeOK

\* What a reader takes in is a stretch of its feed.
Got(a, last) == [n \in 1..last |-> feed[a][Len(seen[a]) + n]]
LEMMA ReceiveGets ==
  ASSUME Shape, NEW a \in Author, Receive(a)
  PROVE  \E last \in Nat :
           /\ Len(seen[a]) + last <= head[a]
           /\ Got(a, last) \in Seq(Event)
           /\ seen' = [seen EXCEPT ![a] = seen[a] \o Got(a, last)]
<1>1. /\ seen \in [Author -> Seq(Event)] /\ head \in [Author -> 0..MaxEvents]
      /\ feed \in [Author -> [Slot -> Event \cup {NoEvent}]]
  BY DEF Shape, TypeOK, MailboxTypes
<1>2. PICK h \in 1..head[a] :
        /\ Len(seen[a]) < h
        /\ LET after == Len(seen[a])
               page == 1..(IF h < after + PageSize THEN h - after ELSE PageSize)
           IN  /\ \A n \in page : feed[a][after + n] # NoEvent
               /\ seen' = [seen EXCEPT
                             ![a] = @ \o [n \in page |-> feed[a][after + n]]]
  BY DEF Receive
<1> DEFINE last == IF h < Len(seen[a]) + PageSize THEN h - Len(seen[a]) ELSE PageSize
<1>3. /\ Len(seen[a]) \in Nat /\ last \in Nat /\ Len(seen[a]) + last <= h
      /\ h <= head[a] /\ h <= MaxEvents
  BY <1>1, <1>2, Limits
<1>4. /\ \A n \in 1..last : feed[a][Len(seen[a]) + n] # NoEvent
      /\ seen' = [seen EXCEPT ![a] = seen[a] \o Got(a, last)]
  BY <1>1, <1>2 DEF Got
<1> HIDE DEF last
<1>5. \A n \in 1..last : feed[a][Len(seen[a]) + n] \in Event
  <2> SUFFICES ASSUME NEW n \in 1..last PROVE feed[a][Len(seen[a]) + n] \in Event
    OBVIOUS
  <2>1. Len(seen[a]) + n \in Slot
    BY <1>3, Limits DEF Slot
  <2> QED BY <2>1, <1>1, <1>4
<1>6. Got(a, last) \in Seq(Event)
  BY <1>3, <1>5 DEF Got
<1>7. Len(seen[a]) + last <= head[a]
  BY <1>1, <1>3
<1> QED BY <1>3, <1>4, <1>6, <1>7

\* A participant reads its feed.
LEMMA ReceiveShape ==
  ASSUME Shape, NEW a \in Author, Receive(a)
  PROVE  Shape'
<1>1. PICK last \in Nat : /\ Got(a, last) \in Seq(Event)
                          /\ seen' = [seen EXCEPT ![a] = seen[a] \o Got(a, last)]
  BY ReceiveGets
<1>2. seen \in [Author -> Seq(Event)]
  BY DEF Shape, TypeOK
<1>3. seen[a] \o Got(a, last) \in Seq(Event)
  BY <1>1, <1>2
<1>4. seen' \in [Author -> Seq(Event)]
  BY <1>1, <1>2, <1>3
<1> QED BY <1>4, PartsKept DEF Receive, Shape, TypeOK

\* What a participant does.
LEMMA ClientShape ==
  ASSUME Shape, NEW a \in Author, ClientStep(a)
  PROVE  Shape'
BY QueueShape, PublishShape, DequeueShape, SlotShape, ReceiveShape DEF ClientStep

\* Steps of the broker that move nothing but the broker.
QuietStep ==
  \/ BrokerStarts \/ Begin \/ Replay \/ AcceptNothing \/ Defer \/ BrokerStops
LEMMA QuietShape ==
  ASSUME Shape, QuietStep
  PROVE  Shape' /\ UNCHANGED <<clientVars, inbox, feed, head, journalVars, seen>>
<1>1. JournalTypes /\ BrokerTypes /\ Control
  BY DEF Shape, TypeOK
<1>2. UNCHANGED <<clientVars, inbox, feed, head, journalVars, seen>>
  BY DEF QuietStep, BrokerStarts, Begin, Replay, AcceptNothing, Defer, BrokerStops, OnlyBroker
<1>3. BrokerTypes' /\ Control'
  <2>1. UNCHANGED <<events, published>> /\ Len(events) \in Nat /\ published \in 0..Len(events)
    BY <1>1, <1>2 DEF journalVars, JournalTypes
  <2>2. CASE BrokerStarts \/ Begin \/ AcceptNothing \/ BrokerStops
    BY <2>1, <2>2, <1>1, OrderFacts
    DEF BrokerStarts, Begin, AcceptNothing, BrokerStops, BrokerTypes, Control
  <2>3. CASE Replay
    <3>1. CASE published < Len(events)
      BY <3>1, <2>1, <2>3, <1>1, OrderFacts DEF Replay, BrokerTypes, Control
    <3>2. CASE ~(published < Len(events))
      <4>1. published' = Len(events')
        BY <3>2, <2>1
      <4>2. /\ UNCHANGED copy
            /\ IF turn < Len(Order) THEN bpc' = "accept" /\ turn' = turn + 1
                                    ELSE bpc' = "idle" /\ turn' = 0
        BY <3>2, <2>3 DEF Replay, NextTurn
      <4> QED BY <4>1, <4>2, <2>1, <1>1, OrderFacts DEF BrokerTypes, Control
    <3> QED BY <3>1, <3>2
  <2>4. CASE Defer
    BY <2>1, <2>4, <1>1, OrderFacts DEF Defer, NextTurn, BrokerTypes, Control
  <2> QED BY <2>2, <2>3, <2>4 DEF QuietStep
<1> QED BY <1>2, <1>3, PartsKept DEF Shape, TypeOK

\* Before the pending event is published there is one, and it has a slot.
LEMMA PendingIsThere ==
  ASSUME Shape, bpc \in {"event", "head", "mark"}
  PROVE  /\ Pending \in 1..Len(events) /\ Pending \in Slot /\ Pending \in 0..MaxEvents
         /\ Pending = Len(events) /\ events[Pending] \in Event
         /\ bpc \in {"event", "head"} => copy \in 1..Len(Order) /\ Target \in Author
BY OrderFacts, Limits
DEF Shape, TypeOK, JournalTypes, BrokerTypes, Control, Pending, Slot, Target

\* The pending event is copied or announced.
LEMMA FanOutShape ==
  ASSUME Shape, WriteEvent \/ WriteHead \/ FanoutFails
  PROVE  Shape'
<1>1. MailboxTypes /\ JournalTypes /\ BrokerTypes /\ Control
  BY DEF Shape, TypeOK
<1>2. bpc \in {"event", "head", "mark"}
  BY DEF WriteEvent, WriteHead, FanoutFails
<1>3. /\ Pending \in Slot /\ Pending \in 0..MaxEvents /\ events[Pending] \in Event
      /\ published < Len(events)
  BY <1>1, <1>2, PendingIsThere DEF Control
<1>4. UNCHANGED <<clientVars, inbox, journalVars, seen>>
  BY DEF WriteEvent, WriteHead, FanoutFails, OnlyBroker, journalVars
<1>5. /\ feed' \in {feed, [feed EXCEPT ![Target][Pending] = events[Pending]]}
      /\ head' \in {head, [head EXCEPT ![Target] = Pending]}
  BY DEF WriteEvent, WriteHead, FanoutFails, Written
<1>6. MailboxTypes'
  <2>1. feed' \in [Author -> [Slot -> Event \cup {NoEvent}]]
    <3>1. CASE feed' = feed
      BY <3>1, <1>1 DEF MailboxTypes
    <3>2. CASE feed' = [feed EXCEPT ![Target][Pending] = events[Pending]]
      <4> DEFINE Files == [Slot -> Event \cup {NoEvent}]
      <4>1. feed \in [Author -> Files]
        BY <1>1 DEF MailboxTypes
      <4>2. ASSUME NEW b \in Author
            PROVE  [feed[b] EXCEPT ![Pending] = events[Pending]] \in Files
        BY <4>1, <1>3
      <4> QED BY <3>2, <4>1, <4>2
    <3> QED BY <3>1, <3>2, <1>5
  <2>2. head' \in [Author -> 0..MaxEvents]
    BY <1>1, <1>3, <1>5 DEF MailboxTypes
  <2> QED BY <1>1, <1>4, <2>1, <2>2 DEF MailboxTypes
<1>7. BrokerTypes' /\ Control'
  <2>1. CASE WriteEvent
    BY <2>1, <1>1, <1>3, <1>4, OrderFacts
    DEF WriteEvent, NextCopy, BrokerTypes, Control, journalVars
  <2>2. CASE WriteHead
    BY <2>2, <1>1, <1>3, <1>4, OrderFacts
    DEF WriteHead, NextCopy, BrokerTypes, Control, journalVars
  <2>3. CASE FanoutFails
    BY <2>3, <1>1, <1>3, <1>4, OrderFacts DEF FanoutFails, BrokerTypes, Control, journalVars
  <2> QED BY <2>1, <2>2, <2>3
<1> QED BY <1>4, <1>6, <1>7, PartsKept DEF Shape, TypeOK

\* The pending event is called published.
LEMMA MarkShape ==
  ASSUME Shape, MarkPublished
  PROVE  Shape' /\ UNCHANGED <<clientVars, inbox, feed, head, events, streams, tasks, acks, seen>>
<1>1. JournalTypes /\ BrokerTypes /\ Control
  BY DEF Shape, TypeOK
<1>2. /\ published' = Pending /\ bpc' = "replay" /\ copy' = 0
      /\ UNCHANGED <<turn, clientVars, inbox, feed, head, events, streams, tasks, acks, seen>>
  BY DEF MarkPublished, OnlyBroker
<1>3. Pending = Len(events) /\ Len(events) \in Nat
  BY <1>1, PendingIsThere DEF MarkPublished, JournalTypes
<1>4. JournalTypes' /\ BrokerTypes' /\ Control'
  BY <1>1, <1>2, <1>3, OrderFacts DEF JournalTypes, BrokerTypes, Control
<1> QED BY <1>2, <1>4, PartsKept DEF Shape, TypeOK

-----------------------------------------------------------------------------
\* The broker takes in a message.

Author1 == Order[turn]
Fate == Valid(Author1, Frame(Author1), Len(events) + 1)
NewEvent == [author |-> Author1, aseq |-> NextSlot(Author1), msg |-> Frame(Author1), ok |-> Fate]

\* It is the next message of its author.
LEMMA Admitted ==
  ASSUME Shape, AdmitFrame
  PROVE  /\ Author1 \in Author /\ NextSlot(Author1) \in Slot
         /\ NextSlot(Author1) <= Len(queued[Author1])
         /\ Frame(Author1) = queued[Author1][NextSlot(Author1)]
         /\ Frame(Author1) \in Msg /\ Fate \in BOOLEAN /\ NewEvent \in Event
         /\ Len(events) \in 0..(MaxEvents - 1) /\ published = Len(events)
         /\ events' = Append(events, NewEvent)
         /\ streams' = [streams EXCEPT ![Author1] = NextSlot(Author1)]
         /\ Effect(Author1, Frame(Author1), Len(events) + 1, Fate)
         /\ bpc' = "replay"
         /\ UNCHANGED <<clientVars, inbox, feed, head, published, turn, copy, seen>>
<1>1. /\ Frame(Author1) \notin {NoFrame, Garbage} /\ Len(events) + 1 <= MaxEvents
      /\ events' = Append(events, NewEvent)
      /\ streams' = [streams EXCEPT ![Author1] = NextSlot(Author1)]
      /\ Effect(Author1, Frame(Author1), Len(events) + 1, Fate)
      /\ bpc = "accept" /\ bpc' = "replay"
      /\ UNCHANGED <<clientVars, inbox, feed, head, published, turn, copy, seen>>
  BY DEF AdmitFrame, Author1, NewEvent, Fate, OnlyBroker
<1>2. /\ turn \in 1..Len(Order) /\ published = Len(events) /\ Len(events) \in Nat
      /\ MailboxTypes /\ Mail /\ JournalTypes
  BY <1>1, OrderFacts DEF Shape, TypeOK, JournalTypes, BrokerTypes, Control
<1>3. Author1 \in Author
  BY <1>2, OrderFacts DEF Author1
<1>4. NextSlot(Author1) \in Slot /\ Frame(Author1) = inbox[Author1][NextSlot(Author1)]
  BY <1>1 DEF Frame
<1>5. /\ Frame(Author1) \in Msg
      /\ NextSlot(Author1) <= Len(queued[Author1])
      /\ Frame(Author1) = queued[Author1][NextSlot(Author1)]
  BY <1>1, <1>2, <1>3, <1>4 DEF Mail, MailboxTypes
<1>6. Fate \in BOOLEAN
  BY DEF Fate, Valid
<1>7. NewEvent \in Event
  BY <1>3, <1>4, <1>5, <1>6 DEF NewEvent, Event
<1>8. Len(events) \in 0..(MaxEvents - 1)
  BY <1>1, <1>2, Limits
<1> QED BY <1>1, <1>2, <1>3, <1>4, <1>5, <1>6, <1>7, <1>8

\* A report changes two fields of a row.
LEMMA Reported ==
  ASSUME NEW A, NEW B, NEW C, NEW row \in [assignee : A, status : B, revision : C],
         NEW s \in B, NEW n \in C
  PROVE  LET new == [row EXCEPT !.status = s, !.revision = n] IN
         /\ new \in [assignee : A, status : B, revision : C]
         /\ new.assignee = row.assignee /\ new.status = s /\ new.revision = n
OBVIOUS

LEMMA AdmitShape ==
  ASSUME Shape, AdmitFrame
  PROVE  Shape'
<1> DEFINE m == Frame(Author1)
           seq == Len(events) + 1
<1>1. JournalTypes /\ BrokerTypes
  BY DEF Shape, TypeOK
<1>2. /\ events' \in Seq(Event) /\ Len(events') = seq /\ seq \in 1..MaxEvents
      /\ published' = seq - 1
  <2>1. /\ events \in Seq(Event) /\ NewEvent \in Event
        /\ events' = Append(events, NewEvent)
        /\ Len(events) \in 0..(MaxEvents - 1) /\ published' = Len(events)
    BY <1>1, Admitted DEF JournalTypes
  <2> QED BY <2>1, Limits
<1>3. streams' \in [Author -> 0..MaxEvents]
  BY <1>1, Admitted, Limits DEF JournalTypes, Slot
<1>4. acks' \in [Author -> 0..MaxEvents]
  <2>1. CASE Fate /\ m.kind = "ack"
    <3>1. m.upto \in acks[Author1]..(seq - 1)
      BY <2>1 DEF Fate, Valid, ValidChat, ValidAck, ValidAssign, ValidStatus
    <3>2. m.upto \in 0..MaxEvents
      BY <3>1, <1>1, <1>2, Admitted, Limits DEF JournalTypes
    <3>3. acks' = [acks EXCEPT ![Author1] = m.upto]
      BY <2>1, Admitted DEF Effect
    <3> QED BY <3>2, <3>3, <1>1 DEF JournalTypes
  <2>2. CASE ~(Fate /\ m.kind = "ack")
    BY <2>2, Admitted, <1>1 DEF Effect, JournalTypes
  <2> QED BY <2>1, <2>2
<1>5. tasks' \in [Task -> [assignee : Author \cup {Nobody}, status : DOMAIN Transitions,
                           revision : 0..Len(events')]]
  <2> DEFINE Row == [assignee : Author \cup {Nobody}, status : DOMAIN Transitions,
                     revision : 0..seq]
  <2>1. tasks \in [Task -> Row]
    BY <1>1, <1>2 DEF JournalTypes
  <2>2. CASE Fate /\ m.kind = "assign"
    <3>1. tasks' = [tasks EXCEPT ![m.task] = [assignee |-> m.assignee,
                      status |-> "assigned", revision |-> seq]]
      BY <2>2, Admitted DEF Effect
    <3>2. m.assignee \in Author
      BY <2>2 DEF Fate, Valid, ValidChat, ValidAck, ValidAssign, ValidStatus
    <3>3. [assignee |-> m.assignee, status |-> "assigned", revision |-> seq] \in Row
      BY <3>2, <1>2, Statuses
    <3> QED BY <3>1, <3>3, <2>1, <1>2
  <2>3. CASE Fate /\ m.kind = "status"
    <3>1. tasks' = [tasks EXCEPT ![m.task].status = m.status, ![m.task].revision = seq]
      BY <2>3, Admitted DEF Effect
    <3>2. m.task \in Task
      BY <2>3, Admitted, MessageAssumption
    <3>3. m.status \in DOMAIN Transitions
      <4>1. m.status \in Transitions[tasks[m.task].status]
        BY <2>3 DEF Fate, Valid, ValidChat, ValidAck, ValidAssign, ValidStatus
      <4> QED BY <4>1, <3>2, <2>1, Statuses
    <3>4. [tasks[m.task] EXCEPT !.status = m.status, !.revision = seq] \in Row
      <4>1. tasks[m.task] \in Row
        BY <3>2, <2>1
      <4>2. seq \in 0..seq
        BY <1>2
      <4> QED BY <4>1, <4>2, <3>3, Reported
    <3>5. tasks' = [tasks EXCEPT ![m.task] = [tasks[m.task] EXCEPT !.status = m.status,
                                                                  !.revision = seq]]
      BY <3>1, <3>2, <2>1
    <3> QED BY <3>4, <3>5, <2>1, <1>2
  <2>4. CASE ~(Fate /\ m.kind \in {"assign", "status"})
    BY <2>4, <2>1, <1>2, Admitted DEF Effect
  <2> QED BY <2>2, <2>3, <2>4
<1>6. JournalTypes'
  BY <1>2, <1>3, <1>4, <1>5 DEF JournalTypes
<1>7. BrokerTypes' /\ Control'
  BY <1>1, <1>2, Admitted DEF BrokerTypes, Control
<1> QED BY <1>6, <1>7, Admitted, PartsKept DEF Shape, TypeOK

\* Every step keeps the shape.
LEMMA StepShape == Shape /\ [Next]_vars => Shape'
<1>1. ASSUME Shape, UNCHANGED vars PROVE Shape'
  BY <1>1, PartsKept DEF vars, Shape, TypeOK
<1>2. ASSUME Shape, BrokerStep PROVE Shape'
  BY <1>2, QuietShape, FanOutShape, MarkShape, AdmitShape DEF BrokerStep, QuietStep
<1> QED BY <1>1, <1>2, ClientShape DEF Next

-----------------------------------------------------------------------------
\* The feeds.

Feeds == FeedsAgree /\ FanOut

LEMMA InitFeeds == Init => Feeds
BY DEF Init, Feeds, FeedsAgree, FanOut, Slot

LEMMA ClientFeeds ==
  ASSUME Feeds, NEW a \in Author, ClientStep(a)
  PROVE  Feeds'
<1>1. UNCHANGED <<feed, head, events, published, bpc, copy>>
  BY DEF ClientStep, Queue, Publish, Dequeue, ClientStops, PutGarbage, RepairSlot, Receive,
         journalVars, brokerVars
<1> QED BY <1>1 DEF Feeds, FeedsAgree, FanOut, Pending

LEMMA QuietFeeds ==
  ASSUME Shape, Feeds, QuietStep
  PROVE  Feeds'
<1>1. UNCHANGED <<feed, head, events, published>>
  BY QuietShape DEF journalVars
<1>2. bpc' \notin {"head", "mark"} /\ (bpc' = "event" => copy' = 1)
  BY DEF QuietStep, BrokerStarts, Begin, Replay, NextTurn, AcceptNothing, Defer, BrokerStops
<1> QED BY <1>1, <1>2 DEF Feeds, FeedsAgree, FanOut

\* One more feed has the pending event.
LEMMA CopyFeeds ==
  ASSUME Shape, Feeds, bpc = "event", Written, UNCHANGED <<head, events, published>>
  PROVE  FeedsAgree' /\ feed'[Target][Pending] # NoEvent
         /\ \A a \in Author : \A n \in Slot : feed[a][n] # NoEvent => feed'[a][n] = feed[a][n]
<1>1. /\ Pending \in Slot /\ Pending = Len(events) /\ events[Pending] \in Event
      /\ Target \in Author /\ events[Pending] # NoEvent
  BY PendingIsThere, Distinct
<1>2. feed \in [Author -> [Slot -> Event \cup {NoEvent}]]
  BY DEF Shape, TypeOK, MailboxTypes
<1>3. \A a \in Author : \A n \in Slot :
        feed'[a][n] = IF a = Target /\ n = Pending THEN events[Pending] ELSE feed[a][n]
  BY <1>1, <1>2 DEF Written
<1>4. FeedsAgree
  BY DEF Feeds
<1>5. ASSUME NEW a \in Author, NEW n \in Slot, feed[a][n] # NoEvent
      PROVE  feed'[a][n] = feed[a][n]
  BY <1>3, <1>4, <1>5 DEF FeedsAgree
<1>6. FeedsAgree'
  BY <1>1, <1>3, <1>4, <1>5 DEF FeedsAgree, Slot
<1> QED BY <1>1, <1>3, <1>5, <1>6

LEMMA FanOutFeeds ==
  ASSUME Shape, Feeds, WriteEvent \/ WriteHead \/ FanoutFails
  PROVE  Feeds'
<1>1. /\ Pending \in Slot /\ Pending = Len(events) /\ Pending' = Pending
      /\ bpc \in {"event", "head"} => copy \in 1..Len(Order) /\ Target \in Author
  BY PendingIsThere DEF WriteEvent, WriteHead, FanoutFails, journalVars, Pending
<1>2. UNCHANGED <<events, published>>
  BY DEF WriteEvent, WriteHead, FanoutFails, journalVars
<1>3. CASE WriteEvent
  <2>1. /\ FeedsAgree' /\ feed'[Target][Pending] # NoEvent
        /\ \A a \in Author : \A n \in Slot : feed[a][n] # NoEvent => feed'[a][n] = feed[a][n]
    BY <1>2, <1>3, CopyFeeds DEF WriteEvent
  <2>2. \A i \in 1..Len(Order) : i < copy => feed[Order[i]][Pending] # NoEvent
    BY <1>3 DEF WriteEvent, Feeds, FanOut
  <2>3. \A i \in 1..Len(Order) : i <= copy => feed'[Order[i]][Pending] # NoEvent
    BY <1>1, <1>3, <2>1, <2>2, OrderFacts DEF WriteEvent, Target
  <2>4. CASE copy < Len(Order)
    <3>1. copy' = copy + 1 /\ bpc' = "event"
      BY <1>3, <2>4 DEF WriteEvent, NextCopy
    <3>2. \A i \in 1..Len(Order) : i < copy' => feed'[Order[i]][Pending'] # NoEvent
      BY <1>1, <1>3, <2>3, <3>1 DEF WriteEvent
    <3> QED BY <2>1, <3>1, <3>2 DEF Feeds, FanOut
  <2>5. CASE ~(copy < Len(Order))
    <3>1. bpc' = "head"
      BY <1>3, <2>5 DEF WriteEvent, NextCopy
    <3>2. \A a \in Author : feed'[a][Pending'] # NoEvent
      BY <1>1, <1>3, <2>3, <2>5, OrderFacts DEF WriteEvent
    <3> QED BY <2>1, <3>1, <3>2 DEF Feeds, FanOut
  <2> QED BY <2>4, <2>5
<1>4. ASSUME bpc = "head", head' = [head EXCEPT ![Target] = Pending], UNCHANGED feed
      PROVE  FeedsAgree'
  <2>1. \A a \in Author : feed[a][Pending] # NoEvent
    BY <1>4 DEF Feeds, FanOut
  <2>2. head \in [Author -> 0..MaxEvents] /\ FeedsAgree
    BY DEF Shape, TypeOK, MailboxTypes, Feeds
  <2>3. ASSUME NEW a \in Author, NEW n \in Slot, n <= head'[a], NEW b \in Author
        PROVE  feed[b][n] # NoEvent
    <3>1. CASE a = Target
      <4>1. n <= Pending /\ Pending = published + 1 /\ published \in Nat
        BY <2>2, <2>3, <3>1, <1>1, <1>4 DEF Pending, Shape, TypeOK, JournalTypes
      <4> QED BY <4>1, <2>1, <2>2 DEF FeedsAgree, Slot
    <3>2. CASE a # Target
      BY <3>2, <2>2, <2>3, <1>4 DEF FeedsAgree
    <3> QED BY <3>1, <3>2
  <2> QED BY <1>2, <1>4, <2>2, <2>3 DEF FeedsAgree
<1>5. CASE WriteHead
  BY <1>1, <1>4, <1>5 DEF WriteHead, NextCopy, Feeds, FanOut
<1>6. CASE FanoutFails
  <2>1. bpc' = "idle"
    BY <1>6 DEF FanoutFails
  <2>2. FeedsAgree'
    <3>1. CASE UNCHANGED <<feed, head>>
      BY <3>1, <1>2 DEF Feeds, FeedsAgree
    <3>2. CASE bpc = "event" /\ Written /\ UNCHANGED head
      BY <3>2, <1>2, CopyFeeds
    <3> QED BY <3>1, <3>2, <1>4, <1>6 DEF FanoutFails
  <2> QED BY <2>1, <2>2 DEF Feeds, FanOut
<1> QED BY <1>3, <1>5, <1>6

LEMMA MarkFeeds ==
  ASSUME Shape, Feeds, MarkPublished
  PROVE  Feeds'
<1>1. /\ published' = Pending /\ Pending = Len(events) /\ published \in Nat
      /\ Pending = published + 1 /\ bpc' = "replay" /\ UNCHANGED <<feed, head, events>>
  BY PendingIsThere, MarkShape DEF MarkPublished, Shape, TypeOK, JournalTypes, Pending
<1>2. \A a \in Author : feed[a][Pending] # NoEvent
  BY DEF MarkPublished, Feeds, FanOut
<1>3. ASSUME NEW n \in Slot, n <= published', NEW b \in Author
      PROVE  feed[b][n] # NoEvent
  <2>1. n = Pending \/ n <= published
    BY <1>1, <1>3 DEF Slot
  <2> QED BY <2>1, <1>2 DEF Feeds, FeedsAgree
<1>4. FeedsAgree'
  <2>1. Len(events') <= published' + 1
    <3>1. Pending \in Nat /\ published' = Pending
      BY <1>1
    <3>2. Len(events') = Pending
      <4>1. events' = events /\ Pending = Len(events)
        BY <1>1
      <4> QED BY <4>1
    <3> HIDE DEF Pending
    <3> QED BY <3>1, <3>2
  <2>2. ASSUME NEW a \in Author, NEW n \in Slot
        PROVE  /\ feed'[a][n] # NoEvent => n <= Len(events') /\ feed'[a][n] = events'[n]
               /\ n <= head'[a] \/ n <= published' =>
                    \A b \in Author : feed'[b][n] # NoEvent
    BY <1>1, <1>3 DEF Feeds, FeedsAgree
  <2> QED BY <2>1, <2>2 DEF FeedsAgree
<1> QED BY <1>1, <1>4 DEF Feeds, FanOut

LEMMA AdmitFeeds ==
  ASSUME Shape, Feeds, AdmitFrame
  PROVE  Feeds'
<1>1. /\ events \in Seq(Event) /\ NewEvent \in Event /\ events' = Append(events, NewEvent)
      /\ published = Len(events) /\ bpc' = "replay" /\ UNCHANGED <<feed, head, published>>
  BY Admitted DEF Shape, TypeOK, JournalTypes
<1>2. /\ Len(events') = Len(events) + 1 /\ Len(events) \in Nat
      /\ \A n \in 1..Len(events) : events'[n] = events[n]
  BY <1>1
<1>3. FeedsAgree'
  <2>1. Len(events') <= published' + 1
    BY <1>1, <1>2
  <2>2. ASSUME NEW a \in Author, NEW n \in Slot, feed[a][n] # NoEvent
        PROVE  n <= Len(events') /\ feed[a][n] = events'[n]
    <3>1. n <= Len(events) /\ feed[a][n] = events[n]
      BY <2>2 DEF Feeds, FeedsAgree
    <3> QED BY <3>1, <1>2 DEF Slot
  <2> QED BY <1>1, <2>1, <2>2 DEF Feeds, FeedsAgree
<1> QED BY <1>1, <1>3 DEF Feeds, FanOut

LEMMA StepFeeds == Shape /\ Feeds /\ [Next]_vars => Feeds'
<1>1. ASSUME Feeds, UNCHANGED vars PROVE Feeds'
  BY <1>1 DEF vars, Feeds, FeedsAgree, FanOut, Pending, journalVars, brokerVars
<1>2. ASSUME Shape, Feeds, BrokerStep PROVE Feeds'
  BY <1>2, QuietFeeds, FanOutFeeds, MarkFeeds, AdmitFeeds DEF BrokerStep, QuietStep
<1> QED BY <1>1, <1>2, ClientFeeds DEF Next

-----------------------------------------------------------------------------
\* Types hold, and the feeds agree.

\* Every variable keeps its type, the broker its place, and the mailboxes hold what
\* was queued.
THEOREM ShapeHolds == Spec => []Shape
BY InitShape, StepShape, PTL DEF Spec

\* In particular the types (the state of channel.py's stores and mailboxes).
THEOREM TypeCorrect == Spec => []TypeOK
BY ShapeHolds, PTL DEF Shape

\* Every feed is a copy of the journal, and a HEAD vouches for all feeds, through any
\* failures and restarts of the fan-out (channel.py, Broker._replay).
THEOREM FeedsAgreeAlways == Spec => []FeedsAgree
<1>1. Spec => []Feeds
  BY InitFeeds, StepFeeds, ShapeHolds, PTL DEF Spec
<1> QED BY <1>1, PTL DEF Feeds

-----------------------------------------------------------------------------
\* One transcript for all.

Log == Feeds /\ Streams /\ Heard

\* A sequence that grows.
LEMMA Grown ==
  ASSUME NEW S, NEW s \in Seq(S), NEW e \in S
  PROVE  /\ Append(s, e) \in Seq(S) /\ Len(Append(s, e)) = Len(s) + 1 /\ Len(s) \in Nat
         /\ DOMAIN s = 1..Len(s) /\ DOMAIN Append(s, e) = 1..(Len(s) + 1)
         /\ \A n \in 1..Len(s) : Append(s, e)[n] = s[n]
         /\ Append(s, e)[Len(s) + 1] = e
OBVIOUS

LEMMA InitLog == Init => Streams /\ Heard
BY DEF Init, Streams, Heard, Group!Placed

\* An admission adds the message to those of its author.
LEMMA AdmitPlaced ==
  ASSUME Shape, AdmitFrame, NEW a \in Author
  PROVE  Group!Placed(a)' = IF a = Author1 THEN Group!Placed(a) \cup {NextSlot(a)}
                                           ELSE Group!Placed(a)
<1>1. /\ events \in Seq(Event) /\ NewEvent \in Event /\ events' = Append(events, NewEvent)
      /\ NewEvent.author = Author1 /\ NewEvent.aseq = NextSlot(Author1)
  BY Admitted DEF Shape, TypeOK, JournalTypes, NewEvent
<1> DEFINE n == Len(events) + 1
<1>2. /\ DOMAIN events = 1..Len(events) /\ DOMAIN events' = 1..n /\ Len(events) \in Nat
      /\ \A i \in 1..Len(events) : events'[i] = events[i]
      /\ events'[n] = NewEvent
  BY <1>1, Grown
<1>3. ASSUME NEW x
      PROVE  x \in Group!Placed(a)' <=>
               \/ x \in Group!Placed(a)
               \/ a = Author1 /\ x = NextSlot(a)
  BY <1>1, <1>2 DEF Group!Placed
<1> QED BY <1>3

LEMMA AdmitLog ==
  ASSUME Shape, Log, AdmitFrame
  PROVE  Streams' /\ Heard'
<1>1. /\ events \in Seq(Event) /\ NewEvent \in Event /\ events' = Append(events, NewEvent)
      /\ streams' = [streams EXCEPT ![Author1] = NextSlot(Author1)]
      /\ Author1 \in Author /\ UNCHANGED seen
      /\ streams \in [Author -> 0..MaxEvents] /\ seen \in [Author -> Seq(Event)]
  BY Admitted DEF Shape, TypeOK, JournalTypes
<1>2. Streams'
  <2> SUFFICES ASSUME NEW a \in Author PROVE Group!Placed(a)' = 1..streams'[a]
    BY DEF Streams
  <2>1. Group!Placed(a) = 1..streams[a] /\ streams[a] \in Nat
    BY <1>1, Limits DEF Log, Streams
  <2>2. CASE a = Author1
    <3>1. Group!Placed(a)' = 1..streams[a] \cup {streams[a] + 1}
      BY <2>1, <2>2, AdmitPlaced DEF NextSlot
    <3>2. streams'[a] = streams[a] + 1
      BY <2>2, <1>1 DEF NextSlot
    <3> QED BY <2>1, <3>1, <3>2
  <2>3. CASE a # Author1
    BY <2>1, <2>3, <1>1, AdmitPlaced
  <2> QED BY <2>2, <2>3
<1>3. /\ Len(events) \in Nat /\ Len(events') = Len(events) + 1
      /\ \A n \in 1..Len(events) : events'[n] = events[n]
  BY <1>1
<1>4. Heard'
  <2> SUFFICES ASSUME NEW a \in Author
               PROVE  /\ Len(seen[a]) <= Len(events')
                      /\ \A n \in 1..Len(seen[a]) : seen[a][n] = events'[n]
    BY <1>1 DEF Heard
  <2>1. Len(seen[a]) \in Nat /\ Len(seen[a]) <= Len(events)
    BY <1>1 DEF Log, Heard
  <2> QED BY <2>1, <1>3 DEF Log, Heard
<1> QED BY <1>2, <1>4

\* A reader that goes on has a longer prefix.
LEMMA ReceiveLog ==
  ASSUME Shape, Log, NEW a \in Author, Receive(a)
  PROVE  /\ Heard'
         /\ \E n \in Len(seen[a])..Len(events) :
              seen' = [seen EXCEPT ![a] = SubSeq(events, 1, n)]
<1>1. PICK last \in Nat : /\ Len(seen[a]) + last <= head[a]
                          /\ Got(a, last) \in Seq(Event)
                          /\ seen' = [seen EXCEPT ![a] = seen[a] \o Got(a, last)]
  BY ReceiveGets
<1>2. /\ seen \in [Author -> Seq(Event)] /\ head \in [Author -> 0..MaxEvents]
      /\ events \in Seq(Event) /\ Len(events) \in Nat /\ FeedsAgree
      /\ UNCHANGED events
  BY DEF Shape, TypeOK, MailboxTypes, JournalTypes, Log, Feeds, Receive, journalVars
<1> DEFINE k == Len(seen[a])
           n == k + last
           new == seen[a] \o Got(a, last)
<1>3. /\ k \in Nat /\ n \in Nat /\ new \in Seq(Event) /\ Len(new) = n
      /\ \A i \in 1..n : new[i] = IF i <= k THEN seen[a][i] ELSE feed[a][i]
  <2>1. Len(Got(a, last)) = last /\ \A i \in 1..last : Got(a, last)[i] = feed[a][k + i]
    BY <1>1 DEF Got
  <2>2. seen[a] \in Seq(Event) /\ k \in Nat
    BY <1>2
  <2>3. /\ new \in Seq(Event) /\ Len(new) = k + last
        /\ \A i \in 1..(k + last) :
             new[i] = IF i <= k THEN seen[a][i] ELSE Got(a, last)[i - k]
    <3> DEFINE s == seen[a]
               t == Got(a, last)
    <3>1. /\ s \o t \in Seq(Event) /\ Len(s \o t) = Len(s) + Len(t)
          /\ \A i \in 1..(Len(s) + Len(t)) :
               (s \o t)[i] = IF i <= Len(s) THEN s[i] ELSE t[i - Len(s)]
      <4>1. s \in Seq(Event) /\ t \in Seq(Event)
        BY <1>1, <2>2
      <4> HIDE DEF s, t
      <4> QED BY <4>1, ConcatProperties
    <3> QED BY <3>1, <2>1
  <2>4. ASSUME NEW i \in 1..(k + last), ~(i <= k) PROVE Got(a, last)[i - k] = feed[a][i]
    <3>1. i - k \in 1..last /\ k + (i - k) = i
      BY <2>2, <2>4, <1>1
    <3> QED BY <2>1, <3>1
  <2> QED BY <1>1, <2>2, <2>3, <2>4
<1>4. \A i \in 1..n : i \in Slot /\ i <= head[a]
  BY <1>1, <1>2, <1>3, Limits DEF Slot
<1>5. \A i \in 1..n : i > k => feed[a][i] = events[i] /\ i <= Len(events)
  BY <1>2, <1>4 DEF FeedsAgree
<1>6. n <= Len(events)
  <2>1. CASE last = 0
    BY <2>1, <1>3 DEF Log, Heard
  <2>2. CASE last # 0
    BY <2>2, <1>3, <1>5
  <2> QED BY <2>1, <2>2
<1>7. \A i \in 1..n : new[i] = events[i]
  BY <1>3, <1>5 DEF Log, Heard
<1>8. new = SubSeq(events, 1, n)
  <2>1. /\ SubSeq(events, 1, n) \in Seq(Event) /\ Len(SubSeq(events, 1, n)) = n
        /\ \A i \in 1..n : SubSeq(events, 1, n)[i] = events[i]
    BY <1>2, <1>3, <1>6
  <2> QED BY <2>1, <1>3, <1>7, SeqEqual
<1>9. Heard'
  <2> HIDE DEF new, n
  <2> SUFFICES ASSUME NEW b \in Author
               PROVE  /\ Len(seen'[b]) <= Len(events)
                      /\ \A i \in 1..Len(seen'[b]) : seen'[b][i] = events[i]
    BY <1>2 DEF Heard
  <2>1. CASE b = a
    BY <2>1, <1>1, <1>2, <1>3, <1>6, <1>7 DEF new
  <2>2. CASE b # a
    BY <2>2, <1>1, <1>2 DEF Log, Heard
  <2> QED BY <2>1, <2>2
<1>10. n \in k..Len(events)
  BY <1>1, <1>2, <1>3, <1>6
<1>11. seen' = [seen EXCEPT ![a] = SubSeq(events, 1, n)]
  BY <1>1, <1>8
<1> QED BY <1>9, <1>10, <1>11

\* Nothing else moves them.
LEMMA OthersKeepLog ==
  ASSUME Log, UNCHANGED <<events, streams, seen>>
  PROVE  Streams' /\ Heard'
BY DEF Log, Streams, Heard, Group!Placed

LEMMA StepLog == Shape /\ Log /\ [Next]_vars => Log'
<1> SUFFICES ASSUME Shape, Log, [Next]_vars PROVE Streams' /\ Heard'
  BY StepFeeds DEF Log
<1>1. CASE AdmitFrame
  BY <1>1, AdmitLog
<1>2. ASSUME NEW a \in Author, Receive(a) PROVE Streams' /\ Heard'
  <2>1. UNCHANGED <<events, streams>>
    BY <1>2 DEF Receive, journalVars
  <2>2. Streams'
    BY <2>1 DEF Log, Streams, Group!Placed
  <2> QED BY <2>2, <1>2, ReceiveLog
<1>3. ASSUME NEW a \in Author, ClientStep(a), ~Receive(a) PROVE Streams' /\ Heard'
  <2>1. UNCHANGED <<events, streams, seen>>
    BY <1>3 DEF ClientStep, Queue, Publish, Dequeue, ClientStops, PutGarbage, RepairSlot,
                journalVars
  <2> QED BY <2>1, OthersKeepLog
<1>4. CASE BrokerStep /\ ~AdmitFrame
  <2>1. UNCHANGED <<events, streams, seen>>
    BY <1>4, QuietShape, MarkShape
    DEF BrokerStep, QuietStep, WriteEvent, WriteHead, FanoutFails, OnlyBroker, journalVars
  <2> QED BY <2>1, OthersKeepLog
<1>5. CASE UNCHANGED vars
  BY <1>5, OthersKeepLog DEF vars, journalVars
<1> QED BY <1>1, <1>2, <1>3, <1>4, <1>5 DEF Next

\* Every step is one of the transcript's, or changes nothing there.
LEMMA ClientRefines ==
  ASSUME Shape, Log, NEW a \in Author, ClientStep(a)
  PROVE  [Group!GroupNext]_(Group!groupVars)
<1>1. ASSUME NEW k \in Key, NEW m \in Msg, Queue(a, k, m) PROVE Group!GroupNext
  <2>1. Group!Say(a)
    BY <1>1 DEF Queue, Group!Say, journalVars
  <2> QED BY <2>1 DEF Group!GroupNext
<1>2. CASE Receive(a)
  <2>1. Group!Hear(a)
    BY <1>2, ReceiveLog DEF Receive, Group!Hear, clientVars, journalVars
  <2> QED BY <2>1 DEF Group!GroupNext
<1>3. CASE /\ ~Receive(a)
           /\ \A k \in Key, m \in Msg : ~Queue(a, k, m)
  <2>1. UNCHANGED <<queued, events, seen>>
    BY <1>3 DEF ClientStep, Publish, Dequeue, ClientStops, PutGarbage, RepairSlot,
                clientVars, journalVars
  <2> QED BY <2>1 DEF Group!groupVars
<1> QED BY <1>1, <1>2, <1>3

LEMMA AdmitRefines ==
  ASSUME Shape, Log, AdmitFrame
  PROVE  Group!GroupNext
<1>1. /\ Author1 \in Author /\ NextSlot(Author1) \in Slot /\ Fate \in BOOLEAN
      /\ NextSlot(Author1) <= Len(queued[Author1])
      /\ Frame(Author1) = queued[Author1][NextSlot(Author1)]
      /\ events' = Append(events, NewEvent) /\ UNCHANGED <<queued, seen>>
  BY Admitted DEF clientVars
<1>2. queued[Author1] \in Seq(Msg) /\ streams[Author1] \in Nat
  BY <1>1, Limits DEF Shape, TypeOK, ClientTypes, JournalTypes
<1>3. NextSlot(Author1) \in DOMAIN queued[Author1]
  BY <1>1, <1>2 DEF Slot
<1>4. Group!Placed(Author1) = 1..(NextSlot(Author1) - 1)
  BY <1>1, <1>2 DEF Log, Streams, NextSlot
<1>5. NewEvent = Group!Entry(Author1, NextSlot(Author1), Fate)
  BY <1>1 DEF NewEvent, Group!Entry
<1>6. Group!Admit(Author1)
  BY <1>1, <1>3, <1>4, <1>5 DEF Group!Admit
<1> QED BY <1>1, <1>6 DEF Group!GroupNext

LEMMA StepRefines ==
  ASSUME Shape, Log, [Next]_vars
  PROVE  [Group!GroupNext]_(Group!groupVars)
<1>1. CASE AdmitFrame
  BY <1>1, AdmitRefines
<1>2. CASE BrokerStep /\ ~AdmitFrame
  <2>1. UNCHANGED <<queued, events, seen>>
    BY <1>2, QuietShape, MarkShape
    DEF BrokerStep, QuietStep, WriteEvent, WriteHead, FanoutFails, OnlyBroker, clientVars,
        journalVars
  <2> QED BY <2>1 DEF Group!groupVars
<1>3. CASE UNCHANGED vars
  BY <1>3 DEF vars, clientVars, journalVars, Group!groupVars
<1> QED BY <1>1, <1>2, <1>3, ClientRefines DEF Next

\* The journal is in every feed but for one event, readers have prefixes of it, and it
\* holds each author's messages once and in order.
THEOREM LogHolds == Spec => []Log
<1>1. Init => Log
  BY InitFeeds, InitLog DEF Log
<1> QED BY <1>1, StepLog, ShapeHolds, PTL DEF Spec

\* The channel implements the one transcript (channel.py, Client.queue, Broker._accept,
\* read_events), whatever crashes, is damaged or shows late.
THEOREM ChannelRefinesGroupLog == Spec => ImplementsGroupLog
<1>1. Init => Group!GroupInit
  BY DEF Init, Group!GroupInit
<1>2. Shape /\ Log /\ [Next]_vars => [Group!GroupNext]_(Group!groupVars)
  BY StepRefines
<1> QED BY <1>1, <1>2, ShapeHolds, LogHolds, PTL DEF Spec, ImplementsGroupLog, Group!GroupSpec

-----------------------------------------------------------------------------
\* The tables follow the transcript.

\* The last number of a set is its last.
LEMMA LastIs ==
  ASSUME NEW S \in SUBSET Nat, NEW n \in S, \A o \in S : o <= n
  PROVE  LastOf(S) = n
<1>1. LastOf(S) \in S /\ \A o \in S : o <= LastOf(S)
  BY DEF LastOf
<1>2. n <= LastOf(S) /\ LastOf(S) <= n /\ n \in Nat /\ LastOf(S) \in Nat
  BY <1>1
<1> QED BY <1>2

LEMMA FirstIs ==
  ASSUME NEW S \in SUBSET Nat, NEW n \in S, \A o \in S : n <= o
  PROVE  FirstOf(S) = n
<1>1. FirstOf(S) \in S /\ \A o \in S : FirstOf(S) <= o
  BY DEF FirstOf
<1>2. n <= FirstOf(S) /\ FirstOf(S) <= n /\ n \in Nat /\ FirstOf(S) \in Nat
  BY <1>1
<1> QED BY <1>2

IsAbout(e, t) == e.ok /\ e.msg.kind \in {"assign", "status"} /\ e.msg.task = t
IsAck(e, a) == e.ok /\ e.author = a /\ e.msg.kind = "ack"

\* What an admission adds to the events about a task and to the acknowledgements.
LEMMA AdmitAbout ==
  ASSUME Shape, AdmitFrame
  PROVE  /\ Len(events) \in Nat /\ \A n \in 1..Len(events) : events'[n] = events[n]
         /\ events'[Len(events) + 1] = NewEvent
         /\ \A t : About(t)' = IF IsAbout(NewEvent, t) THEN About(t) \cup {Len(events) + 1}
                                                       ELSE About(t)
         /\ \A a : Acked(a)' = IF IsAck(NewEvent, a) THEN Acked(a) \cup {Len(events) + 1}
                                                     ELSE Acked(a)
         /\ \A t : About(t) \subseteq 1..Len(events)
         /\ \A a : Acked(a) \subseteq 1..Len(events)
<1>1. events \in Seq(Event) /\ NewEvent \in Event /\ events' = Append(events, NewEvent)
  BY Admitted DEF Shape, TypeOK, JournalTypes
<1>2. /\ Len(events) \in Nat /\ Len(events') = Len(events) + 1
      /\ \A n \in 1..Len(events) : events'[n] = events[n]
      /\ events'[Len(events) + 1] = NewEvent
  BY <1>1, Grown
<1>3. ASSUME NEW t
      PROVE  About(t)' = IF IsAbout(NewEvent, t) THEN About(t) \cup {Len(events) + 1}
                                                 ELSE About(t)
  BY <1>2 DEF About, IsAbout
<1>4. ASSUME NEW a
      PROVE  Acked(a)' = IF IsAck(NewEvent, a) THEN Acked(a) \cup {Len(events) + 1}
                                               ELSE Acked(a)
  BY <1>2 DEF Acked, IsAck
<1> QED BY <1>2, <1>3, <1>4 DEF About, Acked

LEMMA InitTables == Init => Tables
BY DEF Init, Tables, Follows, Acknowledged, About, Acked

\* What an accepted message about a task has found in the table.
LEMMA AcceptedAbout ==
  ASSUME Shape, Tables, AdmitFrame, NEW t \in Task, IsAbout(NewEvent, t)
  PROVE  LET m == Frame(Author1) IN
         \/ /\ m.kind = "assign" /\ About(t) = {}
            /\ tasks' = [tasks EXCEPT ![t] = [assignee |-> m.assignee,
                           status |-> "assigned", revision |-> Len(events) + 1]]
         \/ /\ m.kind = "status" /\ m.revision = tasks[t].revision /\ About(t) # {}
            /\ tasks' = [tasks EXCEPT ![t].status = m.status,
                                      ![t].revision = Len(events) + 1]
<1> DEFINE m == Frame(Author1)
<1>1. m.kind \in {"assign", "status"} /\ m.task = t /\ Fate
  BY DEF IsAbout, NewEvent
<1>2. CASE m.kind = "assign"
  <2>1. tasks[t] = NoTask
    BY <1>1, <1>2 DEF Fate, Valid, ValidChat, ValidAck, ValidAssign, ValidStatus
  <2>2. About(t) = {}
    <3>1. tasks[t].revision = 0
      BY <2>1 DEF NoTask
    <3>2. 0 \notin About(t)
      BY DEF About
    <3> QED BY <3>1, <3>2 DEF Tables, Follows
  <2> QED BY <1>1, <1>2, <2>2, Admitted DEF Effect
<1>3. CASE m.kind = "status"
  <2>1. /\ m.revision = tasks[t].revision
        /\ m.status \in Transitions[tasks[t].status]
    BY <1>1, <1>3 DEF Fate, Valid, ValidChat, ValidAck, ValidAssign, ValidStatus
  <2>2. About(t) # {}
    <3>1. tasks[t].status # "none"
      BY <2>1, Statuses
    <3>2. tasks[t] # NoTask
      BY <3>1 DEF NoTask
    <3> QED BY <3>2 DEF Tables, Follows
  <2> QED BY <1>1, <1>3, <2>1, <2>2, Admitted DEF Effect
<1> QED BY <1>1, <1>2, <1>3

\* The task that the message is about.
LEMMA FollowsOn ==
  ASSUME Shape, Tables, AdmitFrame, NEW t \in Task, IsAbout(NewEvent, t)
  PROVE  Follows(t)'
<1> DEFINE m == Frame(Author1)
           seq == Len(events) + 1
<1>1. /\ About(t)' = About(t) \cup {seq} /\ About(t) \subseteq 1..Len(events)
      /\ Len(events) \in Nat /\ events'[seq] = NewEvent
      /\ \A n \in 1..Len(events) : events'[n] = events[n]
  BY AdmitAbout
<1>2. tasks \in [Task -> [assignee : Author \cup {Nobody}, status : DOMAIN Transitions,
                          revision : 0..Len(events)]]
  BY DEF Shape, TypeOK, JournalTypes
<1>3. NewEvent.msg = m
  BY DEF NewEvent
<1>4. CASE m.kind = "assign" /\ About(t) = {}
             /\ tasks' = [tasks EXCEPT ![t] = [assignee |-> m.assignee,
                            status |-> "assigned", revision |-> seq]]
  <2>1. About(t)' = {seq}
    BY <1>1, <1>4
  <2>2. /\ tasks'[t].revision = seq /\ tasks'[t].assignee = events'[seq].msg.assignee
        /\ tasks'[t].status = "assigned" /\ events'[seq].msg.kind = "assign"
    BY <1>1, <1>2, <1>3, <1>4
  <2>3. \A n \in About(t)' : seq <= n /\ n <= seq
    BY <2>1, <1>1
  <2> QED BY <2>1, <2>2, <2>3 DEF Follows
<1>5. CASE m.kind = "status" /\ About(t) # {}
             /\ tasks' = [tasks EXCEPT ![t].status = m.status, ![t].revision = seq]
  <2>1. PICK first \in About(t) : /\ \A n \in About(t) : first <= n
                                  /\ tasks[t].assignee = events[first].msg.assignee
    BY <1>5 DEF Tables, Follows
  <2>2. /\ tasks'[t].revision = seq /\ tasks'[t].status = m.status
        /\ tasks'[t].assignee = tasks[t].assignee
    BY <1>2, <1>5
  <2>3. events'[first] = events[first] /\ first \in About(t)' /\ seq \in About(t)'
    BY <2>1, <1>1
  <2>4. \A n \in About(t)' : first <= n /\ n <= seq
    BY <2>1, <1>1
  <2>5. events'[seq].msg.kind = "status" /\ events'[seq].msg.status = m.status
    BY <1>1, <1>3, <1>5
  <2>6. /\ tasks'[t].assignee = events'[first].msg.assignee
        /\ tasks'[t].status = IF events'[seq].msg.kind = "assign" THEN "assigned"
                              ELSE events'[seq].msg.status
    BY <2>1, <2>2, <2>3, <2>5
  <2> QED BY <2>2, <2>3, <2>4, <2>6 DEF Follows
<1> QED BY <1>4, <1>5, AcceptedAbout

\* The other tasks.
LEMMA FollowsStill ==
  ASSUME Shape, Tables, AdmitFrame, NEW t \in Task, ~IsAbout(NewEvent, t)
  PROVE  Follows(t)'
<1> DEFINE m == Frame(Author1)
<1>1. /\ About(t)' = About(t) /\ About(t) \subseteq 1..Len(events)
      /\ \A n \in 1..Len(events) : events'[n] = events[n]
  BY AdmitAbout
<1>2. tasks'[t] = tasks[t]
  <2>1. NewEvent.msg = m /\ NewEvent.ok = Fate
    BY DEF NewEvent
  <2>2. ~(Fate /\ m.kind \in {"assign", "status"} /\ m.task = t)
    BY <2>1 DEF IsAbout
  <2>3. t \in DOMAIN tasks
    BY DEF Shape, TypeOK, JournalTypes
  <2> QED BY <2>2, <2>3, Admitted DEF Effect
<1>3. \A n \in About(t) : events'[n] = events[n]
  BY <1>1
<1>4. Follows(t)
  BY DEF Tables
<1> QED BY <1>1, <1>2, <1>3, <1>4 DEF Follows

LEMMA AcknowledgedOn ==
  ASSUME Shape, Tables, AdmitFrame, NEW a \in Author
  PROVE  Acknowledged(a)'
<1> DEFINE m == Frame(Author1)
           seq == Len(events) + 1
<1>1. /\ Acked(a)' = IF IsAck(NewEvent, a) THEN Acked(a) \cup {seq} ELSE Acked(a)
      /\ Acked(a) \subseteq 1..Len(events) /\ Len(events) \in Nat
      /\ events'[seq] = NewEvent
      /\ \A n \in 1..Len(events) : events'[n] = events[n]
  BY AdmitAbout
<1>2. NewEvent.msg = m /\ NewEvent.ok = Fate /\ NewEvent.author = Author1
  BY DEF NewEvent
<1>3. /\ acks' = IF Fate /\ m.kind = "ack" THEN [acks EXCEPT ![Author1] = m.upto] ELSE acks
      /\ a \in DOMAIN acks
  BY Admitted DEF Effect, Shape, TypeOK, JournalTypes
<1>4. CASE IsAck(NewEvent, a)
  <2>1. acks'[a] = events'[seq].msg.upto
    BY <1>1, <1>2, <1>3, <1>4 DEF IsAck
  <2>2. seq \in Acked(a)' /\ \A n \in Acked(a)' : n <= seq
    BY <1>1, <1>4
  <2> QED BY <2>1, <2>2 DEF Acknowledged
<1>5. CASE ~IsAck(NewEvent, a)
  <2>1. acks'[a] = acks[a]
    BY <1>2, <1>3, <1>5 DEF IsAck
  <2>2. Acked(a)' = Acked(a) /\ \A n \in Acked(a) : events'[n] = events[n]
    BY <1>1, <1>5
  <2>3. Acknowledged(a)
    BY DEF Tables
  <2> QED BY <2>1, <2>2, <2>3 DEF Acknowledged
<1> QED BY <1>4, <1>5

\* Only an admission moves the journal of events and its tables.
LEMMA OthersKeepEvents ==
  ASSUME Shape, [Next]_vars, ~AdmitFrame
  PROVE  UNCHANGED <<events, streams, tasks, acks>>
<1>1. CASE UNCHANGED vars
  BY <1>1 DEF vars, journalVars
<1>2. ASSUME NEW a \in Author, ClientStep(a) PROVE UNCHANGED journalVars
  BY <1>2 DEF ClientStep, Queue, Publish, Dequeue, ClientStops, PutGarbage, RepairSlot,
              Receive
<1>3. CASE BrokerStep
  BY <1>3, QuietShape, MarkShape
  DEF BrokerStep, QuietStep, WriteEvent, WriteHead, FanoutFails, journalVars
<1> QED BY <1>1, <1>2, <1>3 DEF Next, journalVars

LEMMA StepTables == Shape /\ Tables /\ [Next]_vars => Tables'
<1> SUFFICES ASSUME Shape, Tables, [Next]_vars PROVE Tables'
  OBVIOUS
<1>1. CASE AdmitFrame
  BY <1>1, FollowsOn, FollowsStill, AcknowledgedOn DEF Tables
<1>2. CASE ~AdmitFrame
  <2>1. UNCHANGED <<events, tasks, acks>>
    BY <1>2, OthersKeepEvents
  <2> QED BY <2>1 DEF Tables, Follows, Acknowledged, About, Acked
<1> QED BY <1>1, <1>2

\* What a table says is what its witnesses say.
LEMMA TablesSuffice == Shape /\ Tables => TablesFollowLog
<1> SUFFICES ASSUME Shape, Tables PROVE TablesFollowLog
  OBVIOUS
<1>1. ASSUME NEW t \in Task
      PROVE  IF About(t) = {} THEN tasks[t] = NoTask
             ELSE LET last == events[LastOf(About(t))].msg IN
                  /\ tasks[t].revision = LastOf(About(t))
                  /\ tasks[t].assignee = events[FirstOf(About(t))].msg.assignee
                  /\ tasks[t].status =
                       IF last.kind = "assign" THEN "assigned" ELSE last.status
  <2>1. Follows(t) /\ About(t) \in SUBSET Nat
    BY DEF Tables, About
  <2>2. CASE About(t) = {}
    BY <2>1, <2>2 DEF Follows
  <2>3. CASE About(t) # {}
    <3>1. PICK first \in About(t), last \in About(t) :
            /\ \A n \in About(t) : first <= n /\ n <= last
            /\ tasks[t].revision = last
            /\ tasks[t].assignee = events[first].msg.assignee
            /\ tasks[t].status = IF events[last].msg.kind = "assign" THEN "assigned"
                                 ELSE events[last].msg.status
      BY <2>1, <2>3 DEF Follows
    <3>2. LastOf(About(t)) = last /\ FirstOf(About(t)) = first
      BY <2>1, <3>1, LastIs, FirstIs
    <3> QED BY <2>3, <3>1, <3>2
  <2> QED BY <2>2, <2>3
<1>2. ASSUME NEW a \in Author
      PROVE  acks[a] = IF Acked(a) = {} THEN 0 ELSE events[LastOf(Acked(a))].msg.upto
  <2>1. Acknowledged(a) /\ Acked(a) \in SUBSET Nat
    BY DEF Tables, Acked
  <2>2. CASE Acked(a) # {}
    <3>1. PICK last \in Acked(a) : /\ \A n \in Acked(a) : n <= last
                                   /\ acks[a] = events[last].msg.upto
      BY <2>1, <2>2 DEF Acknowledged
    <3>2. LastOf(Acked(a)) = last
      BY <2>1, <3>1, LastIs
    <3> QED BY <2>2, <3>1, <3>2
  <2> QED BY <2>1, <2>2 DEF Acknowledged
<1> QED BY <1>1, <1>2 DEF TablesFollowLog, Acked

\* A report that is accepted follows the last event about its task.
LEMMA AdmitNoLostUpdate ==
  ASSUME Shape, Tables, NoLostUpdate, AdmitFrame
  PROVE  NoLostUpdate'
<1> DEFINE seq == Len(events) + 1
<1>1. /\ Len(events) \in Nat /\ events'[seq] = NewEvent
      /\ \A n \in 1..Len(events) : events'[n] = events[n]
      /\ \A t : About(t)' = IF IsAbout(NewEvent, t) THEN About(t) \cup {seq} ELSE About(t)
      /\ \A t : About(t) \subseteq 1..Len(events)
  BY AdmitAbout
<1>2. Len(events') = seq
  BY Admitted DEF Shape, TypeOK, JournalTypes
<1>3. ASSUME NEW n \in 1..Len(events), events[n].ok, events[n].msg.kind = "status",
             NEW t, t = events[n].msg.task
      PROVE  /\ events[n].msg.revision \in About(t)'
             /\ \A o \in About(t)' : o <= events[n].msg.revision \/ o >= n
  <2>1. /\ events[n].msg.revision \in About(t)
        /\ \A o \in About(t) : o <= events[n].msg.revision \/ o >= n
    BY <1>3 DEF NoLostUpdate
  <2> QED BY <1>1, <2>1
<1>4. ASSUME NewEvent.ok, NewEvent.msg.kind = "status", NEW t, t = NewEvent.msg.task
      PROVE  /\ NewEvent.msg.revision \in About(t)'
             /\ \A o \in About(t)' : o <= NewEvent.msg.revision \/ o >= seq
  <2>1. /\ NewEvent.msg = Frame(Author1) /\ t \in Task /\ IsAbout(NewEvent, t)
    BY <1>4, Admitted, MessageAssumption DEF NewEvent, IsAbout
  <2>2. NewEvent.msg.revision = tasks[t].revision /\ About(t) # {}
    BY <1>4, <2>1, AcceptedAbout
  <2>3. PICK last \in About(t) : /\ \A o \in About(t) : o <= last
                                 /\ NewEvent.msg.revision = last
    BY <2>1, <2>2 DEF Tables, Follows
  <2>4. About(t)' = About(t) \cup {seq}
    BY <1>1, <2>1
  <2> QED BY <1>1, <2>3, <2>4
<1>5. ASSUME NEW n \in 1..Len(events'), events'[n].ok, events'[n].msg.kind = "status",
             NEW t, t = events'[n].msg.task
      PROVE  /\ events'[n].msg.revision \in About(t)'
             /\ \A o \in About(t)' : o <= events'[n].msg.revision \/ o >= n
  <2>1. CASE n \in 1..Len(events)
    BY <1>1, <1>3, <1>5, <2>1
  <2>2. CASE n = seq
    BY <1>1, <1>4, <1>5, <2>2
  <2> QED BY <1>1, <1>2, <2>1, <2>2
<1> QED BY <1>5 DEF NoLostUpdate

\* The tables are what a reader of the transcript computes (channel.py, Broker._message).
THEOREM TablesAreTrue == Spec => []TablesFollowLog
<1>1. Spec => []Tables
  BY InitTables, StepTables, ShapeHolds, PTL DEF Spec
<1> QED BY <1>1, ShapeHolds, TablesSuffice, PTL

\* No report overwrites another that its author had not seen (channel.py,
\* Broker._message: the revision of a task is compared in the transaction).
THEOREM NoUpdateIsLost == Spec => []NoLostUpdate
<1>1. Spec => []Tables
  BY InitTables, StepTables, ShapeHolds, PTL DEF Spec
<1>2. Init => NoLostUpdate
  BY DEF Init, NoLostUpdate
<1>3. Shape /\ Tables /\ NoLostUpdate /\ [Next]_vars => NoLostUpdate'
  <2> SUFFICES ASSUME Shape, Tables, NoLostUpdate, [Next]_vars, ~AdmitFrame
               PROVE  NoLostUpdate'
    BY AdmitNoLostUpdate
  <2>1. UNCHANGED events
    BY OthersKeepEvents
  <2> QED BY <2>1 DEF NoLostUpdate, About
<1> QED BY <1>1, <1>2, <1>3, ShapeHolds, PTL DEF Spec
=============================================================================
