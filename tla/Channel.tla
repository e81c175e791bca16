------------------------------ MODULE Channel -------------------------------
(***************************************************************************)
(* fs_exec/channel.py: participants queue messages in a private journal and*)
(* publish them to their inboxes; the broker admits them one at a time to a*)
(* journal of events and copies each event to every feed; participants read*)
(* their feeds page by page.                                               *)
(*                                                                         *)
(* Hashes and framing are abstracted: a frame is a message, or Garbage that*)
(* fails every check.  Event msg stands for request_sha256, which a        *)
(* rejected event keeps although its message is dropped.  Leases of        *)
(* presence, mentions and texts are left out.                              *)
(*                                                                         *)
(* An operator commented "Variant" is no part of the model: it is a version*)
(* of the definition after it with a likely mistake in it.                 *)
(***************************************************************************)
EXTENDS Naturals, Sequences, FiniteSets, SequencesExt

CONSTANTS
  Order,        \* the participants in configured order
  Coordinator,  \* the one that assigns tasks
  Task,
  Msg,          \* the messages participants send
  Key,          \* idempotency keys
  MaxEvents,    \* config.max_events
  MaxPending,   \* config.max_pending
  PageSize,     \* config.page_size
  Reader,       \* participants that read their feed
  Faulty,       \* participants whose inbox may hold a bad frame
  Flaky,        \* I/O errors, crashes and delayed visibility happen
  Nobody

Author == ToSet(Order)

ASSUME ChannelAssumption ==
  /\ Order \in Seq(Author) /\ Cardinality(Author) = Len(Order)
  /\ Coordinator \in Author /\ Nobody \notin Author
  /\ Reader \subseteq Author /\ Faulty \subseteq Author
  /\ {MaxEvents, MaxPending, PageSize} \subseteq Nat \ {0}
  /\ Flaky \in BOOLEAN

NoFrame == [kind |-> "none"]
Garbage == [kind |-> "garbage"]

ASSUME MessageAssumption ==
  /\ {NoFrame, Garbage} \cap Msg = {}
  /\ \A m \in Msg : m.kind \in {"assign", "status"} => m.task \in Task

NoEvent == [author |-> Nobody]
NoTask == [assignee |-> Nobody, status |-> "none", revision |-> 0]

VARIABLES
  \* the private state of each participant
  queued,     \* bodies in the order of their author sequence
  sent,       \* idempotency key -> author sequence, or 0
  outbox,     \* author sequences not known to be published
  syncing,    \* the sequence sync() has published and not yet dequeued, or 0
  \* the mailboxes
  inbox,      \* author, slot -> frame
  feed,       \* participant, sequence -> event file
  head,       \* feed/HEAD: the last sequence, or 0
  \* the broker's journal
  events, published, streams, tasks, acks,
  \* the broker process
  bpc,        \* down, idle, replay, event, head, mark, accept
  turn,       \* 0, or the participant being served
  copy,       \* the participant whose feed is written
  \* readers
  seen        \* the events each reader has handled, its cursor their number

clientVars == <<queued, sent, outbox, syncing>>
journalVars == <<events, published, streams, tasks, acks>>
brokerVars == <<bpc, turn, copy>>
vars == <<clientVars, inbox, feed, head, journalVars, brokerVars, seen>>

Slot == 1..MaxEvents
Group == INSTANCE GroupLog WITH said <- queued, log <- events, heard <- seen

Init ==
  /\ queued = [a \in Author |-> <<>>]
  /\ sent = [a \in Author |-> [k \in Key |-> 0]]
  /\ outbox = [a \in Author |-> {}]
  /\ syncing = [a \in Author |-> 0]
  /\ inbox = [a \in Author |-> [n \in Slot |-> NoFrame]]
  /\ feed = [a \in Author |-> [n \in Slot |-> NoEvent]]
  /\ head = [a \in Author |-> 0]
  /\ events = <<>> /\ published = 0
  /\ streams = [a \in Author |-> 0]
  /\ tasks = [t \in Task |-> NoTask]
  /\ acks = [a \in Author |-> 0]
  /\ bpc = "down" /\ turn = 0 /\ copy = 0
  /\ seen = [a \in Author |-> <<>>]

-----------------------------------------------------------------------------
\* Participants.

\* Client.queue: key, sequence and body in one transaction.  A known key
\* changes nothing, whether its message agrees or conflicts.
Queue(a, k, m) ==
  /\ sent[a][k] = 0
  /\ Cardinality(outbox[a]) < MaxPending
  /\ Len(queued[a]) < MaxEvents
  /\ LET n == Len(queued[a]) + 1 IN
       /\ queued' = [queued EXCEPT ![a] = Append(@, m)]
       /\ sent' = [sent EXCEPT ![a][k] = n]
       /\ outbox' = [outbox EXCEPT ![a] = @ \cup {n}]
  /\ UNCHANGED <<syncing, inbox, feed, head, journalVars, brokerVars, seen>>

Oldest(S) == CHOOSE n \in S : \A o \in S : n <= o

\* Variant: publication replaces what is in the slot, and starts anywhere.
PublishAny(a) ==
  /\ syncing[a] = 0
  /\ \E n \in outbox[a] :
       /\ inbox' = [inbox EXCEPT ![a][Len(queued[a]) + 1 - n] = queued[a][n]]
       /\ syncing' = [syncing EXCEPT ![a] = n]
  /\ UNCHANGED <<queued, sent, outbox, feed, head, journalVars, brokerVars, seen>>

\* Client.sync: the oldest pending body goes to its slot.  An equal file is
\* taken for a publication that was interrupted; any other one is refused.
Publish(a) ==
  /\ syncing[a] = 0 /\ outbox[a] # {}
  /\ LET n == Oldest(outbox[a]) IN
       /\ inbox[a][n] \in {NoFrame, queued[a][n]}
       /\ inbox' = [inbox EXCEPT ![a][n] = queued[a][n]]
       /\ syncing' = [syncing EXCEPT ![a] = n]
  /\ UNCHANGED <<queued, sent, outbox, feed, head, journalVars, brokerVars, seen>>

Dequeue(a) ==
  /\ syncing[a] # 0
  /\ outbox' = [outbox EXCEPT ![a] = @ \ {syncing[a]}]
  /\ syncing' = [syncing EXCEPT ![a] = 0]
  /\ UNCHANGED <<queued, sent, inbox, feed, head, journalVars, brokerVars, seen>>

\* The process ends, or publish() raises after the file became visible.
ClientStops(a) ==
  /\ Flaky /\ syncing[a] # 0
  /\ syncing' = [syncing EXCEPT ![a] = 0]
  /\ UNCHANGED <<queued, sent, outbox, inbox, feed, head, journalVars,
                 brokerVars, seen>>

\* A participant may damage its own slots; the operator repairs them.
PutGarbage(a, n) ==
  /\ a \in Faulty /\ inbox[a][n] = NoFrame
  /\ inbox' = [inbox EXCEPT ![a][n] = Garbage]
  /\ UNCHANGED <<clientVars, feed, head, journalVars, brokerVars, seen>>

RepairSlot(a, n) ==
  /\ inbox[a][n] = Garbage
  /\ inbox' = [inbox EXCEPT ![a][n] = NoFrame]
  /\ UNCHANGED <<clientVars, feed, head, journalVars, brokerVars, seen>>

\* read_events and its application: a page between the cursor and HEAD is
\* handled whole, or the cursor stays.  A cached HEAD may be an older one.
Receive(a) ==
  /\ a \in Reader
  /\ \E h \in 1..head[a] :
       /\ h = head[a] \/ Flaky
       /\ Len(seen[a]) < h
       /\ LET after == Len(seen[a])
              page == 1..(IF h < after + PageSize THEN h - after ELSE PageSize)
          IN  /\ \A n \in page : feed[a][after + n] # NoEvent
              /\ seen' = [seen EXCEPT
                            ![a] = @ \o [n \in page |-> feed[a][after + n]]]
  /\ UNCHANGED <<clientVars, inbox, feed, head, journalVars, brokerVars>>

-----------------------------------------------------------------------------
\* What a message means: Broker._message.

Transitions ==
  [none |-> {}, completed |-> {}, failed |-> {}, cancelled |-> {},
   assigned |-> {"running", "blocked", "cancelled"},
   running |-> {"blocked", "completed", "failed", "cancelled"},
   blocked |-> {"running", "failed", "cancelled"}]

ValidChat(m, seq) == m.kind = "chat" /\ m.replyTo < seq

ValidAck(a, m, seq) == m.kind = "ack" /\ m.upto \in acks[a]..(seq - 1)

ValidAssign(a, m) ==
  /\ m.kind = "assign" /\ a = Coordinator
  /\ m.assignee \in Author
  /\ tasks[m.task] = NoTask

\* Variant: the revision is not compared with the task's.
StatusAnyRevision(a, m, seq) ==
  /\ m.kind = "status"
  /\ m.revision \in 1..(seq - 1)
  /\ m.status \in Transitions[tasks[m.task].status]
  /\ a = tasks[m.task].assignee \/ (a = Coordinator /\ m.status = "cancelled")

ValidStatus(a, m, seq) ==
  /\ m.kind = "status"
  /\ m.revision \in 1..(seq - 1)
  /\ m.revision = tasks[m.task].revision
  /\ m.status \in Transitions[tasks[m.task].status]
  /\ a = tasks[m.task].assignee \/ (a = Coordinator /\ m.status = "cancelled")

Valid(a, m, seq) ==
  \/ ValidChat(m, seq) \/ ValidAck(a, m, seq)
  \/ ValidAssign(a, m) \/ ValidStatus(a, m, seq)

\* Variant: the effects survive the rejection.
EffectAlways(a, m, seq, ok) ==
  /\ acks' = IF m.kind = "ack" THEN [acks EXCEPT ![a] = m.upto] ELSE acks
  /\ tasks' = CASE m.kind = "assign" ->
                     [tasks EXCEPT ![m.task] = [assignee |-> m.assignee,
                        status |-> "assigned", revision |-> seq]]
                [] m.kind = "status" ->
                     [tasks EXCEPT ![m.task].status = m.status,
                                   ![m.task].revision = seq]
                [] OTHER -> tasks

\* A rejected message has no effect: its savepoint is rolled back.
Effect(a, m, seq, ok) ==
  /\ acks' = IF ok /\ m.kind = "ack" THEN [acks EXCEPT ![a] = m.upto] ELSE acks
  /\ tasks' = CASE ok /\ m.kind = "assign" ->
                     [tasks EXCEPT ![m.task] = [assignee |-> m.assignee,
                        status |-> "assigned", revision |-> seq]]
                [] ok /\ m.kind = "status" ->
                     [tasks EXCEPT ![m.task].status = m.status,
                                   ![m.task].revision = seq]
                [] OTHER -> tasks

-----------------------------------------------------------------------------
\* The broker.

OnlyBroker == UNCHANGED <<clientVars, inbox, seen>>

BrokerStarts ==
  /\ bpc = "down"
  /\ bpc' = "idle"
  /\ UNCHANGED <<turn, copy, feed, head, journalVars>> /\ OnlyBroker

\* Broker.once begins.
Begin ==
  /\ bpc = "idle"
  /\ bpc' = "replay"
  /\ UNCHANGED <<turn, copy, feed, head, journalVars>> /\ OnlyBroker

NextTurn ==
  IF turn < Len(Order) THEN bpc' = "accept" /\ turn' = turn + 1
                       ELSE bpc' = "idle" /\ turn' = 0

\* _replay: unpublished events one by one, then on with the round.
Replay ==
  /\ bpc = "replay"
  /\ IF published < Len(events)
       THEN bpc' = "event" /\ copy' = 1 /\ UNCHANGED turn
       ELSE NextTurn /\ UNCHANGED copy
  /\ UNCHANGED <<feed, head, journalVars>> /\ OnlyBroker

NextCopy(p) ==
  IF copy < Len(Order) THEN copy' = copy + 1 /\ UNCHANGED bpc
                       ELSE copy' = 1 /\ bpc' = p

Target == Order[copy]
Pending == published + 1

\* The event's file in one feed; an equal file counts as written.
Written ==
  /\ feed[Target][Pending] \in {NoEvent, events[Pending]}
  /\ feed' = [feed EXCEPT ![Target][Pending] = events[Pending]]

\* Variant: HEAD moves with each copy.
WriteEventAndHead ==
  /\ bpc = "event"
  /\ Written
  /\ head' = [head EXCEPT ![Target] = Pending]
  /\ NextCopy("head")
  /\ UNCHANGED <<turn, journalVars>> /\ OnlyBroker

WriteEvent ==
  /\ bpc = "event"
  /\ Written
  /\ NextCopy("head")
  /\ UNCHANGED <<turn, head, journalVars>> /\ OnlyBroker

WriteHead ==
  /\ bpc = "head"
  /\ head' = [head EXCEPT ![Target] = Pending]
  /\ NextCopy("mark")
  /\ UNCHANGED <<turn, feed, journalVars>> /\ OnlyBroker

MarkPublished ==
  /\ bpc = "mark"
  /\ published' = Pending
  /\ bpc' = "replay" /\ copy' = 0
  /\ UNCHANGED <<turn, feed, head, events, streams, tasks, acks>>
  /\ OnlyBroker

\* A copy or its barrier fails, perhaps after the file became visible: once()
\* ends without taking in anything.
FanoutFails ==
  /\ Flaky /\ bpc \in {"event", "head", "mark"}
  /\ \/ UNCHANGED <<feed, head>>
     \/ bpc = "event" /\ Written /\ UNCHANGED head
     \/ bpc = "head" /\ head' = [head EXCEPT ![Target] = Pending]
        /\ UNCHANGED feed
  /\ bpc' = "idle" /\ turn' = 0 /\ copy' = 0
  /\ UNCHANGED journalVars /\ OnlyBroker

NextSlot(a) == streams[a] + 1
Frame(a) == IF NextSlot(a) \in Slot THEN inbox[a][NextSlot(a)] ELSE NoFrame

\* Variant: the event limit is not looked at.
AdmitPastLimit ==
  /\ bpc = "accept"
  /\ LET a == Order[turn]
         seq == Len(events) + 1
         ok == Valid(a, Frame(a), seq)
     IN  /\ Frame(a) \notin {NoFrame, Garbage}
         /\ events' = Append(events, [author |-> a, aseq |-> NextSlot(a),
                                      msg |-> Frame(a), ok |-> ok])
         /\ streams' = [streams EXCEPT ![a] = NextSlot(a)]
         /\ Effect(a, Frame(a), seq, ok)
  /\ bpc' = "replay"
  /\ UNCHANGED <<turn, copy, feed, head, published>> /\ OnlyBroker

\* _accept commits the author's next frame with its effects as one event.
AdmitFrame ==
  /\ bpc = "accept"
  /\ LET a == Order[turn]
         seq == Len(events) + 1
         ok == Valid(a, Frame(a), seq)
     IN  /\ Frame(a) \notin {NoFrame, Garbage} /\ seq <= MaxEvents
         /\ events' = Append(events, [author |-> a, aseq |-> NextSlot(a),
                                      msg |-> Frame(a), ok |-> ok])
         /\ streams' = [streams EXCEPT ![a] = NextSlot(a)]
         /\ Effect(a, Frame(a), seq, ok)
  /\ bpc' = "replay"
  /\ UNCHANGED <<turn, copy, feed, head, published>> /\ OnlyBroker

\* No frame is visible in the slot.
AcceptNothing ==
  /\ bpc = "accept"
  /\ Frame(Order[turn]) = NoFrame \/ Flaky
  /\ bpc' = "replay"
  /\ UNCHANGED <<turn, copy, feed, head, journalVars>> /\ OnlyBroker

\* Variant: a bad frame ends the round.
DeferAll ==
  /\ bpc = "accept"
  /\ \/ Frame(Order[turn]) = Garbage
     \/ Frame(Order[turn]) # NoFrame /\ Len(events) = MaxEvents
     \/ Flaky
  /\ bpc' = "idle" /\ turn' = 0
  /\ UNCHANGED <<copy, feed, head, journalVars>> /\ OnlyBroker

\* A bad frame, the event limit or an I/O error: the slot is left for later
\* and the next participant is served.
Defer ==
  /\ bpc = "accept"
  /\ \/ Frame(Order[turn]) = Garbage
     \/ Frame(Order[turn]) # NoFrame /\ Len(events) = MaxEvents
     \/ Flaky
  /\ NextTurn
  /\ UNCHANGED <<copy, feed, head, journalVars>> /\ OnlyBroker

BrokerStops ==
  /\ Flaky /\ bpc # "down"
  /\ bpc' = "down" /\ turn' = 0 /\ copy' = 0
  /\ UNCHANGED <<feed, head, journalVars>> /\ OnlyBroker

-----------------------------------------------------------------------------
ClientStep(a) ==
  \/ \E k \in Key, m \in Msg : Queue(a, k, m)
  \/ Publish(a) \/ Dequeue(a) \/ ClientStops(a) \/ Receive(a)
  \/ \E n \in Slot : PutGarbage(a, n) \/ RepairSlot(a, n)

BrokerStep ==
  \/ BrokerStarts \/ Begin \/ Replay \/ WriteEvent \/ WriteHead
  \/ MarkPublished \/ FanoutFails \/ AdmitFrame \/ AcceptNothing \/ Defer
  \/ BrokerStops

Next == BrokerStep \/ \E a \in Author : ClientStep(a)

Spec == Init /\ [][Next]_vars
=============================================================================
