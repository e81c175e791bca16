---------------------------- MODULE ChannelProps ----------------------------
(***************************************************************************)
(* What must hold of Channel under crashes, I/O errors, stale caches and   *)
(* damaged slots.                                                          *)
(***************************************************************************)
EXTENDS Channel

Event == [author : Author, aseq : Slot, msg : Msg, ok : BOOLEAN]

ClientTypes ==
  /\ queued \in [Author -> Seq(Msg)]
  /\ sent \in [Author -> [Key -> 0..MaxEvents]]
  /\ outbox \in [Author -> SUBSET Slot]
  /\ syncing \in [Author -> 0..MaxEvents]

MailboxTypes ==
  /\ inbox \in [Author -> [Slot -> Msg \cup {NoFrame, Garbage}]]
  /\ feed \in [Author -> [Slot -> Event \cup {NoEvent}]]
  /\ head \in [Author -> 0..MaxEvents]

JournalTypes ==
  /\ events \in Seq(Event) /\ Len(events) <= MaxEvents
  /\ published \in 0..Len(events)
  /\ streams \in [Author -> 0..MaxEvents]
  /\ tasks \in [Task -> [assignee : Author \cup {Nobody}, status : DOMAIN Transitions,
                         revision : 0..Len(events)]]
  /\ acks \in [Author -> 0..MaxEvents]

BrokerTypes ==
  /\ bpc \in {"down", "idle", "replay", "event", "head", "mark", "accept"}
  /\ turn \in 0..Len(Order) /\ copy \in 0..Len(Order)

TypeOK ==
  /\ ClientTypes /\ MailboxTypes /\ JournalTypes /\ BrokerTypes
  /\ seen \in [Author -> Seq(Event)]

\* The feeds are copies of the journal, and a HEAD vouches for every feed: what
\* it names has been written for all participants (_replay writes all event
\* files before any HEAD).  A failed fan-out stops the intake: at most one event is
\* not in every feed.
FeedsAgree ==
  /\ Len(events) <= published + 1
  /\ \A a \in Author : \A n \in Slot :
       /\ feed[a][n] # NoEvent => n <= Len(events) /\ feed[a][n] = events[n]
       /\ n <= head[a] \/ n <= published =>
            \A b \in Author : feed[b][n] # NoEvent

\* The task table and the acknowledgements are what a reader computes from the
\* transcript; a rejected event leaves no trace in them.
About(t) ==
  {n \in 1..Len(events) : /\ events[n].ok
                          /\ events[n].msg.kind \in {"assign", "status"}
                          /\ events[n].msg.task = t}
LastOf(S) == CHOOSE n \in S : \A o \in S : o <= n
FirstOf(S) == CHOOSE n \in S : \A o \in S : n <= o

TablesFollowLog ==
  /\ \A t \in Task :
       IF About(t) = {} THEN tasks[t] = NoTask
       ELSE LET last == events[LastOf(About(t))].msg IN
            /\ tasks[t].revision = LastOf(About(t))
            /\ tasks[t].assignee = events[FirstOf(About(t))].msg.assignee
            /\ tasks[t].status =
                 IF last.kind = "assign" THEN "assigned" ELSE last.status
  /\ \A a \in Author :
       LET acked == {n \in 1..Len(events) : events[n].ok
                       /\ events[n].author = a /\ events[n].msg.kind = "ack"}
       IN acks[a] = IF acked = {} THEN 0 ELSE events[LastOf(acked)].msg.upto

\* No lost update: an accepted status names the event it follows, and no other
\* accepted event about the task stands between the two.
NoLostUpdate ==
  \A n \in 1..Len(events) :
    LET m == events[n].msg IN
    events[n].ok /\ m.kind = "status" =>
      /\ m.revision \in About(m.task)
      /\ \A o \in About(m.task) : o <= m.revision \/ o >= n

\* The channel is one transcript for all (GroupLog): what each participant has
\* handled is a prefix of it, page by page, from whatever HEAD it saw.
ImplementsGroupLog == Group!GroupSpec

-----------------------------------------------------------------------------
\* A step that something other than the program decides: an error, a crash, or
\* a frame that is not visible yet.
Fault ==
  \/ FanoutFails \/ BrokerStops
  \/ \E a \in Author : ClientStops(a)
  \/ AcceptNothing /\ Frame(Order[turn]) # NoFrame
  \/ Defer /\ Frame(Order[turn]) # Garbage /\ Len(events) < MaxEvents

\* Faults come in any number but not for ever.  The broker is restarted and
\* loops, and participants go on calling sync and receive.  No repair of a slot
\* is forced.
FairSpec ==
  /\ Spec
  /\ <>[][~Fault]_vars
  /\ WF_vars(BrokerStep)
  /\ \A a \in Author :
       WF_vars(Publish(a)) /\ WF_vars(Dequeue(a)) /\ WF_vars(Receive(a))

\* Whatever a healthy participant queues reaches every feed, and every reader that
\* keeps polling handles it, though another's slot is damaged for ever, unless the
\* channel was full before.
Delivered ==
  \A a \in Author \ Faulty : \A n \in Slot :
    LET Is(e) == e # NoEvent /\ e.author = a /\ e.aseq = n IN
    Len(queued[a]) >= n ~>
      \/ Len(events) = MaxEvents /\ streams[a] < n
      \/ /\ \E i \in Slot : \A b \in Author : head[b] >= i /\ Is(feed[b][i])
         /\ \A r \in Reader : \E i \in DOMAIN seen[r] : Is(seen[r][i])
=============================================================================
