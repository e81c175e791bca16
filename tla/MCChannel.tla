----------------------------- MODULE MCChannel ------------------------------
(***************************************************************************)
(* Instances of Channel for TLC.                                           *)
(***************************************************************************)
EXTENDS ChannelProps, TLC

CONSTANTS alice, bob, t1, k1, k2

TwoParticipants == <<alice, bob>>

Chat(n) == [kind |-> "chat", replyTo |-> n]
Ack(n) == [kind |-> "ack", upto |-> n]
Assign(a) == [kind |-> "assign", task |-> t1, assignee |-> a]
Status(r, s) == [kind |-> "status", task |-> t1, revision |-> r, status |-> s]

\* One message that always counts and one that only counts late enough.
Chats == {Chat(0), Chat(1)}
OneChat == {Chat(0)}

\* A task that is assigned, reported on, cancelled behind its assignee's back
\* and reported on once more.
TaskTalk ==
  {Assign(bob), Status(1, "running"), Status(1, "cancelled"),
   Status(2, "completed"), Ack(1)}

\* Keys are interchangeable.
Symmetry == Permutations(Key)
=============================================================================
