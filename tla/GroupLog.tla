------------------------------ MODULE GroupLog ------------------------------
(***************************************************************************)
(* What the channel promises its participants: one transcript for all, in  *)
(* which each author's messages stand once and in the order of sending.    *)
(***************************************************************************)
EXTENDS Naturals, Sequences

CONSTANTS Author, Msg

VARIABLES
  said,     \* what each author has sent
  log,      \* the transcript: a message with its author and its fate
  heard     \* what each participant has read of it

groupVars == <<said, log, heard>>

Entry(a, n, ok) == [author |-> a, aseq |-> n, msg |-> said[a][n], ok |-> ok]
Placed(a) == {log[i].aseq : i \in {k \in DOMAIN log : log[k].author = a}}

GroupInit ==
  /\ said = [a \in Author |-> <<>>]
  /\ log = <<>>
  /\ heard = [a \in Author |-> <<>>]

Say(a) ==
  /\ \E m \in Msg : said' = [said EXCEPT ![a] = Append(@, m)]
  /\ UNCHANGED <<log, heard>>

\* The next message of an author enters the transcript, accepted or rejected.
Admit(a) ==
  /\ \E n \in DOMAIN said[a], ok \in BOOLEAN :
       Placed(a) = 1..(n - 1) /\ log' = Append(log, Entry(a, n, ok))
  /\ UNCHANGED <<said, heard>>

Hear(a) ==
  /\ \E n \in Len(heard[a])..Len(log) :
       heard' = [heard EXCEPT ![a] = SubSeq(log, 1, n)]
  /\ UNCHANGED <<said, log>>

GroupNext == \E a \in Author : Say(a) \/ Admit(a) \/ Hear(a)

GroupSpec == GroupInit /\ [][GroupNext]_groupVars
=============================================================================
