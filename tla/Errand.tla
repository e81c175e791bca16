------------------------------- MODULE Errand -------------------------------
(***************************************************************************)
(* What the bridge promises about a task that a coordinator hands out: it  *)
(* is sent into the Teams channel once, and once more for each time that   *)
(* an operator asserts it was not; it is closed once, and called completed *)
(* only if the responder said so.                                          *)
(***************************************************************************)
EXTENDS Naturals

CONSTANT Task

VARIABLES
  asked,      \* tasks handed out
  sendings,   \* how often each was sent
  leave,      \* how often an operator allowed one more
  heard,      \* what the responder said of it
  verdict

errandVars == <<asked, sendings, leave, heard, verdict>>

ErrandInit ==
  /\ asked = {}
  /\ sendings = [t \in Task |-> 0] /\ leave = [t \in Task |-> 0]
  /\ heard = [t \in Task |-> {}]
  /\ verdict = [t \in Task |-> "open"]

Ask(t) ==
  /\ t \notin asked
  /\ asked' = asked \cup {t}
  /\ UNCHANGED <<sendings, leave, heard, verdict>>

Send(t) ==
  /\ t \in asked /\ sendings[t] <= leave[t]
  /\ sendings' = [sendings EXCEPT ![t] = @ + 1]
  /\ UNCHANGED <<asked, leave, heard, verdict>>

Allow(t) ==
  /\ leave' = [leave EXCEPT ![t] = @ + 1]
  /\ UNCHANGED <<asked, sendings, heard, verdict>>

Hear(t) ==
  /\ sendings[t] > 0
  /\ \E s \in {"completed", "failed"} : heard' = [heard EXCEPT ![t] = @ \cup {s}]
  /\ UNCHANGED <<asked, sendings, leave, verdict>>

Close(t) ==
  /\ t \in asked /\ verdict[t] = "open"
  /\ \E s \in {"completed", "failed", "cancelled"} :
       /\ s = "completed" => "completed" \in heard[t]
       /\ verdict' = [verdict EXCEPT ![t] = s]
  /\ UNCHANGED <<asked, sendings, leave, heard>>

ErrandNext == \E t \in Task : Ask(t) \/ Send(t) \/ Allow(t) \/ Hear(t) \/ Close(t)

ErrandSpec == ErrandInit /\ [][ErrandNext]_errandVars
=============================================================================
