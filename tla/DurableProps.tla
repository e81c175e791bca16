----------------------------- MODULE DurableProps -----------------------------
(***************************************************************************)
(* What must hold of Durable through crashes and losses of power.          *)
(***************************************************************************)
EXTENDS Durable

\* A command is launched at most once, and once it was, the claim, its STARTED and
\* the directory of its results are there for ever.
AtMostOnce ==
  /\ launches <= 1
  /\ launches = 1 =>
       {Entry(n) : n \in {"claim", "CLAIM", "STARTED", "result"}} \subseteq there

\* What was published stays, and whole.  A FINAL to be found has its result and a
\* request in the inbox is complete, all with their contents; and a submission or a
\* closing that reported success is never undone, unless the barrier on results/
\* had failed before, which mkdir_durable does not repeat.
Whole(E) == E \subseteq there \cap solid

PublishedStays ==
  /\ Entry("FINAL") \in there => Whole({Entry("FINAL"), Gen(pointer)})
  /\ Entry("ready") \in there => Whole({Entry("request"), Entry("COMMIT")})
  /\ promised \subseteq there \cup (IF broken THEN {Entry("FINAL")} ELSE {})
=============================================================================
