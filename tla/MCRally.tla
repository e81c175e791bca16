------------------------------ MODULE MCRally -------------------------------
(***************************************************************************)
(* Instances of Rally for TLC.                                             *)
(***************************************************************************)
EXTENDS RallyProps

CONSTANTS j, c, probe

Publication(k, n) == [kind |-> k, name |-> n]

\* A request with what comes back, and a cancellation.
Job ==
  {Publication("request", j), Publication("result", j), Publication("cancel", c)}

\* A probe and its answer.
Probing == {Publication("ping", probe), Publication("pong", probe)}

TheRequest == {Publication("request", j)}
TheCancel == {Publication("cancel", c)}
ThePing == {Publication("ping", probe)}
=============================================================================
