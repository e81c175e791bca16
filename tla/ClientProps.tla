----------------------------- MODULE ClientProps ------------------------------
(***************************************************************************)
(* What must hold of Client, however late files become visible.            *)
(***************************************************************************)
EXTENDS Client

\* What a call comes to is true when it ends.  A terminal status is that of FINAL;
\* wait() has then verified, or emitted whole, all the output FINAL lists and
\* emitted nothing else, and a download has installed every artifact.  Output is
\* said to disagree only if a chunk was read torn, or if the result lists none
\* because a watcher failed or died.
OutcomeIsTrue ==
  [][pc # "idle" /\ pc' = "idle" =>
       /\ outcome'[1] = "result" =>
            /\ final > 0 /\ outcome'[2] = gens[final].status
            /\ call # "status" => count = gens[final].chunks /\ spoilt = {}
            /\ call = "download" => at > gens[final].artifacts
       /\ outcome' = <<"raised", "disagreement">> =>
            \/ spoilt # {}
            \/ gens[final].status \in {"FAILED", "AVAILABILITY_UNKNOWN"}]_vars

\* What the files show of the job never goes back, although each look is put
\* together from reads at different times of files that appear in any order; and
\* once a result was found, no late heartbeat hides it.  The answers do go back:
\* after a read that raised, which is answered with RESULT_PROPAGATING
\* (client.py:110-111), and after a late heartbeat.
Rank ==
  [AWAITING_VISIBILITY |-> 0, VISIBLE_UNCLAIMED |-> 1, CLAIMED |-> 2, RUNNING |-> 3,
   RESULT_PROPAGATING |-> 4, FINAL |-> 5]
FoundAdvances ==
  [][/\ Rank[found] <= Rank[found']
     /\ Rank[found] >= Rank["RESULT_PROPAGATING"]
          => answer' \in {"RESULT_PROPAGATING", "FINAL"}]_vars

-----------------------------------------------------------------------------
\* The client's own loops go on, and nothing else is promised.
FairSpec == Spec /\ WF_vars(ClientStep)

\* A look at the share that finds less than is there.
Late ==
  \/ MissMarker /\ Files(Probes[at]) # {}
  \/ ReadPointer \/ VerifyFails \/ FetchFails
  \/ MissPong /\ probe = "PONG"

\* Watchers go on, crash so often and no more, and have successors; the share
\* shows every file in the end and no read fails for ever.
WatchersServe == WF_vars(WatcherStep) /\ WF_vars(Pong) /\ <>[][~Crash]_vars
ShareShows == <>[][~Late /\ ~ReadRaises]_vars

\* Then every probe is answered and every call about a job that was committed ends,
\* be its deadline never.
AnswerComes ==
  (WatchersServe /\ ShareShows) =>
    ((pc # "idle" /\ (call = "health" \/ Marker("COMMIT") \in markers)) ~> pc = "idle")

\* A call whose time is over ends, whatever the watchers do and the share hides.
CallsEnd == (pc # "idle" /\ over) ~> pc = "idle"
=============================================================================
