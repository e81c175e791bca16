------------------------------ MODULE Courier -------------------------------
(***************************************************************************)
(* What the rally promises about a publication: the first content it takes *)
(* on is the only one it ever delivers, a reader of the marker finds it    *)
(* whole, and what has been settled is not delivered a second time.        *)
(***************************************************************************)
CONSTANTS Pub, Version, Nothing

VARIABLES
  offered,     \* what the source shows, or Nothing
  taken,       \* the content taken on, or Nothing
  delivered,   \* what a reader of the marker finds, or Nothing
  settled      \* publications that are finished with

courierVars == <<offered, taken, delivered, settled>>

CourierInit ==
  /\ offered = [p \in Pub |-> Nothing]
  /\ taken = [p \in Pub |-> Nothing]
  /\ delivered = [p \in Pub |-> Nothing]
  /\ settled = {}

Show(p) ==
  /\ \E v \in Version \cup {Nothing} : offered' = [offered EXCEPT ![p] = v]
  /\ UNCHANGED <<taken, delivered, settled>>

Take(p) ==
  /\ taken[p] = Nothing /\ offered[p] # Nothing
  /\ taken' = [taken EXCEPT ![p] = offered[p]]
  /\ UNCHANGED <<offered, delivered, settled>>

Deliver(p) ==
  /\ taken[p] # Nothing /\ p \notin settled
  /\ delivered' = [delivered EXCEPT ![p] = taken[p]]
  /\ UNCHANGED <<offered, taken, settled>>

Settle(p) ==
  /\ delivered[p] = taken[p] /\ taken[p] # Nothing
  /\ settled' = settled \cup {p}
  /\ UNCHANGED <<offered, taken, delivered>>

\* A failure of the storage or an administrator removes it.
Lose ==
  /\ \E S \in SUBSET Pub :
       delivered' = [p \in Pub |-> IF p \in S THEN Nothing ELSE delivered[p]]
  /\ UNCHANGED <<offered, taken, settled>>

CourierNext ==
  \/ \E p \in Pub : Show(p) \/ Take(p) \/ Deliver(p) \/ Settle(p)
  \/ Lose

CourierSpec == CourierInit /\ [][CourierNext]_courierVars
=============================================================================
