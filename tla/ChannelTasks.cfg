SPECIFICATION Spec
CONSTANTS
  alice = alice
  bob = bob
  t1 = t1
  Nobody = Nobody
  Order <- TwoParticipants
  Coordinator = alice
  Task = {t1}
  Msg <- TaskTalk
  k1 = k1
  k2 = k2
  Key = {k1, k2}
  MaxEvents = 3
  MaxPending = 1
  PageSize = 2
  Reader = {}
  Faulty = {}
  Flaky = FALSE
INVARIANTS TablesFollowLog NoLostUpdate
CHECK_DEADLOCK FALSE
SYMMETRY Symmetry
