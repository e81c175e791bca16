SPECIFICATION Spec
CONSTANTS
  alice = alice
  bob = bob
  t1 = t1
  Nobody = Nobody
  Order <- TwoParticipants
  Coordinator = alice
  Task = {t1}
  Msg <- Chats
  k1 = k1
  k2 = k2
  Key = {k1, k2}
  MaxEvents = 2
  MaxPending = 2
  PageSize = 2
  Reader = {bob}
  Faulty = {alice}
  Flaky = TRUE
INVARIANTS TypeOK FeedsAgree
PROPERTIES ImplementsGroupLog
SYMMETRY Symmetry
