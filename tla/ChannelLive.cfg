SPECIFICATION FairSpec
CONSTANTS
  alice = alice
  bob = bob
  t1 = t1
  Nobody = Nobody
  Order <- TwoParticipants
  Coordinator = alice
  Task = {t1}
  Msg <- OneChat
  k1 = k1
  k2 = k2
  Key = {k1}
  MaxEvents = 2
  MaxPending = 1
  PageSize = 1
  Reader = {bob}
  Faulty = {alice}
  Flaky = TRUE
PROPERTIES Delivered
