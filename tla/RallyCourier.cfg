SPECIFICATION Spec
CONSTANTS
  j = j
  c = c
  probe = probe
  Pub <- Job
  Version = {v1, v2}
  Foreign <- TheRequest
  MaxEntries = 1
  MaxPublications = 2
  MaxPending = 2
  MaxBeat = 0
  Flaky = TRUE
  Nothing = Nothing
  Alien = Alien
INVARIANTS TypeOK MarkerVouches
PROPERTIES DoneIsDurable ImplementsCourier
