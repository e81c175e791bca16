SPECIFICATION FairSpec
CONSTANTS
  j = j
  c = c
  probe = probe
  Pub <- Probing
  Version = {v1}
  Foreign <- ThePing
  MaxEntries = 2
  MaxPublications = 3
  MaxPending = 3
  MaxBeat = 1
  Flaky = TRUE
  Nothing = Nothing
  Alien = Alien
PROPERTIES RecordedArrives 
