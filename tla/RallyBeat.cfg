SPECIFICATION Spec
CONSTANTS
  j = j
  c = c
  probe = probe
  Pub <- TheCancel
  Version = {v1}
  Foreign = {}
  MaxEntries = 1
  MaxPublications = 1
  MaxPending = 1
  MaxBeat = 3
  Flaky = TRUE
  Nothing = Nothing
  Alien = Alien
PROPERTY HeartbeatNeverRegresses
