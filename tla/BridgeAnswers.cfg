SPECIFICATION Spec
CONSTANTS
  Task = {t1, t2}
  MaxOutstanding = 1
  MaxPending = 1
  MaxEvents = 2
  MaxReposts = 0
  MaxResults = 2
  Flaky = TRUE
  Nothing = Nothing
SYMMETRY Tasks
INVARIANTS TypeOK
PROPERTIES EarliestWins
