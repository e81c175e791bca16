SPECIFICATION FairSpec
CONSTANTS
  Task = {t1}
  MaxOutstanding = 1
  MaxPending = 1
  MaxEvents = 7
  MaxReposts = 1
  MaxResults = 1
  Flaky = TRUE
  Nothing = Nothing
INVARIANTS OneDispatch UndispatchedIsTrue PendingIsAhead
PROPERTIES EndedStays ImplementsErrand ResultTold AmbiguityTold
