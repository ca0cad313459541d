\* As MCDayEnd, with the history of reconciled rounds.
SPECIFICATION Spec
CONSTANTS
  Txns = {a, b}
  DayOf <- OneDay
  RoundOf <- OneRound
  LastDay = 2
  LastRound = 1
  MaxExtra = 1
  Procs = {p1}
SYMMETRY Symmetry
INVARIANTS ArchivedWasReconciled
CHECK_DEADLOCK FALSE
